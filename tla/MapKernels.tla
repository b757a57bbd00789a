----------------------------- MODULE MapKernels -----------------------------
(***************************************************************************)
(* The mapping kernels: modulation and demodulation, layers, resource       *)
(* elements, and the assembly of codewords.  FetchEventID hands out the     *)
(* lowest event of its kind, 0: no kernel here allocates one.  An early     *)
(* return before anything is issued (no work for the core, metadata read    *)
(* straight from the device) is a kernel without instructions, left out.    *)
(***************************************************************************)
EXTENDS Naturals, Sequences, KernelOps

\* (Mutant: the vector pipe waits for the metadata, the scalar unit does not.)
MetadataUnawaited(valid, body) ==
  Load({"meta"}) \o Sync(MTE2_V, 0) \o Read({"meta"}) \o When(valid, body)

\* The return of a kernel whose metadata is not what it was built for.
Metadata(valid, body) ==
  Load({"meta"}) \o Sync(MTE2_S, 0) \o Read({"meta"}) \o When(valid, body)

\* DMRS are spread over the subcarriers by an index table; unused ones are
\* taken from a zero behind the pilots.
MergeDmrs ==
  Load({"idx", "src"}) \o Sync(MTE2_V, 0)
  \o Compute({}, {"zero"}) \o Compute({"src", "zero", "idx"}, {"dst"})
  \o Sync(V_MTE3, 0) \o Store({"dst"}) \o Sync(MTE3_S, 0)

LlrAssemble(runs) ==
  Loop(runs, LAMBDA i :
    Load({"ub"}) \o Sync(MTE2_V, 0) \o Compute({"ub"}, {"ub"})
    \o Sync(V_MTE3, 1) \o Store({"ub"}) \o Sync(MTE3_MTE2, 0))

\* GatherOne of the three resource-element kernels: one plane of a symbol.
GatherOne(from) ==
  Load({"src"}) \o Sync(MTE2_V, 0) \o Compute(from, {"dst"})
  \o Sync(V_MTE3, 0) \o Store({"dst"}) \o Sync(MTE3_MTE2, 0)

ReMap(planes) ==
  Load({"idx"}) \o Sync(MTE2_V, 0) \o Compute({}, {"pad"})
  \o Loop(planes, LAMBDA i : GatherOne({"src", "pad", "idx"}))

ReDemap(planes) ==
  Load({"idx"}) \o Sync(MTE2_V, 0)
  \o Loop(planes, LAMBDA i : GatherOne({"src", "idx"}))

\* A batch of none is no work.
ReDemapBatch(planes) == When(planes > 0, ReDemap(planes))

\* The data symbols of a plane are collected row by row, in groups; the scalar
\* unit takes the symbol's number from the metadata.
ExtractPlane(groups, rows) ==
  Loop(groups, LAMBDA g :
    Loop(rows, LAMBDA r :
      Read({"meta"}) \o Load({"row"}) \o Sync(MTE2_V, 0)
      \o Compute({"row"}, {"compact"}) \o Sync(V_MTE2, 0))
    \o Sync(V_MTE3, 0) \o Store({"compact"}) \o Sync(MTE3_V, 0))
  \o Compute({}, {"zero"}) \o Sync(V_MTE3, 0) \o Store({"zero"})

MimoDataExtract(valid, groups, rows) ==
  Metadata(valid, Loop(3, LAMBDA plane : ExtractPlane(groups, rows)))

\* One layer is copied through; more are gathered from the codeword.  The
\* padding is written last, once, from the buffer the tiles went through.
LayerMap(valid, rank, tiles) ==
  Metadata(valid,
    (IF rank = 1
     THEN Loop(tiles, LAMBDA t :
            Load({"src"}) \o Sync(MTE2_MTE3, 0)
            \o Store({"src"}) \o Sync(MTE3_MTE2, 0))
     ELSE Load({"index"}) \o Sync(MTE2_V, 0)
          \o Loop(tiles, LAMBDA t :
               Load({"src"}) \o Sync(MTE2_V, 0)
               \o Compute({"src", "index"}, {"out"})
               \o Sync(V_MTE3, 0) \o Store({"out"}) \o Sync(MTE3_MTE2, 0)))
    \o Sync(MTE3_V, 0) \o Compute({}, {"out"})
    \o Sync(V_MTE3, 0) \o Store({"out"}))

\* A core owns two of the eight streams.
LayerDemap(valid, groups, rows, chunks) ==
  Load({"meta"}) \o PipeAll \o Read({"meta"})
  \o When(valid,
       Load({"index"}) \o PipeAll
       \o Loop(2, LAMBDA owned :
            Loop(groups, LAMBDA g :
              Loop(rows, LAMBDA r :
                Load({"row"}) \o PipeAll \o Compute({"row"}, {"source"}) \o PipeAll)
              \o Loop(chunks, LAMBDA c :
                   Compute({"source", "index"}, {"output"}) \o PipeAll)
              \o Store({"output"}) \o PipeAll)
            \o Compute({}, {"output"}) \o PipeAll \o Store({"output"}) \o PipeAll))

\* Eight bit planes make one point each; core 0 also clears the DMRS symbols.
Qam256Mod(symbols, clears) ==
  Compute({}, {"row"}) \o Load({"c"}) \o Sync(MTE2_V, 0)
  \o Compute({"c"}, {"c", "tmp", "x"})
  \o Loop(symbols, LAMBDA i :
       Compute({"x"}, {"row"})
       \o Sync(V_MTE3, 0) \o Store({"row"}) \o Sync(MTE3_V, 0))
  \o When(clears, Compute({}, {"row"}) \o Sync(V_MTE3, 1) \o Store({"row"}))
  \o PipeAll

\* The core behind those that compute writes the padding.
Qam256ModMimo(valid, computes, tiles) ==
  Metadata(valid,
    (IF computes
     THEN Loop(tiles, LAMBDA t :
            Load({"c"}) \o Sync(MTE2_V, 0) \o Compute({"c"}, {"c", "tmp", "d"})
            \o Sync(V_MTE3, 1) \o Store({"d"}) \o Sync(MTE3_MTE2, 0))
     ELSE Compute({}, {"d"}) \o Sync(V_MTE3, 1) \o Store({"d"}))
    \o PipeAll)

\* The two axes take turns in one output block.
DemodAxes ==
  Load({"x", "ne"}) \o Sync(MTE2_V, 0) \o Compute({"x", "ne"}, {"x", "ne", "scale"})
  \o Loop(2, LAMBDA axis :
       Compute({"x", "ne"}, {"out", "scale"})
       \o Sync(V_MTE3, 0) \o Store({"out"}) \o Sync(MTE3_V, 0))

Qam256Demod == DemodAxes

Qam256DemodBatch(layers) == Loop(layers, LAMBDA l : DemodAxes \o PipeAll)
=============================================================================
