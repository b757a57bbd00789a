---------------------------- MODULE MimoKernels ----------------------------
(***************************************************************************)
(* The kernels of the antenna side of the MIMO chains: DMRS, precoding and  *)
(* the resource grid of the transmitter; channel estimation and the input   *)
(* of the detector in the receiver; and the SISO equaliser.                 *)
(***************************************************************************)
EXTENDS Naturals, Sequences, KernelOps, MapKernels

\* TQue of depth two, from its use: turn n takes slot n % 2 once the store
\* that had it before has freed it; EnQue and DeQue are the two halves of
\* V_MTE3.  The pipe's destructor waits for the slots that are still busy.
Slot(n)  == Part("slot", n % 2)
Alloc(n) == When(n >= 2, WaitFlag(MTE3_V, 8 + (n % 2)))
Drain(n) == Sync(V_MTE3, 8) \o Store({Slot(n)}) \o SetFlag(MTE3_V, 8 + (n % 2))
Release(turns) ==
  When(turns > 0, WaitFlag(MTE3_V, 8)) \o When(turns > 1, WaitFlag(MTE3_V, 9))

-----------------------------------------------------------------------------
\* mimo_dmrs_gen: plain layers are stored from the base sequence, flipped ones
\* from its product with [+1, -1, ...].
GenBase == Compute({"g1", "gmat"}, {"acc", "t", "i16"}) \o Compute({"t"}, {"base"})

EmitSymbolReused(plain, flipped) ==
  When(plain, Sync(V_MTE3, 0) \o Store({"base"}) \o Sync(MTE3_V, 0))
  \o When(flipped,
       Loop(2, LAMBDA plane :
         Compute({"base", "occf"}, {"out"}) \o Sync(V_MTE3, 0) \o Store({"out"})))

EmitSymbol(plain, flipped) ==
  When(plain, Sync(V_MTE3, 0) \o Store({"base"}) \o Sync(MTE3_V, 0))
  \o When(flipped,
       Loop(2, LAMBDA plane :
         Compute({"base", "occf"}, {"out"})
         \o Sync(V_MTE3, 0) \o Store({"out"}) \o Sync(MTE3_V, 0)))

ClearLayer ==
  Compute({}, {"out"}) \o Sync(V_MTE3, 0) \o Store({"out"}) \o Sync(MTE3_MTE2, 0)

\* Rows of the matrix are loaded as the seeds need them; the kernel returns
\* when the header or, later, the ports are not what it was built for.
MimoDmrsGen(valid, seeded, ports, plain, flipped, unused) ==
  Load({"g1", "cinit", "meta"}) \o Sync(MTE2_S, 0) \o Sync(MTE2_V, 0)
  \o Read({"meta", "cinit"})
  \o When(valid,
       When(seeded, Load({"gmat"}) \o Sync(MTE2_V, 0))
       \o Read({"meta"})
       \o When(ports,
            When(flipped, Compute({}, {"idx", "t", "i16", "occf"}))
            \o Loop(2, LAMBDA s : GenBase \o EmitSymbol(plain, flipped))
            \o Loop(unused, LAMBDA l : ClearLayer)
            \o Write({"dbg"}) \o Sync(S_MTE3, 0) \o Store({"dbg"})
            \o Sync(MTE3_MTE2, 0)))

\* The weights steer the vector instructions: the scalar unit reads them.
CodebookPrecode(valid, symbols, layers) ==
  Metadata(valid,
    Load({"weights", "prg"}) \o Sync(MTE2_S, 0)
    \o Loop(symbols, LAMBDA s :
         Compute({}, {"out"})
         \o Loop(layers, LAMBDA l :
              Load({"layer"}) \o Sync(MTE2_V, 0) \o Compute({"layer"}, {"neg"})
              \o Read({"prg", "weights", "meta"})
              \o Compute({"layer", "neg"}, {"out"}) \o Sync(V_MTE2, 0))
         \o Sync(V_MTE3, 0) \o Store({"out"}) \o Sync(MTE3_V, 0)))

\* mimo_resource_grid_map: the data rows of a plane, then every DMRS symbol
\* through the inverse of its index table, which the scalar unit builds.
MapDataPlane(compact, rows) ==
  Load({compact}) \o Sync(MTE2_V, 0)
  \o Loop(rows, LAMBDA r :
       Compute({compact}, {"row"})
       \o Sync(V_MTE3, 0) \o Store({"row"}) \o Sync(MTE3_V, 0))
  \o Sync(V_MTE2, 0)

EmitDmrsPlane ==
  Load({"dmrs"}) \o Sync(MTE2_V, 0)
  \o Compute({}, {"dmrs"}) \o Compute({"dmrs", "inverse"}, {"row"})
  \o Sync(V_MTE3, 0) \o Store({"row"}) \o Sync(MTE3_MTE2, 0)

MapDmrs ==
  Load({"offset"}) \o Sync(MTE2_S, 0)
  \o Compute({}, {"inverse"}) \o Sync(V_S, 0)
  \o Read({"offset"}) \o Write({"inverse"}) \o Sync(S_V, 0)
  \o Loop(2, LAMBDA dmrs :
       When(dmrs # 0, Load({"offset"}) \o Sync(MTE2_S, 0) \o Read({"offset"}))
       \o EmitDmrsPlane \o EmitDmrsPlane)

ResourceGridMap(valid, rows) ==
  Metadata(valid,
    MapDataPlane("dataGroup", rows) \o MapDataPlane("dataIm", rows) \o MapDmrs)

-----------------------------------------------------------------------------
\* mimo_dmrs_ls, core 0 first: the pilots' subcarriers and counts, staged in
\* the buffers of the received symbols.
WritePilotDescription(layers) ==
  Compute({}, {"yim"})
  \o Loop(layers * 2, LAMBDA i :
       Compute({}, {"yre"}) \o Sync(V_MTE3, 0) \o Store({"yre"}) \o Sync(MTE3_V, 0)
       \o Write({"yim"}))
  \o Sync(S_MTE3, 0) \o Store({"yim"}) \o Sync(MTE3_MTE2, 0)

\* The estimate of one layer goes out while the next is computed.
EstimateLayer(turn, first) ==
  Alloc(turn)
  \o Compute({"comb", "ref"}, {"raw", "tmp"})
  \o Compute({"raw"}, {"pair", Slot(turn)})
  \o When(first, Compute({Slot(turn)}, {"raw", "tmp", "power"}))
  \o Drain(turn)

MimoDmrsLs(valid, core0, receivers, layers) ==
  Metadata(valid,
    When(core0, WritePilotDescription(layers))
    \o Compute({}, {"noise"}) \o Load({"ref"}) \o Sync(MTE2_V, 0)
    \o Loop(receivers, LAMBDA rx :
         Compute({}, {"power"})
         \o Loop(2, LAMBDA dmrs :
              Load({"yre", "yim"}) \o Sync(MTE2_V, 0)
              \o Compute({}, {"yre", "yim"}) \o Compute({"yre", "yim"}, {"comb"})
              \o Loop(layers, LAMBDA l :
                   EstimateLayer((rx * 2 + dmrs) * layers + l, l = 0)))
         \o Compute({"power"}, {"stage"}) \o Sync(V_S, 0) \o Read({"stage"})
         \o Write({"noise"}))
    \o Sync(S_MTE3, 0) \o Store({"noise"}) \o Release(receivers * 2 * layers))

\* The two kernels that bring estimates into the order of the LMMSE
\* estimator; the second plane is stored as it is and negated.
PackPlane(reuse) ==
  Load({"src"}) \o Sync(MTE2_V, 0) \o Compute({"src", "index"}, {"dst"})
  \o Sync(V_MTE3, 0) \o Store({"dst"}) \o reuse

PackGroup(end) ==
  PackPlane(Sync(MTE3_MTE2, 0)) \o PackPlane(Sync(MTE3_V, 0))
  \o Compute({"dst"}, {"dst"}) \o Sync(V_MTE3, 0) \o Store({"dst"}) \o end

PackCe(valid, groups) ==
  Metadata(valid,
    Load({"index"}) \o Sync(MTE2_V, 0)
    \o Loop(groups, LAMBDA g : PackGroup(Sync(MTE3_MTE2, 0))))

PackNatural(groups) ==
  Load({"index"}) \o Sync(MTE2_V, 0) \o Loop(groups, LAMBDA g : PackGroup(PipeAll))

PadLayers(rows) ==
  Loop(rows, LAMBDA r :
    Load({"row"}) \o Sync(MTE2_MTE3, 0) \o Store({"row"}) \o Sync(MTE3_MTE2, 0))

\* equalize_zf: everything in one piece, in place.
EqualizeZf ==
  Load({"y", "h", "n0"}) \o PipeAll
  \o Compute({"y", "h", "n0"}, {"wide", "h", "n0"}) \o PipeAll
  \o Store({"h", "n0"}) \o PipeAll

-----------------------------------------------------------------------------
\* mimo_detect_io_pack.  The reuse of a plane's buffer is waited for late, so
\* that the store overlaps the load and the transposition of the next.
PackNoise ==
  Load({"noise_h"}) \o Sync(MTE2_V, 0) \o Compute({"noise_h"}, {"noise_f"})
  \o Sync(V_S, 0) \o Read({"noise_f"})
  \o Compute({}, {"h_stage2"}) \o Sync(V_MTE3, 0) \o Store({"h_stage2"})

PackHPlane(transposes) ==
  Load({"h_in"}) \o Sync(MTE2_V, 0) \o Compute({}, {"h_in"})
  \o Loop(transposes, LAMBDA t :
       Read({"addr"}) \o Sync(S_V, 0)
       \o Compute({"h_in"}, {"h_stage1"}) \o Sync(V_S, 0))
  \o Sync(MTE3_V, 0) \o Compute({"h_stage1"}, {"h_stage2"})
  \o Sync(V_MTE3, 0) \o Store({"h_stage2"})

\* Turn y of the two planes of received samples, through Y_BUFFER_SLOTS = 3
\* slots; they are waited for together, when all are taken.
PackYGroup(y) ==
  LET y_out == Part("y_out", y % 3)
  IN  Load({"rx_in"}) \o Sync(MTE2_V, 0) \o Compute({"rx_in"}, {"rx_trans"})
      \o When(y > 0 /\ y % 3 = 0, Sync(MTE3_V, 0))
      \o Compute({"rx_trans"}, {y_out}) \o Sync(V_MTE3, 0) \o Store({y_out})

\* The same in the receiver chain's build (AIRAN_FUSED_RX_GROUPED_Y).
PackYGroupFused ==
  Load({"rx_in"}) \o Sync(MTE2_V, 0)
  \o Loop(2, LAMBDA group :
       Compute({}, {"y_out"}) \o Compute({"rx_in"}, {"y_out"}) \o PipeAll
       \o Store({"y_out"}) \o PipeAll)

DetectIoPack(valid, fused, tiles, transposes, groups) ==
  Write({"addr"}) \o Sync(S_V, 0)
  \o Metadata(valid,
       PackNoise
       \o Loop(tiles, LAMBDA t :
            PackHPlane(transposes) \o PackHPlane(transposes)
            \o Loop(2 * groups, LAMBDA y :
                 IF fused THEN PackYGroupFused ELSE PackYGroup(y)))
       \o PipeAll)
=============================================================================
