---------------------------- MODULE SyncKernels ----------------------------
(***************************************************************************)
(* The synchronisation kernels of the two PUSCH chains: slicing, resampling *)
(* and frequency offset.  FetchEventID is event 0 of its kind.              *)
(***************************************************************************)
EXTENDS Naturals, Sequences, KernelOps

\* (Mutant: the last tile sets an event that no tile waits for.)
SliceReleaseAlways(t, tiles) ==
  SetFlag(MTE3_MTE2, 2) \o When(t + 1 < tiles, WaitFlag(MTE3_MTE2, 2))

\* The next tile may be loaded; after the last there is none.
SliceRelease(t, tiles) == When(t + 1 < tiles, Sync(MTE3_MTE2, 2))

\* The read pointer goes through a queue of depth one: EnQue and DeQue are
\* the two halves of V_MTE3, and the pipe's destructor waits for what
\* FreeTensor sets.
WinSlice(tiles) ==
  Loop(tiles, LAMBDA t :
    Load({"ub0", "ub1"}) \o Sync(MTE2_V, 0)
    \o Compute({"ub0", "ub1"}, {"h0", "h1"}) \o Compute({"h0", "h1"}, {"h0", "uo"})
    \o Sync(V_MTE3, 1) \o Store({"uo"}) \o Sync(MTE3_V, 3)
    \o SliceRelease(t, tiles))
  \o Write({"rb"}) \o Sync(V_MTE3, 8) \o Store({"rb"}) \o Sync(MTE3_V, 8)

\* Two DMRS symbols from one generator matrix, steered by the seeds, which
\* the scalar unit reads; then it writes what the host can inspect.
GenSymbol ==
  Compute({"g1", "gmat"}, {"acc"}) \o Compute({"acc"}, {"acc", "i16", "t"})
  \o Sync(V_MTE3, 0) \o Store({"t"}) \o Sync(MTE3_V, 0) \o Sync(MTE3_MTE2, 0)

\* (Mutant: the kernel's last wait is for an event it set for another pipe.)
DoneMisspelt == SetFlag(MTE3_MTE2, 0) \o WaitFlag(MTE3_S, 0)

Done == Sync(MTE3_S, 0)

DmrsGen ==
  Load({"gmat", "g1", "cinit"}) \o Sync(MTE2_S, 0) \o Sync(MTE2_V, 0)
  \o Read({"cinit"}) \o GenSymbol \o GenSymbol
  \o Write({"dbg"}) \o Sync(S_MTE3, 0) \o Store({"dbg"})
  \o Sync(MTE3_MTE2, 0) \o Done

\* The swap table is loaded once; the first tile's handshake covers it.
CfoCompensate(tiles) ==
  Load({"swidx"})
  \o Loop(tiles, LAMBDA i :
       Load({"xi16", "a2", "b2"}) \o Sync(MTE2_V, 0)
       \o Compute({"xi16"}, {"xfull"}) \o Compute({"xfull", "swidx"}, {"xswap"})
       \o Compute({"xfull", "xswap", "a2", "b2"}, {"p", "oiq16"})
       \o Sync(V_MTE3, 0) \o Store({"oiq16"}) \o Sync(MTE3_MTE2, 0))

\* One tile of a resampler: its window is cleared before it is loaded.
ResampleTile(index) ==
  Compute({}, {"load"}) \o Sync(V_MTE2, 0)
  \o Load({"load"}) \o Sync(MTE2_V, 0)
  \o Compute({"load"}, {"xh"}) \o Compute({"xh"}, {"xi", "xq"})
  \o Compute({"xi", "xq"}, {"y"}) \o Compute({"y"}, {"xi", "xq", "t"})
  \o Compute({"t"} \union index, {"out"})
  \o Sync(V_MTE3, 0) \o Store({"out"}) \o Sync(MTE3_MTE2, 0)

Interpolate(tiles) ==
  Load({"taps"}) \o Sync(MTE2_S, 0) \o Read({"taps"})
  \o Load({"idx"}) \o Sync(MTE2_V, 0)
  \o Loop(tiles, LAMBDA t : ResampleTile({"idx"}))

Decimate(tiles) ==
  Load({"taps"}) \o Sync(MTE2_S, 0) \o Read({"taps"})
  \o Loop(tiles, LAMBDA t : ResampleTile({}))

-----------------------------------------------------------------------------
\* The angle of a correlation: the scalar unit gives V the quotient and takes
\* the arc tangent back.
Atan2(result) ==
  Write({"scalar"}) \o Sync(S_V, 0) \o Compute({"scalar"}, {result})
  \o Sync(V_S, 0) \o Read({result})
  \o Write({"out"}) \o Sync(S_MTE3, 0) \o Store({"out"})

\* cfo_dmrs: the two DMRS symbols go through the same lanes.
ComputeHls(h) ==
  Load({"ylane"}) \o Sync(MTE2_V, 0)
  \o Compute({"ylane"}, {"ydmrs"}) \o Compute({"ydmrs"}, {"norm", "tmp", "ydmrs"})
  \o Load({"xlane"}) \o Sync(MTE2_V, 0)
  \o Compute({"ydmrs", "xlane"}, {h, "tmp"})

CfoDmrs ==
  ComputeHls("h0") \o ComputeHls("h1")
  \o Compute({"h0", "h1"}, {"prod", "tmp"}) \o Compute({"prod"}, {"stage1"})
  \o Sync(V_S, 0) \o Read({"stage1"})
  \o Atan2("stage1") \o Sync(MTE3_MTE2, 0)

\* cfo_estimate: every core correlates its symbols and leaves its share in the
\* scratch array; after SyncAll core 0 adds up everybody's.
CorrelateSymbol ==
  Load({"xi16"}) \o Sync(MTE2_V, 0) \o Compute({"xi16"}, {"x"})
  \o Loop(2, LAMBDA part :
       Compute({"x"}, {"tmp1", "tmp2"}) \o Sync(V_S, 0) \o Read({"tmp2"}))

CpAutocorr(core, symbols) ==
  Loop(symbols, LAMBDA i : CorrelateSymbol)
  \o Write({"scalar"}) \o Sync(S_MTE3, 0)
  \o StoreTo({"scalar"}, {Part("scrG", core)}) \o Sync(MTE3_MTE2, 0)

\* (Mutant: the last core is left out of the meeting.)
MeetingWithoutLast(cores) == SyncAll(cores - 1)

\* Everybody's share is there when core 0 adds them up.
Meeting(cores) == SyncAll(cores)

CfoEstimate(cores, symbols) ==
  LET shares == {Part("scrG", c) : c \in 0..(cores - 1)}
  IN  OnCores(cores, shares, LAMBDA c : CpAutocorr(c, symbols)) \o Meeting(cores)
      \o LoadFrom(shares, {"scrRead"}) \o Sync(MTE2_S, 0) \o Read({"scrRead"})
      \o Atan2("scrRead")
=============================================================================
