--------------------------- MODULE SearchKernels ---------------------------
(***************************************************************************)
(* The kernels that find a cell and follow it: the correlations with PSS,   *)
(* SSS and the DMRS of PBCH, the transform of the block they look into, the *)
(* tracker of the timing.  CO1 is copied to the vector's buffers on V.      *)
(***************************************************************************)
EXTENDS Naturals, Sequences, KernelOps, CubeKernels

\* The queues of a multiplication: L0 operands and the result.
Queues(a2, b2, co) == [a2 |-> a2, b2 |-> b2, co |-> co]

Double == Queues(A2, B2, CO1(2))

\* Turn n of a queue of L0 operands takes them from L1; or from the device,
\* with turn m of a queue through L1.
FromL1(q, n, l1) == AllocTensor(q, n) \o LoadL0({l1}, {QSlot(q, n)}) \o EnQueDeQue(q, n)

ThroughL1(p, m, q, n, x) ==
  AllocTensor(p, m) \o LoadFrom({x}, {QSlot(p, m)}) \o EnQueDeQue(p, m) \o
  FromL1(q, n, QSlot(p, m)) \o FreeTensor(p, m)

\* Result r, of the sum of the products whose operands the loads bring, the
\* first with turn n; it goes to dst.
Result(q, n, r, loads, dst) ==
  Loop(Len(loads), LAMBDA i :
    loads[i + 1] \o When(i = 0, AllocTensor(q.co, r)) \o
    Mmad({QSlot(q.a2, n + i), QSlot(q.b2, n + i)} \union (IF i = 0 THEN {} ELSE {QSlot(q.co, r)}),
         {QSlot(q.co, r)}) \o
    FreeTensor(q.a2, n + i) \o FreeTensor(q.b2, n + i)) \o
  EnQueDeQue(q.co, r) \o CopyCo({QSlot(q.co, r)}, {dst}) \o FreeTensor(q.co, r)

\* Samples to halves, and their two parts apart.
Dequantize(i16, half, re, im) ==
  Load({i16}) \o Sync(MTE2_V, 0) \o Compute({i16}, {half}) \o
  Compute({half}, {re}) \o Compute({half}, {im})

\* x times the twiddles t, or their conjugates, part by part.
Product(re, im, tre, tim, outRe, outIm) ==
  Compute({re, im, tre, tim}, {"tmp1", "tmp2"}) \o Compute({"tmp1", "tmp2"}, {outRe}) \o
  Compute({re, im, tre, tim}, {"tmp1", "tmp2"}) \o Compute({"tmp1", "tmp2"}, {outIm})

-----------------------------------------------------------------------------
\* pss_correlator: every core derotates its share of the search window for all
\* frequencies; then it correlates its positions, reading into its neighbour's
\* share.  Its queues hold one tensor.
Single == Queues(Queue("a2", 1, MTE1_M, M_MTE1, 10), Queue("b2", 1, MTE1_M, M_MTE1, 20),
                 Queue("co", 1, M_V, V_M, 30))

CfoDerot(core, tiles, groups) ==
  Loop(tiles, LAMBDA t :
    Dequantize("yi16", "yhalf", "yRe", "yIm") \o
    Loop(groups, LAMBDA g :
      Dequantize("twi16", "twhalf", "twRe", "twIm") \o
      Product("yRe", "yIm", "twRe", "twIm", "yGre", "yGim") \o Sync(V_MTE3, 0) \o
      StoreTo({"yGre"}, {Part("derotRe", core)}) \o StoreTo({"yGim"}, {Part("derotIm", core)}) \o
      Sync(MTE3_V, 0)))

BuildPss(vecs, l1) ==
  Compute({}, {"staging"}) \o Read({vecs}) \o Write({"staging"}) \o Sync(S_MTE3, 0) \o
  StoreTo({"staging"}, {l1}) \o Sync(MTE3_MTE2, 0)

\* The rows a tail tile lacks are zeros of the staging buffer.
LoadYgWindow(window, l1, tail) ==
  LoadFrom(window, {l1}) \o When(tail, StoreTo({"staging"}, {l1 \o "Pad"})) \o Sync(MTE2_MTE1, 0)

\* RunCubeS23, call k, of so many row splits.
CubeS23(k, splits, a, b, dst) ==
  Loop(splits, LAMBDA ms :
    LET n == k * splits + ms
    IN  Result(Single, n, n,
          <<FromL1(Single.b2, n, b) \o AllocTensor(Single.a2, n) \o
            LoadL0({a, a \o "Pad"}, {QSlot(Single.a2, n)}) \o EnQueDeQue(Single.a2, n)>>, dst))

PssWindow(core, cores, part) ==
  {Part("derot" \o part, c) : c \in {core, core + 1} \intersect 0..(cores - 1)}

PssCorrelate(core, cores, tiles, groups, splits) ==
  Loop(3, LAMBDA l : Dequantize("pi16", "phalf", "pssRe", "pssIm")) \o
  BuildPss("pssRe", "pssReL1") \o BuildPss("pssIm", "pssImL1") \o
  Compute({}, {"staging"}) \o Sync(V_MTE2, 0) \o
  Loop(tiles, LAMBDA t : Loop(groups, LAMBDA g :
    LET k == 4 * (t * groups + g)
        tail == t + 1 = tiles
    IN  LoadYgWindow(PssWindow(core, cores, "Re"), "yReL1", tail) \o
        LoadYgWindow(PssWindow(core, cores, "Im"), "yImL1", tail) \o
        CubeS23(k, splits, "yReL1", "pssReL1", "gemm1") \o
        CubeS23(k + 1, splits, "yImL1", "pssImL1", "gemm2") \o Sync(MTE3_V, 0) \o
        Compute({"gemm1", "gemm2"}, {"accRe"}) \o
        CubeS23(k + 2, splits, "yImL1", "pssReL1", "gemm1") \o
        CubeS23(k + 3, splits, "yReL1", "pssImL1", "gemm2") \o Sync(MTE3_V, 0) \o
        Compute({"gemm1", "gemm2"}, {"accIm"}) \o
        Compute({"accRe"}, {"gemm1"}) \o Compute({"accIm"}, {"gemm2"}) \o
        Compute({"gemm1", "gemm2"}, {"gemm1"}) \o Sync(V_S, 0) \o
        Read({"gemm1"}) \o Write({"metric"}) \o Sync(S_MTE3, 0) \o
        Store({"metric"}) \o Sync(MTE3_V, 0)))

EmitOutput ==
  Compute({}, {"outBuf"}) \o Write({"outBuf"}) \o Sync(S_MTE3, 0) \o
  Store({"outBuf"}) \o Sync(MTE3_MTE2, 0)

PssCorrelator(cores, tiles, groups, splits) ==
  LET device == UNION {Parts("derot" \o part, cores) : part \in {"Re", "Im"}}
      turns  == 4 * tiles * groups * splits
  IN  OnCores(cores, device, LAMBDA c : CfoDerot(c, tiles, groups)) \o SyncAll(cores) \o
      OnCores(cores, device, LAMBDA c : PssCorrelate(c, cores, tiles, groups, splits)) \o
      SyncAll(cores) \o EmitOutput \o
      OnCores(cores, device, LAMBDA c :
        QueueEnd(Single.a2, turns) \o QueueEnd(Single.b2, turns) \o QueueEnd(Single.co, turns))

-----------------------------------------------------------------------------
\* pss_acquisition: a core takes offsets of its own, for batches of frequencies.
\* An offset outside the slot yields zeros.
LoadPssTemplates ==
  Load({"derotRe"}) \o Sync(MTE2_V, 0) \o
  Loop(3, LAMBDA p : Compute({"derotRe"}, {"winIq"}) \o Compute({"winIq"}, {"pssRe", "pssIm"}))

ComputeCosSinBatch == Compute({}, {"winRe"}) \o Compute({"winRe"}, {"tmp"}) \o Compute({"tmp"}, {"cos", "sin"})

StoreMetric == Store({"metricOut"}) \o Sync(MTE3_V, 0)

Correlation(x, y) ==
  Compute({x, y, "pssRe", "pssIm"}, {"tmp", "tmp2"}) \o Compute({"tmp", "tmp2"}, {"stage1"}) \o
  Sync(V_S, 0) \o Read({"stage1"})

ProcessTimeOffset(outside, hypotheses) ==
  Compute({}, {"metricOut"}) \o
  IF outside THEN Sync(V_MTE3, 0) \o StoreMetric
  ELSE Dequantize("winI16", "winIq", "winRe", "winIm") \o
       Loop(hypotheses, LAMBDA h :
         Compute({"winRe", "winIm", "cos", "sin"}, {"derotRe", "tmp"}) \o
         Compute({"winRe", "winIm", "cos", "sin"}, {"derotIm", "tmp"})) \o
       Loop(hypotheses, LAMBDA h : Loop(3, LAMBDA p :
         Correlation("derotRe", "derotIm") \o Correlation("derotIm", "derotRe") \o
         Write({"metricOut"}))) \o
       Sync(S_MTE3, 0) \o StoreMetric

PssAcquisition(batches, hypotheses, offsets, outside) ==
  LoadPssTemplates \o
  Loop(batches, LAMBDA b :
    ComputeCosSinBatch \o
    Loop(offsets, LAMBDA t : ProcessTimeOffset(t \in outside, hypotheses)))

\* pss_cfo_estimator, on core 0.
LoadAndSplitIQ ==
  Load({"yi16"}) \o Sync(MTE2_V, 0) \o Load({"ri16"}) \o Sync(MTE2_V, 0) \o
  Compute({"yi16"}, {"yhalf"}) \o Compute({"ri16"}, {"rhalf"}) \o
  Compute({"yhalf"}, {"yre", "yim"}) \o Compute({"rhalf"}, {"rre", "rim"}) \o
  Load({"twc"}) \o Load({"tws"}) \o Sync(MTE2_V, 0) \o
  Compute({"yre", "yim", "twc", "tws"}, {"rotRe", "rotIm", "yim"}) \o
  Compute({"rotRe", "rotIm"}, {"yre", "yim"})

ConjMulAndReduce ==
  Compute({"yre", "yim", "rre", "rim"}, {"prd", "tmp"}) \o Compute({"prd"}, {"stage1"}) \o
  Sync(V_S, 0) \o Read({"stage1"})

\* Too weak a correlation has no angle.
Atan2AndWriteOut(weak) ==
  When(~weak, Write({"scalar"}) \o Sync(S_V, 0) \o Compute({"scalar"}, {"atan"}) \o
              Sync(V_S, 0) \o Read({"atan"})) \o
  Write({"out"}) \o Sync(S_MTE3, 0) \o Store({"out"}) \o Sync(MTE3_MTE2, 0)

PssCfoEstimator(weak) == LoadAndSplitIQ \o ConjMulAndReduce \o Atan2AndWriteOut(weak)

-----------------------------------------------------------------------------
\* sss_correlator: every core correlates all offsets with its share of the
\* sequences; core 0 picks the best of the cores' own.
SssLoadAndDerot ==
  Load({"segI16"}) \o Sync(MTE2_V, 0) \o
  Compute({"segI16"}, {"segHalf"}) \o Sync(V_S, 0) \o Read({"segHalf"}) \o
  Compute({"segHalf"}, {"segHalf"}) \o Sync(V_S, 0) \o Read({"segHalf"}) \o
  Compute({"segHalf"}, {"rxRe"}) \o Compute({"segHalf"}, {"rxIm"}) \o
  Load({"twRe"}) \o Load({"twIm"}) \o Sync(MTE2_V, 0) \o
  Compute({"rxRe", "rxIm", "twRe", "twIm"}, {"derotRe", "derotIm", "rxRe"}) \o PipeAll

BuildRBatch ==
  Compute({"derotRe", "derotIm"}, {"rbatRe", "rbatIm"}) \o Sync(V_MTE3, 0) \o
  StoreTo({"rbatRe"}, {"rbatReScr"}) \o StoreTo({"rbatIm"}, {"rbatImScr"}) \o
  Sync(MTE3_MTE2, 0) \o Sync(V_S, 0) \o Read({"rbatRe"}) \o PipeAll

\* One split of the sequences: four products, each over so many blocks of samples.
SssSplit(ns, blocks) ==
  Loop(4, LAMBDA p :
    LET r == 4 * ns + p
        a == IF p \in {0, 3} THEN "aReL1" ELSE "aImL1"
        corr == IF p < 2 THEN "corrRe" ELSE "corrIm"
        load(k) ==
          LET n == r * blocks + k
          IN  ThroughL1(B1, n, B2, n, "sss") \o FromL1(A2, n, a)
    IN  Result(Double, r * blocks, r, [k \in 1..blocks |-> load(k - 1)], "ndScratch") \o
        Sync(MTE3_V, 0) \o Compute({corr, "ndScratch"}, {corr}))

SssCubeGemm(splits, blocks) ==
  Compute({}, {"corrRe", "corrIm"}) \o
  LoadFrom({"rbatReScr"}, {"aReL1"}) \o LoadFrom({"rbatImScr"}, {"aImL1"}) \o Sync(MTE2_MTE1, 0) \o
  Loop(splits, LAMBDA ns : SssSplit(ns, blocks)) \o PipeAll \o Read({"corrRe"}) \o PipeAll

SssLocalArgmax(core) ==
  Compute({}, {"perJMax"}) \o Sync(V_S, 0) \o
  Read({"metric"}) \o Read({"perJMax"}) \o Write({"perJMax"}) \o
  Write({"outBuf"}) \o Sync(S_MTE3, 0) \o StoreTo({"outBuf"}, {Part("localBest", core)}) \o
  Sync(V_MTE3, 0) \o StoreTo({"perJMax"}, {Part("perJMaxG", core)}) \o
  Sync(MTE3_MTE2, 0) \o PipeAll

SssGlobalReduce(cores) ==
  LoadFrom(Parts("localBest", cores), {"outBuf"}) \o Sync(MTE2_S, 0) \o Read({"outBuf"}) \o
  LoadFrom(Parts("perJMaxG", cores), {"perJMax"}) \o Sync(MTE2_S, 0) \o Read({"perJMax"}) \o
  Write({"outBuf"}) \o Sync(S_MTE3, 0) \o Store({"outBuf"}) \o Sync(MTE3_MTE2, 0) \o PipeAll

SssCorrelator(cores, splits, blocks) ==
  LET device == Parts("localBest", cores) \union Parts("perJMaxG", cores)
      turns  == 4 * splits * blocks
      each(Text(_)) == OnCores(cores, device, Text) \o SyncAll(cores)
  IN  each(LAMBDA c : SssLoadAndDerot \o BuildRBatch) \o
      each(LAMBDA c : SssCubeGemm(splits, blocks)) \o
      each(LAMBDA c : Compute({"corrRe", "corrIm"}, {"metric"}) \o PipeAll) \o
      each(SssLocalArgmax) \o SssGlobalReduce(cores) \o
      OnCores(cores, device, LAMBDA c :
        QueueEnd(A2, turns) \o QueueEnd(B1, turns) \o QueueEnd(B2, turns) \o
        QueueEnd(CO1(2), 4 * splits))

-----------------------------------------------------------------------------
\* A result of two products, the first operand (or the second) by way of the
\* device; t-th result of the kernel, m-th of its kind.
RowsResult(t, m, w1, x1, w2, x2, dst) ==
  LET load(i, w, x) == ThroughL1(B1, 2 * m + i, B2, 2 * t + i, x) \o FromL1(A2, 2 * t + i, w)
  IN  Result(Double, 2 * t, t, <<load(0, w1, x1), load(1, w2, x2)>>, dst)

ColumnsResult(t, m, x1, w1, x2, w2, dst) ==
  LET load(i, x, w) == ThroughL1(A1, 2 * m + i, A2, 2 * t + i, x) \o FromL1(B2, 2 * t + i, w)
  IN  Result(Double, 2 * t, t, <<load(0, x1, w1), load(1, x2, w2)>>, dst)

ToHalf(acc, out) == Compute({acc}, {"nd"}) \o Compute({"nd"}, {out})

\* ssb_fft, on core 0: the transform of some symbols, of which it gathers the
\* pilots.
SsbLoadSymbol(s) ==
  Dequantize("xi16", "xfull", "xre", "xim") \o Sync(V_MTE3, 0) \o
  StoreTo({"xre"}, {Part("xReScr", s)}) \o StoreTo({"xim"}, {Part("xImScr", s)}) \o
  Sync(MTE3_MTE2, 0)

MakeNeg ==
  CopyL1({"wIm"}, {"tmp"}) \o PipeAll \o Compute({"tmp"}, {"tmp"}) \o
  Sync(V_MTE3, 0) \o StoreTo({"tmp"}, {"wNeg"}) \o PipeAll

SsbGather ==
  Load({"gidx"}) \o Load({"derotRe"}) \o Load({"derotIm"}) \o PipeAll \o
  Read({"gidx"}) \o Read({"x1re_0", "x1im_0"}) \o Write({"gre", "gim"}) \o PipeAll \o
  Compute({"gre", "gim", "derotRe", "derotIm"}, {"tmp", "tmp2"}) \o Sync(V_MTE3, 0) \o
  Store({"tmp"}) \o Sync(MTE3_V, 0) \o
  Compute({"gre", "gim", "derotRe", "derotIm"}, {"tmp", "tmp2"}) \o Sync(V_MTE3, 0) \o
  Store({"tmp"}) \o PipeAll

SsbTurns(symbols, splits) == 2 * symbols * splits

SsbPhase1(symbols, splits) ==
  LET rows(s, h, w1, x1, w2, x2) ==
        Loop(splits, LAMBDA ns :
          LET t == (2 * s + h) * splits + ns
          IN  RowsResult(t, t, w1, Part(x1, s), w2, Part(x2, s), "acc"))
  IN  Load({"wRe"}) \o Load({"wIm"}) \o PipeAll \o MakeNeg \o
      Loop(symbols, LAMBDA s :
        rows(s, 0, "wRe", "xReScr", "wNeg", "xImScr") \o ToHalf("acc", Part("x1re", s)) \o
        rows(s, 1, "wRe", "xImScr", "wIm", "xReScr") \o ToHalf("acc", Part("x1im", s))) \o PipeAll

SsbPhase2(symbols) ==
  Load({"twRe"}) \o Load({"twIm"}) \o Sync(MTE2_V, 0) \o
  Loop(symbols, LAMBDA s :
    Twiddle(s, [part \in {"Re", "Im"} |-> Part("tw" \o part \o "Scr", s)])) \o PipeAll

SsbPhase3(symbols, splits) ==
  LET columns(s, h, x1, w1, x2, w2) ==
        Loop(splits, LAMBDA ns :
          LET m == (2 * s + h) * splits + ns
          IN  ColumnsResult(SsbTurns(symbols, splits) + m, m, Part(x1, s), w1, Part(x2, s), w2, "acc"))
  IN  Loop(symbols, LAMBDA s :
        columns(s, 0, "twReScr", "wRe", "twImScr", "wNeg") \o ToHalf("acc", Part("x1re", s)) \o
        columns(s, 1, "twReScr", "wIm", "twImScr", "wRe") \o ToHalf("acc", Part("x1im", s))) \o PipeAll

SsbFft(symbols, splits) ==
  LET turns == SsbTurns(symbols, splits)
  IN  Loop(symbols, SsbLoadSymbol) \o SsbPhase1(symbols, splits) \o SsbPhase2(symbols) \o
      SsbPhase3(symbols, splits) \o SsbGather \o
      QueueEnd(A1, 2 * turns) \o QueueEnd(B1, 2 * turns) \o QueueEnd(A2, 4 * turns) \o
      QueueEnd(B2, 4 * turns) \o QueueEnd(CO1(2), 2 * turns)

\* pbch_dmrs_correlator, on core 0: both operands through L1.
PbchResult(r, first, second, dst) ==
  LET load(n, p) == ThroughL1(A1, n, A2, n, p[1]) \o ThroughL1(B1, n, B2, n, p[2])
  IN  Result(Double, 2 * r, r, <<load(2 * r, first), load(2 * r + 1, second)>>, dst) \o PipeAll

PbchDmrsCorrelator ==
  PbchResult(0, <<"rRe", "dRe">>, <<"rIm", "dIm">>, "corrRe") \o
  PbchResult(1, <<"rIm", "dRe">>, <<"rRe", "dImNeg">>, "corrIm") \o PipeAll \o
  Read({"corrRe", "corrIm"}) \o Write({"outBuf"}) \o PipeAll \o
  Compute({"corrRe", "corrIm"}, {"corrRe", "corrIm"}) \o PipeAll \o
  Read({"corrRe"}) \o PipeAll \o
  Write({"outBuf"}) \o PipeAll \o Sync(S_MTE3, 0) \o Store({"outBuf"}) \o
  Sync(MTE3_MTE2, 0) \o PipeAll \o
  QueueEnd(A1, 4) \o QueueEnd(B1, 4) \o QueueEnd(A2, 4) \o QueueEnd(B2, 4) \o QueueEnd(CO1(2), 2)

\* timing_tracker: core 0 works, all cores meet after every phase.
TrackerPad ==
  Load({"reSym"}) \o Load({"imSym"}) \o Sync(MTE2_V, 0) \o
  Compute({"reSym", "imSym"}, {"hpadRe", "hpadIm"}) \o Sync(V_MTE3, 0) \o
  StoreTo({"hpadRe"}, {"hRe"}) \o StoreTo({"hpadIm"}, {"hIm"}) \o Sync(MTE3_MTE2, 0)

\* A call of RunCubeP1 or RunCubeP3, the k-th of its phase.
TrackerRows(k, splits, w, x, dst) ==
  Loop(splits, LAMBDA ns :
    LET n == k * splits + ns
    IN  Result(Double, n, n, <<ThroughL1(B1, n, B2, n, x) \o FromL1(A2, n, w)>>, dst))

TrackerColumns(k, splits, x, w, dst) ==
  Loop(splits, LAMBDA ns :
    LET n == (4 + k) * splits + ns
    IN  Result(Double, n, n,
               <<ThroughL1(A1, k * splits + ns, A2, n, x) \o FromL1(B2, n, w)>>, dst))

Combined(out) == PipeAll \o Compute({"acc", "cubeUB"}, {"acc"}) \o ToHalf("acc", out)

TrackerIdftP(splits) ==
  LET stored(x, scr) == Sync(V_MTE3, 0) \o StoreTo({x}, {scr})
  IN  Load({"wReL1"}) \o Load({"wImL1"}) \o PipeAll \o
      TrackerRows(0, splits, "wReL1", "hRe", "acc") \o
      TrackerRows(1, splits, "wImL1", "hIm", "cubeUB") \o
      Combined("x1re") \o stored("x1re", "x1ReScr") \o
      TrackerRows(2, splits, "wReL1", "hIm", "acc") \o
      TrackerRows(3, splits, "wImL1", "hRe", "cubeUB") \o
      Combined("x1im") \o stored("x1im", "x1ImScr") \o PipeAll

TrackerTwiddle ==
  LET half(scr) ==
        Compute({"x1re", "x1im", "twRe", "twIm"}, {"out"}) \o Sync(V_MTE3, 0) \o
        StoreTo({"out"}, {scr}) \o Sync(MTE3_V, 0)
  IN  LoadFrom({"x1ReScr"}, {"x1re"}) \o LoadFrom({"x1ImScr"}, {"x1im"}) \o
      Load({"twRe"}) \o Load({"twIm"}) \o Sync(MTE2_V, 0) \o
      half("twReScr") \o half("twImScr") \o PipeAll

TrackerIdftQ(splits) ==
  Load({"wReL1"}) \o Load({"wImL1"}) \o PipeAll \o
  TrackerColumns(0, splits, "twReScr", "wReL1", "acc") \o
  TrackerColumns(1, splits, "twImScr", "wImL1", "cubeUB") \o Combined("hcirRe") \o
  TrackerColumns(2, splits, "twReScr", "wImL1", "acc") \o
  TrackerColumns(3, splits, "twImScr", "wReL1", "cubeUB") \o Combined("hcirIm") \o PipeAll

TrackerTranspose ==
  Compute({"hcirRe"}, {"outRe"}) \o Compute({"hcirIm"}, {"outIm"}) \o Sync(V_MTE3, 0) \o
  Store({"outRe"}) \o Store({"outIm"}) \o PipeAll

TrackerArgmax ==
  Compute({"outRe", "outIm"}, {"winRe", "winIm"}) \o Sync(MTE3_V, 0) \o
  Compute({"winRe", "winIm"}, {"pwr"}) \o Compute({"pwr"}, {"max"}) \o Sync(V_S, 0) \o
  Read({"max"}) \o Read({"pwr"}) \o PipeAll

TimingTracker(cores, splits) ==
  LET turns == 8 * splits
      phase(text) == text \o SyncAll(cores)
  IN  phase(TrackerPad) \o phase(TrackerIdftP(splits)) \o phase(TrackerTwiddle) \o
      phase(TrackerIdftQ(splits)) \o phase(TrackerTranspose) \o phase(TrackerArgmax) \o
      QueueEnd(A1, 4 * splits) \o QueueEnd(B1, 4 * splits) \o QueueEnd(A2, turns) \o
      QueueEnd(B2, turns) \o QueueEnd(CO1(2), turns)
=============================================================================
