----------------------------- MODULE CubeKernels -----------------------------
(* Kernels that multiply matrices on the cube unit: the OFDM transforms. *)
EXTENDS Naturals, Sequences, KernelOps

\* The queues between the stages of a multiplication.
A1         == Queue("a1", 2, MTE2_MTE1, MTE1_MTE2, 10)
A2         == Queue("a2", 2, MTE1_M, M_MTE1, 10)
B1         == Queue("b1", 2, MTE2_MTE1, MTE1_MTE2, 20)
B2         == Queue("b2", 2, MTE1_M, M_MTE1, 20)
CO1(depth) == Queue("co", depth, M_V, V_M, 30)

\* Turn n of queue B: a tile of the device to L1 and on to L0.
BTile(n, x) ==
  AllocTensor(B1, n) \o LoadFrom({x}, {QSlot(B1, n)}) \o EnQueDeQue(B1, n) \o
  AllocTensor(B2, n) \o LoadL0({QSlot(B1, n)}, {QSlot(B2, n)}) \o
  FreeTensor(B1, n) \o EnQueDeQue(B2, n)

\* a1 w1 + a2 w2, in splits of its columns, by way of the results from r0 on.
ProductOf(a1, w1, a2, w2, co, r0, splits) ==
  Loop(splits, LAMBDA ns :
    LET r == r0 + ns
    IN  AllocTensor(co, r) \o Mmad({a1, w1}, {QSlot(co, r)}) \o
        Mmad({a2, w2, QSlot(co, r)}, {QSlot(co, r)}) \o
        EnQueDeQue(co, r) \o CopyCo({QSlot(co, r)}, {"accRe"}) \o FreeTensor(co, r))

Parts(name, n) == {Part(name, s) : s \in 0..(n - 1)}

\* The DFT matrix w to L1, its imaginary part negated by way of a buffer of the
\* vector unit.
Negated(w, tmp) ==
  Load({w \o "Re"}) \o Load({w \o "Im"}) \o PipeAll \o
  CopyL1({w \o "Im"}, {tmp}) \o PipeAll \o
  Compute({tmp}, {tmp}) \o Sync(V_MTE3, 0) \o StoreTo({tmp}, {w \o "Neg"}) \o PipeAll

ToL0(w) ==
  LoadL0({w \o "Re"}, {w \o "Re0"}) \o LoadL0({w \o "Im"}, {w \o "Im0"}) \o
  LoadL0({w \o "Neg"}, {w \o "Neg0"}) \o PipeAll

-----------------------------------------------------------------------------
\* Where a kernel leaves the parts of symbol s for its next phase.
InScratch(s)  == [part \in {"Re", "Im"} |-> Part("scr" \o part, s)]
InL1(name, s) == [part \in {"Re", "Im"} |-> Part(name \o part \o "L1", s)]

\* ofdm_demod on one core: symbols of its own, in splits of their columns.
DemodLoadSymbol(to, after) ==
  Load({"xi16"}) \o Sync(MTE2_V, 0) \o
  Compute({"xi16"}, {"xfull"}) \o Compute({"xfull"}, {"xre"}) \o
  Compute({"xfull"}, {"xim"}) \o Sync(V_MTE3, 0) \o
  StoreTo({"xre"}, {to["Re"]}) \o StoreTo({"xim"}, {to["Im"]}) \o after \o Sync(MTE3_MTE2, 0)

\* One output of a complex product: two multiplications into one result; behind
\* each of them, and behind the copy of the result, an event of the kernel's own.
TileHalf(n, r, x1, x2, w2, acc, first, second, copied) ==
  LET co == CO1(2)
  IN  AllocTensor(co, r) \o BTile(n, x1) \o
      Mmad({"w32Re0", QSlot(B2, n)}, {QSlot(co, r)}) \o first \o FreeTensor(B2, n) \o
      BTile(n + 1, x2) \o Mmad({w2, QSlot(B2, n + 1), QSlot(co, r)}, {QSlot(co, r)}) \o
      second \o FreeTensor(B2, n + 1) \o EnQueDeQue(co, r) \o
      CopyCo({QSlot(co, r)}, {acc}) \o copied \o FreeTensor(co, r)

\* RunCubeP1_ComplexTileReuse of symbol s, after r0 results before the first.
TileReuse(s, r0, splits, first, second, copied) ==
  LET re == Part("scrRe", s)
      im == Part("scrIm", s)
  IN  Loop(splits, LAMBDA ns :
        LET t == s * splits + ns
        IN  TileHalf(4 * t, r0 + 2 * t, re, im, "w32Neg0", "accRe", first, second, copied) \o
            TileHalf(4 * t + 2, r0 + 2 * t + 1, im, re, "w32Im0", "accIm",
                     first, second, copied))

NdAndCast(acc, out) ==
  Sync(M_V, 0) \o Compute({acc}, {"nd"}) \o Compute({"nd"}, out) \o Sync(V_M, 0)

Twiddle(s, to) ==
  LET half(x, y, out) ==
        Compute({Part("x1re", s), x}, {"tmp"}) \o Compute({Part("x1im", s), y}, {"tmp2"}) \o
        Compute({"tmp", "tmp2"}, {"tmp"}) \o Sync(V_MTE3, 0) \o
        StoreTo({"tmp"}, {to[out]}) \o Sync(MTE3_V, 0)
  IN  half("twRe", "twIm", "Re") \o half("twIm", "twRe", "Im")

\* RunCubeP3_Batch, call k, from result r0 on: all symbols of the core at once.
BatchProduct(k, co, r0, splits, re, im, w1, w2) ==
  LET a == 2 * k
      b == 2 * k + 1
  IN  AllocTensor(A1, a) \o AllocTensor(A1, b) \o
      LoadFrom(re, {QSlot(A1, a)}) \o LoadFrom(im, {QSlot(A1, b)}) \o
      EnQueDeQue(A1, a) \o EnQueDeQue(A1, b) \o AllocTensor(A2, a) \o AllocTensor(A2, b) \o
      LoadL0({QSlot(A1, a)}, {QSlot(A2, a)}) \o LoadL0({QSlot(A1, b)}, {QSlot(A2, b)}) \o
      FreeTensor(A1, a) \o FreeTensor(A1, b) \o EnQueDeQue(A2, a) \o EnQueDeQue(A2, b) \o
      ProductOf(QSlot(A2, a), w1, QSlot(A2, b), w2, co, r0, splits) \o
      FreeTensor(A2, a) \o FreeTensor(A2, b)

DemodPhase1(symbols, splits) ==
  Negated("w32", "tmp") \o ToL0("w32") \o
  Loop(symbols, LAMBDA s :
    TileReuse(s, 0, splits, Sync(M_MTE1, 1), << >>, << >>) \o NdAndCast("accRe", {Part("x1re", s)}) \o
    NdAndCast("accIm", {Part("x1im", s)}) \o PipeAll) \o PipeAll

TwiddleAll(symbols) ==
  Load({"twRe"}) \o Load({"twIm"}) \o Sync(MTE2_V, 0) \o
  Loop(symbols, LAMBDA s : Twiddle(s, InScratch(s))) \o
  Sync(MTE3_MTE2, 0)

DemodPhase3(symbols, splits) ==
  LET x1(part)  == Parts("x1" \o part, symbols)
      scr(part) == Parts("scr" \o part, symbols)
      first     == 2 * symbols * splits
      cast(out) == NdAndCast("accRe", out) \o Sync(V_MTE3, 0) \o Store(out)
      product(k, w1, w2) ==
        BatchProduct(k, CO1(2), first + k * splits, splits, scr("Re"), scr("Im"), w1, w2)
  IN  Negated("w64", "x1re_0") \o ToL0("w64") \o
      product(0, "w64Re0", "w64Neg0") \o cast(x1("re")) \o
      product(1, "w64Im0", "w64Re0") \o cast(x1("im")) \o PipeAll

OfdmDemodSiso(symbols, splits) ==
  Loop(symbols, LAMBDA s :
    DemodLoadSymbol(InScratch(s), Sync(MTE3_V, 0))) \o
  DemodPhase1(symbols, splits) \o TwiddleAll(symbols) \o DemodPhase3(symbols, splits) \o
  QueueEnd(A1, 4) \o QueueEnd(A2, 4) \o QueueEnd(B1, 4 * symbols * splits) \o
  QueueEnd(B2, 4 * symbols * splits) \o QueueEnd(CO1(2), 2 * (symbols + 1) * splits)
-----------------------------------------------------------------------------
\* ofdm_demod_batch: a core takes tile after tile; what its phases hand on stays
\* in L1, and the constants do after the tile of batch 0.
FusedProduct(b2, co, splits, w1, x1, w2, x2) ==
  Loop(splits, LAMBDA ns :
    LET n == b2 + 2 * ns
        r == co + ns
    IN  AllocTensor(B2, n) \o LoadL0({x1}, {QSlot(B2, n)}) \o EnQueDeQue(B2, n) \o
        AllocTensor(CO1(4), r) \o Mmad({w1, QSlot(B2, n)}, {QSlot(CO1(4), r)}) \o
        FreeTensor(B2, n) \o
        AllocTensor(B2, n + 1) \o LoadL0({x2}, {QSlot(B2, n + 1)}) \o EnQueDeQue(B2, n + 1) \o
        Mmad({w2, QSlot(B2, n + 1), QSlot(CO1(4), r)}, {QSlot(CO1(4), r)}) \o
        FreeTensor(B2, n + 1) \o EnQueDeQue(CO1(4), r) \o
        CopyCo({QSlot(CO1(4), r)}, {"accRe"}) \o FreeTensor(CO1(4), r))

L1Product(a2, r0, splits, re, im, w1, w2) ==
  AllocTensor(A2, a2) \o AllocTensor(A2, a2 + 1) \o
  LoadL0(re, {QSlot(A2, a2)}) \o LoadL0(im, {QSlot(A2, a2 + 1)}) \o
  EnQueDeQue(A2, a2) \o EnQueDeQue(A2, a2 + 1) \o
  ProductOf(QSlot(A2, a2), w1, QSlot(A2, a2 + 1), w2, CO1(4), r0, splits) \o
  FreeTensor(A2, a2) \o FreeTensor(A2, a2 + 1)

Cast(out) == Compute({"accRe"}, {"nd"}) \o Compute({"nd"}, out)

\* The results and B2 turns of the tiles before the k-th.
ResultsBefore(k, symbols, splits) == 2 * (symbols + 1) * splits * k
TurnsBefore(k, symbols, splits)   == 4 * symbols * splits * k

DemodBatchLoad(s) == DemodLoadSymbol(InL1("x", s), << >>)

DemodBatchPhase1(k, symbols, splits) ==
  LET product(s, h, w1, x, w2, y) ==
        FusedProduct(TurnsBefore(k, symbols, splits) + (2 * s + h) * 2 * splits,
                     ResultsBefore(k, symbols, splits) + (2 * s + h) * splits,
                     splits, w1, Part(x, s), w2, Part(y, s))
  IN  When(k = 0, Negated("w32", "tmp")) \o ToL0("w32") \o
      Loop(symbols, LAMBDA s :
        product(s, 0, "w32Re0", "xReL1", "w32Neg0", "xImL1") \o Cast({Part("x1re", s)}) \o
        product(s, 1, "w32Re0", "xImL1", "w32Im0", "xReL1") \o Cast({Part("x1im", s)})) \o
      PipeAll

DemodBatchPhase2(k, symbols) ==
  When(k = 0, Load({"twRe"}) \o Load({"twIm"}) \o Sync(MTE2_V, 0)) \o
  Loop(symbols, LAMBDA s : Twiddle(s, InL1("tw", s))) \o
  Sync(MTE3_MTE2, 0)

DemodBatchPhase3(k, symbols, splits) ==
  LET x1(part) == Parts("x1" \o part, symbols)
      output(h, w1, w2) ==
        L1Product(4 * k + 2 * h, ResultsBefore(k, symbols, splits) + (2 * symbols + h) * splits,
                  splits, Parts("twReL1", symbols), Parts("twImL1", symbols), w1, w2)
  IN  When(k = 0, Negated("w64", "x1re_0")) \o ToL0("w64") \o
      output(0, "w64Re0", "w64Neg0") \o Cast(x1("re")) \o
      output(1, "w64Im0", "w64Re0") \o Cast(x1("im")) \o
      Sync(V_MTE3, 0) \o Store(x1("re")) \o Store(x1("im")) \o PipeAll

OfdmDemodBatch(tiles, symbols, splits) ==
  Loop(tiles, LAMBDA k :
    Loop(symbols, DemodBatchLoad) \o DemodBatchPhase1(k, symbols, splits) \o
    DemodBatchPhase2(k, symbols) \o DemodBatchPhase3(k, symbols, splits)) \o
  QueueEnd(A2, 4 * tiles) \o QueueEnd(B2, TurnsBefore(tiles, symbols, splits)) \o
  QueueEnd(CO1(4), ResultsBefore(tiles, symbols, splits))
-----------------------------------------------------------------------------
\* ofdm_mod on one core: the inverse transform, its columns first.
ModScaled(i32) ==
  Compute({"tmp"}, {"tmp"}) \o Compute({"tmp"}, {"i16"}) \o Compute({"tmp"}, {i32}) \o
  Sync(V_MTE3, 0) \o Store({"i16"}) \o Store({"i16"}) \o Sync(MTE3_V, 0)

ModInterleave ==
  Compute({"reI32"}, {"nd"}) \o Compute({"nd"}, {"accRe"}) \o Compute({"accRe"}, {"nd"}) \o
  Compute({"reI32", "nd"}, {"reI32"}) \o Compute({"imI32"}, {"imI32"}) \o
  Compute({"reI32", "imI32"}, {"reI32"}) \o
  Sync(V_MTE3, 0) \o Store({"reI32"}) \o Store({"reI32"}) \o Sync(MTE3_V, 0)

ModPhaseA(symbols, splits) ==
  LET product(k, w1, w2) == BatchProduct(k, CO1(2), k * splits, splits, {"s4re"}, {"s4im"}, w1, w2)
      x1(part) == Parts("x1" \o part, symbols)
  IN  Negated("w64", "x1re_0") \o ToL0("w64") \o
      product(0, "w64Re0", "w64Neg0") \o NdAndCast("accRe", x1("re")) \o
      product(1, "w64Im0", "w64Re0") \o NdAndCast("accRe", x1("im")) \o PipeAll

ModTwiddle(symbols) == TwiddleAll(symbols)

\* Behind its multiplications this kernel makes the scalar unit wait.
ModTileReuse(s, r0, splits) == TileReuse(s, r0, splits, Sync(M_S, 1), Sync(M_S, 1), Sync(V_M, 2))

ModPhaseC(symbols, splits) ==
  Negated("w32", "tmp") \o ToL0("w32") \o
  Loop(symbols, LAMBDA s :
    ModTileReuse(s, 2 * splits, splits) \o NdAndCast("accRe", {"tmp"}) \o ModScaled("reI32") \o
    NdAndCast("accIm", {"tmp"}) \o ModScaled("imI32") \o ModInterleave \o PipeAll) \o PipeAll

OfdmModSiso(symbols, splits) ==
  ModPhaseA(symbols, splits) \o ModTwiddle(symbols) \o ModPhaseC(symbols, splits) \o
  QueueEnd(A1, 4) \o QueueEnd(A2, 4) \o QueueEnd(B1, 4 * symbols * splits) \o
  QueueEnd(B2, 4 * symbols * splits) \o QueueEnd(CO1(2), 2 * (symbols + 1) * splits)

\* ofdm_mod_batch: the constants are set up with the tile of batch 0 only, the L0
\* ones too.
ModTwiddleL1(s) ==
  LET half(x, y, out) ==
        Compute({Part("x1re", s), x}, {out}) \o Compute({Part("x1im", s), y}, {"accRe"}) \o
        Compute({out, "accRe"}, {out})
  IN  half("twRe", "twIm", "tmp") \o half("twIm", "twRe", "tmp2") \o Sync(V_MTE3, 0) \o
      StoreTo({"tmp"}, {Part("x1ReL1", s)}) \o StoreTo({"tmp2"}, {Part("x1ImL1", s)}) \o
      Sync(MTE3_V, 0)

ModBatchPhaseA(k, symbols, splits) ==
  LET x1(part) == Parts("x1" \o part, symbols)
      product(h, w1, w2) ==
        BatchProduct(2 * k + h, CO1(4), ResultsBefore(k, symbols, splits) + h * splits, splits,
                     {"s4re"}, {"s4im"}, w1, w2)
  IN  When(k = 0, Negated("w64", "x1re_0") \o ToL0("w64")) \o
      product(0, "w64Re0", "w64Neg0") \o Cast(x1("re")) \o
      product(1, "w64Im0", "w64Re0") \o Cast(x1("im")) \o PipeAll

ModBatchPhaseC(k, symbols, splits) ==
  LET output(s, h, w1, x, w2, y, i32) ==
        FusedProduct(TurnsBefore(k, symbols, splits) + (2 * s + h) * 2 * splits,
                     ResultsBefore(k, symbols, splits) + (2 + 2 * s + h) * splits,
                     splits, w1, Part(x, s), w2, Part(y, s)) \o
        Cast({"tmp"}) \o ModScaled(i32)
  IN  When(k = 0, Negated("w32", "tmp") \o ToL0("w32")) \o
      Loop(symbols, LAMBDA s :
        output(s, 0, "w32Re0", "x1ReL1", "w32Neg0", "x1ImL1", "reI32") \o
        output(s, 1, "w32Re0", "x1ImL1", "w32Im0", "x1ReL1", "imI32") \o ModInterleave) \o
      PipeAll

OfdmModBatch(tiles, symbols, splits) ==
  Load({"twRe"}) \o Load({"twIm"}) \o PipeAll \o
  Loop(tiles, LAMBDA k :
    ModBatchPhaseA(k, symbols, splits) \o Loop(symbols, ModTwiddleL1) \o
    ModBatchPhaseC(k, symbols, splits)) \o
  QueueEnd(A1, 4 * tiles) \o QueueEnd(A2, 4 * tiles) \o
  QueueEnd(B2, TurnsBefore(tiles, symbols, splits)) \o
  QueueEnd(CO1(4), ResultsBefore(tiles, symbols, splits))
=============================================================================
