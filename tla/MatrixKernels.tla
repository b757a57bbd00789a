---------------------------- MODULE MatrixKernels ----------------------------
(* Kernels that solve for a matrix: channel estimates, the MIMO detector and  *)
(* the zero-forcing precoder.                                                 *)
EXTENDS Naturals, Sequences, KernelOps

-----------------------------------------------------------------------------
\* channel_est_ls_siso on one core: two pilot symbols, then every symbol.
LsPilots(s) ==
  LET hls == {Part("hlsRe", s), Part("hlsIm", s)}
  IN  Load({"yRe"}) \o Load({"yIm"}) \o PipeAll \o
      Compute({"yRe"}, {"yReDmrs"}) \o Compute({"yIm"}, {"yImDmrs"}) \o
      Load({"xRe"}) \o Load({"xIm"}) \o PipeAll \o
      Compute({"yReDmrs", "yImDmrs", "xRe", "xIm"}, hls \union {"mulTmp"})

FreqInterp(s) ==
  Compute({Part("hlsRe", s), Part("hlsIm", s)}, {Part("bigH", s), "tmp"})

TimeInterpAndNaturalWrite(symbols) ==
  Loop(symbols, LAMBDA sym :
    Compute({"bigH_0", "bigH_1"}, {"bigOut", "bigTmp"}) \o
    Compute({"bigOut", "weaveIdx"}, {"naturalRe"}) \o
    Compute({"bigOut", "weaveIdx"}, {"naturalIm"}) \o Sync(V_MTE3, 0) \o
    Store({"naturalRe"}) \o Store({"naturalIm"}) \o
    When(sym < symbols - 1, Sync(MTE3_V, 0)))

ChannelEstLs(symbols, lastBlock) ==
  Load({"weaveIdx"}) \o PipeAll \o
  Loop(2, LsPilots) \o
  When(lastBlock, Compute({}, UNION {{Part("hlsRe", s), Part("hlsIm", s)} : s \in {0, 1}})) \o
  PipeAll \o Loop(2, FreqInterp) \o PipeAll \o TimeInterpAndNaturalWrite(symbols)

-----------------------------------------------------------------------------
\* channel_est_lmmse: first T, a part of it on every core, then what T gives.
Mte2ToMte1 == Sync(MTE2_MTE1, 0)
Mte1ToM    == Sync(MTE1_M, 0)
MToMte1    == Sync(M_MTE1, 0)

\* Operands from L1 to L0, and products that have been waited for.
Operand(from, to) == LoadL0({from}, {to}) \o Mte1ToM
Products(in, out) == Loop(Len(out), LAMBDA i : Mmad(in, {out[i + 1]})) \o MToMte1
Drained(re, im)   == PipeAll \o CopyCo({"coRe"}, {re}) \o CopyCo({"coIm"}, {im}) \o PipeAll

LoadFactor ==
  Load({"factorReL1"}) \o Load({"factorImL1"}) \o Mte2ToMte1 \o
  LoadL0({"factorReL1"}, {"a2_0"}) \o LoadL0({"factorImL1"}, {"a2_1"}) \o Mte1ToM

LoadHls == Load({"hlsReL1"}) \o Load({"hlsImL1"}) \o Load({"hlsNegImL1"}) \o Mte2ToMte1

\* The part of T of a task to the device, added to what is there.
GemmT(task, fused) ==
  Operand("hlsReL1", "b2") \o Products({"a2_0", "a2_1", "b2"}, <<"coRe", "coIm">>) \o
  Operand("hlsImL1", "b2") \o Products({"a2_0", "b2"}, <<"coIm">>) \o
  Operand("hlsNegImL1", "b2") \o Products({"a2_1", "b2"}, <<"coRe">>) \o
  Drained("hfRe", "hfIm") \o Sync(V_MTE3, 0) \o
  StoreTo({"hfRe"}, {Part("tRe", task)}) \o StoreTo({"hfIm"}, {Part("tIm", task)}) \o PipeAll \o
  When(fused, Compute({"hfIm"}, {"hfIm"}) \o Sync(V_MTE3, 0) \o
              StoreTo({"hfIm"}, {Part("tNegIm", task)}) \o PipeAll)

LmmsePhaseA(task, groups, fused) ==
  LoadFactor \o Loop(groups, LAMBDA g : LoadHls \o GemmT(task, fused))

LoadT(parts, tasks) ==
  Loop(Len(parts), LAMBDA i :
    LoadFrom({Part(parts[i + 1], t) : t \in 0..(tasks - 1)}, {parts[i + 1] \o "L1"})) \o
  Mte2ToMte1

Factors(names) ==
  Loop(Len(names), LAMBDA i : Load({names[i + 1] \o "L1"})) \o Mte2ToMte1 \o
  Loop(Len(names), LAMBDA i : LoadL0({names[i + 1] \o "L1"}, {"b2"})) \o Mte1ToM

\* GemmHfGroup, and GemmHfAllGroups with all groups in one operand.
GemmHf(groups) ==
  LET operand(t) == Loop(groups, LAMBDA g : LoadL0({t}, {"a2_0"})) \o Mte1ToM
  IN  operand("tReL1") \o Products({"a2_0", "b2"}, <<"coRe", "coIm">>) \o
      operand("tImL1") \o Products({"a2_0", "b2"}, <<"coRe", "coIm">>) \o
      Drained("hfRe", "hfIm")

TimeToGroup(slot) == Compute({"wtRe", "hfRe", "hfIm"}, {Part("outGroup", slot)})

StoreGroupBatch(slots) ==
  Sync(V_MTE3, 0) \o Loop(slots, LAMBDA s : Store({Part("outGroup", s)})) \o PipeAll

\* PhaseBAndTime for one tile, CE_PHASE2_SKINNY or not.
TileAndTime(skinny, slots) ==
  Factors(<<"aRe", "aIm", "aNegIm">>) \o Load({"wtRe"}) \o PipeAll \o
  When(skinny, GemmHf(slots)) \o
  Loop(slots, LAMBDA s : When(~skinny, GemmHf(1)) \o TimeToGroup(s)) \o
  StoreGroupBatch(slots)

\* CE_CUBE_TIME_POST_GEMM: the cube interpolates in time as well.
TilePostTime(layers, groups) ==
  Loop(layers, LAMBDA l :
    Factors(<<"aRe", "aIm", "aNegIm", "timePostWeight">>) \o GemmHf(groups) \o
    StoreTo({"hfRe"}, {"timePostInputL1"}) \o StoreTo({"hfIm"}, {"timePostInputL1"}) \o
    Sync(MTE3_MTE1, 0) \o Operand("timePostInputL1", "a2_0") \o
    Products({"a2_0", "b2"}, <<"coRe">>) \o PipeAll \o
    CopyCo({"coRe"}, {"timePostOut"}) \o PipeAll) \o
  Store({"timePostOut"}) \o Store({"timePostOut"}) \o PipeAll

\* CE_CUBE_TIME_FUSED: one matrix per symbol, for both pilot symbols.
GemmCubeTime(groups, re, im) ==
  LET operand(t) == Loop(groups, LAMBDA g : LoadL0({t}, {"a2_0"})) \o Mte1ToM
  IN  operand("tReL1") \o Products({"a2_0", "b2"}, <<"coRe", "coIm">>) \o
      operand("tNegImL1") \o Products({"a2_0", "b2"}, <<"coRe">>) \o
      operand("tImL1") \o Products({"a2_0", "b2"}, <<"coIm">>) \o Drained(re, im)

TileFused(symbols, groups) ==
  Loop(symbols, LAMBDA s :
    Factors(<<"aRe", "aIm", "aNegIm", "fused1Im">>) \o
    GemmCubeTime(groups, "hfRe", "hfIm") \o GemmCubeTime(groups, "fused1Re", "fused1Im") \o
    Compute({"hfRe", "hfIm", "fused1Re", "fused1Im", "gatherIdx"}, {"cubeOut", "cubeTmp"}) \o
    Sync(V_MTE3, 0) \o Store({"cubeOut"}) \o PipeAll)

\* Every core does its tasks of phase A; SyncAll before any core reads T.
ChannelEstLmmse(build, cores, groups, layers, tiles) ==
  LET fused  == build = "CubeTimeFused"
      parts  == IF fused THEN <<"tRe", "tIm", "tNegIm">> ELSE <<"tRe", "tIm">>
      shared == {Part(parts[i], t) : i \in 1..Len(parts), t \in 0..(cores - 1)}
      tile   == CASE build = "AndTime"       -> TileAndTime(TRUE, groups)
                  [] build = "AndTimePlain"  -> TileAndTime(FALSE, groups)
                  [] build = "CubeTimePost"  -> TilePostTime(tiles, groups)
                  [] build = "CubeTimeFused" -> TileFused(tiles, groups)
  IN  OnCores(cores, shared, LAMBDA c :
        LmmsePhaseA(c, groups, fused) \o PipeAll) \o
      SyncAll(cores) \o
      OnCores(cores, shared, LAMBDA c :
        When(fused, Write({"gatherIdx"}) \o PipeAll) \o
        Loop(layers, LAMBDA l : LoadT(parts, cores) \o Loop(tiles, LAMBDA t : tile)))

-----------------------------------------------------------------------------
\* mimo_detect_bri: a matrix per group of resource elements, inverted by blocks
\* and then by Richardson's iteration, always a + b in one complex product.
ToL1(from, to) ==
  Sync(V_MTE3, 1) \o Loop(Len(from), LAMBDA i : StoreTo({from[i + 1]}, {to[i + 1]})) \o
  Sync(MTE3_MTE1, 1)

Resident(l1) == Loop(Len(l1), LAMBDA i : LoadL0({l1[i + 1]}, {"gA2"}))

Flush(out) == PipeAll \o CopyCo({"co"}, out) \o PipeAll

\* cmmGR, and cmmGF, which loads its left operand a as well.
ComplexProduct(a, b, out) ==
  ToL1(b, <<"l1br", "l1bi">>) \o Resident(a) \o LoadL0({"l1br", "l1bi"}, {"gB2"}) \o
  Sync(MTE1_M, 1) \o Mmad({"gA2", "gB2"}, {"co"}) \o Sync(M_MTE1, 1) \o Flush(out)

BlockInvG(neumann) ==
  Compute({"GA", "Mblk", "diagIdx", "Id"}, {"Mb", "Dinv", "dcol", "E", "ET", "tmp"}) \o
  ToL1(<<"ET", "ET", "tmp">>, <<"l1ar", "l1ai", "l1bn">>) \o
  Resident(<<"l1ar", "l1ai", "l1bn">>) \o Compute({"Id", "E"}, {"S"}) \o PipeAll \o
  Loop(neumann - 1, LAMBDA i :
    ComplexProduct(<< >>, <<"S", "S">>, {"T", "S"}) \o Compute({"T", "Id"}, {"S"})) \o
  Compute({"dcol", "S"}, {"dcolT", "Mv"})

BriG(iterations) ==
  Compute({"Mv"}, {"ET"}) \o ToL1(<<"Mv", "ET", "Mv">>, <<"l1a0", "l1a1", "l1a2">>) \o
  ComplexProduct(<<"l1a0", "l1a1", "l1a2">>, <<"GA", "GA">>, {"Mb"}) \o
  Compute({"Id", "Mb"}, {"Mb", "E", "ET"}) \o
  ToL1(<<"E", "E", "ET">>, <<"l1a3", "l1a4", "l1a5">>) \o
  Resident(<<"l1a3", "l1a4", "l1a5">>) \o Compute({"Mv"}, {"X"}) \o PipeAll \o
  Loop(iterations, LAMBDA i :
    ComplexProduct(<< >>, <<"X", "X">>, {"T"}) \o Compute({"T", "Mv"}, {"X"}))

\* The ring of channel matrices in L1: two slots, loaded one group ahead.
LoadRE(buffers, slot) == Loop(Len(buffers), LAMBDA i : Load({Part(buffers[i + 1], slot)}))

Gram(h, slot, beside, out) ==
  LoadL0({Part(h, slot)}, {"a2"}) \o LoadL0({Part(h, slot)}, {"b2"}) \o Sync(MTE1_M, 0) \o
  Mmad({"a2", "b2"}, {"co"}) \o beside \o Flush(out)

MatchFilterG(slot) ==
  LoadL0({Part("y", slot)}, {"b2"}) \o Sync(MTE1_M, 1) \o Mmad({"a2", "b2"}, {"co"}) \o
  Sync(M_MTE1, 1) \o Flush({"T", "tmp"}) \o
  Compute({"T", "tmp", "matchIdx"}, {"T", "B0", "Gm"})

\* A product with right sides of few columns; what the cube does not need goes
\* on beside it.
SkinnyProduct(rhs, beside, out) ==
  ToL1(<<"X", "X", rhs, rhs, "tmp">>, <<"l1a0", "l1a1", "l1br", "l1bi", "l1bn">>) \o
  Resident(<<"l1a0", "l1a1">>) \o LoadL0({"l1br", "l1bi", "l1bn"}, {"gB2"}) \o
  Sync(MTE1_M, 1) \o Mmad({"gA2", "gB2"}, {"co"}) \o Sync(M_MTE1, 1) \o beside \o Flush(out)

DetectG ==
  Compute({"Gm", "rhsIdx"}, {"dcol", "tmp"}) \o
  SkinnyProduct("dcol", Compute({"X", "diagIdx", "no"}, {"dvh", "sigE", "f"}), {"T"}) \o
  Compute({"T", "skinnyIdx", "f"}, {"B0", "f", "staging"})

DetectConst ==
  LET filled(names) ==
        Compute({}, names) \o PipeAll \o Write(names) \o PipeAll
  IN  filled({"Id", "Mblk", "Mpk"}) \o filled({"I"}) \o Write({"diagIdx"}) \o PipeAll \o
      Write({"skinnyIdx"}) \o Compute({}, {"rhsIdx"}) \o Write({"rhsIdx"}) \o
      Compute({}, {"B0"}) \o PipeAll \o
      Write({"matchIdx"}) \o Compute({}, {"Gm"}) \o PipeAll \o
      filled({"IdS"}) \o filled({"Mblk1"})

\* Every window: its groups, and the output of a batch after its last group.
GroupsOf(groups, ring, batch, group, output) ==
  Loop(2, LAMBDA t : LoadRE(ring, t)) \o PipeAll \o
  Loop(groups, LAMBDA g :
    When(g > 0 /\ g + 1 < groups, LoadRE(ring, (g - 1) % 2)) \o group[g] \o
    When((g + 1) % batch = 0, output))

MimoDetectBri(packed, windows, groups, batch, neumann, iterations) ==
  LET group == [g \in 0..(groups - 1) |->
        When(g % batch = 0, Load({"no"})) \o
        Gram("h", g % 2, << >>, {"A"}) \o MatchFilterG(g % 2) \o Read({"no"}) \o
        Compute({"A", IF packed THEN "IdS" ELSE "I"}, {"A", "xt", "GA"}) \o
        When(packed, Compute({"GA", "Mpk"}, {"GA"})) \o
        BlockInvG(neumann) \o BriG(iterations) \o DetectG]
      output ==
        Compute({"staging"}, {"Mb", "E"}) \o PipeAll \o Store({"Mb"}) \o Store({"E"}) \o PipeAll
  IN  DetectConst \o
      Loop(windows, LAMBDA w : GroupsOf(groups, <<"h", "y">>, batch, group, output))

-----------------------------------------------------------------------------
\* precode_zf: the same inverse, then symbols through it, one matrix per element.
PrecodeConst(packed) ==
  Compute({}, {"Id", "Mblk"}) \o PipeAll \o Write({"Id", "Mblk"}) \o PipeAll \o
  Compute({}, {"Mpack"}) \o Write({"Mpack"}) \o
  When(~packed, Compute({}, {"u"})) \o PipeAll \o
  Compute({}, {"t12"}) \o PipeAll \o
  Write({"diagIdx"}) \o PipeAll \o Write({"rowIdx"}) \o PipeAll \o Write({"outIdx"}) \o PipeAll

PrecodeG(packed, slot) ==
  LET spread ==
        Compute({"u", "Mpack"}, {"UT"}) \o ToL1(<<"UT", "UT">>, <<"l1br", "l1bi">>) \o
        LoadL0({Part("w", slot)}, {"a2"}) \o LoadL0({"l1br", "l1bi"}, {"b2"}) \o
        Sync(MTE1_M, 1) \o Mmad({"a2", "b2"}, {"co"}) \o Sync(M_MTE1, 1) \o
        Flush({"UR", "ta"}) \o Compute({"ta", "UR", "outIdx"}, {"UR", "Xa"})
      reduced ==
        Compute({"wU", "UR"}, {"ta", "tb", "tmp"}) \o Compute({"tmp"}, {"Xa"}) \o PipeAll
  IN  Compute({"X", "diagIdx"}, {"dvh", "rs"}) \o Load({"s"}) \o Load({"s"}) \o PipeAll \o
      Compute({"s", "rs"}, {"s", "t12"}) \o PipeAll \o Compute({"t12"}, {"UT", "tmp"}) \o
      SkinnyProduct("UT", << >>, {"T"}) \o Compute({"T", "rowIdx"}, {"u"}) \o
      IF packed THEN Compute({"u"}, {"dcol", "dcolT", "UR"}) \o PipeAll \o reduced \o reduced
      ELSE spread

\* The inverse as this kernel writes it out again.
ZfBlockInvG(neumann) == BlockInvG(neumann)
ZfBriG(iterations)   == BriG(iterations)

PrecodeOutput ==
  Compute({"Xa"}, {"Xtmp", "Xt"}) \o PipeAll \o Store({"Xt"}) \o PipeAll

PrecodeZf(packed, windows, groups, batch, neumann, iterations) ==
  LET group == [g \in 0..(groups - 1) |->
        Gram("w", g % 2, When(packed, Load({"wU"})), {"GA"}) \o
        When(packed, Compute({"GA", "Mpack"}, {"GA"})) \o Compute({"GA", "Id"}, {"GA", "A"}) \o
        ZfBlockInvG(neumann) \o ZfBriG(iterations) \o PrecodeG(packed, g % 2)]
  IN  PrecodeConst(packed) \o
      Loop(windows, LAMBDA w : GroupsOf(groups, <<"w">>, batch, group, PrecodeOutput))
=============================================================================
