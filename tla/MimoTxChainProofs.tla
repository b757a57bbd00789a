--------------------------- MODULE MimoTxChainProofs ---------------------------
(***************************************************************************)
(* Proofs about MimoTxChain for any number of slots, with and without a      *)
(* runtime profile and a receipt.                                           *)
(*                                                                         *)
(* The stream only ever holds operations of the slot the host is at, and    *)
(* they are a gapless tail of the ones queued: everything before the oldest *)
(* queued operation has been executed.  So each buffer an operation reads   *)
(* was written in the same slot, or, by the first three operations, once    *)
(* for all slots.                                                           *)
(***************************************************************************)
EXTENDS MimoTxChain, SequenceTheorems, TLAPS

\* The operations a run queues.
Ops == {n \in 1..LastOfSlot : Profile \/ n # AntennaMap}

\* The oldest operation not executed yet.
Oldest == IF stream = << >> THEN k ELSE Head(stream).op

Element(i) ==
  /\ stream[i].slot = slot
  /\ stream[i].op \in Ops
  /\ stream[i].op < k
  /\ slot > 0 => stream[i].op >= FirstOfSlot

\* What is queued belongs to the current slot and is queued without a gap.
StreamInv ==
  /\ \A i \in 1..Len(stream) : Element(i)
  /\ \A i \in 1..(Len(stream) - 1) : stream[i + 1].op = NextOp(stream[i].op)
  /\ stream # << >> => NextOp(stream[Len(stream)].op) = k

\* Where the host is.
HostInv ==
  /\ k \in Ops \union {LastOfSlot + 1}
  /\ slot > 0 => k >= FirstOfSlot
  /\ k > DmrsEnqueue => pinned = slot
  /\ phase \in {"download", "write", "receipt", "done"} =>
       stream = << >> /\ slot = NumSlots - 1 /\ k = LastOfSlot + 1

\* What an executed operation leaves in its buffer.
Content(n, s) ==
  IF n < FirstOfSlot THEN {<<"info", 0>>} ELSE Of(Carries(Program[n].out), s)

\* Every executed operation has left what it should in its buffer.
BufInv ==
  \A n \in Ops : n < Oldest /\ n # LastOfSlot => buf[Program[n].out] = Content(n, slot)

\* The slots finished so far are modulated, the others untouched.
IqInv ==
  iq = [s \in Slots |->
         IF s < slot \/ (s = slot /\ Oldest > LastOfSlot) THEN Expected(s) ELSE {}]

\* The receipt is written last, after the waveform.
FilesInv ==
  /\ phase \in {"write", "receipt", "done"} => hostIq = iq
  /\ phase = "receipt" => outFile = "written"
  /\ receipt = "PASS" => phase = "done" /\ outFile = "written"

IInv == TypeOK /\ StreamInv /\ HostInv /\ BufInv /\ IqInv /\ FilesInv

-----------------------------------------------------------------------------
\* Reading a tuple, and reading a program made of three parts.
LEMMA FiveOps ==
  ASSUME NEW S, NEW q, q = << q[1], q[2], q[3], q[4], q[5] >>,
         q[1] \in S, q[2] \in S, q[3] \in S, q[4] \in S, q[5] \in S
  PROVE  q \in Seq(S) /\ Len(q) = 5
<1>1. ASSUME NEW a \in S, NEW b \in S, NEW c \in S, NEW d \in S, NEW e \in S
      PROVE  << a, b, c, d, e >> \in Seq(S) /\ Len(<< a, b, c, d, e >>) = 5
  OBVIOUS
<1>2. /\ << q[1], q[2], q[3], q[4], q[5] >> \in Seq(S)
      /\ Len(<< q[1], q[2], q[3], q[4], q[5] >>) = 5
  BY <1>1, Zenon
<1>3. QED
  BY <1>2, Zenon

LEMMA Joined ==
  ASSUME NEW S, NEW r \in Seq(S), NEW s \in Seq(S)
  PROVE  /\ (r \o s) \in Seq(S) /\ Len(r \o s) = Len(r) + Len(s)
         /\ \A j \in 1..Len(r) : (r \o s)[j] = r[j]
         /\ \A j \in 1..Len(s) : (r \o s)[j + Len(r)] = s[j]
<1>1. /\ (r \o s) \in Seq(S) /\ Len(r \o s) = Len(r) + Len(s)
      /\ \A j \in 1..(Len(r) + Len(s)) : (r \o s)[j] = IF j <= Len(r) THEN r[j] ELSE s[j - Len(r)]
  BY ConcatProperties, Zenon
<1>2. Len(r) \in Nat /\ Len(s) \in Nat
  BY LenProperties
<1>3. ASSUME NEW j \in 1..Len(s) PROVE (r \o s)[j + Len(r)] = s[j]
  <2>1. j + Len(r) \in 1..(Len(r) + Len(s)) /\ ~(j + Len(r) <= Len(r)) /\ j + Len(r) - Len(r) = j
    BY <1>2
  <2>2. QED BY <1>1, <2>1
<1>4. QED
  BY <1>1, <1>2, <1>3

\* The operations by number.
LEMMA ProgramText ==
  /\ Program[1] = Op({"info"}, "encoded")
  /\ Program[2] = Op({"encoded"}, "bits_nr")
  /\ Program[3] = Op({"bits_nr"}, "bits_qam")
  /\ Program[4] = Op({"bits_qam"}, "qam")
  /\ Program[5] = Op({"qam"}, "layer")
  /\ Program[6] = Op({"cinit_host"}, "cinit_device")
  /\ Program[7] = Op({"metadata_host"}, "metadata_device")
  /\ Program[8] = Op({"cinit_device", "metadata_device"}, "physical")
  /\ Program[9] = Op({"physical"}, "dmrs_re")
  /\ Program[10] = Op({"physical"}, "dmrs_im")
  /\ Program[11] = Op({"layer", "dmrs_re", "dmrs_im"}, "layer_grid")
  /\ Program[12] = Op({"layer_grid"}, "port_grid")
  /\ Program[13] = Op({"port_grid"}, "antenna_grid")
  /\ Program[14] = Op({AirGrid}, "fft_grid")
  /\ Program[15] = Op({"fft_grid"}, "iq")
<1> DEFINE S == {q[i] : q \in {LayerOps, DmrsOps, GridOps}, i \in 1..5}
<1>1. \A q \in {LayerOps, DmrsOps, GridOps} :
        q[1] \in S /\ q[2] \in S /\ q[3] \in S /\ q[4] \in S /\ q[5] \in S
  OBVIOUS
<1> HIDE DEF S
<1>2. LayerOps \in Seq(S) /\ Len(LayerOps) = 5
  <2>1. LayerOps = << LayerOps[1], LayerOps[2], LayerOps[3], LayerOps[4], LayerOps[5] >>
    BY DEF LayerOps
  <2>2. QED BY <1>1, <2>1, FiveOps
<1>3. DmrsOps \in Seq(S) /\ Len(DmrsOps) = 5
  <2>1. DmrsOps = << DmrsOps[1], DmrsOps[2], DmrsOps[3], DmrsOps[4], DmrsOps[5] >>
    BY DEF DmrsOps
  <2>2. QED BY <1>1, <2>1, FiveOps
<1>4. GridOps \in Seq(S) /\ Len(GridOps) = 5
  <2>1. GridOps = << GridOps[1], GridOps[2], GridOps[3], GridOps[4], GridOps[5] >>
    BY DEF GridOps
  <2>2. QED BY <1>1, <2>1, FiveOps
<1>5. \A i \in 1..5 : Program[i] = LayerOps[i] /\ Program[i + 5] = DmrsOps[i] /\ Program[i + 10] = GridOps[i]
  <2> DEFINE front == LayerOps \o DmrsOps
  <2>1. /\ front \in Seq(S) /\ Len(front) = Len(LayerOps) + Len(DmrsOps)
        /\ \A j \in 1..Len(LayerOps) : front[j] = LayerOps[j]
        /\ \A j \in 1..Len(DmrsOps) : front[j + Len(LayerOps)] = DmrsOps[j]
    <3>1. LayerOps \in Seq(S) /\ DmrsOps \in Seq(S)
      BY <1>2, <1>3
    <3>2. QED BY <3>1, Joined
  <2> HIDE DEF front
  <2>2. Program = front \o GridOps
    BY DEF front, Program
  <2>3. /\ \A j \in 1..Len(front) : Program[j] = front[j]
        /\ \A j \in 1..Len(GridOps) : Program[j + Len(front)] = GridOps[j]
    <3>0. front \in Seq(S) /\ GridOps \in Seq(S)
      BY <1>4, <2>1
    <3>1. /\ \A j \in 1..Len(front) : (front \o GridOps)[j] = front[j]
          /\ \A j \in 1..Len(GridOps) : (front \o GridOps)[j + Len(front)] = GridOps[j]
      BY <3>0, Joined
    <3>2. QED BY <3>1, <2>2, Zenon
  <2>4. QED
    BY <1>2, <1>3, <1>4, <2>1, <2>3
<1>6. /\ Program[1] = LayerOps[1] /\ Program[2] = LayerOps[2] /\ Program[3] = LayerOps[3]
      /\ Program[4] = LayerOps[4] /\ Program[5] = LayerOps[5]
      /\ Program[1 + 5] = DmrsOps[1] /\ Program[2 + 5] = DmrsOps[2] /\ Program[3 + 5] = DmrsOps[3]
      /\ Program[4 + 5] = DmrsOps[4] /\ Program[5 + 5] = DmrsOps[5]
      /\ Program[1 + 10] = GridOps[1] /\ Program[2 + 10] = GridOps[2] /\ Program[3 + 10] = GridOps[3]
      /\ Program[4 + 10] = GridOps[4] /\ Program[5 + 10] = GridOps[5]
  BY <1>5
<1>7. QED
  BY <1>6 DEF LayerOps, DmrsOps, GridOps

\* Every operation has a buffer of its own.
LEMMA OutsDistinct ==
  ASSUME NEW m \in 1..LastOfSlot, NEW n \in 1..LastOfSlot, Program[m].out = Program[n].out
  PROVE  m = n
<1> DEFINE Number(b) ==
      CASE b = "encoded" -> 1 [] b = "bits_nr" -> 2 [] b = "bits_qam" -> 3
        [] b = "qam" -> 4 [] b = "layer" -> 5 [] b = "cinit_device" -> 6
        [] b = "metadata_device" -> 7 [] b = "physical" -> 8 [] b = "dmrs_re" -> 9
        [] b = "dmrs_im" -> 10 [] b = "layer_grid" -> 11 [] b = "port_grid" -> 12
        [] b = "antenna_grid" -> 13 [] b = "fft_grid" -> 14 [] b = "iq" -> 15
<1>1. \A i \in 1..LastOfSlot : Number(Program[i].out) = i
  BY ProgramText DEF LastOfSlot, Op
<1> HIDE DEF Number
<1>2. QED
  BY <1>1

LEMMA OutsAreBuffers ==
  /\ \A n \in 1..LastOfSlot : n # LastOfSlot => Program[n].out \in Buffers /\ Program[n].out # "iq"
  /\ Program[LastOfSlot].out = "iq"
<1>1. Program[LastOfSlot].out = "iq" /\ LastOfSlot \in 1..LastOfSlot
  BY ProgramText DEF LastOfSlot, Op
<1>2. \A n \in 1..LastOfSlot : Program[n].out = "iq" => n = LastOfSlot
  BY <1>1, OutsDistinct
<1>3. QED
  BY <1>1, <1>2 DEF Buffers

\* Going on to the next operation skips none that a run queues.
LEMMA NextOpFacts ==
  ASSUME NEW n \in Ops
  PROVE  /\ NextOp(n) \in Ops \union {LastOfSlot + 1} /\ NextOp(n) \in Nat
         /\ n < NextOp(n)
         /\ \A m \in Ops : m < NextOp(n) <=> m <= n
BY OptionAssumption DEF Ops, NextOp, AntennaMap, LastOfSlot

\* The oldest queued operation.
LEMMA HeadFacts ==
  ASSUME IInv, stream # << >>
  PROVE  /\ Len(stream) \in Nat \ {0} /\ Head(stream) = stream[1]
         /\ Head(stream).slot = slot /\ Head(stream).op \in Ops
         /\ Head(stream).op < k /\ Oldest = Head(stream).op
         /\ slot > 0 => Head(stream).op >= FirstOfSlot
<1>1. stream \in Seq([slot : Slots, op : 1..LastOfSlot])
  BY DEF IInv, TypeOK
<1>2. Len(stream) \in Nat \ {0} /\ Head(stream) = stream[1]
  BY <1>1
<1>3. Element(1)
  BY <1>2 DEF IInv, StreamInv
<1>4. QED
  BY <1>2, <1>3 DEF Element, Oldest

\* Executing it makes the one queued after it the oldest.
LEMMA TailFacts ==
  ASSUME IInv, Execute
  PROVE  StreamInv' /\ Oldest' = NextOp(Oldest)
<1>1. /\ stream \in Seq([slot : Slots, op : 1..LastOfSlot]) /\ stream # << >>
      /\ stream' = Tail(stream) /\ slot' = slot /\ k' = k
  BY DEF IInv, TypeOK, Execute, host
<1>2. /\ Len(stream) \in Nat \ {0} /\ Len(stream') = Len(stream) - 1
      /\ \A i \in 1..Len(stream') : stream'[i] = stream[i + 1] /\ i + 1 \in 1..Len(stream)
  BY <1>1
<1>3. \A i \in 1..Len(stream') : Element(i)'
  BY <1>1, <1>2 DEF IInv, StreamInv, Element
<1>4. ASSUME NEW i \in 1..(Len(stream') - 1)
      PROVE  stream'[i + 1].op = NextOp(stream'[i].op)
  <2>1. i \in 1..Len(stream') /\ i + 1 \in 1..Len(stream') /\ i + 1 \in 1..(Len(stream) - 1)
    BY <1>2
  <2>2. QED BY <1>2, <2>1 DEF IInv, StreamInv
<1>5. CASE Len(stream) = 1
  <2>1. stream' = << >> /\ Len(stream') = 0
    BY <1>1, <1>2, <1>5
  <2>2. NextOp(stream[1].op) = k
    BY <1>1, <1>5 DEF IInv, StreamInv
  <2>3. QED BY <1>1, <1>3, <1>4, <2>1, <2>2, HeadFacts DEF StreamInv, Oldest
<1>6. CASE Len(stream) # 1
  <2>1. /\ stream' # << >> /\ Len(stream') \in 1..Len(stream')
        /\ Head(stream') = stream'[1] /\ 1 \in 1..Len(stream') /\ 1 \in 1..(Len(stream) - 1)
    <3>1. Len(stream') \in Nat \ {0} /\ Len(stream') = Len(stream) - 1
      BY <1>2, <1>6
    <3>2. stream' # << >>
      BY <3>1
    <3>3. Head(stream') = stream'[1]
      BY <1>1, <3>2
    <3>4. QED BY <3>1, <3>2, <3>3
  <2>2. stream'[Len(stream')] = stream[Len(stream)]
    BY <1>2, <2>1
  <2>3. stream'[1].op = NextOp(stream[1].op)
    BY <1>2, <2>1 DEF IInv, StreamInv
  <2>4. NextOp(stream'[Len(stream')].op) = k'
    BY <1>1, <2>2 DEF IInv, StreamInv
  <2>5. QED BY <1>1, <1>3, <1>4, <2>1, <2>3, <2>4, HeadFacts DEF StreamInv, Oldest
<1>7. QED
  BY <1>5, <1>6

\* What an operation reads has been written in its slot, or once for all slots:
\* it computes what its buffer should hold.
LEMMA HeadComputes ==
  ASSUME IInv, stream # << >>
  PROVE  LET n == Head(stream).op
         IN UNION {Found(b, slot) : b \in Program[n].in} = Content(n, slot)
<1> DEFINE n == Head(stream).op
<1> SUFFICES UNION {Found(b, slot) : b \in Program[n].in} = Content(n, slot)
  OBVIOUS
<1>1. n \in Ops /\ Oldest = n /\ n < k /\ n \in 1..15 /\ (Profile \/ n # 13)
  BY HeadFacts DEF Ops, LastOfSlot, AntennaMap
<1>2. n >= 6 => pinned = slot
  BY <1>1 DEF IInv, TypeOK, HostInv, DmrsEnqueue, LastOfSlot
<1>3. ASSUME NEW m \in 1..14, m < n, Profile \/ m # 13
      PROVE  buf[Program[m].out] = Content(m, slot)
  BY <1>1, <1>3 DEF IInv, BufInv, Ops, LastOfSlot, AntennaMap
<1> HIDE DEF n
<1>4. CASE n \in 1..3
  <2>1. CASE n = 1
    <3>1. Program[n].in = {"info"} /\ Found("info", slot) = {<<"info", 0>>}
      BY <2>1, ProgramText DEF Op, Found
    <3>2. QED BY <3>1, <2>1 DEF Content, FirstOfSlot
  <2>2. CASE n = 2
    <3>1. Program[n].in = {"encoded"} /\ Found("encoded", slot) = buf["encoded"]
      BY <2>2, ProgramText DEF Op, Found
    <3>2. buf["encoded"] = {<<"info", 0>>}
      BY <1>3, <2>2, ProgramText DEF Op, Content, FirstOfSlot
    <3>3. QED BY <3>1, <3>2, <2>2 DEF Content, FirstOfSlot
  <2>3. CASE n = 3
    <3>1. Program[n].in = {"bits_nr"} /\ Found("bits_nr", slot) = buf["bits_nr"]
      BY <2>3, ProgramText DEF Op, Found
    <3>2. buf["bits_nr"] = {<<"info", 0>>}
      BY <1>3, <2>3, ProgramText DEF Op, Content, FirstOfSlot
    <3>3. QED BY <3>1, <3>2, <2>3 DEF Content, FirstOfSlot
  <2>4. QED BY <1>4, <2>1, <2>2, <2>3
<1>5. CASE n = 4
  <2>1. Program[n].in = {"bits_qam"} /\ Program[n].out = "qam"
    BY <1>5, ProgramText DEF Op
  <2>2. buf["bits_qam"] = {<<"info", 0>>}
    BY <1>3, <1>5, ProgramText DEF Op, Content, FirstOfSlot
  <2>3. Found("bits_qam", slot) = {<<"bits", slot>>}
    BY <2>2 DEF Found
  <2>4. Content(n, slot) = {<<"bits", slot>>}
    BY <1>5, <2>1 DEF Content, FirstOfSlot, Carries, Of
  <2>5. QED BY <2>1, <2>3, <2>4
<1>6. CASE n = 5
  <2>1. Program[n].in = {"qam"} /\ Program[n].out = "layer" /\ Program[4].out = "qam"
    BY <1>6, ProgramText DEF Op
  <2>2. Found("qam", slot) = Content(4, slot)
    BY <1>3, <1>6, <2>1 DEF Found
  <2>3. Content(n, slot) = Content(4, slot)
    BY <1>6, <2>1 DEF Content, FirstOfSlot, Carries
  <2>4. QED BY <2>1, <2>2, <2>3
<1>7. CASE n = 6
  <2>1. Program[n].in = {"cinit_host"} /\ Program[n].out = "cinit_device"
    BY <1>7, ProgramText DEF Op
  <2>2. Found("cinit_host", slot) = {<<"cinit", slot>>}
    BY <1>2, <1>7 DEF Found
  <2>3. Content(n, slot) = {<<"cinit", slot>>}
    BY <1>7, <2>1 DEF Content, FirstOfSlot, Carries, Of
  <2>4. QED BY <2>1, <2>2, <2>3
<1>8. CASE n = 7
  <2>1. Program[n].in = {"metadata_host"} /\ Program[n].out = "metadata_device"
    BY <1>8, ProgramText DEF Op
  <2>2. Found("metadata_host", slot) = {<<"metadata", slot>>}
    BY <1>2, <1>8 DEF Found
  <2>3. Content(n, slot) = {<<"metadata", slot>>}
    BY <1>8, <2>1 DEF Content, FirstOfSlot, Carries, Of
  <2>4. QED BY <2>1, <2>2, <2>3
<1>9. CASE n = 8
  <2>1. Program[n].in = {"cinit_device", "metadata_device"} /\ Program[n].out = "physical"
        /\ Program[6].out = "cinit_device" /\ Program[7].out = "metadata_device"
    BY <1>9, ProgramText DEF Op
  <2>2. Found("cinit_device", slot) = Content(6, slot) /\ Found("metadata_device", slot) = Content(7, slot)
    BY <1>3, <1>9, <2>1 DEF Found
  <2>3. Content(n, slot) = Content(6, slot) \union Content(7, slot)
    BY <1>9, <2>1 DEF Content, FirstOfSlot, Carries, Of
  <2>4. QED BY <2>1, <2>2, <2>3
<1>10. CASE n \in {9, 10}
  <2>1. Program[n].in = {"physical"} /\ Program[n].out \in {"dmrs_re", "dmrs_im"}
        /\ Program[8].out = "physical"
    BY <1>10, ProgramText DEF Op
  <2>2. Found("physical", slot) = Content(8, slot)
    BY <1>3, <1>10, <2>1 DEF Found
  <2>3. Content(n, slot) = Content(8, slot)
    BY <1>10, <2>1 DEF Content, FirstOfSlot, Carries
  <2>4. QED BY <2>1, <2>2, <2>3
<1>11. CASE n = 11
  <2>1. Program[n].in = {"layer", "dmrs_re", "dmrs_im"} /\ Program[n].out = "layer_grid"
        /\ Program[5].out = "layer" /\ Program[9].out = "dmrs_re" /\ Program[10].out = "dmrs_im"
    BY <1>11, ProgramText DEF Op
  <2>2. Found("layer", slot) = Content(5, slot) /\ Found("dmrs_re", slot) = Content(9, slot)
        /\ Found("dmrs_im", slot) = Content(10, slot)
    BY <1>3, <1>11, <2>1 DEF Found
  <2>3. Content(n, slot) = Content(5, slot) \union Content(9, slot) \union Content(10, slot)
    BY <1>11, <2>1 DEF Content, FirstOfSlot, Carries, Of
  <2>4. QED BY <2>1, <2>2, <2>3
<1>12. CASE n \in 12..15
  <2> DEFINE from == IF n = 14 /\ ~Profile THEN 12 ELSE n - 1
  <2>1. Program[n].in = {Program[from].out} /\ from \in 11..14 /\ from < n
        /\ (Profile \/ from # 13)
    BY <1>1, <1>12, ProgramText DEF Op, AirGrid
  <2>2. Program[n].out \in {"port_grid", "antenna_grid", "fft_grid", "iq"}
        /\ Program[from].out \in {"layer_grid", "port_grid", "antenna_grid", "fft_grid"}
    BY <1>12, <2>1, ProgramText DEF Op
  <2> HIDE DEF from
  <2>3. Found(Program[from].out, slot) = Content(from, slot)
    BY <1>3, <2>1, <2>2 DEF Found
  <2>4. Content(n, slot) = Content(from, slot)
    BY <1>12, <2>1, <2>2 DEF Content, FirstOfSlot, Carries
  <2>5. QED BY <2>1, <2>3, <2>4
<1>13. QED
  BY <1>1, <1>4, <1>5, <1>6, <1>7, <1>8, <1>9, <1>10, <1>11, <1>12

-----------------------------------------------------------------------------
LEMMA InitIInv == Init => IInv
<1> SUFFICES ASSUME Init PROVE IInv
  OBVIOUS
<1>1. /\ phase = "queue" /\ slot = 0 /\ k = 1 /\ stream = << >> /\ pinned = -1
      /\ buf = [b \in Buffers |-> {}] /\ iq = Blank /\ hostIq = Blank
      /\ outFile = "previous" /\ receipt = "previous"
  BY DEF Init
<1>2. 0 \in Slots
  BY SlotsAssumption DEF Slots
<1>3. TypeOK
  BY <1>1, <1>2 DEF TypeOK, LastOfSlot, Blank
<1>4. StreamInv
  <2>1. Len(stream) = 0
    BY <1>1
  <2>2. QED BY <1>1, <2>1 DEF StreamInv
<1>5. HostInv
  BY <1>1 DEF HostInv, Ops, LastOfSlot, AntennaMap, DmrsEnqueue
<1>6. Oldest = 1
  BY <1>1 DEF Oldest
<1>7. BufInv /\ IqInv /\ FilesInv
  BY <1>1, <1>6 DEF BufInv, IqInv, FilesInv, Ops, LastOfSlot, Blank, Slots
<1>8. QED
  BY <1>3, <1>4, <1>5, <1>7 DEF IInv

\* Queueing an operation executes none.
LEMMA QueueOpStep == ASSUME IInv, QueueOp PROVE IInv'
<1>1. /\ phase = "queue" /\ k <= LastOfSlot /\ slot' = slot /\ phase' = phase /\ buf' = buf /\ iq' = iq
      /\ stream' = Append(stream, [slot |-> slot, op |-> k]) /\ k' = NextOp(k)
      /\ pinned' = (IF k = DmrsEnqueue THEN slot ELSE pinned)
      /\ hostIq' = hostIq /\ outFile' = outFile /\ receipt' = receipt
  BY DEF QueueOp, files
<1>2. /\ k \in Ops /\ k \in 1..LastOfSlot /\ slot \in Slots /\ slot \in Nat
  BY <1>1 DEF IInv, TypeOK, HostInv, LastOfSlot, Ops, Slots
<1>3. k' \in Ops \union {LastOfSlot + 1} /\ k < k' /\ k' \in Nat /\ \A m \in Ops : m < k' <=> m <= k
  BY <1>1, <1>2, NextOpFacts
<1>4. /\ stream \in Seq([slot : Slots, op : 1..LastOfSlot])
      /\ [slot |-> slot, op |-> k] \in [slot : Slots, op : 1..LastOfSlot]
  BY <1>2 DEF IInv, TypeOK
<1>5. /\ stream' \in Seq([slot : Slots, op : 1..LastOfSlot])
      /\ Len(stream) \in Nat /\ Len(stream') = Len(stream) + 1
      /\ \A i \in 1..Len(stream) : stream'[i] = stream[i]
      /\ stream'[Len(stream) + 1] = [slot |-> slot, op |-> k]
      /\ stream' # << >>
  BY <1>1, <1>4
<1>6. TypeOK'
  BY <1>1, <1>2, <1>3, <1>5 DEF IInv, TypeOK, Ops, LastOfSlot
<1>7. \A i \in 1..Len(stream') : Element(i)'
  <2>1. ASSUME NEW i \in 1..Len(stream) PROVE Element(i)'
    BY <1>1, <1>2, <1>3, <1>5 DEF IInv, StreamInv, Element, Ops
  <2>2. ASSUME NEW i \in 1..Len(stream'), i = Len(stream) + 1 PROVE Element(i)'
    BY <2>2, <1>1, <1>2, <1>3, <1>5 DEF IInv, HostInv, Element
  <2>3. QED BY <1>5, <2>1, <2>2
<1>8. ASSUME NEW i \in 1..(Len(stream') - 1)
      PROVE  stream'[i + 1].op = NextOp(stream'[i].op)
  <2>1. CASE i = Len(stream)
    BY <1>5, <1>8, <2>1 DEF IInv, StreamInv
  <2>2. CASE i # Len(stream)
    <3>1. i \in 1..(Len(stream) - 1) /\ i \in 1..Len(stream) /\ i + 1 \in 1..Len(stream)
      BY <1>5, <2>2
    <3>2. QED BY <3>1, <1>5 DEF IInv, StreamInv
  <2>3. QED BY <2>1, <2>2
<1>9. StreamInv'
  BY <1>1, <1>5, <1>7, <1>8 DEF StreamInv
<1>10. HostInv'
  <2>1. k' > DmrsEnqueue => pinned' = slot'
    <3>1. DmrsEnqueue \in Ops /\ DmrsEnqueue \in Nat
      BY DEF DmrsEnqueue, Ops, LastOfSlot, AntennaMap
    <3>2. k' > DmrsEnqueue => k = DmrsEnqueue \/ k > DmrsEnqueue
      BY <3>1, <1>2, <1>3
    <3>3. QED BY <3>2, <1>1 DEF IInv, HostInv
  <2>2. slot' > 0 => k' >= FirstOfSlot
    BY <1>1, <1>2, <1>3 DEF IInv, HostInv, FirstOfSlot
  <2>3. QED BY <2>1, <2>2, <1>1, <1>3 DEF HostInv, Ops
<1>11. Oldest' = Oldest
  <2>1. Head(stream') = stream'[1]
    BY <1>5
  <2>2. CASE stream = << >>
    <3>1. Len(stream) = 0
      BY <2>2
    <3>2. QED BY <2>1, <2>2, <3>1, <1>5 DEF Oldest
  <2>3. CASE stream # << >>
    <3>1. 1 \in 1..Len(stream) /\ Head(stream) = stream[1]
      BY <2>3, HeadFacts
    <3>2. QED BY <2>1, <2>3, <3>1, <1>5 DEF Oldest
  <2>4. QED BY <2>2, <2>3
<1>12. BufInv' /\ IqInv' /\ FilesInv'
  BY <1>1, <1>11 DEF IInv, BufInv, IqInv, FilesInv
<1>13. QED
  BY <1>6, <1>9, <1>10, <1>12 DEF IInv

\* A refused operation stops the host; what is queued is still executed.
LEMMA QueueFailsStep == ASSUME IInv, QueueFails PROVE IInv'
<1>1. /\ phase = "queue" /\ phase' = "failed" /\ slot' = slot /\ k' = k /\ stream' = stream
      /\ buf' = buf /\ iq' = iq /\ hostIq' = hostIq /\ outFile' = outFile /\ receipt' = receipt
      /\ pinned' \in (IF k = DmrsEnqueue THEN {pinned, slot} ELSE {pinned})
  BY DEF QueueFails, files
<1>2. TypeOK'
  BY <1>1 DEF IInv, TypeOK
<1>3. HostInv'
  BY <1>1 DEF IInv, HostInv, TypeOK, DmrsEnqueue, LastOfSlot
<1>4. StreamInv' /\ Oldest' = Oldest
  BY <1>1 DEF IInv, StreamInv, Element, Oldest
<1>5. BufInv' /\ IqInv' /\ FilesInv'
  BY <1>1, <1>4 DEF IInv, BufInv, IqInv, FilesInv
<1>6. QED
  BY <1>2, <1>3, <1>4, <1>5 DEF IInv

\* The synchronisation: the slot is complete, and the next one starts with its
\* own operations while the transport block stays in place.
LEMMA SlotBoundaryStep == ASSUME IInv, SlotBoundary PROVE IInv'
<1>1. /\ phase = "queue" /\ k > LastOfSlot /\ stream = << >> /\ stream' = stream /\ pinned' = pinned
      /\ buf' = buf /\ iq' = iq /\ hostIq' = hostIq /\ outFile' = outFile /\ receipt' = receipt
  BY DEF SlotBoundary, files
<1>2. slot \in Slots /\ slot \in Nat /\ slot < NumSlots /\ k = LastOfSlot + 1 /\ Oldest = LastOfSlot + 1
  BY <1>1, SlotsAssumption DEF IInv, TypeOK, Slots, LastOfSlot, Oldest
<1>3. Len(stream') = 0 /\ stream' = << >>
  BY <1>1
<1>4. StreamInv'
  BY <1>3 DEF StreamInv
<1>5. CASE slot + 1 < NumSlots
  <2>1. slot' = slot + 1 /\ k' = FirstOfSlot /\ phase' = phase /\ slot' \in Slots
    BY <1>2, <1>5, SlotsAssumption DEF SlotBoundary, Slots
  <2>2. TypeOK'
    BY <1>1, <2>1 DEF IInv, TypeOK, FirstOfSlot, LastOfSlot
  <2>3. HostInv'
    BY <1>1, <2>1 DEF HostInv, Ops, FirstOfSlot, LastOfSlot, AntennaMap, DmrsEnqueue
  <2>4. Oldest' = FirstOfSlot
    BY <1>3, <2>1 DEF Oldest
  <2>5. BufInv'
    BY <1>1, <1>2, <2>4 DEF IInv, BufInv, Content, FirstOfSlot, LastOfSlot, Ops
  <2>6. IqInv'
    <3>1. \A s \in Slots : (s < slot \/ (s = slot /\ Oldest > LastOfSlot))
                           <=> (s < slot' \/ (s = slot' /\ Oldest' > LastOfSlot))
      BY <1>2, <2>1, <2>4 DEF FirstOfSlot, LastOfSlot, Slots
    <3>2. QED BY <1>1, <3>1 DEF IInv, IqInv
  <2>7. FilesInv'
    BY <1>1, <2>1 DEF IInv, FilesInv
  <2>8. QED BY <1>4, <2>2, <2>3, <2>5, <2>6, <2>7 DEF IInv
<1>6. CASE ~(slot + 1 < NumSlots)
  <2>1. phase' = "download" /\ slot' = slot /\ k' = k /\ slot = NumSlots - 1
    BY <1>2, <1>6, SlotsAssumption DEF SlotBoundary
  <2>2. TypeOK'
    BY <1>1, <2>1 DEF IInv, TypeOK
  <2>3. HostInv' /\ Oldest' = Oldest
    BY <1>1, <1>2, <2>1 DEF IInv, HostInv, Oldest
  <2>4. BufInv' /\ IqInv' /\ FilesInv'
    BY <1>1, <2>1, <2>3 DEF IInv, BufInv, IqInv, FilesInv
  <2>5. QED BY <1>4, <2>2, <2>3, <2>4 DEF IInv
<1>7. QED
  BY <1>5, <1>6

\* The operation at the front writes what its buffer should hold; the buffers of
\* the operations before it keep theirs.
LEMMA ExecuteStep == ASSUME IInv, Execute PROVE IInv'
<1> DEFINE n == Head(stream).op
           value == UNION {Found(b, slot) : b \in Program[n].in}
<1>1. /\ stream # << >> /\ stream' = Tail(stream)
      /\ phase' = phase /\ slot' = slot /\ k' = k /\ pinned' = pinned
      /\ hostIq' = hostIq /\ outFile' = outFile /\ receipt' = receipt
  BY DEF Execute, host, files
<1>2. n \in Ops /\ Oldest = n /\ n < k /\ Head(stream).slot = slot /\ n \in 1..LastOfSlot
  BY <1>1, HeadFacts DEF Ops
<1>3. slot \in Slots /\ slot \in Nat
  BY DEF IInv, TypeOK, Slots
<1>4. StreamInv' /\ Oldest' = NextOp(n)
  BY <1>2, TailFacts
<1>5. NextOp(n) \in Nat /\ n < NextOp(n) /\ \A m \in Ops : m < NextOp(n) <=> m <= n
  BY <1>2, NextOpFacts
<1>6. value = Content(n, slot)
  BY <1>1, HeadComputes
<1>7. IF Program[n].out = "iq"
      THEN iq' = [iq EXCEPT ![slot] = value] /\ buf' = buf
      ELSE buf' = [buf EXCEPT ![Program[n].out] = value] /\ iq' = iq
  BY <1>2 DEF Execute
<1> HIDE DEF n, value
<1>8. Program[n].out = "iq" <=> n = LastOfSlot
  BY <1>2, OutsAreBuffers
<1>9. TypeOK'
  <2>1. stream' \in Seq([slot : Slots, op : 1..LastOfSlot])
    BY <1>1 DEF IInv, TypeOK
  <2>2. DOMAIN buf' = Buffers /\ DOMAIN iq' = Slots
    BY <1>7 DEF IInv, TypeOK
  <2>3. QED BY <1>1, <2>1, <2>2 DEF IInv, TypeOK
<1>10. \A m \in Ops : m < Oldest' <=> m <= n
  BY <1>4, <1>5
<1>11. BufInv'
  <2>1. ASSUME NEW m \in Ops, m < Oldest', m # LastOfSlot
        PROVE  buf'[Program[m].out] = Content(m, slot)
    <3>1. m \in 1..LastOfSlot /\ m <= n
      BY <2>1, <1>10 DEF Ops
    <3>2. CASE m = n
      <4>1. Program[n].out \in Buffers /\ Program[n].out # "iq"
        BY <3>2, <2>1, <1>2, OutsAreBuffers
      <4>2. buf' = [buf EXCEPT ![Program[n].out] = value] /\ DOMAIN buf = Buffers
        BY <4>1, <1>7 DEF IInv, TypeOK
      <4>3. QED BY <4>1, <4>2, <3>2, <1>6
    <3>3. CASE m # n
      <4>1. m < n
        BY <3>1, <3>3, <1>2
      <4>2. buf[Program[m].out] = Content(m, slot)
        BY <4>1, <2>1, <1>2 DEF IInv, BufInv
      <4>3. Program[m].out # Program[n].out /\ Program[m].out \in Buffers
        BY <3>1, <3>3, <2>1, <1>2, OutsDistinct, OutsAreBuffers
      <4>4. buf'[Program[m].out] = buf[Program[m].out]
        BY <4>3, <1>7 DEF IInv, TypeOK
      <4>5. QED BY <4>2, <4>4
    <3>4. QED BY <3>2, <3>3
  <2>2. QED BY <2>1, <1>1 DEF BufInv
<1>12. IqInv'
  <2>1. CASE n = LastOfSlot
    <3>1. Oldest' > LastOfSlot /\ ~(Oldest > LastOfSlot)
      BY <2>1, <1>2, <1>4, <1>5
    <3>2. iq' = [iq EXCEPT ![slot] = Expected(slot)]
      <4>1. Content(n, slot) = Expected(slot)
        BY <2>1, <1>8 DEF Content, Expected, FirstOfSlot, LastOfSlot
      <4>2. QED BY <4>1, <2>1, <1>6, <1>7, <1>8
    <3>3. iq = [s \in Slots |-> IF s < slot THEN Expected(s) ELSE {}]
      BY <3>1 DEF IInv, IqInv
    <3>4. iq' = [s \in Slots |-> IF s < slot \/ s = slot THEN Expected(s) ELSE {}]
      BY <3>2, <3>3, <1>3 DEF Slots
    <3>5. QED BY <3>1, <3>4, <1>1 DEF IqInv
  <2>2. CASE n # LastOfSlot
    <3>1. iq' = iq
      BY <2>2, <1>7, <1>8
    <3>2. ~(Oldest > LastOfSlot) /\ ~(Oldest' > LastOfSlot)
      <4>1. LastOfSlot \in Ops
        BY DEF Ops, LastOfSlot, AntennaMap
      <4>2. ~(LastOfSlot < Oldest')
        BY <4>1, <1>2, <1>10, <2>2
      <4>3. QED BY <4>2, <1>2, <1>4, <1>5 DEF LastOfSlot
    <3>3. QED BY <3>1, <3>2, <1>1 DEF IInv, IqInv
  <2>3. QED BY <2>1, <2>2
<1>13. HostInv'
  BY <1>1 DEF IInv, HostInv
<1>14. FilesInv'
  <2>1. phase \notin {"write", "receipt", "done"}
    BY <1>1 DEF IInv, HostInv
  <2>2. QED BY <2>1, <1>1 DEF IInv, FilesInv
<1>15. QED
  BY <1>4, <1>9, <1>11, <1>12, <1>13, <1>14 DEF IInv

\* After the slots: the waveform comes back, and the files are written.
LEMMA FileSteps == ASSUME IInv, Download \/ WriteOutput \/ WriteReceipt PROVE IInv'
<1>1. /\ slot' = slot /\ k' = k /\ pinned' = pinned /\ stream' = stream /\ buf' = buf /\ iq' = iq
      /\ phase \in {"download", "write", "receipt"}
  BY DEF Download, WriteOutput, WriteReceipt
<1>2. stream = << >> /\ slot = NumSlots - 1 /\ k = LastOfSlot + 1
  BY <1>1 DEF IInv, HostInv
<1>3. StreamInv' /\ Oldest' = Oldest
  BY <1>1 DEF IInv, StreamInv, Element, Oldest
<1>4. BufInv' /\ IqInv' /\ HostInv'
  BY <1>1, <1>2, <1>3 DEF IInv, BufInv, IqInv, HostInv
<1>5. CASE Download
  BY <1>1, <1>3, <1>4, <1>5 DEF IInv, TypeOK, FilesInv, Download
<1>6. CASE WriteOutput
  BY <1>1, <1>3, <1>4, <1>6 DEF IInv, TypeOK, FilesInv, WriteOutput
<1>7. CASE WriteReceipt
  BY <1>1, <1>3, <1>4, <1>7 DEF IInv, TypeOK, FilesInv, WriteReceipt
<1>8. QED
  BY <1>5, <1>6, <1>7

LEMMA NextIInv == ASSUME IInv, [Next]_vars PROVE IInv'
<1>1. CASE QueueOp
  BY <1>1, QueueOpStep
<1>2. CASE QueueFails
  BY <1>2, QueueFailsStep
<1>3. CASE SlotBoundary
  BY <1>3, SlotBoundaryStep
<1>4. CASE Execute
  BY <1>4, ExecuteStep
<1>5. CASE Download \/ WriteOutput \/ WriteReceipt
  BY <1>5, FileSteps
<1>6. CASE UNCHANGED vars
  BY <1>6 DEF vars, host, files, IInv, TypeOK, StreamInv, Element, HostInv, BufInv, IqInv,
              FilesInv, Oldest, Content
<1>7. QED
  BY <1>1, <1>2, <1>3, <1>4, <1>5, <1>6 DEF Next, HostStep

\* When the host has left the slot loop, every slot has been modulated.
LEMMA LoopIsOver ==
  ASSUME IInv, phase = "done"
  PROVE  iq = [s \in Slots |-> Expected(s)]
<1>1. slot = NumSlots - 1 /\ Oldest = LastOfSlot + 1
  BY DEF IInv, HostInv, Oldest
<1>2. \A s \in Slots : s < slot \/ (s = slot /\ Oldest > LastOfSlot)
  BY <1>1, SlotsAssumption DEF Slots, LastOfSlot
<1>3. QED
  BY <1>2 DEF IInv, IqInv

\* The state of the transmitter keeps its shape for any number of slots.
THEOREM TypeCorrect == Spec => []TypeOK
<1>1. Init => IInv
  BY InitIInv
<1>2. IInv /\ [Next]_vars => IInv'
  BY NextIInv
<1>3. IInv => TypeOK
  BY DEF IInv
<1>4. QED BY <1>1, <1>2, <1>3, PTL DEF Spec

\* The DMRS runtime never rewrites its pinned staging area while a copy out of it
\* is queued: when it does, the synchronisation at the end of the previous slot
\* has drained them.
THEOREM StagingIsStable == Spec => []StagingStable
<1>1. Init => IInv
  BY InitIInv
<1>2. IInv /\ [Next]_vars => IInv'
  BY NextIInv
<1>3. IInv => StagingStable
  <2>1. SUFFICES ASSUME IInv, NEW i \in 1..Len(stream), Program[stream[i].op].in \subseteq Staged
                 PROVE  stream[i].slot = pinned
    BY DEF StagingStable
  <2>2. Element(i) /\ k \in Nat
    BY <2>1 DEF IInv, StreamInv, TypeOK
  <2>3. stream[i].op \in {6, 7}
    <3>1. stream[i].op \in 1..15
      BY <2>2 DEF Element, Ops, LastOfSlot
    <3>2. \A m \in 1..15 : m \notin {6, 7} =>
            \/ "info" \in Program[m].in \/ "encoded" \in Program[m].in \/ "bits_nr" \in Program[m].in
            \/ "bits_qam" \in Program[m].in \/ "qam" \in Program[m].in \/ "layer" \in Program[m].in
            \/ "cinit_device" \in Program[m].in \/ "physical" \in Program[m].in
            \/ "layer_grid" \in Program[m].in \/ "port_grid" \in Program[m].in
            \/ AirGrid \in Program[m].in \/ "fft_grid" \in Program[m].in
      BY ProgramText DEF Op
    <3>3. QED BY <2>1, <3>1, <3>2 DEF Staged, AirGrid
  <2>4. k > DmrsEnqueue
    BY <2>2, <2>3 DEF Element, DmrsEnqueue
  <2>5. QED BY <2>1, <2>2, <2>4 DEF IInv, HostInv, Element
<1>4. QED BY <1>1, <1>2, <1>3, PTL DEF Spec

\* Every slot of the waveform comes from its own bits and its own DMRS, although
\* all slots pass through the same buffers.
THEOREM SlotsKeepTheirSources == Spec => []SlotProvenance
<1>1. Init => IInv
  BY InitIInv
<1>2. IInv /\ [Next]_vars => IInv'
  BY NextIInv
<1>3. IInv => SlotProvenance
  BY DEF IInv, IqInv, SlotProvenance
<1>4. QED BY <1>1, <1>2, <1>3, PTL DEF Spec

\* A PASS receipt stands beside a complete waveform, all slots of which were
\* produced from their own sources.
THEOREM ReceiptMeansComplete == Spec => []PassMeansComplete
<1>1. Init => IInv
  BY InitIInv
<1>2. IInv /\ [Next]_vars => IInv'
  BY NextIInv
<1>3. IInv => PassMeansComplete
  <2>1. SUFFICES ASSUME IInv, receipt = "PASS"
                 PROVE  outFile = "written" /\ hostIq = [s \in Slots |-> Expected(s)]
    BY DEF PassMeansComplete
  <2>2. phase = "done" /\ outFile = "written" /\ hostIq = iq
    BY <2>1 DEF IInv, FilesInv
  <2>3. QED BY <2>1, <2>2, LoopIsOver
<1>4. QED BY <1>1, <1>2, <1>3, PTL DEF Spec
===============================================================================
