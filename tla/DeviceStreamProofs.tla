-------------------------- MODULE DeviceStreamProofs --------------------------
(***************************************************************************)
(* A chain whose programs are all disciplined behaves as if every command   *)
(* took effect when the host issued it, and none of its host copies races   *)
(* with the device.  This holds for programs of any length over any buffers, *)
(* and buffer by buffer: what a program does to one buffer without           *)
(* synchronising disturbs no other.                                         *)
(***************************************************************************)
EXTENDS DeviceStream, TLAPS

\* Command m and a later n that access b, one of them writing it.
Share(m, n, b) ==
  \/ b \in m.out /\ b \in n.in \union n.out
  \/ b \in m.in /\ b \in n.out

\* The buffers for which a program is disciplined, and for which the one that
\* runs is.
Ordered(p) ==
  {b \in Buffers : \A m, n \in 1..Len(p) :
     /\ m < n /\ p[m].do = "launch" /\ p[n].do = "copy" /\ Share(p[m], p[n], b)
     => \E s \in (m + 1)..(n - 1) : p[s].do = "sync"}

OrderedBuffers == Ordered(Code)

Queued == {stream[k] : k \in 1..Len(stream)}

\* The queue holds launches already issued, oldest first.
QueueOrdered ==
  /\ \A k \in 1..Len(stream) : stream[k] < pc /\ Code[stream[k]].do = "launch"
  /\ \A j, k \in 1..Len(stream) : j < k => stream[j] < stream[k]

\* Since a queued launch was issued the host has not synchronised, and no later
\* launch has overtaken it.
NothingOvertakes ==
  \A q \in Queued : \A n \in (q + 1)..(pc - 1) :
    /\ Code[n].do # "sync"
    /\ Code[n].do = "launch" => n \in Queued

\* A buffer holds a write that has been performed.  Every later one is still
\* queued if the buffer is ordered, or if a copy wrote it, which acts at once:
\* only a launch in an unordered buffer may have come behind a later write.
LastPerformed ==
  \A b \in Buffers :
    /\ \/ mem[b] = 0
       \/ mem[b] \in (1..(pc - 1)) \ Queued /\ b \in Code[mem[b]].out
    /\ b \in OrderedBuffers \/ mem[b] = 0 \/ Code[mem[b]].do = "copy" =>
         \A m \in (mem[b] + 1)..(pc - 1) : b \in Code[m].out => m \in Queued

IInv == TypeOK /\ QueueOrdered /\ NothingOvertakes /\ LastPerformed

\* The shape of a program and of its commands.
LEMMA CommandShape ==
  ASSUME program \in DOMAIN Programs
  PROVE  /\ Len(Code) \in Nat
         /\ \A n \in 1..Len(Code) :
              /\ Code[n].do \in Kinds
              /\ Code[n].in \subseteq Buffers /\ Code[n].out \subseteq Buffers
              /\ Code[n].do = "sync" => Code[n].out = {}
  BY ProgramsAssumption DEF Code

\* Nothing is queued exactly if the stream is empty; otherwise its head is the
\* oldest queued launch.
LEMMA OldestQueued ==
  ASSUME TypeOK, QueueOrdered
  PROVE  /\ stream = << >> <=> Queued = {}
         /\ stream # << >> =>
              /\ Head(stream) \in Queued
              /\ \A q \in Queued : Head(stream) <= q
<1>1. stream \in Seq(1..Len(Code)) /\ Len(Code) \in Nat
  BY CommandShape DEF TypeOK
<1>2. Len(stream) \in Nat /\ \A k \in 1..Len(stream) : stream[k] \in 1..Len(Code)
  BY <1>1
<1>3. CASE stream = << >>
  BY <1>3 DEF Queued
<1>4. CASE stream # << >>
  <2>1. 1 \in 1..Len(stream) /\ Head(stream) = stream[1]
    BY <1>1, <1>4
  <2>2. ASSUME NEW k \in 1..Len(stream) PROVE stream[1] <= stream[k]
    <3>1. CASE k = 1
      BY <3>1, <2>1, <1>2
    <3>2. CASE k # 1
      <4>1. 1 < k
        BY <3>2, <1>2
      <4>2. stream[1] < stream[k]
        BY <4>1, <2>1 DEF QueueOrdered
      <4>3. QED BY <4>2, <2>1, <1>1, <1>2
    <3>3. QED BY <3>1, <3>2
  <2>3. QED BY <1>4, <2>1, <2>2 DEF Queued
<1>5. QED BY <1>3, <1>4

\* What a launch does to the queue.
LEMMA LaunchQueues ==
  ASSUME TypeOK, QueueOrdered, Launch
  PROVE  Queued' = Queued \union {pc} /\ QueueOrdered'
<1>1. stream \in Seq(1..Len(Code)) /\ pc \in 1..Len(Code) /\ Len(Code) \in Nat
  BY CommandShape DEF TypeOK, Launch, AtHost
<1>2. /\ Len(stream) \in Nat /\ stream' = Append(stream, pc)
      /\ pc' = pc + 1 /\ program' = program /\ Code' = Code /\ Code[pc].do = "launch"
  BY <1>1 DEF Code, Launch, AtHost
<1>3. /\ Len(stream') = Len(stream) + 1
      /\ \A k \in 1..Len(stream) : stream'[k] = stream[k] /\ stream[k] \in 1..Len(Code)
      /\ stream'[Len(stream) + 1] = pc
  BY <1>1, <1>2
<1>4. 1..Len(stream') = (1..Len(stream)) \union {Len(stream) + 1}
  BY <1>2, <1>3
<1>5. Queued' = Queued \union {pc}
  BY <1>2, <1>3, <1>4 DEF Queued
<1>6. \A k \in 1..Len(stream') : stream'[k] < pc' /\ Code'[stream'[k]].do = "launch"
  BY <1>1, <1>2, <1>3, <1>4 DEF QueueOrdered
<1>7. \A j, k \in 1..Len(stream') : j < k => stream'[j] < stream'[k]
  BY <1>1, <1>2, <1>3, <1>4 DEF QueueOrdered
<1>8. QED BY <1>5, <1>6, <1>7 DEF QueueOrdered

\* What the end of an operation does to the queue.
LEMMA ExecuteUnqueues ==
  ASSUME TypeOK, QueueOrdered, Execute
  PROVE  Queued' = Queued \ {Head(stream)} /\ QueueOrdered'
<1>1. stream \in Seq(1..Len(Code)) /\ stream # << >> /\ Len(Code) \in Nat
  BY CommandShape DEF TypeOK, Execute
<1>2. /\ Len(stream) \in Nat \ {0} /\ stream' = Tail(stream)
      /\ pc' = pc /\ program' = program /\ Code' = Code /\ Head(stream) = stream[1]
  BY <1>1 DEF Code, Execute
<1>3. /\ Len(stream') = Len(stream) - 1
      /\ \A k \in 1..Len(stream') : stream'[k] = stream[k + 1]
      /\ \A k \in 1..Len(stream) : stream[k] \in 1..Len(Code)
  BY <1>1, <1>2
<1>4. \A k \in 1..Len(stream') : k + 1 \in 1..Len(stream)
  BY <1>2, <1>3
<1>5. Queued' = Queued \ {Head(stream)}
  <2>1. ASSUME NEW k \in 1..Len(stream') PROVE stream'[k] \in Queued \ {stream[1]}
    <3>1. k + 1 \in 1..Len(stream) /\ 1 \in 1..Len(stream) /\ 1 < k + 1
      BY <1>2, <1>4
    <3>2. stream[1] < stream[k + 1]
      BY <3>1 DEF QueueOrdered
    <3>3. QED BY <3>1, <3>2, <1>3 DEF Queued
  <2>2. ASSUME NEW k \in 1..Len(stream), stream[k] # stream[1] PROVE stream[k] \in Queued'
    <3>1. k - 1 \in 1..Len(stream') /\ stream'[k - 1] = stream[k]
      BY <2>2, <1>2, <1>3
    <3>2. QED BY <3>1 DEF Queued
  <2>3. QED BY <2>1, <2>2, <1>2 DEF Queued
<1>6. \A k \in 1..Len(stream') : stream'[k] < pc' /\ Code'[stream'[k]].do = "launch"
  BY <1>2, <1>3, <1>4 DEF QueueOrdered
<1>7. \A j, k \in 1..Len(stream') : j < k => stream'[j] < stream'[k]
  <2>1. ASSUME NEW j \in 1..Len(stream'), NEW k \in 1..Len(stream'), j < k
        PROVE  stream'[j] < stream'[k]
    <3>1. j + 1 \in 1..Len(stream) /\ k + 1 \in 1..Len(stream) /\ j + 1 < k + 1
      BY <2>1, <1>4, <1>2, <1>3
    <3>2. QED BY <3>1, <1>3 DEF QueueOrdered
  <2>2. QED BY <2>1
<1>8. QED BY <1>5, <1>6, <1>7 DEF QueueOrdered

\* The content of a buffer that nothing queued touches.
LEMMA PerformType ==
  ASSUME TypeOK, NEW n \in 1..Len(Code), Perform(n)
  PROVE  /\ mem' \in [Buffers -> Nat]
         /\ \A b \in Buffers : mem'[b] = IF b \in Code[n].out THEN n ELSE mem[b]
<1>1. n \in Nat
  BY CommandShape DEF TypeOK
<1>2. QED BY <1>1 DEF TypeOK, Perform

\* A queued command is a launch before pc.
LEMMA QueuedRange ==
  ASSUME IInv, NEW q \in Queued
  PROVE  /\ q \in Nat /\ q \in 1..Len(Code) /\ q \in 1..(pc - 1) /\ q < pc
         /\ Code[q].do = "launch"
<1>1. program \in DOMAIN Programs /\ Len(Code) \in Nat /\ pc \in 1..(Len(Code) + 1)
  BY CommandShape DEF IInv, TypeOK
<1>2. stream \in Seq(1..Len(Code))
  BY DEF IInv, TypeOK
<1>3. PICK k \in 1..Len(stream) : q = stream[k]
  BY DEF Queued
<1>4. q \in 1..Len(Code)
  BY <1>2, <1>3
<1>5. q < pc /\ Code[q].do = "launch"
  BY <1>3 DEF IInv, QueueOrdered
<1>6. QED BY <1>1, <1>4, <1>5

\* A disciplined program orders all buffers, ...
LEMMA DisciplinedOrders ==
  ASSUME NEW p, Disciplined(p)
  PROVE  Ordered(p) = Buffers
<1>1. ASSUME NEW b \in Buffers, NEW m \in 1..Len(p), NEW n \in 1..Len(p),
             m < n, p[m].do = "launch", p[n].do = "copy", Share(p[m], p[n], b)
      PROVE  \E s \in (m + 1)..(n - 1) : p[s].do = "sync"
  <2>1. \/ p[m].out \cap (p[n].in \union p[n].out) # {}
        \/ p[m].in \cap p[n].out # {}
    BY <1>1 DEF Share
  <2>2. QED BY <1>1, <2>1 DEF Disciplined
<1>2. QED BY <1>1 DEF Ordered

\* ... and a disciplined chain does.
LEMMA DisciplineOrders ==
  ASSUME program \in DOMAIN Programs, \A e \in DOMAIN Programs : Disciplined(Programs[e])
  PROVE  OrderedBuffers = Buffers
  BY DisciplinedOrders DEF Code, OrderedBuffers

\* A conflict is one over some buffer.
LEMMA ConflictOverBuffer ==
  ASSUME program \in DOMAIN Programs, NEW m \in 1..Len(Code), NEW n, Conflict(m, n)
  PROVE  \E b \in Buffers : Share(Code[m], Code[n], b)
<1>1. Code[m].in \subseteq Buffers /\ Code[m].out \subseteq Buffers
  BY CommandShape
<1>2. QED BY <1>1 DEF Conflict, Share

\* A copy meets no queued operation on the ordered buffers it accesses.
LEMMA CopyIsAlone ==
  ASSUME IInv, AtHost("copy"), NEW b \in OrderedBuffers
  PROVE  \A q \in Queued : ~Share(Code[q], Code[pc], b)
<1>1. pc \in 1..Len(Code) /\ program \in DOMAIN Programs /\ Len(Code) \in Nat
  BY CommandShape DEF IInv, TypeOK, AtHost
<1>2. SUFFICES ASSUME NEW q \in Queued, Share(Code[q], Code[pc], b) PROVE FALSE
  OBVIOUS
<1>3. q \in 1..Len(Code) /\ q < pc /\ Code[q].do = "launch"
  BY <1>1 DEF IInv, TypeOK, QueueOrdered, Queued
<1>4. PICK s \in (q + 1)..(pc - 1) : Code[s].do = "sync"
  BY <1>1, <1>2, <1>3 DEF OrderedBuffers, Ordered, AtHost
<1>5. QED BY <1>4, <1>2 DEF IInv, NothingOvertakes

\* A copy issued after a queued launch shares no ordered buffer with it.
LEMMA IssuedCopyIsApart ==
  ASSUME IInv, NEW b \in OrderedBuffers,
         NEW q \in Queued, NEW n \in (q + 1)..(pc - 1), Code[n].do = "copy"
  PROVE  ~Share(Code[q], Code[n], b)
<1>1. program \in DOMAIN Programs /\ Len(Code) \in Nat /\ pc \in 1..(Len(Code) + 1)
  BY CommandShape DEF IInv, TypeOK
<1>2. q \in 1..Len(Code) /\ Code[q].do = "launch"
  BY <1>1 DEF IInv, TypeOK, QueueOrdered, Queued
<1>3. n \in 1..Len(Code) /\ q < n
  BY <1>1, <1>2
<1>4. SUFFICES ASSUME Share(Code[q], Code[n], b) PROVE FALSE
  OBVIOUS
<1>5. PICK s \in (q + 1)..(n - 1) : Code[s].do = "sync"
  BY <1>1, <1>2, <1>3, <1>4 DEF OrderedBuffers, Ordered
<1>6. s \in (q + 1)..(pc - 1)
  BY <1>1, <1>2, <1>3, <1>5
<1>7. QED BY <1>5, <1>6 DEF IInv, NothingOvertakes

LEMMA InitIInv == Init => IInv
<1>1. SUFFICES ASSUME Init PROVE IInv
  OBVIOUS
<1>2. Len(Code) \in Nat
  BY <1>1, CommandShape DEF Init
<1>3. Queued = {} /\ Len(stream) = 0
  <2>1. stream = << >>
    BY <1>1 DEF Init
  <2>2. Len(stream) = 0 /\ 1..Len(stream) = {}
    BY <2>1
  <2>3. QED BY <2>2 DEF Queued
<1>4. TypeOK
  <2>1. stream = << >> /\ pc = 1 /\ mem = [b \in Buffers |-> 0] /\ program \in DOMAIN Programs
    BY <1>1 DEF Init
  <2>2. stream \in Seq(1..Len(Code))
    BY <2>1
  <2>3. pc \in 1..(Len(Code) + 1)
    BY <2>1, <1>2
  <2>4. mem \in [Buffers -> Nat]
    BY <2>1
  <2>5. QED BY <2>1, <2>2, <2>3, <2>4 DEF TypeOK
<1>5. QueueOrdered /\ NothingOvertakes
  BY <1>3 DEF QueueOrdered, NothingOvertakes
<1>6. LastPerformed
  <2>1. ASSUME NEW b \in Buffers PROVE mem[b] = 0 /\ (mem[b] + 1)..(pc - 1) = {}
    BY <1>1 DEF Init
  <2>2. QED BY <2>1 DEF LastPerformed
<1>7. QED BY <1>4, <1>5, <1>6 DEF IInv

\* A launch is queued; nothing is performed.
LEMMA LaunchStep == ASSUME IInv, Launch PROVE IInv'
<1>1. /\ program \in DOMAIN Programs /\ Len(Code) \in Nat
      /\ pc \in 1..Len(Code) /\ pc' = pc + 1
      /\ program' = program /\ Code' = Code /\ mem' = mem /\ Code[pc].do = "launch"
  BY CommandShape DEF Code, IInv, TypeOK, Launch, AtHost
<1>2. Queued' = Queued \union {pc} /\ QueueOrdered'
  BY LaunchQueues DEF IInv
<1>3. TypeOK'
  <2>1. stream' \in Seq(1..Len(Code'))
    BY <1>1 DEF IInv, TypeOK, Launch
  <2>2. QED BY <1>1, <2>1 DEF IInv, TypeOK
<1>4. \A n \in (pc + 1)..(pc' - 1) : FALSE
  BY <1>1
<1>5. NothingOvertakes'
  <2>1. ASSUME NEW q \in Queued', NEW n \in (q + 1)..(pc' - 1)
        PROVE  Code[n].do # "sync" /\ (Code[n].do = "launch" => n \in Queued')
    <3>1. CASE q = pc
      BY <3>1, <2>1, <1>4
    <3>2. CASE q # pc /\ n = pc
      BY <3>2, <1>1, <1>2
    <3>3. CASE q # pc /\ n # pc
      <4>1. q \in Queued /\ q \in Nat
        <5>1. q \in Queued
          BY <3>3, <2>1, <1>2
        <5>2. QED BY <5>1, QueuedRange
      <4>2. n \in (q + 1)..(pc - 1)
        BY <3>3, <4>1, <2>1, <1>1
      <4>3. QED BY <4>1, <4>2, <1>2 DEF IInv, NothingOvertakes
    <3>4. QED BY <3>1, <3>2, <3>3
  <2>2. QED BY <2>1, <1>1 DEF NothingOvertakes
<1>6. LastPerformed'
  <2>1. ASSUME NEW b \in Buffers
        PROVE  /\ \/ mem[b] = 0
                  \/ mem[b] \in (1..(pc' - 1)) \ Queued' /\ b \in Code[mem[b]].out
               /\ b \in OrderedBuffers \/ mem[b] = 0 \/ Code[mem[b]].do = "copy" =>
                    \A m \in (mem[b] + 1)..(pc' - 1) : b \in Code[m].out => m \in Queued'
    <3>1. mem[b] \in Nat
      BY DEF IInv, TypeOK
    <3>2. \A m \in (mem[b] + 1)..(pc' - 1) : m = pc \/ m \in (mem[b] + 1)..(pc - 1)
      BY <3>1, <1>1
    <3>3. mem[b] \in (1..(pc - 1)) \ Queued => mem[b] \in (1..(pc' - 1)) \ Queued'
      BY <1>1, <1>2
    <3>4. QED BY <3>2, <3>3, <1>2 DEF IInv, LastPerformed
  <2>2. OrderedBuffers' = OrderedBuffers
    BY <1>1 DEF OrderedBuffers
  <2>3. QED BY <2>1, <2>2, <1>1 DEF LastPerformed
<1>7. QED BY <1>2, <1>3, <1>5, <1>6 DEF IInv

\* A copy acts at once.
LEMMA CopyStep == ASSUME IInv, Copy PROVE IInv'
<1>1. /\ program \in DOMAIN Programs /\ Len(Code) \in Nat
      /\ pc \in 1..Len(Code) /\ pc' = pc + 1 /\ AtHost("copy")
      /\ program' = program /\ Code' = Code /\ stream' = stream /\ Code[pc].do = "copy"
  BY CommandShape DEF Code, IInv, TypeOK, Copy, AtHost
<1>2. Queued' = Queued
  BY <1>1 DEF Queued
<1>3. Queued \subseteq 1..(pc - 1)
  BY QueuedRange
<1>4. /\ mem' \in [Buffers -> Nat]
      /\ \A b \in Buffers : mem'[b] = IF b \in Code[pc].out THEN pc ELSE mem[b]
  BY <1>1, PerformType DEF IInv, Copy
<1>5. TypeOK' /\ QueueOrdered'
  BY <1>1, <1>4 DEF IInv, TypeOK, QueueOrdered
<1>6. NothingOvertakes'
  <2>1. ASSUME NEW q \in Queued, NEW n \in (q + 1)..(pc' - 1)
        PROVE  Code[n].do # "sync" /\ (Code[n].do = "launch" => n \in Queued)
    <3>1. n = pc \/ n \in (q + 1)..(pc - 1)
      BY <1>1, <1>3, <2>1
    <3>2. QED BY <3>1, <1>1 DEF IInv, NothingOvertakes
  <2>2. QED BY <2>1, <1>1, <1>2 DEF NothingOvertakes
<1>7. LastPerformed'
  <2>1. ASSUME NEW b \in Buffers
        PROVE  /\ \/ mem'[b] = 0
                  \/ mem'[b] \in (1..(pc' - 1)) \ Queued /\ b \in Code[mem'[b]].out
               /\ b \in OrderedBuffers \/ mem'[b] = 0 \/ Code[mem'[b]].do = "copy" =>
                    \A m \in (mem'[b] + 1)..(pc' - 1) : b \in Code[m].out => m \in Queued
    <3>1. CASE b \in Code[pc].out
      <4>1. mem'[b] = pc /\ pc \notin Queued
        BY <3>1, <1>1, <1>3, <1>4
      <4>2. QED BY <3>1, <4>1, <1>1
    <3>2. CASE b \notin Code[pc].out
      <4>1. mem'[b] = mem[b] /\ mem[b] \in Nat
        BY <3>2, <1>4 DEF IInv, TypeOK
      <4>2. \A m \in (mem[b] + 1)..(pc' - 1) : m = pc \/ m \in (mem[b] + 1)..(pc - 1)
        BY <4>1, <1>1
      <4>3. mem[b] \in (1..(pc - 1)) \ Queued => mem[b] \in (1..(pc' - 1)) \ Queued
        BY <1>1
      <4>4. QED BY <3>2, <4>1, <4>2, <4>3 DEF IInv, LastPerformed
    <3>3. QED BY <3>1, <3>2
  <2>2. OrderedBuffers' = OrderedBuffers
    BY <1>1 DEF OrderedBuffers
  <2>3. QED BY <2>1, <2>2, <1>1, <1>2 DEF LastPerformed
<1>8. QED BY <1>5, <1>6, <1>7 DEF IInv

\* A synchronisation finds nothing queued.
LEMMA SyncStep == ASSUME IInv, Sync PROVE IInv'
<1>1. /\ program \in DOMAIN Programs /\ Len(Code) \in Nat
      /\ pc \in 1..Len(Code) /\ pc' = pc + 1 /\ stream = << >>
      /\ program' = program /\ Code' = Code /\ stream' = stream /\ mem' = mem /\ Code[pc].do = "sync"
  BY CommandShape DEF Code, IInv, TypeOK, Sync, AtHost
<1>2. Queued = {} /\ Queued' = {} /\ Len(stream) = 0
  BY <1>1, OldestQueued DEF IInv, Queued
<1>3. TypeOK' /\ QueueOrdered' /\ NothingOvertakes'
  BY <1>1, <1>2 DEF IInv, TypeOK, QueueOrdered, NothingOvertakes
<1>4. LastPerformed'
  <2>1. ASSUME NEW b \in Buffers
        PROVE  /\ \/ mem[b] = 0
                  \/ mem[b] \in (1..(pc' - 1)) \ {} /\ b \in Code[mem[b]].out
               /\ b \in OrderedBuffers \/ mem[b] = 0 \/ Code[mem[b]].do = "copy" =>
                    \A m \in (mem[b] + 1)..(pc' - 1) : b \in Code[m].out => FALSE
    <3>1. mem[b] \in Nat
      BY DEF IInv, TypeOK
    <3>2. \A m \in (mem[b] + 1)..(pc' - 1) : m = pc \/ m \in (mem[b] + 1)..(pc - 1)
      BY <3>1, <1>1
    <3>3. b \notin Code[pc].out
      BY <1>1, CommandShape
    <3>4. mem[b] \in 1..(pc - 1) => mem[b] \in 1..(pc' - 1)
      BY <1>1
    <3>5. QED BY <3>2, <3>3, <3>4, <1>2 DEF IInv, LastPerformed
  <2>2. OrderedBuffers' = OrderedBuffers
    BY <1>1 DEF OrderedBuffers
  <2>3. QED BY <2>1, <2>2, <1>1, <1>2 DEF LastPerformed
<1>5. QED BY <1>3, <1>4 DEF IInv

\* The oldest operation ends: every later write to its output is still queued.
LEMMA ExecuteStep == ASSUME IInv, Execute PROVE IInv'
<1> DEFINE h == Head(stream)
<1>1. /\ program \in DOMAIN Programs /\ Len(Code) \in Nat
      /\ pc \in 1..(Len(Code) + 1) /\ pc' = pc /\ stream # << >>
      /\ program' = program /\ Code' = Code /\ stream' = Tail(stream)
  BY CommandShape DEF Code, IInv, TypeOK, Execute
<1>2. h \in Queued /\ \A q \in Queued : h <= q
  BY <1>1, OldestQueued DEF IInv
<1>3. Queued \subseteq 1..(pc - 1) /\ \A q \in Queued : Code[q].do = "launch"
  BY QueuedRange
<1>4. Queued' = Queued \ {h} /\ QueueOrdered'
  BY ExecuteUnqueues DEF IInv
<1>5. h \in 1..Len(Code) /\ h \in Nat
  BY <1>2, QueuedRange
<1>6. /\ mem' \in [Buffers -> Nat]
      /\ \A b \in Buffers : mem'[b] = IF b \in Code[h].out THEN h ELSE mem[b]
  BY <1>5, PerformType DEF IInv, Execute
<1>7. TypeOK'
  <2>1. stream' \in Seq(1..Len(Code'))
    BY <1>1 DEF IInv, TypeOK
  <2>2. QED BY <2>1, <1>1, <1>6 DEF TypeOK
<1>8. NothingOvertakes'
  <2>1. ASSUME NEW q \in Queued', NEW n \in (q + 1)..(pc - 1)
        PROVE  Code[n].do # "sync" /\ (Code[n].do = "launch" => n \in Queued')
    <3>1. q \in Queued /\ h <= q /\ q \in Nat /\ h \in Nat
      BY <2>1, <1>2, <1>4, QueuedRange
    <3>2. n # h
      BY <3>1, <2>1
    <3>3. QED BY <3>1, <3>2, <2>1, <1>4 DEF IInv, NothingOvertakes
  <2>2. QED BY <2>1, <1>1 DEF NothingOvertakes
<1>9. LastPerformed'
  <2>1. ASSUME NEW b \in Buffers
        PROVE  /\ \/ mem'[b] = 0
                  \/ mem'[b] \in (1..(pc - 1)) \ Queued' /\ b \in Code[mem'[b]].out
               /\ b \in OrderedBuffers \/ mem'[b] = 0 \/ Code[mem'[b]].do = "copy" =>
                    \A m \in (mem'[b] + 1)..(pc - 1) : b \in Code[m].out => m \in Queued'
    <3>1. CASE b \in Code[h].out
      <4>1. mem'[b] = h /\ h # 0 /\ Code[h].do # "copy"
        BY <3>1, <1>2, <1>3, <1>6
      <4>2. ASSUME b \in OrderedBuffers, NEW m \in (h + 1)..(pc - 1), b \in Code[m].out PROVE m \in Queued'
        <5>1. m \in 1..Len(Code) /\ m # h
          BY <4>2, <1>1, <1>5
        <5>2. Code[m].do # "sync"
          BY <1>2, <4>2 DEF IInv, NothingOvertakes
        <5>3. Code[m].do # "copy"
          <6>1. Share(Code[h], Code[m], b)
            BY <3>1, <4>2 DEF Share
          <6>2. QED BY <6>1, <1>2, <4>2, IssuedCopyIsApart
        <5>4. Code[m].do = "launch"
          BY <5>1, <5>2, <5>3, <1>1, CommandShape DEF Kinds
        <5>5. m \in Queued
          BY <5>4, <1>2, <4>2 DEF IInv, NothingOvertakes
        <5>6. QED BY <5>1, <5>5, <1>4
      <4>3. h \in (1..(pc - 1)) \ Queued'
        BY <1>2, <1>3, <1>4
      <4>4. QED BY <3>1, <4>1, <4>2, <4>3
    <3>2. CASE b \notin Code[h].out
      <4>1. mem'[b] = mem[b]
        BY <3>2, <1>6
      <4>2. QED BY <3>2, <4>1, <1>4 DEF IInv, LastPerformed
    <3>3. QED BY <3>1, <3>2
  <2>2. OrderedBuffers' = OrderedBuffers
    BY <1>1 DEF OrderedBuffers
  <2>3. QED BY <2>1, <2>2, <1>1 DEF LastPerformed
<1>10. QED BY <1>4, <1>7, <1>8, <1>9 DEF IInv

LEMMA NextIInv == ASSUME IInv, [Next]_vars PROVE IInv'
<1>1. CASE Launch
  BY <1>1, LaunchStep
<1>2. CASE Copy
  BY <1>2, CopyStep
<1>3. CASE Sync
  BY <1>3, SyncStep
<1>4. CASE Execute
  BY <1>4, ExecuteStep
<1>5. CASE UNCHANGED vars
  <2>1. program' = program /\ pc' = pc /\ stream' = stream /\ mem' = mem
    BY <1>5 DEF vars
  <2>2. Code' = Code /\ Queued' = Queued /\ OrderedBuffers' = OrderedBuffers
    BY <2>1 DEF Code, Queued, OrderedBuffers
  <2>3. QED BY <2>1, <2>2 DEF IInv, TypeOK, QueueOrdered, NothingOvertakes, LastPerformed
<1>6. QED BY <1>1, <1>2, <1>3, <1>4, <1>5 DEF Next

\* An operation at the front of the device finds in a buffer what program order
\* gives it, unless a copy issued after it may have written the buffer: such a
\* copy would break the discipline of a buffer the operation accesses.
LEMMA HeadFindsInOrder ==
  ASSUME IInv, stream # << >>, NEW b \in OrderedBuffers,
         \/ b \in Code[Head(stream)].in
         \/ \A n \in (Head(stream) + 1)..(pc - 1) : b \in Code[n].out => Code[n].do # "copy"
  PROVE  LastWriter(b, Head(stream), mem[b])
<1> DEFINE h == Head(stream)
<1>1. program \in DOMAIN Programs /\ Len(Code) \in Nat /\ pc \in 1..(Len(Code) + 1)
  BY CommandShape DEF IInv, TypeOK
<1>2. h \in Queued /\ \A q \in Queued : h <= q
  BY OldestQueued DEF IInv
<1>3. \A q \in Queued : q \in Nat /\ q < pc
  BY QueuedRange
<1>4. h \in Nat /\ h \in 1..Len(Code) /\ h < pc
  BY <1>2, QueuedRange
<1>5. b \in Buffers /\ mem[b] \in Nat
  BY DEF IInv, TypeOK, OrderedBuffers, Ordered
<1>6. \/ mem[b] = 0
      \/ mem[b] \in (1..(pc - 1)) \ Queued /\ b \in Code[mem[b]].out
  BY <1>5 DEF IInv, LastPerformed
<1>7. mem[b] < h
  <2>1. SUFFICES ASSUME mem[b] >= h PROVE FALSE
    BY <1>4, <1>5
  <2>2. mem[b] \in (h + 1)..(pc - 1) /\ mem[b] \notin Queued /\ b \in Code[mem[b]].out
    BY <2>1, <1>2, <1>4, <1>5, <1>6
  <2>3. mem[b] \in 1..Len(Code) /\ Code[mem[b]].do \in Kinds
    BY <2>2, <1>1, <1>4, CommandShape
  <2>4. Code[mem[b]].do = "copy"
    BY <2>2, <2>3, <1>2 DEF IInv, NothingOvertakes, Kinds
  <2>5. Share(Code[h], Code[mem[b]], b)
    BY <2>2, <2>3, <2>4 DEF Share
  <2>6. QED BY <2>2, <2>4, <2>5, <1>2, IssuedCopyIsApart
<1>8. ASSUME NEW m \in (mem[b] + 1)..(h - 1), b \in Code[m].out PROVE FALSE
  <2>1. m \in (mem[b] + 1)..(pc - 1) /\ m < h
    BY <1>1, <1>4, <1>5
  <2>2. m \in Queued
    BY <2>1, <1>5, <1>8 DEF IInv, LastPerformed
  <2>3. QED BY <2>1, <2>2, <1>2, <1>3, <1>4
<1>9. QED BY <1>5, <1>6, <1>7, <1>8, <1>4 DEF LastWriter

LEMMA HeadReadsInOrder ==
  ASSUME IInv, \A e \in DOMAIN Programs : Disciplined(Programs[e]), stream # << >>
  PROVE  ReadsInOrder(Head(stream))
<1>1. Head(stream) \in Queued
  BY OldestQueued DEF IInv
<1>2. Code[Head(stream)].in \subseteq OrderedBuffers
  BY <1>1, QueuedRange, CommandShape, DisciplineOrders DEF IInv, TypeOK
<1>3. QED BY <1>2, HeadFindsInOrder DEF ReadsInOrder

\* So does a host copy: every write before it has been performed.
LEMMA CopyFindsInOrder ==
  ASSUME IInv, AtHost("copy"), NEW b \in OrderedBuffers, b \in Code[pc].in
  PROVE  LastWriter(b, pc, mem[b])
<1>1. ASSUME NEW m \in (mem[b] + 1)..(pc - 1), b \in Code[m].out PROVE FALSE
  <2>1. m \in Queued
    BY <1>1 DEF IInv, LastPerformed, OrderedBuffers, Ordered
  <2>2. Share(Code[m], Code[pc], b)
    BY <1>1 DEF Share
  <2>3. QED BY <2>1, <2>2, CopyIsAlone
<1>2. \/ mem[b] = 0
      \/ mem[b] \in 1..(pc - 1) /\ b \in Code[mem[b]].out
  BY DEF IInv, LastPerformed, OrderedBuffers, Ordered
<1>3. QED BY <1>1, <1>2 DEF LastWriter

LEMMA CopyReadsInOrder ==
  ASSUME IInv, \A e \in DOMAIN Programs : Disciplined(Programs[e]), AtHost("copy")
  PROVE  ReadsInOrder(pc)
<1>1. program \in DOMAIN Programs /\ pc \in 1..Len(Code)
  BY CommandShape DEF IInv, TypeOK, AtHost
<1>2. Code[pc].in \subseteq OrderedBuffers
  BY <1>1, CommandShape, DisciplineOrders
<1>3. QED BY <1>2, CopyFindsInOrder DEF ReadsInOrder

\* A copy of a disciplined chain conflicts with nothing queued.
LEMMA CopyMeetsNoConflict ==
  ASSUME IInv, \A e \in DOMAIN Programs : Disciplined(Programs[e]), AtHost("copy")
  PROVE  \A q \in Queued : ~Conflict(q, pc)
<1>1. SUFFICES ASSUME NEW q \in Queued, Conflict(q, pc) PROVE FALSE
  OBVIOUS
<1>2. q \in 1..Len(Code) /\ program \in DOMAIN Programs
  BY QueuedRange DEF IInv, TypeOK
<1>3. PICK b \in Buffers : Share(Code[q], Code[pc], b)
  BY <1>1, <1>2, ConflictOverBuffer
<1>4. b \in OrderedBuffers
  BY DisciplineOrders DEF IInv, TypeOK
<1>5. QED BY <1>3, <1>4, CopyIsAlone

\* The state keeps its shape whatever the programs are.
THEOREM TypeCorrect == Spec => []TypeOK
<1>1. Init => IInv
  BY InitIInv
<1>2. IInv /\ [Next]_vars => IInv'
  BY NextIInv
<1>3. IInv => TypeOK
  BY DEF IInv
<1>4. QED BY <1>1, <1>2, <1>3, PTL DEF Spec

\* No blocking copy of a disciplined chain overlaps a queued or running
\* operation that shares a buffer with it.
THEOREM DisciplineAvoidsRaces ==
  ASSUME \A e \in DOMAIN Programs : Disciplined(Programs[e])
  PROVE  Spec => []CopiesDoNotRace
<1>1. Init => IInv
  BY InitIInv
<1>2. IInv /\ [Next]_vars => IInv'
  BY NextIInv
<1>3. IInv => CopiesDoNotRace
  BY CopyMeetsNoConflict DEF CopiesDoNotRace, Queued
<1>4. QED BY <1>1, <1>2, <1>3, PTL DEF Spec

\* A disciplined chain reads, in every operation and in every copy back to the
\* host, the data that a synchronous execution of its program would read.
THEOREM DisciplineGivesProgramOrder ==
  ASSUME \A e \in DOMAIN Programs : Disciplined(Programs[e])
  PROVE  Spec => []ProgramOrder
<1>1. Init => IInv
  BY InitIInv
<1>2. IInv /\ [Next]_vars => IInv'
  BY NextIInv
<1>3. IInv => ProgramOrder
  BY HeadReadsInOrder, CopyReadsInOrder DEF ProgramOrder
<1>4. QED BY <1>1, <1>2, <1>3, PTL DEF Spec

\* What a chain does to its other buffers, synchronised or not, an operation
\* reads from an ordered buffer what a synchronous execution would read.
THEOREM OrderedBuffersGiveProgramOrder ==
  Spec => [](stream # << >> => \A b \in Code[Head(stream)].in \cap OrderedBuffers :
                                 LastWriter(b, Head(stream), mem[b]))
<1>1. Init => IInv
  BY InitIInv
<1>2. IInv /\ [Next]_vars => IInv'
  BY NextIInv
<1>3. IInv => (stream # << >> => \A b \in Code[Head(stream)].in \cap OrderedBuffers :
                                   LastWriter(b, Head(stream), mem[b]))
  BY HeadFindsInOrder
<1>4. QED BY <1>1, <1>2, <1>3, PTL DEF Spec
===============================================================================
