------------------------- MODULE PrecodeRuntimeProofs -------------------------
(***************************************************************************)
(* Proofs about PrecodeRuntime for every capacity, every set of             *)
(* configurations and unbounded queues: as long as the caller stops at the  *)
(* first error and launches at most Capacity configurations between two     *)
(* synchronisations, no queued kernel ever loses its plan to an eviction.   *)
(*                                                                         *)
(* The heart of it is WindowRecent: the configurations launched since the   *)
(* last synchronisation own the most recently used resources.  If the LRU   *)
(* victim were one of them, all Capacity resources would be, and so would   *)
(* be Capacity distinct configurations besides the one that missed.         *)
(***************************************************************************)
EXTENDS PrecodeRuntime, FiniteSetTheorems, SequenceTheorems, TLAPS

\* Configurations own distinct resources.
KeysDistinct == \A r, q \in Cached : key[r] = key[q] => r = q

\* A resource's age never exceeds the clock; the plan being uploaded will be
\* strictly the youngest.
ClockInv ==
  /\ \A r \in Resources : lastUsed[r] <= useClock
  /\ phase = "uploading" => \A r \in Resources : lastUsed[r] < useClock

\* The window is closed under "used more recently".
WindowRecent ==
  \A r, q \in Cached :
    key[r] \in window /\ lastUsed[r] <= lastUsed[q] => key[q] \in window

\* A configuration of the window is still cached, or being uploaded.
WindowCached ==
  \/ phase = "failed"
  \/ \A c \in window : \/ \E r \in Resources : key[r] = c
                       \/ phase = "uploading" /\ c = cfg

\* An upload fills a resource no window configuration owns.
UploadInv ==
  phase = "uploading" =>
    /\ initialized
    /\ cfg \in window
    /\ \A r \in Resources : key[r] # cfg
    /\ key[target] \notin window
    /\ \A i \in 1..uploaded : content[target][UploadOrder[i]] = cfg

\* Configured resources hold whole plans, save for the one being overwritten.
ContentInv ==
  phase # "failed" =>
    \A r \in Cached : phase = "idle" \/ r # target => content[r] = Loaded(key[r])

\* A queued kernel's resource still holds its plan, and it is in the window.
StreamInv ==
  \A k \in 1..Len(stream) :
    /\ key[stream[k].res] = stream[k].cfg
    /\ content[stream[k].res] = Loaded(stream[k].cfg)
    /\ stream[k].cfg \in window

\* What the oldest kernel has loaded is its own plan.
LoadedInv ==
  /\ stream = << >> => loaded = Loaded(NoConfig)
  /\ KernelUsesItsPlan

IInv ==
  /\ TypeOK /\ IsFiniteSet(window)
  /\ ~initialized => Cached = {}
  /\ KeysDistinct /\ ClockInv /\ WindowRecent /\ WindowCached
  /\ UploadInv /\ ContentInv /\ StreamInv /\ LoadedInv

-----------------------------------------------------------------------------
LEMMA UploadOrderFacts ==
  /\ Len(UploadOrder) = 4
  /\ \A p \in Parts : \E i \in 1..4 : UploadOrder[i] = p
  /\ \A i \in 1..4 : UploadOrder[i] \in Parts
<1>1. Len(UploadOrder) = 4
  BY DEF UploadOrder
<1>2. /\ UploadOrder[1] = "weight_re" /\ UploadOrder[2] = "weight_im"
      /\ UploadOrder[3] = "prg_of_rb" /\ UploadOrder[4] = "tiling"
  BY DEF UploadOrder
<1>3. \A p \in Parts : \E i \in 1..4 : UploadOrder[i] = p
  BY <1>2 DEF Parts
<1>4. \A i \in 1..4 : UploadOrder[i] \in Parts
  BY <1>2 DEF Parts
<1> QED
  BY <1>1, <1>3, <1>4

LEMMA StreamElement ==
  ASSUME TypeOK, NEW k \in 1..Len(stream)
  PROVE  stream[k].cfg \in Configs /\ stream[k].res \in Resources
<1>1. stream \in Seq([cfg : Configs, res : Resources])
  BY DEF TypeOK
<1>2. stream[k] \in [cfg : Configs, res : Resources]
  BY <1>1, ElementOfSeq
<1> QED
  BY <1>2

LEMMA EnqueueKeepsHead ==
  ASSUME TypeOK, stream # << >>, NEW c, NEW r, Enqueue(c, r)
  PROVE  stream' # << >> /\ Head(stream') = Head(stream)
<1>1. stream \in Seq([cfg : Configs, res : Resources]) /\ Len(stream) \in Nat \ {0}
  BY EmptySeq DEF TypeOK
<1>2. /\ Len(stream') = Len(stream) + 1
      /\ stream'[1] = stream[1]
  BY <1>1 DEF Enqueue
<1>3. Head(stream) = stream[1] /\ Head(stream') = stream'[1]
  BY DEF Enqueue
<1> QED
  BY <1>1, <1>2, <1>3

\* The counting argument: the LRU victim of a configuration that is not cached
\* owns no configuration launched since the last synchronisation.
LEMMA VictimOutsideWindow ==
  ASSUME IInv, phase = "idle", NEW c \in Configs, NEW r \in Resources,
         \A q \in Resources : key[q] # c,
         c \in window \/ Cardinality(window) < Capacity,
         VictimIs(r)
  PROVE  key[r] \notin window
<1> USE CapacityAssumption, NoConfigAssumption DEF IInv
<1>1. NoConfig \notin window
  BY DEF TypeOK
<1>2. SUFFICES ASSUME key[r] \in window PROVE FALSE
  OBVIOUS
<1>3. r \in Cached
  BY <1>1, <1>2 DEF Cached
<1>4. Cached = Resources
  BY <1>3 DEF VictimIs, Cached
<1>5. \A q \in Resources : lastUsed[r] <= lastUsed[q]
  <2>1. lastUsed \in [Resources -> Nat]
    BY DEF TypeOK
  <2>2. \A q \in Resources :
          lastUsed[r] < lastUsed[q] \/ (lastUsed[r] = lastUsed[q] /\ r <= q)
    BY <1>4 DEF VictimIs
  <2> QED
    BY <2>1, <2>2
<1>6. \A q \in Resources : key[q] \in window
  BY <1>2, <1>3, <1>4, <1>5 DEF WindowRecent
<1>7. c \notin window
  BY DEF WindowCached
<1>8. Cardinality(window) < Capacity
  BY <1>7
<1>9. IsFiniteSet(Resources) /\ Cardinality(Resources) = Capacity
  BY FS_Interval DEF Resources
<1>10. key \in [Resources -> window]
  BY <1>6 DEF TypeOK
<1>11. \E q1, q2 \in Resources : q1 # q2 /\ key[q1] = key[q2]
  BY <1>8, <1>9, <1>10, FS_PigeonHole
<1>12. QED
  BY <1>4, <1>11 DEF KeysDistinct

LEMMA InitIInv == Init => IInv
<1> SUFFICES ASSUME Init PROVE IInv
  OBVIOUS
<1> USE CapacityAssumption, NoConfigAssumption DEF Init
<1>1. TypeOK
  <2>1. target \in Resources /\ uploaded \in 0..Len(UploadOrder)
    BY UploadOrderFacts DEF Resources
  <2>2. stream \in Seq([cfg : Configs, res : Resources])
    OBVIOUS
  <2>3. content \in [Resources -> [Parts -> Configs \union {NoConfig}]]
    BY DEF Loaded
  <2>4. loaded \in [Parts -> Configs \union {NoConfig}] /\ applied \in [Parts -> Configs]
    BY DEF Loaded
  <2> QED
    BY <2>1, <2>2, <2>3, <2>4 DEF TypeOK
<1>2. Cached = {}
  BY DEF Cached
<1>3. IsFiniteSet(window)
  BY FS_EmptySet
<1> QED
  BY <1>1, <1>2, <1>3 DEF IInv, KeysDistinct, ClockInv, WindowRecent, WindowCached,
     UploadInv, ContentInv, StreamInv, LoadedInv, KernelUsesItsPlan, Resources

-----------------------------------------------------------------------------
(* One lemma per action that touches the cache, the plans or the stream.    *)

LEMMA HitStep ==
  ASSUME ~RetryAfterError, IInv, NEW c \in Configs, NEW r \in Resources, LaunchHit(c, r)
  PROVE  IInv'
<1> USE CapacityAssumption, NoConfigAssumption DEF IInv, LaunchHit, MayLaunch
<1>1. key[r] = c /\ r \in Cached
  BY DEF HitOn, Cached
<1>2. lastUsed' \in [Resources -> Nat] /\ useClock' \in Nat
  BY DEF TypeOK
<1>3. stream' \in Seq([cfg : Configs, res : Resources])
  <2>1. stream \in Seq([cfg : Configs, res : Resources])
    BY DEF TypeOK
  <2>2. [cfg |-> c, res |-> r] \in [cfg : Configs, res : Resources]
    OBVIOUS
  <2>3. Append(stream, [cfg |-> c, res |-> r]) \in Seq([cfg : Configs, res : Resources])
    BY <2>1, <2>2
  <2> QED
    BY <2>1, <2>3 DEF Enqueue
<1>4. phase' \in {"idle", "failed"}
  BY DEF AfterError
<1>5. TypeOK'
  BY <1>2, <1>3, <1>4 DEF TypeOK
<1>6. IsFiniteSet(window)' /\ (~initialized => Cached = {})'
  BY FS_AddElement DEF Cached
<1>7. KeysDistinct'
  BY DEF KeysDistinct, Cached
<1>8. ClockInv'
  BY <1>4 DEF ClockInv, TypeOK
<1>9. WindowRecent'
  <2> SUFFICES ASSUME NEW x \in Cached, NEW q \in Cached, key[x] \in window',
                      lastUsed'[x] <= lastUsed'[q]
               PROVE  key[q] \in window'
    BY DEF WindowRecent, Cached
  <2>1. CASE q = r
    BY <2>1, <1>1
  <2>2. CASE q # r /\ x = r
    <3>1. lastUsed'[r] = useClock + 1 /\ lastUsed'[q] = lastUsed[q]
      BY <2>2 DEF TypeOK, Cached
    <3>2. lastUsed[q] <= useClock
      BY DEF ClockInv, Cached
    <3> QED
      BY <2>2, <3>1, <3>2 DEF TypeOK, Cached
  <2>3. CASE q # r /\ x # r
    <3>1. lastUsed'[x] = lastUsed[x] /\ lastUsed'[q] = lastUsed[q]
      BY <2>3 DEF TypeOK, Cached
    <3>2. key[x] \in window
      BY <1>1, <2>3 DEF KeysDistinct
    <3> QED
      BY <3>1, <3>2 DEF WindowRecent
  <2> QED
    BY <2>1, <2>2, <2>3
<1>10. WindowCached'
  BY <1>1 DEF WindowCached
<1>11. UploadInv' /\ ContentInv'
  BY <1>4 DEF UploadInv, ContentInv, Cached
<1>12. StreamInv'
  <2>1. CASE UNCHANGED stream
    BY <2>1 DEF StreamInv
  <2>2. CASE Enqueue(c, r)
    <3>1. /\ Len(stream') = Len(stream) + 1
          /\ \A k \in 1..Len(stream) : stream'[k] = stream[k]
          /\ stream'[Len(stream) + 1] = [cfg |-> c, res |-> r]
      BY <2>2 DEF Enqueue, TypeOK
    <3>2. content[r] = Loaded(c)
      BY <1>1 DEF ContentInv
    <3>3. Len(stream) \in Nat
      BY DEF TypeOK
    <3> SUFFICES ASSUME NEW k \in 1..(Len(stream) + 1)
                 PROVE  /\ key[stream'[k].res] = stream'[k].cfg
                        /\ content[stream'[k].res] = Loaded(stream'[k].cfg)
                        /\ stream'[k].cfg \in window'
      BY <3>1 DEF StreamInv
    <3>4. CASE k = Len(stream) + 1
      BY <3>1, <3>2, <3>4, <1>1
    <3>5. CASE k \in 1..Len(stream)
      BY <3>1, <3>5 DEF StreamInv
    <3> QED
      BY <3>3, <3>4, <3>5
  <2> QED
    BY <2>1, <2>2
<1>13. LoadedInv'
  <2>1. CASE UNCHANGED stream
    BY <2>1 DEF LoadedInv, KernelUsesItsPlan
  <2>2. CASE Enqueue(c, r) /\ stream = << >>
    <3>1. stream' # << >> /\ loaded' = Loaded(NoConfig)
      BY <2>2 DEF LoadedInv, Enqueue, TypeOK
    <3> QED
      BY <3>1 DEF LoadedInv, KernelUsesItsPlan, Loaded
  <2>3. CASE Enqueue(c, r) /\ stream # << >>
    <3>1. stream' # << >> /\ Head(stream') = Head(stream)
      BY <2>3, EnqueueKeepsHead DEF TypeOK
    <3> QED
      BY <2>3, <3>1 DEF LoadedInv, KernelUsesItsPlan
  <2> QED
    BY <2>1, <2>2, <2>3
<1> QED
  BY <1>5, <1>6, <1>7, <1>8, <1>9, <1>10, <1>11, <1>12, <1>13

LEMMA MissStep ==
  ASSUME IInv, NEW c \in Configs, NEW r \in Resources, LaunchMiss(c, r)
  PROVE  IInv'
<1> USE CapacityAssumption, NoConfigAssumption DEF IInv, LaunchMiss, MayLaunch
<1>1. key[r] \notin window
  BY VictimOutsideWindow
<1>2. TypeOK'
  BY UploadOrderFacts DEF TypeOK, device
<1>3. IsFiniteSet(window)' /\ (~initialized => Cached = {})' /\ KeysDistinct'
  BY FS_AddElement DEF KeysDistinct, Cached
<1>4. ClockInv'
  BY DEF ClockInv, TypeOK
<1>5. WindowRecent'
  BY DEF WindowRecent, Cached
<1>6. WindowCached'
  BY DEF WindowCached
<1>7. UploadInv'
  BY <1>1 DEF UploadInv
<1>8. ContentInv'
  BY DEF ContentInv, Cached
<1>9. StreamInv' /\ LoadedInv'
  BY DEF StreamInv, LoadedInv, KernelUsesItsPlan, device
<1> QED
  BY <1>2, <1>3, <1>4, <1>5, <1>6, <1>7, <1>8, <1>9

LEMMA UploadStep ==
  ASSUME IInv, UploadPart
  PROVE  IInv'
<1> USE CapacityAssumption, NoConfigAssumption DEF IInv, UploadPart, context, device
<1>1. uploaded \in 0..3 /\ UploadOrder[uploaded + 1] \in Parts
  BY UploadOrderFacts DEF TypeOK
<1>2. cfg \in Configs
  BY DEF UploadInv, TypeOK
<1>3. /\ content'[target] = [content[target] EXCEPT ![UploadOrder[uploaded + 1]] = cfg]
      /\ \A r \in Resources : r # target => content'[r] = content[r]
  BY DEF TypeOK
<1>4. content' \in [Resources -> [Parts -> Configs \union {NoConfig}]]
  BY <1>1, <1>2 DEF TypeOK
<1>5. TypeOK'
  BY <1>1, <1>4, UploadOrderFacts DEF TypeOK
<1>6. /\ IsFiniteSet(window)' /\ (~initialized => Cached = {})' /\ KeysDistinct'
      /\ ClockInv' /\ WindowRecent' /\ WindowCached'
  BY DEF KeysDistinct, Cached, ClockInv, WindowRecent, WindowCached
<1>7. UploadInv'
  <2>1. content[target] \in [Parts -> Configs \union {NoConfig}]
    BY DEF TypeOK
  <2>2. ASSUME NEW i \in 1..(uploaded + 1)
        PROVE  content'[target][UploadOrder[i]] = cfg
    <3>1. UploadOrder[i] \in Parts
      BY <1>1, UploadOrderFacts
    <3>2. CASE i = uploaded + 1
      BY <1>1, <1>3, <2>1, <3>2
    <3>3. CASE i \in 1..uploaded
      BY <1>1, <1>3, <2>1, <3>1, <3>3 DEF UploadInv
    <3> QED
      BY <1>1, <3>2, <3>3
  <2> QED
    BY <2>2 DEF UploadInv
<1>8. ContentInv'
  BY <1>3 DEF ContentInv, Cached
<1>9. StreamInv' /\ LoadedInv'
  <2>1. ASSUME NEW k \in 1..Len(stream) PROVE stream[k].res \in Resources \ {target}
    <3>1. stream[k].res \in Resources
      BY StreamElement
    <3>2. key[stream[k].res] \in window /\ key[target] \notin window
      BY DEF StreamInv, UploadInv
    <3> QED
      BY <3>1, <3>2
  <2> QED
    BY <1>3, <2>1 DEF StreamInv, LoadedInv, KernelUsesItsPlan
<1> QED
  BY <1>5, <1>6, <1>7, <1>8, <1>9

LEMMA UploadFailStep ==
  ASSUME ~RetryAfterError, IInv, UploadFails
  PROVE  IInv'
<1> USE DEF IInv, UploadFails, AfterError, context, device
<1>1. TypeOK'
  BY DEF TypeOK
<1> QED
  BY <1>1 DEF KeysDistinct, Cached, ClockInv, WindowRecent, WindowCached, UploadInv,
     ContentInv, StreamInv, LoadedInv, KernelUsesItsPlan

LEMMA ConfiguredStep ==
  ASSUME ~RetryAfterError, IInv, LaunchConfigured
  PROVE  IInv'
<1> USE CapacityAssumption, NoConfigAssumption DEF IInv, LaunchConfigured
<1>1. cfg \in Configs /\ cfg \in window /\ target \in Resources
  BY DEF UploadInv, TypeOK
<1>2. /\ key' \in [Resources -> Configs \union {NoConfig}]
      /\ key'[target] = cfg
      /\ \A r \in Resources : r # target => key'[r] = key[r]
  BY <1>1 DEF TypeOK
<1>3. /\ lastUsed' \in [Resources -> Nat]
      /\ lastUsed'[target] = useClock
      /\ \A r \in Resources : r # target => lastUsed'[r] = lastUsed[r]
  BY <1>1 DEF TypeOK
<1>4. phase' \in {"idle", "failed"}
  BY DEF AfterError
<1>5. stream' \in Seq([cfg : Configs, res : Resources])
  <2>1. stream \in Seq([cfg : Configs, res : Resources])
    BY DEF TypeOK
  <2>2. Append(stream, [cfg |-> cfg, res |-> target]) \in Seq([cfg : Configs, res : Resources])
    BY <1>1, <2>1
  <2> QED
    BY <2>1, <2>2 DEF Enqueue
<1>6. TypeOK'
  BY <1>2, <1>3, <1>4, <1>5 DEF TypeOK
<1>7. \A r \in Cached' : r = target \/ r \in Cached
  BY <1>2 DEF Cached
<1>8. IsFiniteSet(window)' /\ (~initialized => Cached = {})'
  <2>1. initialized
    BY DEF UploadInv
  <2> QED
    BY <2>1
<1>9. KeysDistinct'
  BY <1>2, <1>7 DEF KeysDistinct, UploadInv, Cached
<1>10. ClockInv'
  BY <1>3, <1>4 DEF ClockInv, TypeOK
<1>11. WindowRecent'
  <2> SUFFICES ASSUME NEW x \in Cached', NEW q \in Cached', key'[x] \in window,
                      lastUsed'[x] <= lastUsed'[q]
               PROVE  key'[q] \in window
    BY DEF WindowRecent
  <2>1. CASE q = target
    BY <2>1, <1>1, <1>2
  <2>2. CASE q # target /\ x = target
    BY <2>2, <1>3 DEF ClockInv, TypeOK, Cached
  <2>3. CASE q # target /\ x # target
    BY <2>3, <1>2, <1>3, <1>7 DEF WindowRecent, Cached
  <2> QED
    BY <2>1, <2>2, <2>3
<1>12. WindowCached'
  <2> SUFFICES ASSUME NEW c \in window PROVE \E r \in Resources : key'[r] = c
    BY DEF WindowCached
  <2>1. CASE c = cfg
    BY <2>1, <1>1, <1>2
  <2>2. CASE c # cfg
    <3>1. PICK r \in Resources : key[r] = c
      BY <2>2 DEF WindowCached
    <3>2. r # target
      BY <3>1 DEF UploadInv
    <3> QED
      BY <3>1, <3>2, <1>2
  <2> QED
    BY <2>1, <2>2
<1>13. content[target] = Loaded(cfg)
  <2>1. \A p \in Parts : content[target][p] = cfg
    BY UploadOrderFacts DEF UploadInv
  <2> QED
    BY <1>1, <2>1 DEF Loaded, TypeOK
<1>14. UploadInv' /\ ContentInv'
  BY <1>2, <1>4, <1>7, <1>13 DEF UploadInv, ContentInv, Cached
<1>15. StreamInv'
  <2>1. ASSUME NEW k \in 1..Len(stream)
        PROVE  /\ key'[stream[k].res] = stream[k].cfg
               /\ content[stream[k].res] = Loaded(stream[k].cfg)
               /\ stream[k].cfg \in window
    <3>1. stream[k].res \in Resources
      BY StreamElement
    <3>2. stream[k].res # target
      BY DEF StreamInv, UploadInv
    <3> QED
      BY <3>1, <3>2, <1>2 DEF StreamInv
  <2>2. CASE UNCHANGED stream
    BY <2>1, <2>2 DEF StreamInv
  <2>3. CASE Enqueue(cfg, target)
    <3>1. /\ Len(stream') = Len(stream) + 1
          /\ \A k \in 1..Len(stream) : stream'[k] = stream[k]
          /\ stream'[Len(stream) + 1] = [cfg |-> cfg, res |-> target]
      BY <2>3 DEF Enqueue, TypeOK
    <3>2. Len(stream) \in Nat
      BY DEF TypeOK
    <3> SUFFICES ASSUME NEW k \in 1..(Len(stream) + 1)
                 PROVE  /\ key'[stream'[k].res] = stream'[k].cfg
                        /\ content[stream'[k].res] = Loaded(stream'[k].cfg)
                        /\ stream'[k].cfg \in window
      BY <3>1 DEF StreamInv
    <3>3. CASE k = Len(stream) + 1
      BY <3>1, <3>3, <1>1, <1>2, <1>13
    <3>4. CASE k \in 1..Len(stream)
      BY <2>1, <3>1, <3>4
    <3> QED
      BY <3>2, <3>3, <3>4
  <2> QED
    BY <2>2, <2>3
<1>16. LoadedInv'
  <2>1. CASE UNCHANGED stream
    BY <2>1 DEF LoadedInv, KernelUsesItsPlan
  <2>2. CASE Enqueue(cfg, target) /\ stream = << >>
    <3>1. stream' # << >> /\ loaded' = Loaded(NoConfig)
      BY <2>2 DEF LoadedInv, Enqueue, TypeOK
    <3> QED
      BY <3>1 DEF LoadedInv, KernelUsesItsPlan, Loaded
  <2>3. CASE Enqueue(cfg, target) /\ stream # << >>
    <3>1. stream' # << >> /\ Head(stream') = Head(stream)
      BY <2>3, EnqueueKeepsHead DEF TypeOK
    <3> QED
      BY <2>3, <3>1 DEF LoadedInv, KernelUsesItsPlan
  <2> QED
    BY <2>1, <2>2, <2>3
<1> QED
  BY <1>6, <1>8, <1>9, <1>10, <1>11, <1>12, <1>14, <1>15, <1>16

LEMMA OldestKernel ==
  ASSUME IInv, stream # << >>
  PROVE  /\ Head(stream).cfg \in Configs /\ Head(stream).res \in Resources
         /\ content[Head(stream).res] = Loaded(Head(stream).cfg)
         /\ Tail(stream) \in Seq([cfg : Configs, res : Resources])
         /\ Len(Tail(stream)) = Len(stream) - 1 /\ Len(stream) \in Nat
         /\ \A k \in 1..Len(Tail(stream)) : k + 1 \in 1..Len(stream) /\ Tail(stream)[k] = stream[k + 1]
<1>1. stream \in Seq([cfg : Configs, res : Resources])
  BY DEF IInv, TypeOK
<1>2. Len(stream) \in Nat \ {0} /\ Head(stream) = stream[1]
  BY <1>1, EmptySeq
<1>3. /\ Tail(stream) \in Seq([cfg : Configs, res : Resources])
      /\ Len(Tail(stream)) = Len(stream) - 1
      /\ \A k \in 1..Len(Tail(stream)) : Tail(stream)[k] = stream[k + 1]
  BY <1>1, HeadTailProperties
<1> QED
  BY <1>2, <1>3, StreamElement DEF IInv, StreamInv

LEMMA LoadStep ==
  ASSUME IInv, NEW p \in Parts, KernelLoads(p)
  PROVE  IInv'
<1> USE DEF IInv, KernelLoads, context, host
<1>1. content[Head(stream).res][p] = Head(stream).cfg /\ Head(stream).cfg \in Configs
  BY OldestKernel DEF Loaded
<1>2. TypeOK'
  BY <1>1 DEF TypeOK
<1>3. LoadedInv'
  BY <1>1 DEF LoadedInv, KernelUsesItsPlan, TypeOK
<1> QED
  BY <1>2, <1>3 DEF KeysDistinct, Cached, ClockInv, WindowRecent, WindowCached, UploadInv,
     ContentInv, StreamInv

LEMMA EndStep ==
  ASSUME IInv, KernelEnds
  PROVE  IInv' /\ applied' = Loaded(Head(stream).cfg)
<1> USE NoConfigAssumption DEF IInv, KernelEnds, context, host
<1>1. loaded = Loaded(Head(stream).cfg)
  BY DEF LoadedInv, KernelUsesItsPlan, Loaded, TypeOK
<1>2. TypeOK'
  BY <1>1, OldestKernel DEF TypeOK, Loaded
<1>3. StreamInv'
  BY OldestKernel DEF StreamInv
<1>4. LoadedInv'
  BY DEF LoadedInv, KernelUsesItsPlan, Loaded
<1> QED
  BY <1>1, <1>2, <1>3, <1>4 DEF KeysDistinct, Cached, ClockInv, WindowRecent, WindowCached,
     UploadInv, ContentInv

LEMMA LifecycleStep ==
  ASSUME IInv, RuntimeInit \/ RuntimeDestroy \/ Synchronize
  PROVE  IInv'
<1> USE NoConfigAssumption DEF IInv, host, device, context
<1>1. CASE RuntimeInit
  <2>1. TypeOK'
    BY <1>1 DEF RuntimeInit, TypeOK, Loaded
  <2>2. Cached = {} /\ Cached' = {} /\ stream' = stream /\ Len(stream) \in Nat
    BY <1>1 DEF RuntimeInit, Cached, TypeOK
  <2>3. \A k \in 1..Len(stream) : key[stream[k].res] # NoConfig /\ stream[k].res \in Resources
    BY StreamElement DEF StreamInv
  <2>4. StreamInv'
    BY <1>1, <2>2, <2>3 DEF RuntimeInit, StreamInv, Cached
  <2> QED
    BY <1>1, <2>1, <2>2, <2>4 DEF RuntimeInit, KeysDistinct, ClockInv, WindowRecent, WindowCached,
       UploadInv, ContentInv, LoadedInv, KernelUsesItsPlan
<1>2. CASE RuntimeDestroy
  <2>1. TypeOK'
    BY <1>2 DEF RuntimeDestroy, TypeOK
  <2>2. Cached' = {} /\ IsFiniteSet(window')
    BY <1>2, FS_EmptySet DEF RuntimeDestroy, Cached
  <2> QED
    BY <1>2, <2>1, <2>2 DEF RuntimeDestroy, KeysDistinct, ClockInv, WindowRecent, WindowCached,
       UploadInv, ContentInv, StreamInv, LoadedInv, KernelUsesItsPlan
<1>3. CASE Synchronize
  <2>1. TypeOK' /\ IsFiniteSet(window')
    BY <1>3, FS_EmptySet DEF Synchronize, TypeOK
  <2> QED
    BY <1>3, <2>1 DEF Synchronize, Cached, KeysDistinct, ClockInv, WindowRecent, WindowCached,
       UploadInv, ContentInv, StreamInv, LoadedInv, KernelUsesItsPlan
<1> QED
  BY <1>1, <1>2, <1>3

LEMMA NextIInv == ASSUME ~RetryAfterError, IInv, [Next]_vars PROVE IInv'
<1>1. CASE RuntimeInit \/ RuntimeDestroy \/ Synchronize
  BY <1>1, LifecycleStep
<1>2. ASSUME NEW c \in Configs, NEW r \in Resources, LaunchHit(c, r) PROVE IInv'
  BY <1>2, HitStep
<1>3. ASSUME NEW c \in Configs, NEW r \in Resources, LaunchMiss(c, r) PROVE IInv'
  BY <1>3, MissStep
<1>4. CASE UploadPart
  BY <1>4, UploadStep
<1>5. CASE UploadFails
  BY <1>5, UploadFailStep
<1>6. CASE LaunchConfigured
  BY <1>6, ConfiguredStep
<1>7. ASSUME NEW p \in Parts, KernelLoads(p) PROVE IInv'
  BY <1>7, LoadStep
<1>8. CASE KernelEnds
  BY <1>8, EndStep
<1>9. CASE UNCHANGED vars
  BY <1>9 DEF vars, context, host, device, IInv, TypeOK, KeysDistinct, Cached, ClockInv, WindowRecent,
     WindowCached, UploadInv, ContentInv, StreamInv, LoadedInv, KernelUsesItsPlan
<1> QED
  BY <1>1, <1>2, <1>3, <1>4, <1>5, <1>6, <1>7, <1>8, <1>9 DEF Next

-----------------------------------------------------------------------------
\* Type correctness of the runtime's state, of the stream and of the plans.
THEOREM TypeCorrect == ASSUME ~RetryAfterError PROVE Spec => []TypeOK
<1>1. IInv => TypeOK
  BY DEF IInv
<1> QED
  BY <1>1, InitIInv, NextIInv, PTL DEF Spec

\* No kernel loads a part of another configuration's plan: an eviction never
\* hits a resource a queued kernel will read.
THEOREM QueuedPlansSurvive == ASSUME ~RetryAfterError PROVE Spec => []KernelUsesItsPlan
<1>1. IInv => KernelUsesItsPlan
  BY DEF IInv, LoadedInv
<1> QED
  BY <1>1, InitIInv, NextIInv, PTL DEF Spec

\* Whenever no upload is under way, a hit finds a whole plan of its key.
THEOREM HitsAreWhole == ASSUME ~RetryAfterError PROVE Spec => []CachedPlanIsWhole
<1>1. IInv => CachedPlanIsWhole
  BY DEF IInv, ContentInv, CachedPlanIsWhole
<1> QED
  BY <1>1, InitIInv, NextIInv, PTL DEF Spec

\* While a plan is uploaded no resource has its key, so publishing the key keeps
\* the keys apart.  Unlike IInv, this survives a caller that goes on after an
\* error.
CacheInv ==
  /\ key \in [Resources -> Configs \union {NoConfig}]
  /\ phase = "uploading" => cfg \in Configs /\ target \in Resources /\ \A r \in Resources : key[r] # cfg
  /\ OneResourcePerConfig

LEMMA CachedIsFinite == IsFiniteSet(Cached)
<1>1. IsFiniteSet(Resources)
  BY CapacityAssumption, FS_Interval DEF Resources
<1>2. Cached \in SUBSET Resources
  BY DEF Cached
<1>3. QED BY <1>1, <1>2, FS_Subset

\* A full upload configures a resource: a free one makes one entry more, an
\* evicted one none.
LEMMA PublishStep == ASSUME CacheInv, LaunchConfigured PROVE CacheInv'
<1>1. /\ cfg \in Configs /\ cfg # NoConfig /\ target \in Resources
      /\ \A r \in Resources : key[r] # cfg
      /\ key' = [key EXCEPT ![target] = cfg]
      /\ entries' = IF key[target] = NoConfig THEN entries + 1 ELSE entries
  BY NoConfigAssumption DEF CacheInv, LaunchConfigured
<1>2. /\ key' \in [Resources -> Configs \union {NoConfig}] /\ key'[target] = cfg
      /\ \A r \in Resources : r # target => key'[r] = key[r]
  BY <1>1 DEF CacheInv
<1>3. Cached' = Cached \union {target}
  BY <1>1, <1>2 DEF Cached
<1>4. \A r, q \in Cached' : key'[r] = key'[q] => r = q
  BY <1>1, <1>2, <1>3 DEF CacheInv, OneResourcePerConfig, Cached
<1>5. entries' = Cardinality(Cached')
  <2>1. entries' = IF target \in Cached THEN entries ELSE entries + 1
    BY <1>1 DEF Cached
  <2>2. QED BY <1>3, <2>1, CachedIsFinite, FS_AddElement DEF CacheInv, OneResourcePerConfig
<1>6. phase' # "uploading"
  BY DEF LaunchConfigured, AfterError
<1>7. QED
  BY <1>2, <1>4, <1>5, <1>6 DEF CacheInv, OneResourcePerConfig

LEMMA CacheStep == ASSUME CacheInv, [Next]_vars PROVE CacheInv'
<1>1. CASE LaunchConfigured
  BY <1>1, PublishStep
<1>2. CASE RuntimeDestroy
  <2>1. entries' = 0 /\ Cached' = {} /\ phase' = phase /\ phase = "idle"
        /\ key' \in [Resources -> Configs \union {NoConfig}]
    BY <1>2 DEF RuntimeDestroy, Cached, host
  <2>2. QED BY <2>1, FS_EmptySet DEF CacheInv, OneResourcePerConfig
<1>3. ASSUME NEW c \in Configs, NEW r \in Resources, LaunchMiss(c, r) PROVE CacheInv'
  <2>1. /\ phase' = "uploading" /\ cfg' = c /\ target' = r /\ key' = key /\ entries' = entries
        /\ \A q \in Resources : key[q] # c
    BY <1>3 DEF LaunchMiss
  <2>2. Cached' = Cached
    BY <2>1 DEF Cached
  <2>3. QED BY <2>1, <2>2 DEF CacheInv, OneResourcePerConfig
<1>4. ASSUME key' = key, entries' = entries,
             phase' = "uploading" => phase = "uploading" /\ cfg' = cfg /\ target' = target
      PROVE  CacheInv'
  <2>1. Cached' = Cached
    BY <1>4 DEF Cached
  <2>2. QED BY <1>4, <2>1 DEF CacheInv, OneResourcePerConfig
<1>5. CASE RuntimeInit \/ UploadPart \/ UploadFails \/ Synchronize \/ KernelEnds \/ UNCHANGED vars
  BY <1>4, <1>5 DEF RuntimeInit, UploadPart, UploadFails, Synchronize, KernelEnds, vars, context,
                    host, device, AfterError
<1>6. ASSUME NEW p \in Parts, KernelLoads(p) PROVE CacheInv'
  BY <1>4, <1>6 DEF KernelLoads, context, host
<1>7. ASSUME NEW c \in Configs, NEW r \in Resources, LaunchHit(c, r) PROVE CacheInv'
  BY <1>4, <1>7 DEF LaunchHit, MayLaunch, AfterError
<1>8. QED
  BY <1>1, <1>2, <1>3, <1>5, <1>6, <1>7 DEF Next

\* No two resources ever hold the same configuration, and cache_entries counts
\* the configured ones, through hits, evictions, failed copies and teardown, even
\* if the caller goes on after an error.
THEOREM CacheIsAMap == Spec => []OneResourcePerConfig
<1>1. Init => CacheInv
  <2>1. SUFFICES ASSUME Init PROVE CacheInv
    OBVIOUS
  <2>2. Cached = {} /\ entries = 0 /\ phase = "idle"
        /\ key \in [Resources -> Configs \union {NoConfig}]
    BY <2>1 DEF Init, Cached
  <2>3. QED BY <2>2, FS_EmptySet DEF CacheInv, OneResourcePerConfig
<1>2. CacheInv /\ [Next]_vars => CacheInv'
  BY CacheStep
<1>3. CacheInv => OneResourcePerConfig
  BY DEF CacheInv
<1>4. QED BY <1>1, <1>2, <1>3, PTL DEF Spec

-----------------------------------------------------------------------------
(* The refinement of LaunchFifo: the abstract queue is the stream without   *)
(* the resources.                                                           *)
Pending == [k \in DOMAIN stream |-> stream[k].cfg]

LEMMA EnqueueIsLaunch ==
  ASSUME TypeOK, NEW c \in Configs, NEW r \in Resources, Enqueue(c, r)
  PROVE  Pending' = Append(Pending, c)
<1>1. stream \in Seq([cfg : Configs, res : Resources]) /\ Len(stream) \in Nat
  BY DEF TypeOK
<1>2. /\ stream' \in Seq([cfg : Configs, res : Resources])
      /\ Len(stream') = Len(stream) + 1
      /\ \A k \in 1..Len(stream) : stream'[k] = stream[k]
      /\ stream'[Len(stream) + 1] = [cfg |-> c, res |-> r]
  <2>1. [cfg |-> c, res |-> r] \in [cfg : Configs, res : Resources]
    OBVIOUS
  <2> QED
    BY <1>1, <2>1 DEF Enqueue
<1>3. DOMAIN stream = 1..Len(stream) /\ DOMAIN stream' = 1..(Len(stream) + 1)
  BY <1>1, <1>2
<1>4. Pending \in Seq(Configs) /\ Len(Pending) = Len(stream)
  <2>1. \A k \in 1..Len(stream) : stream[k].cfg \in Configs
    BY StreamElement
  <2>2. Pending \in [1..Len(stream) -> Configs]
    BY <1>3, <2>1 DEF Pending
  <2> QED
    BY <1>1, <2>2
<1>5. /\ Append(Pending, c) \in Seq(Configs)
      /\ Len(Append(Pending, c)) = Len(stream) + 1
      /\ \A k \in 1..(Len(stream) + 1) :
           Append(Pending, c)[k] = IF k = Len(stream) + 1 THEN c ELSE Pending[k]
  BY <1>1, <1>4
<1>6. Append(Pending, c) = [k \in 1..(Len(stream) + 1) |-> Append(Pending, c)[k]]
  <2>1. Append(Pending, c) \in [1..(Len(stream) + 1) -> Configs]
    BY <1>5, LenProperties
  <2> QED
    BY <2>1
<1>7. Pending' = [k \in 1..(Len(stream) + 1) |-> stream'[k].cfg]
  BY <1>3 DEF Pending
<1>8. \A k \in 1..(Len(stream) + 1) : stream'[k].cfg = Append(Pending, c)[k]
  BY <1>1, <1>2, <1>3, <1>5 DEF Pending
<1> QED
  BY <1>6, <1>7, <1>8

LEMMA EndIsExecute ==
  ASSUME IInv, stream # << >>, stream' = Tail(stream)
  PROVE  /\ Pending # << >> /\ Head(Pending) = Head(stream).cfg
         /\ Pending' = Tail(Pending)
<1>1. stream \in Seq([cfg : Configs, res : Resources]) /\ Len(stream) \in Nat \ {0}
  BY EmptySeq DEF IInv, TypeOK
<1>2. DOMAIN stream = 1..Len(stream)
  BY <1>1
<1>3. Pending \in Seq(Configs) /\ Len(Pending) = Len(stream)
  <2>1. \A k \in 1..Len(stream) : stream[k].cfg \in Configs
    BY StreamElement DEF IInv
  <2>2. Pending \in [1..Len(stream) -> Configs]
    BY <1>2, <2>1 DEF Pending
  <2> QED
    BY <1>1, <2>2
<1>4. Pending # << >> /\ Head(Pending) = Head(stream).cfg
  <2>1. Pending # << >>
    BY <1>1, <1>3
  <2>2. Head(Pending) = Pending[1] /\ Head(stream) = stream[1]
    BY <1>1, <2>1
  <2> QED
    BY <1>1, <1>2, <2>1, <2>2 DEF Pending
<1>5. /\ Len(stream') = Len(stream) - 1
      /\ DOMAIN stream' = 1..(Len(stream) - 1)
      /\ \A k \in 1..(Len(stream) - 1) : stream'[k] = stream[k + 1]
  BY <1>1, HeadTailProperties
<1>6. /\ Tail(Pending) \in Seq(Configs)
      /\ Len(Tail(Pending)) = Len(stream) - 1
      /\ \A k \in 1..(Len(stream) - 1) : Tail(Pending)[k] = Pending[k + 1]
  BY <1>1, <1>3, <1>4, HeadTailProperties
<1>7. Tail(Pending) = [k \in 1..(Len(stream) - 1) |-> Tail(Pending)[k]]
  <2>1. Tail(Pending) \in [1..(Len(stream) - 1) -> Configs]
    BY <1>6, LenProperties
  <2> QED
    BY <2>1
<1>8. Pending' = [k \in 1..(Len(stream) - 1) |-> stream'[k].cfg]
  BY <1>5 DEF Pending
<1>9. \A k \in 1..(Len(stream) - 1) : stream'[k].cfg = Tail(Pending)[k]
  BY <1>1, <1>2, <1>5, <1>6 DEF Pending
<1> QED
  BY <1>4, <1>7, <1>8, <1>9

\* The runtime implements LaunchFifo: kernels execute in launch order, each
\* with the whole plan of its own launch, whatever the cache evicted meanwhile.
THEOREM RefinesLaunchFifo == ASSUME ~RetryAfterError PROVE Spec => ImplementsLaunchFifo
<1>1. Init => Launches!Init
  <2> SUFFICES ASSUME Init PROVE Launches!Init
    OBVIOUS
  <2>1. Pending = << >>
    BY DEF Init, Pending
  <2> QED
    BY <2>1 DEF Init, Launches!Init, Launches!Plan, Loaded, Pending
<1>2. IInv /\ [Next]_vars => [Launches!Next]_(Launches!vars)
  <2> SUFFICES ASSUME IInv, [Next]_vars
               PROVE  \/ Pending' = Pending /\ applied' = applied
                      \/ \E c \in Configs : Pending' = Append(Pending, c) /\ applied' = applied
                      \/ /\ Pending # << >> /\ applied' = Loaded(Head(Pending))
                         /\ Pending' = Tail(Pending)
    BY DEF Launches!Next, Launches!vars, Launches!Launch, Launches!Execute, Launches!Plan,
       Pending, Loaded
  <2>1. TypeOK
    BY DEF IInv
  <2>2. ASSUME NEW c \in Configs, NEW r \in Resources, LaunchHit(c, r)
        PROVE  \/ Pending' = Pending /\ applied' = applied
               \/ Pending' = Append(Pending, c) /\ applied' = applied
    BY <2>1, <2>2, EnqueueIsLaunch DEF LaunchHit, Pending
  <2>3. CASE LaunchConfigured
    <3>1. cfg \in Configs /\ target \in Resources
      BY <2>1, <2>3 DEF LaunchConfigured, IInv, UploadInv, TypeOK
    <3>2. \/ Pending' = Pending /\ applied' = applied
          \/ Pending' = Append(Pending, cfg) /\ applied' = applied
      BY <2>1, <2>3, <3>1, EnqueueIsLaunch DEF LaunchConfigured, Pending
    <3> QED
      BY <3>1, <3>2
  <2>4. CASE KernelEnds
    <3>1. stream # << >> /\ stream' = Tail(stream)
      BY <2>4 DEF KernelEnds
    <3> QED
      BY <2>4, <3>1, EndStep, EndIsExecute
  <2>5. CASE \/ RuntimeInit \/ RuntimeDestroy \/ UploadPart \/ UploadFails \/ Synchronize
             \/ UNCHANGED vars
    BY <2>5 DEF RuntimeInit, RuntimeDestroy, UploadPart, UploadFails, Synchronize, vars, device, Pending
  <2>6. ASSUME NEW c \in Configs, NEW r \in Resources, LaunchMiss(c, r)
        PROVE  Pending' = Pending /\ applied' = applied
    BY <2>6 DEF LaunchMiss, device, Pending
  <2>7. ASSUME NEW p \in Parts, KernelLoads(p)
        PROVE  Pending' = Pending /\ applied' = applied
    BY <2>7 DEF KernelLoads, Pending
  <2> QED
    BY <2>2, <2>3, <2>4, <2>5, <2>6, <2>7 DEF Next
<1> QED
  BY <1>1, <1>2, InitIInv, NextIInv, PTL DEF Spec, ImplementsLaunchFifo, Launches!Spec
===============================================================================
