-------------------------- MODULE KernelPipesProofs --------------------------
(***************************************************************************)
(* A kernel whose text orders its conflicts by events and PIPE_ALL never    *)
(* races, and one that waits for every event as often as it sets it leaves  *)
(* none behind: for every kernel, of any length and over any buffers.       *)
(***************************************************************************)
EXTENDS KernelEvents, FiniteSetTheorems, WellFoundedInduction, TLAPS

\* The instructions that have been performed.
Done == {n \in 1..Len(Program) : n < at[Program[n].unit]}

DoneOf(do, f) == {n \in Done : Program[n].do = do /\ Program[n].flag = f}

\* An event is set as often as it was waited for, and what flags adds.
FlagsCount ==
  \A f \in Flags(kernel) :
    flags[f] + Cardinality(DoneOf("wait", f)) = Cardinality(DoneOf("set", f))

\* A pipe performs only what the scalar unit is past.
IssuedFirst ==
  \A n \in Done :
    Program[n].unit # Scalar(Program[n].unit) => n < at[Scalar(Program[n].unit)]

\* Past a PIPE_ALL, everything its core does before it is done.
BarriersKept ==
  \A b \in Done : Program[b].do = "barrier" =>
    \A n \in 1..(b - 1) : Scalar(Program[n].unit) = Program[b].unit => n \in Done

IInv == TypeOK /\ FlagsCount /\ IssuedFirst /\ BarriersKept

-----------------------------------------------------------------------------
\* The natural numbers below one another, and the least of a set of them.
Below == {ss \in Nat \X Nat : ss[1] < ss[2]}

LEMMA BelowWellFounded == IsWellFoundedOn(Below, Nat)
  BY NatLessThanWellFounded DEF OpToRel, Below

LEMMA LeastElement ==
  ASSUME NEW T, T \subseteq Nat, T # {}
  PROVE  \E x \in T : \A y \in T : x <= y
<1>1. \E x \in T : \A y \in T : ~ (<<y, x>> \in Below)
  BY BelowWellFounded, WFMin
<1>2. PICK x \in T : \A y \in T : ~ (<<y, x>> \in Below)
  BY <1>1
<1>3. ASSUME NEW y \in T PROVE x <= y
  <2>1. x \in Nat /\ y \in Nat
    OBVIOUS
  <2>2. y < x => <<y, x>> \in Below
    BY <2>1 DEF Below
  <2>3. QED
    BY <2>1, <2>2, <1>2
<1>4. QED
  BY <1>3

\* The shape of a program and of its instructions.
LEMMA ProgramShape ==
  ASSUME NEW k \in DOMAIN Programs
  PROVE  /\ Len(Programs[k]) \in Nat
         /\ \A n \in 1..Len(Programs[k]) :
              /\ Programs[k][n].unit \in Units(k)
              /\ Programs[k][n].do = "set" => Programs[k][n].unit = Programs[k][n].flag[1]
              /\ Programs[k][n].do = "wait" => Programs[k][n].unit = Programs[k][n].flag[2]
              /\ Programs[k][n].do = "barrier" => Programs[k][n].unit = Scalar(Programs[k][n].unit)
<1>1. /\ Programs[k] \in Seq({Programs[k][n] : n \in DOMAIN Programs[k]})
      /\ \A n \in DOMAIN Programs[k] : IsInstruction(Programs[k][n])
  BY ProgramsAssumption
<1>2. Len(Programs[k]) \in Nat /\ DOMAIN Programs[k] = 1..Len(Programs[k])
  BY <1>1
<1>3. QED
  BY <1>1, <1>2 DEF IsInstruction, Units

\* A unit is a stage of a core, and its scalar unit is one of the kernel's too.
LEMMA UnitsShape ==
  ASSUME NEW k \in DOMAIN Programs, NEW u \in Units(k)
  PROVE  /\ u \in Nat \X Stages
         /\ Scalar(u) \in Units(k)
         /\ Scalar(Scalar(u)) = Scalar(u)
<1>1. \A n \in DOMAIN Programs[k] : Programs[k][n].unit \in Nat \X Stages
  BY ProgramsAssumption DEF IsInstruction
<1>. DEFINE used == {Programs[k][n].unit : n \in DOMAIN Programs[k]}
<1>2. Units(k) = used \union {Scalar(v) : v \in used} /\ used \subseteq Nat \X Stages
  BY <1>1 DEF Units
<1>. HIDE DEF used
<1>3. \A v \in Nat \X Stages : Scalar(v) \in Nat \X Stages /\ Scalar(Scalar(v)) = Scalar(v)
  BY DEF Scalar, Stages
<1>4. CASE u \in used
  BY <1>2, <1>3, <1>4
<1>5. CASE \E v \in used : u = Scalar(v)
  BY <1>2, <1>3, <1>5
<1>6. QED
  BY <1>2, <1>4, <1>5

\* A unit goes on to an instruction of its own, passing over none of its own.
LEMMA FollowingLands ==
  ASSUME kernel \in DOMAIN Programs, NEW u \in Units(kernel), NEW n \in 0..Len(Program)
  PROVE  /\ Following(u, n) \in (n + 1)..End
         /\ Following(u, n) = End \/ Program[Following(u, n)].unit = u
         /\ \A j \in (n + 1)..(Following(u, n) - 1) : Program[j].unit # u
<1>. DEFINE T == {m \in (n + 1)..End : m = End \/ Program[m].unit = u}
<1>1. Len(Program) \in Nat /\ End = Len(Program) + 1
  BY ProgramShape DEF Program, End
<1>2. T \subseteq Nat /\ End \in T
  BY <1>1
<1>3. PICK m \in T : \A j \in T : m <= j
  BY <1>2, LeastElement
<1>4. m \in (n + 1)..End /\ (m = End \/ Program[m].unit = u)
  OBVIOUS
<1>5. ASSUME NEW j \in (n + 1)..(m - 1) PROVE Program[j].unit # u
  <2>1. j \in (n + 1)..End /\ ~(m <= j)
    BY <1>1, <1>4
  <2>2. QED
    BY <2>1, <1>3
<1>6. QED
  BY <1>4, <1>5 DEF Following

-----------------------------------------------------------------------------
\* When a unit goes on, exactly the instruction it was at has been performed.
LEMMA AdvancePerforms ==
  ASSUME TypeOK, NEW u \in Units(kernel), at[u] # End, Advance(u)
  PROVE  /\ at[u] \in 1..Len(Program) /\ Program[at[u]].unit = u
         /\ at[u] \notin Done
         /\ kernel' = kernel /\ Program' = Program /\ End' = End
         /\ at' \in [Units(kernel) -> 1..End]
         /\ \A v \in Units(kernel) : at'[v] >= at[v]
         /\ \A v \in Units(kernel) : at'[v] = End \/ Program[at'[v]].unit = v
         /\ Done' = Done \union {at[u]}
<1>1. /\ kernel \in DOMAIN Programs /\ at \in [Units(kernel) -> 1..End]
      /\ Len(Program) \in Nat /\ End = Len(Program) + 1
      /\ \A n \in 1..Len(Program) : Program[n].unit \in Units(kernel)
      /\ \A v \in Units(kernel) : at[v] = End \/ Program[at[v]].unit = v
  BY ProgramShape DEF TypeOK, Program, End
<1>2. at[u] \in 1..Len(Program) /\ Program[at[u]].unit = u
  BY <1>1
<1>3. at' = [at EXCEPT ![u] = Following(u, at[u])] /\ kernel' = kernel
  BY DEF Advance
<1>4. Program' = Program /\ End' = End
  BY <1>3 DEF Program, End
<1>. DEFINE next == Following(u, at[u])
<1>5. /\ next \in (at[u] + 1)..End
      /\ next = End \/ Program[next].unit = u
      /\ \A j \in (at[u] + 1)..(next - 1) : Program[j].unit # u
  BY <1>1, <1>2, FollowingLands
<1>. HIDE DEF next
<1>6. at' = [at EXCEPT ![u] = next]
  BY <1>3 DEF next
<1>7. at' \in [Units(kernel) -> 1..End] /\ \A v \in Units(kernel) : at'[v] >= at[v]
  BY <1>1, <1>2, <1>5, <1>6
<1>8. \A v \in Units(kernel) : at'[v] = End \/ Program[at'[v]].unit = v
  BY <1>1, <1>5, <1>6
<1>9. Done' = {n \in 1..Len(Program) : n < at'[Program[n].unit]}
  BY <1>4 DEF Done
<1>10. ASSUME NEW n \in 1..Len(Program)
       PROVE  n < at'[Program[n].unit] <=> n < at[Program[n].unit] \/ n = at[u]
  <2>1. CASE Program[n].unit = u
    <3>1. at'[u] = next
      BY <1>1, <1>6
    <3>2. n \notin (at[u] + 1)..(next - 1)
      BY <2>1, <1>5
    <3>3. QED
      BY <2>1, <3>1, <3>2, <1>1, <1>2, <1>5
  <2>2. CASE Program[n].unit # u
    <3>1. at'[Program[n].unit] = at[Program[n].unit]
      BY <2>2, <1>1, <1>6
    <3>2. QED
      BY <2>2, <3>1, <1>2
  <2>3. QED
    BY <2>1, <2>2
<1>11. Done' = Done \union {at[u]}
  BY <1>2, <1>9, <1>10 DEF Done
<1>12. at[u] \notin Done
  BY <1>1, <1>2 DEF Done
<1>13. QED
  BY <1>2, <1>3, <1>4, <1>7, <1>8, <1>11, <1>12

\* What has been performed of a kind is finite.
LEMMA DoneFinite ==
  ASSUME TypeOK, NEW do, NEW f
  PROVE  IsFiniteSet(DoneOf(do, f)) /\ Cardinality(DoneOf(do, f)) \in Nat
<1>1. Len(Program) \in Nat
  BY ProgramShape DEF TypeOK, Program
<1>2. IsFiniteSet(1..Len(Program))
  BY <1>1, FS_Interval
<1>3. DoneOf(do, f) \subseteq 1..Len(Program)
  BY DEF DoneOf, Done
<1>4. QED
  BY <1>2, <1>3, FS_Subset, FS_CardinalityType

\* A kernel starts with nothing done.
LEMMA Starts == Init => IInv
<1>. SUFFICES ASSUME Init PROVE IInv
  OBVIOUS
<1>1. /\ kernel \in DOMAIN Programs
      /\ at = [u \in Units(kernel) |-> Following(u, 0)]
      /\ flags = [f \in Flags(kernel) |-> 0]
  BY DEF Init
<1>2. Len(Program) \in Nat /\ End = Len(Program) + 1
  BY <1>1, ProgramShape DEF Program, End
<1>3. \A u \in Units(kernel) :
        /\ Following(u, 0) \in 1..End
        /\ Following(u, 0) = End \/ Program[Following(u, 0)].unit = u
        /\ \A j \in 1..(Following(u, 0) - 1) : Program[j].unit # u
  BY <1>1, <1>2, FollowingLands
<1>4. TypeOK
  BY <1>1, <1>3 DEF TypeOK
<1>5. Done = {}
  <2>1. ASSUME NEW n \in 1..Len(Program), n < at[Program[n].unit] PROVE FALSE
    <3>. DEFINE u == Program[n].unit
    <3>1. u \in Units(kernel)
      BY <1>1, ProgramShape DEF Program
    <3>2. at[u] = Following(u, 0)
      BY <1>1, <3>1
    <3>3. n \in 1..(Following(u, 0) - 1)
      BY <2>1, <3>1, <3>2, <1>2, <1>3
    <3>4. QED
      BY <3>1, <3>3, <1>3
  <2>2. QED
    BY <2>1 DEF Done
<1>6. \A do, f : Cardinality(DoneOf(do, f)) = 0
  BY <1>5, FS_EmptySet DEF DoneOf
<1>7. FlagsCount
  BY <1>1, <1>6 DEF FlagsCount
<1>8. QED
  BY <1>4, <1>5, <1>7 DEF IInv, IssuedFirst, BarriersKept

-----------------------------------------------------------------------------
\* Where the units go on keeps its type, and the order of issue is kept,
\* whatever a unit performs, if it performs it once it is issued.
LEMMA AdvanceKeepsOrder ==
  ASSUME IInv, NEW u \in Units(kernel), Issued(u), Advance(u)
  PROVE  IssuedFirst'
<1>1. /\ Program[at[u]].unit = u /\ at[u] # End
      /\ at \in [Units(kernel) -> 1..End] /\ End \in Nat
      /\ \A n \in 1..Len(Program) : Program[n].unit \in Units(kernel)
      /\ \A v \in Units(kernel) : Scalar(v) \in Units(kernel)
  BY AdvancePerforms, ProgramShape, UnitsShape
     DEF IInv, TypeOK, Issued, End, Program
<1>2. /\ Done' = Done \union {at[u]} /\ Program' = Program
      /\ at[u] \in 1..Len(Program)
      /\ at' \in [Units(kernel) -> 1..End] /\ \A v \in Units(kernel) : at'[v] >= at[v]
  BY <1>1, AdvancePerforms DEF IInv
<1>3. ASSUME NEW n \in Done', Program[n].unit # Scalar(Program[n].unit)
      PROVE  n < at'[Scalar(Program[n].unit)]
  <2>. DEFINE s == Scalar(Program[n].unit)
  <2>1. n \in 1..Len(Program) /\ n \in Nat
    BY <1>2 DEF Done
  <2>2. s \in Units(kernel)
    BY <1>1, <2>1
  <2>3. n < at[s]
    BY <1>1, <1>2, <1>3 DEF IInv, IssuedFirst, Issued
  <2>. HIDE DEF s
  <2>4. n < at'[s]
    BY <2>1, <2>2, <2>3, <1>1, <1>2
  <2>5. QED
    BY <2>4 DEF s
<1>4. QED
  BY <1>2, <1>3 DEF IssuedFirst

\* A barrier stays kept, and a unit that performs anything else adds none.
LEMMA AdvanceKeepsBarriers ==
  ASSUME IInv, NEW u \in Units(kernel), Issued(u), Advance(u), Program[at[u]].do # "barrier"
  PROVE  BarriersKept'
<1>1. Done' = Done \union {at[u]} /\ Program' = Program
  BY AdvancePerforms DEF IInv, Issued
<1>2. QED
  BY <1>1 DEF IInv, BarriersKept

LEMMA WorkStep ==
  ASSUME IInv, NEW u \in Units(kernel), Work(u)
  PROVE  IInv'
<1>1. /\ Issued(u) /\ at[u] # End /\ Advance(u) /\ flags' = flags
      /\ Program[at[u]].do = "work"
  BY DEF Work, Reaches, Issued
<1>2. /\ kernel' = kernel /\ Program' = Program /\ End' = End
      /\ at' \in [Units(kernel) -> 1..End] /\ Done' = Done \union {at[u]}
      /\ \A v \in Units(kernel) : at'[v] = End \/ Program[at'[v]].unit = v
  BY <1>1, AdvancePerforms DEF IInv
<1>3. TypeOK'
  BY <1>1, <1>2 DEF IInv, TypeOK, Flags, Units
<1>4. FlagsCount'
  <2>1. \A f : DoneOf("set", f)' = DoneOf("set", f) /\ DoneOf("wait", f)' = DoneOf("wait", f)
    BY <1>1, <1>2 DEF DoneOf
  <2>2. QED
    BY <2>1, <1>1, <1>2 DEF IInv, FlagsCount, Flags
<1>5. QED
  BY <1>1, <1>3, <1>4, AdvanceKeepsOrder, AdvanceKeepsBarriers DEF IInv

LEMMA SignalStep ==
  ASSUME IInv, NEW u \in Units(kernel), Signal(u)
  PROVE  IInv'
<1>. DEFINE e == Program[at[u]].flag
<1>1. /\ Issued(u) /\ at[u] # End /\ Advance(u)
      /\ flags' = [flags EXCEPT ![e] = @ + 1]
      /\ Program[at[u]].do = "set"
  BY DEF Signal, Reaches, Issued
<1>2. /\ kernel' = kernel /\ Program' = Program /\ End' = End
      /\ at' \in [Units(kernel) -> 1..End] /\ Done' = Done \union {at[u]} /\ at[u] \notin Done
      /\ \A v \in Units(kernel) : at'[v] = End \/ Program[at'[v]].unit = v
  BY <1>1, AdvancePerforms DEF IInv
<1>. HIDE DEF e
<1>3. TypeOK'
  <2>1. flags \in [Flags(kernel) -> Nat] /\ Flags(kernel)' = Flags(kernel)
    BY <1>2 DEF IInv, TypeOK, Flags
  <2>2. flags' \in [Flags(kernel) -> Nat]
    <3>1. DOMAIN flags' = Flags(kernel) /\ flags' = [g \in Flags(kernel) |-> flags'[g]]
      BY <1>1, <2>1
    <3>2. ASSUME NEW g \in Flags(kernel) PROVE flags'[g] \in Nat
      <4>1. flags'[g] = IF g = e THEN flags[g] + 1 ELSE flags[g]
        BY <1>1, <2>1
      <4>2. flags[g] \in Nat
        BY <1>1, <2>1
      <4>3. QED
        BY <4>1, <4>2
    <3>3. QED
      BY <3>1, <3>2
  <2>3. kernel' \in DOMAIN Programs
    BY <1>2 DEF IInv, TypeOK
  <2>4. QED
    BY <1>2, <2>1, <2>2, <2>3 DEF TypeOK, Units
<1>4. FlagsCount'
  <2>1. SUFFICES ASSUME NEW f \in Flags(kernel)
                 PROVE  flags'[f] + Cardinality(DoneOf("wait", f)')
                          = Cardinality(DoneOf("set", f)')
    BY <1>2 DEF FlagsCount, Flags
  <2>2. DoneOf("wait", f)' = DoneOf("wait", f)
    BY <1>1, <1>2 DEF DoneOf
  <2>3. /\ IsFiniteSet(DoneOf("set", f))
        /\ Cardinality(DoneOf("set", f)) \in Nat /\ Cardinality(DoneOf("wait", f)) \in Nat
        /\ flags[f] \in Nat
        /\ flags[f] + Cardinality(DoneOf("wait", f)) = Cardinality(DoneOf("set", f))
    BY DoneFinite DEF IInv, TypeOK, FlagsCount
  <2>4. CASE f = e
    <3>1. DoneOf("set", f)' = DoneOf("set", f) \union {at[u]} /\ at[u] \notin DoneOf("set", f)
      BY <2>4, <1>1, <1>2 DEF DoneOf, e
    <3>2. Cardinality(DoneOf("set", f)') = Cardinality(DoneOf("set", f)) + 1
      BY <3>1, <2>3, FS_AddElement
    <3>3. flags'[f] = flags[f] + 1
      BY <2>4, <1>1 DEF IInv, TypeOK
    <3>4. QED
      BY <2>2, <2>3, <3>2, <3>3
  <2>5. CASE f # e
    <3>1. DoneOf("set", f)' = DoneOf("set", f)
      BY <2>5, <1>1, <1>2 DEF DoneOf, e
    <3>2. flags'[f] = flags[f]
      BY <2>5, <1>1 DEF IInv, TypeOK
    <3>3. QED
      BY <2>2, <2>3, <3>1, <3>2
  <2>6. QED
    BY <2>4, <2>5
<1>5. QED
  BY <1>1, <1>3, <1>4, AdvanceKeepsOrder, AdvanceKeepsBarriers DEF IInv

LEMMA AwaitStep ==
  ASSUME IInv, NEW u \in Units(kernel), Await(u)
  PROVE  IInv'
<1>. DEFINE e == Program[at[u]].flag
<1>1. /\ Issued(u) /\ at[u] # End /\ Advance(u)
      /\ flags' = [flags EXCEPT ![e] = @ - 1] /\ flags[e] > 0
      /\ Program[at[u]].do = "wait"
  BY DEF Await, Reaches, Issued
<1>2. /\ kernel' = kernel /\ Program' = Program /\ End' = End
      /\ at' \in [Units(kernel) -> 1..End] /\ Done' = Done \union {at[u]} /\ at[u] \notin Done
      /\ \A v \in Units(kernel) : at'[v] = End \/ Program[at'[v]].unit = v
  BY <1>1, AdvancePerforms DEF IInv
<1>. HIDE DEF e
<1>3. TypeOK'
  <2>1. flags \in [Flags(kernel) -> Nat] /\ Flags(kernel)' = Flags(kernel)
    BY <1>2 DEF IInv, TypeOK, Flags
  <2>2. flags' \in [Flags(kernel) -> Nat]
    <3>1. DOMAIN flags' = Flags(kernel) /\ flags' = [g \in Flags(kernel) |-> flags'[g]]
      BY <1>1, <2>1
    <3>2. ASSUME NEW g \in Flags(kernel) PROVE flags'[g] \in Nat
      <4>1. flags'[g] = IF g = e THEN flags[g] - 1 ELSE flags[g]
        BY <1>1, <2>1
      <4>2. flags[g] \in Nat /\ (g = e => flags[g] > 0)
        BY <1>1, <2>1
      <4>3. QED
        BY <4>1, <4>2
    <3>3. QED
      BY <3>1, <3>2
  <2>3. kernel' \in DOMAIN Programs
    BY <1>2 DEF IInv, TypeOK
  <2>4. QED
    BY <1>2, <2>1, <2>2, <2>3 DEF TypeOK, Units
<1>4. FlagsCount'
  <2>1. SUFFICES ASSUME NEW f \in Flags(kernel)
                 PROVE  flags'[f] + Cardinality(DoneOf("wait", f)')
                          = Cardinality(DoneOf("set", f)')
    BY <1>2 DEF FlagsCount, Flags
  <2>2. DoneOf("set", f)' = DoneOf("set", f)
    BY <1>1, <1>2 DEF DoneOf
  <2>3. /\ IsFiniteSet(DoneOf("wait", f))
        /\ Cardinality(DoneOf("set", f)) \in Nat /\ Cardinality(DoneOf("wait", f)) \in Nat
        /\ flags[f] \in Nat
        /\ flags[f] + Cardinality(DoneOf("wait", f)) = Cardinality(DoneOf("set", f))
    BY DoneFinite DEF IInv, TypeOK, FlagsCount
  <2>4. CASE f = e
    <3>1. DoneOf("wait", f)' = DoneOf("wait", f) \union {at[u]} /\ at[u] \notin DoneOf("wait", f)
      BY <2>4, <1>1, <1>2 DEF DoneOf, e
    <3>2. Cardinality(DoneOf("wait", f)') = Cardinality(DoneOf("wait", f)) + 1
      BY <3>1, <2>3, FS_AddElement
    <3>3. flags'[f] = flags[f] - 1
      BY <2>4, <1>1 DEF IInv, TypeOK
    <3>4. QED
      BY <2>2, <2>3, <3>2, <3>3
  <2>5. CASE f # e
    <3>1. DoneOf("wait", f)' = DoneOf("wait", f)
      BY <2>5, <1>1, <1>2 DEF DoneOf, e
    <3>2. flags'[f] = flags[f]
      BY <2>5, <1>1 DEF IInv, TypeOK
    <3>3. QED
      BY <2>2, <2>3, <3>1, <3>2
  <2>6. QED
    BY <2>4, <2>5
<1>5. QED
  BY <1>1, <1>3, <1>4, AdvanceKeepsOrder, AdvanceKeepsBarriers DEF IInv

LEMMA BarrierStep ==
  ASSUME IInv, NEW u \in Units(kernel), Barrier(u)
  PROVE  IInv'
<1>1. /\ Issued(u) /\ at[u] # End /\ Advance(u) /\ flags' = flags
      /\ Program[at[u]].do = "barrier"
      /\ \A v \in DOMAIN at : v # u /\ Scalar(v) = u => at[v] > at[u]
  BY DEF Barrier, Reaches, Issued
<1>2. /\ kernel' = kernel /\ Program' = Program /\ End' = End
      /\ at' \in [Units(kernel) -> 1..End] /\ Done' = Done \union {at[u]}
      /\ at[u] \in 1..Len(Program) /\ Program[at[u]].unit = u
      /\ \A v \in Units(kernel) : at'[v] = End \/ Program[at'[v]].unit = v
  BY <1>1, AdvancePerforms DEF IInv
<1>3. TypeOK'
  BY <1>1, <1>2 DEF IInv, TypeOK, Flags, Units
<1>4. FlagsCount'
  <2>1. \A f : DoneOf("set", f)' = DoneOf("set", f) /\ DoneOf("wait", f)' = DoneOf("wait", f)
    BY <1>1, <1>2 DEF DoneOf
  <2>2. QED
    BY <2>1, <1>1, <1>2 DEF IInv, FlagsCount, Flags
<1>5. ASSUME NEW n \in 1..(at[u] - 1), Scalar(Program[n].unit) = u
      PROVE  n \in Done
  <2>1. Len(Program) \in Nat /\ \A m \in 1..Len(Program) : Program[m].unit \in Units(kernel)
    BY ProgramShape DEF IInv, TypeOK, Program
  <2>2. at \in [Units(kernel) -> 1..(Len(Program) + 1)]
    BY DEF IInv, TypeOK, End
  <2>3. n \in 1..Len(Program) /\ n < at[u]
    BY <1>2, <2>1
  <2>4. at[Program[n].unit] >= at[u]
    BY <1>1, <1>5, <2>1, <2>2, <2>3
  <2>5. QED
    BY <1>2, <2>1, <2>2, <2>3, <2>4 DEF Done
<1>6. BarriersKept'
  BY <1>2, <1>5 DEF IInv, BarriersKept
<1>7. QED
  BY <1>1, <1>3, <1>4, <1>6, AdvanceKeepsOrder DEF IInv

LEMMA Inductive == Spec => []IInv
<1>1. IInv /\ [Next]_vars => IInv'
  <2>. SUFFICES ASSUME IInv, [Next]_vars PROVE IInv'
    OBVIOUS
  <2>1. DOMAIN at = Units(kernel)
    BY DEF IInv, TypeOK
  <2>2. ASSUME NEW u \in Units(kernel), Work(u) \/ Signal(u) \/ Await(u) \/ Barrier(u)
        PROVE  IInv'
    BY <2>2, WorkStep, SignalStep, AwaitStep, BarrierStep
  <2>3. CASE UNCHANGED vars
    BY <2>3 DEF vars, IInv, TypeOK, FlagsCount, IssuedFirst, BarriersKept,
                Done, DoneOf, Program, End, Flags, Units
  <2>4. QED
    BY <2>1, <2>2, <2>3 DEF Next
<1>2. QED
  BY Starts, <1>1, PTL DEF Spec

-----------------------------------------------------------------------------
\* What is done, or under way.
Started == Done \union UnderWay

\* Everything about a kernel that the steps below use.
LEMMA StartedShape ==
  ASSUME IInv
  PROVE  /\ Len(Program) \in Nat /\ End = Len(Program) + 1
         /\ at \in [Units(kernel) -> 1..End]
         /\ Started \subseteq 1..Len(Program)
         /\ \A n \in 1..Len(Program) : Program[n].unit \in Units(kernel)
         /\ \A n \in 1..Len(Program) : n \in Done <=> n < at[Program[n].unit]
         /\ \A n \in Started : n <= at[Program[n].unit]
         /\ \A n \in Started :
              Program[n].unit # Scalar(Program[n].unit) => n < at[Scalar(Program[n].unit)]
         /\ \A n \in UnderWay : Program[n].do = "work"
<1>1. /\ Len(Program) \in Nat /\ End = Len(Program) + 1
      /\ at \in [Units(kernel) -> 1..End]
      /\ \A n \in 1..Len(Program) : Program[n].unit \in Units(kernel)
      /\ \A n \in 1..Len(Program) : n \in Done <=> n < at[Program[n].unit]
  BY ProgramShape DEF IInv, TypeOK, Program, End, Done
<1>2. ASSUME NEW n \in UnderWay
      PROVE  /\ n \in 1..Len(Program) /\ n <= at[Program[n].unit]
             /\ Program[n].unit # Scalar(Program[n].unit) => n < at[Scalar(Program[n].unit)]
             /\ Program[n].do = "work"
  <2>1. PICK u \in Units(kernel) : n = at[u] /\ Reaches(u, "work")
    BY <1>1 DEF UnderWay
  <2>2. /\ at[u] # End /\ (u # Scalar(u) => at[u] < at[Scalar(u)])
        /\ Program[n].do = "work"
    BY <2>1 DEF Reaches, Issued
  <2>3. Program[n].unit = u
    BY <2>1, <2>2 DEF IInv, TypeOK
  <2>4. n \in 1..Len(Program)
    BY <1>1, <2>1, <2>2
  <2>5. QED
    BY <1>1, <2>1, <2>2, <2>3, <2>4
<1>3. ASSUME NEW n \in Done
      PROVE  /\ n \in 1..Len(Program) /\ n <= at[Program[n].unit]
             /\ Program[n].unit # Scalar(Program[n].unit) => n < at[Scalar(Program[n].unit)]
  <2>1. n \in 1..Len(Program) /\ n < at[Program[n].unit]
    BY DEF Done
  <2>2. at[Program[n].unit] \in Nat
    BY <1>1, <2>1
  <2>3. QED
    BY <2>1, <2>2 DEF IInv, IssuedFirst
<1>4. QED
  BY <1>1, <1>2, <1>3 DEF Started

\* A wait that is done was announced: if its signal were not, fewer signals
\* than waits of the event would be done.
LEMMA AnnouncedDone ==
  ASSUME IInv, NEW n \in Done, NEW j \in Announcing(Program, n)
  PROVE  j \in Done
<1>. DEFINE f == Program[n].flag
<1>1. /\ n \in 1..Len(Program) /\ j \in 1..(n - 1) /\ j \in 1..Len(Program)
      /\ Program[n].do = "wait" /\ Program[j].do = "set" /\ Program[j].flag = f
      /\ Cardinality(Sets(Program, f, j)) = Cardinality(Waits(Program, f, n))
      /\ Len(Program) \in Nat
  BY StartedShape DEF Announcing, Done
<1>2. \A m \in 1..Len(Program) :
        /\ Program[m].do = "set" => Program[m].unit = Program[m].flag[1]
        /\ Program[m].do = "wait" => Program[m].unit = Program[m].flag[2]
  BY ProgramShape DEF IInv, TypeOK, Program
<1>3. f \in Flags(kernel)
  <2>1. f[2] \in Units(kernel)
    BY <1>1, <1>2, StartedShape
  <2>2. NoFlag[2] \notin Units(kernel)
    <3>1. Units(kernel) \subseteq Nat \X Stages
      BY UnitsShape DEF IInv, TypeOK
    <3>2. NoFlag[2] \notin Nat \X Stages
      BY DEF NoFlag, Unit, Stages, Pipes
    <3>3. QED
      BY <3>1, <3>2
  <2>3. n \in DOMAIN Programs[kernel]
    <3>1. Programs[kernel] \in Seq({Programs[kernel][m] : m \in DOMAIN Programs[kernel]})
      BY ProgramsAssumption DEF IInv, TypeOK
    <3>2. DOMAIN Programs[kernel] = 1..Len(Programs[kernel])
      BY <3>1
    <3>3. QED
      BY <1>1, <3>2 DEF Program
  <2>4. QED
    BY <2>1, <2>2, <2>3 DEF Flags, Program
<1>4. /\ flags[f] \in Nat
      /\ flags[f] + Cardinality(DoneOf("wait", f)) = Cardinality(DoneOf("set", f))
  BY <1>3 DEF IInv, TypeOK, FlagsCount
<1>5. SUFFICES ASSUME j \notin Done PROVE FALSE
  OBVIOUS
<1>. HIDE DEF f
<1>6. DoneOf("set", f) \subseteq Sets(Program, f, j) \ {j}
  <2>1. at[f[1]] <= j /\ at[f[1]] \in Nat
    BY <1>1, <1>2, <1>5, StartedShape
  <2>2. ASSUME NEW m \in DoneOf("set", f) PROVE m \in Sets(Program, f, j) \ {j}
    <3>1. /\ m \in 1..Len(Program) /\ m < at[Program[m].unit]
          /\ Program[m].do = "set" /\ Program[m].flag = f
      BY DEF DoneOf, Done
    <3>2. m < j /\ m \in 1..j
      BY <1>1, <1>2, <2>1, <3>1
    <3>3. QED
      BY <3>1, <3>2, <1>1 DEF Sets
  <2>3. QED
    BY <2>2
<1>7. Waits(Program, f, n) \subseteq DoneOf("wait", f)
  <2>1. ASSUME NEW m \in Waits(Program, f, n) PROVE m \in DoneOf("wait", f)
    <3>1. m \in 1..Len(Program) /\ m <= n /\ Program[m].do = "wait" /\ Program[m].flag = f
      BY <1>1 DEF Waits
    <3>2. Program[m].unit = Program[n].unit
      BY <1>1, <1>2, <3>1 DEF f
    <3>3. n < at[Program[n].unit] /\ at[Program[n].unit] \in Nat
      BY <1>1, StartedShape
    <3>4. m \in Done
      BY <1>1, <3>1, <3>2, <3>3 DEF Done
    <3>5. QED
      BY <3>1, <3>4 DEF DoneOf
  <2>2. QED
    BY <2>1
<1>8. /\ IsFiniteSet(Sets(Program, f, j)) /\ j \in Sets(Program, f, j)
      /\ Cardinality(Sets(Program, f, j)) \in Nat
  <2>1. IsFiniteSet(1..j)
    BY <1>1, FS_Interval
  <2>2. QED
    BY <1>1, <2>1, FS_Subset, FS_CardinalityType DEF Sets
<1>9. /\ IsFiniteSet(Sets(Program, f, j) \ {j})
      /\ Cardinality(Sets(Program, f, j) \ {j}) = Cardinality(Sets(Program, f, j)) - 1
  BY <1>8, FS_RemoveElement
<1>10. Cardinality(DoneOf("set", f)) <= Cardinality(Sets(Program, f, j)) - 1
  BY <1>6, <1>9, FS_Subset
<1>11. Cardinality(Waits(Program, f, n)) <= Cardinality(DoneOf("wait", f))
  BY <1>7, DoneFinite, FS_Subset DEF IInv
<1>12. Cardinality(DoneOf("set", f)) \in Nat /\ Cardinality(DoneOf("wait", f)) \in Nat
  BY DoneFinite DEF IInv
<1>13. QED
  BY <1>1, <1>4, <1>8, <1>10, <1>11, <1>12

\* The causes of an instruction that is done or under way are done.
LEMMA CausesDone ==
  ASSUME IInv, NEW n \in Started, NEW j \in Causes(Program, n)
  PROVE  j \in Done /\ j \in Nat /\ j < n
<1>1. /\ n \in 1..Len(Program) /\ Len(Program) \in Nat /\ End = Len(Program) + 1
      /\ at \in [Units(kernel) -> 1..End]
  BY StartedShape
<1>2. CASE \E u \in {Program[n].unit, Scalar(Program[n].unit)} :
             j \in Preceding(Program, u, n)
  <2>1. PICK u \in {Program[n].unit, Scalar(Program[n].unit)} :
          j \in Preceding(Program, u, n)
    BY <1>2
  <2>2. j \in 1..(n - 1) /\ j \in 1..Len(Program) /\ Program[j].unit = u
    BY <1>1, <2>1 DEF Preceding
  <2>3. n <= at[u] /\ at[u] \in Nat
    <3>1. u \in Units(kernel)
      BY <1>1, StartedShape, UnitsShape DEF IInv, TypeOK
    <3>2. at[u] \in Nat
      BY <1>1, <3>1
    <3>3. CASE u = Program[n].unit
      BY <3>2, <3>3, StartedShape
    <3>4. CASE u # Program[n].unit
      BY <1>1, <3>2, <3>4, <2>1, StartedShape
    <3>5. QED
      BY <3>3, <3>4
  <2>4. QED
    BY <1>1, <2>2, <2>3 DEF Done
<1>3. CASE Program[n].do = "barrier"
             /\ \E u \in UnitsOf(Program, Program[n].unit) : j \in Preceding(Program, u, n)
  <2>1. j \in 1..(n - 1) /\ Scalar(Program[j].unit) = Program[n].unit
    BY <1>3 DEF Preceding, UnitsOf
  <2>2. n \in Done
    BY <1>3, StartedShape DEF Started
  <2>3. QED
    BY <1>1, <1>3, <2>1, <2>2 DEF IInv, BarriersKept
<1>4. CASE j \in Announcing(Program, n)
  <2>1. j \in 1..(n - 1) /\ Program[n].do = "wait"
    BY <1>4 DEF Announcing
  <2>2. n \in Done
    BY <2>1, StartedShape DEF Started
  <2>3. QED
    BY <1>1, <1>4, <2>1, <2>2, AnnouncedDone
<1>. DEFINE Stops == {Program[n].unit, Scalar(Program[n].unit)}
                       \union IF Program[n].do = "barrier"
                              THEN UnitsOf(Program, Program[n].unit) ELSE {}
<1>5. \/ j \in Announcing(Program, n)
      \/ \E u \in Stops : j \in Preceding(Program, u, n)
  BY DEF Causes
<1>6. \A u \in Stops : \/ u \in {Program[n].unit, Scalar(Program[n].unit)}
                       \/ /\ Program[n].do = "barrier"
                          /\ u \in UnitsOf(Program, Program[n].unit)
  OBVIOUS
<1>. HIDE DEF Stops
<1>7. QED
  BY <1>2, <1>3, <1>4, <1>5, <1>6

\* So is whatever they justify: the least instruction with something before
\* it that is not done would have a cause that is smaller still.
LEMMA BeforeDone ==
  ASSUME IInv, NEW before, Justified(Program, before),
         NEW n \in Started, NEW j \in before[n]
  PROVE  j \in Done
<1>. DEFINE T == {i \in Started : \E m \in before[i] : m \notin Done}
<1>1. SUFFICES ASSUME T # {} PROVE FALSE
  OBVIOUS
<1>2. T \subseteq Nat /\ T \subseteq 1..Len(Program)
  BY StartedShape
<1>3. PICK i \in T : \A x \in T : i <= x
  BY <1>1, <1>2, LeastElement
<1>4. PICK m \in before[i] : m \notin Done
  OBVIOUS
<1>5. m \in UNION {{c} \union before[c] : c \in Causes(Program, i)}
  BY <1>2, <1>4 DEF Justified
<1>6. PICK c \in Causes(Program, i) : m = c \/ m \in before[c]
  BY <1>5
<1>7. c \in Done /\ c \in Nat /\ c < i
  BY CausesDone
<1>8. c \in T
  BY <1>4, <1>6, <1>7 DEF Started
<1>9. QED
  BY <1>2, <1>3, <1>7, <1>8

\* What is outstanding is not done, so it is not before what is under way.
LEMMA OutstandingUnordered ==
  ASSUME IInv, NEW before, Justified(Program, before),
         NEW n \in UnderWay, NEW m \in Outstanding(n)
  PROVE  /\ n \in 1..Len(Program) /\ m \in 1..(n - 1)
         /\ Program[m].unit # Program[n].unit
         /\ m \notin before[n]
<1>1. PICK u \in Units(kernel) \ {Program[n].unit} :
        m \in at[u]..(n - 1) /\ Program[m].unit = u
  BY DEF Outstanding, IInv, TypeOK
<1>2. n \in 1..Len(Program) /\ Len(Program) \in Nat /\ at[u] \in Nat /\ at[u] >= 1
  BY StartedShape DEF Started
<1>3. m \in 1..(n - 1) /\ m \in 1..Len(Program) /\ ~(m < at[u])
  BY <1>1, <1>2
<1>4. m \notin Done
  BY <1>1, <1>3 DEF Done
<1>5. QED
  BY <1>1, <1>2, <1>3, <1>4, BeforeDone DEF Started

-----------------------------------------------------------------------------
\* The units stay within the text, each at an instruction of its own, and no
\* event is ever waited for more often than it was set.
THEOREM TypeCorrect == Spec => []TypeOK
  BY Inductive, PTL DEF IInv

\* In a kernel whose conflicts events and PIPE_ALL order, for whatever its
\* buffers and its length, a copy or vector instruction never starts before
\* what it reads has arrived.
THEOREM OperandsOfOrderedText ==
  ASSUME NEW before,
         \A k \in DOMAIN Programs : OrderedByEvents(k, before[k])
  PROVE  Spec => []OperandsArrive
<1>1. IInv => OperandsArrive
  <2>. SUFFICES ASSUME IInv, NEW n \in UnderWay,
                       Program[n].unit[2] # "S", NEW m \in Outstanding(n),
                       NEW b \in Program[m].out \intersect Program[n].in
                PROVE  Excepted("OperandsArrive", kernel, b)
    BY DEF OperandsArrive
  <2>1. Justified(Program, before[kernel]) /\ ConflictsOrdered(kernel, before[kernel])
    BY DEF OrderedByEvents, IInv, TypeOK, Program
  <2>2. /\ n \in 1..Len(Program) /\ m \in 1..(n - 1)
        /\ Program[m].unit # Program[n].unit /\ m \notin before[kernel][n]
    BY <2>1, OutstandingUnordered
  <2>3. QED
    BY <2>1, <2>2 DEF ConflictsOrdered, Program
<1>2. QED
  BY Inductive, <1>1, PTL

\* Nor is a buffer written again while somebody has yet to read or write it.
THEOREM TilesOfOrderedText ==
  ASSUME NEW before,
         \A k \in DOMAIN Programs : OrderedByEvents(k, before[k])
  PROVE  Spec => []TilesNotOverwritten
<1>1. IInv => TilesNotOverwritten
  <2>. SUFFICES ASSUME IInv, NEW n \in UnderWay,
                       NEW m \in Outstanding(n),
                       NEW b \in (Program[m].in \union Program[m].out) \intersect Program[n].out
                PROVE  Excepted("TilesNotOverwritten", kernel, b)
    BY DEF TilesNotOverwritten
  <2>1. Justified(Program, before[kernel]) /\ ConflictsOrdered(kernel, before[kernel])
    BY DEF OrderedByEvents, IInv, TypeOK, Program
  <2>2. /\ n \in 1..Len(Program) /\ m \in 1..(n - 1)
        /\ Program[m].unit # Program[n].unit /\ m \notin before[kernel][n]
    BY <2>1, OutstandingUnordered
  <2>3. QED
    BY <2>1, <2>2 DEF ConflictsOrdered, Program
<1>2. QED
  BY Inductive, <1>1, PTL

\* Nor does the scalar unit decide on data that is still on its way.
THEOREM ScalarReadsOfOrderedText ==
  ASSUME NEW before,
         \A k \in DOMAIN Programs : OrderedByEvents(k, before[k])
  PROVE  Spec => []ScalarReadsArrive
<1>1. IInv => ScalarReadsArrive
  <2>. SUFFICES ASSUME IInv, NEW n \in UnderWay,
                       Program[n].unit[2] = "S", NEW m \in Outstanding(n),
                       NEW b \in Program[m].out \intersect Program[n].in
                PROVE  Excepted("ScalarReadsArrive", kernel, b)
    BY DEF ScalarReadsArrive
  <2>1. Justified(Program, before[kernel]) /\ ConflictsOrdered(kernel, before[kernel])
    BY DEF OrderedByEvents, IInv, TypeOK, Program
  <2>2. /\ n \in 1..Len(Program) /\ m \in 1..(n - 1)
        /\ Program[m].unit # Program[n].unit /\ m \notin before[kernel][n]
    BY <2>1, OutstandingUnordered
  <2>3. QED
    BY <2>1, <2>2 DEF ConflictsOrdered, Program
<1>2. QED
  BY Inductive, <1>1, PTL

\* A kernel whose text waits for every event as often as it sets it leaves
\* none behind when it ends.
THEOREM FlagsOfBalancedText ==
  ASSUME \A k \in DOMAIN Programs : Balanced(k)
  PROVE  Spec => []FlagsConsumed
<1>1. IInv => FlagsConsumed
  <2>. SUFFICES ASSUME IInv, Ended, NEW f \in DOMAIN flags
                PROVE  flags[f] = 0
    BY DEF FlagsConsumed
  <2>1. f \in Flags(kernel) /\ flags[f] \in Nat
    BY DEF IInv, TypeOK
  <2>2. \A n \in 1..Len(Program) : n \in Done
    BY StartedShape DEF Ended, Done
  <2>3. /\ DoneOf("set", f) = Sets(Program, f, Len(Program))
        /\ DoneOf("wait", f) = Waits(Program, f, Len(Program))
    BY <2>2 DEF DoneOf, Done, Sets, Waits
  <2>4. Cardinality(Sets(Program, f, Len(Program))) = Cardinality(Waits(Program, f, Len(Program)))
    BY <2>1 DEF Balanced, IInv, TypeOK, Program
  <2>5. Cardinality(DoneOf("wait", f)) \in Nat
    BY DoneFinite DEF IInv
  <2>6. QED
    BY <2>1, <2>3, <2>4, <2>5 DEF IInv, FlagsCount
<1>2. QED
  BY Inductive, <1>1, PTL
=============================================================================
