----------------------------- MODULE KernelPipes -----------------------------
(***************************************************************************)
(* The device runs one kernel, on one core or on several.  The scalar unit  *)
(* of a core goes through its text and hands instructions to the core's     *)
(* pipes; it stops only at its own waits, at PIPE_ALL and while it reads or *)
(* writes a buffer.  Every pipe takes its instructions in order.  Nothing   *)
(* but event flags and PIPE_ALL orders one pipe with another, and nothing   *)
(* but the flags of SyncAll one core with another.                          *)
(*                                                                         *)
(* Event flags count: a pipe may set an event again before the other pipe   *)
(* has waited for it, as rate_match does.                                   *)
(***************************************************************************)
EXTENDS Naturals, Sequences, KernelOps

CONSTANTS
  Programs,    (* the instructions of every kernel, by <<name, variant>>    *)
  Exceptions   (* <<property, kernel, buffer>>: the property is not asked   *)
               (* of a buffer with which the kernel is known to break it    *)

IsInstruction(i) ==
  /\ i.unit \in Nat \X Stages
  /\ i.do \in {"work", "set", "wait", "barrier"}
  /\ i.do = "set" => i.unit = i.flag[1]
  /\ i.do = "wait" => i.unit = i.flag[2]
  /\ i.do = "barrier" => i.unit = Scalar(i.unit)

ASSUME ProgramsAssumption ==
  \A k \in DOMAIN Programs :
    /\ Programs[k] \in Seq({Programs[k][n] : n \in DOMAIN Programs[k]})
    /\ \A n \in DOMAIN Programs[k] : IsInstruction(Programs[k][n])

\* The units a kernel uses.
Units(k) ==
  LET used == {Programs[k][n].unit : n \in DOMAIN Programs[k]}
  IN  used \union {Scalar(u) : u \in used}

Flags(k) == {Programs[k][n].flag : n \in DOMAIN Programs[k]} \ {NoFlag}

VARIABLES
  kernel,  (* the kernel that runs                                         *)
  at,      (* where in the text each unit goes on, its length + 1 at the end *)
  flags    (* how often each event was set and not yet waited for          *)

vars == <<kernel, at, flags>>

Program == Programs[kernel]
End     == Len(Program) + 1

\* The unit's first instruction after the n-th.
Following(u, n) ==
  CHOOSE m \in (n + 1)..End :
    /\ m = End \/ Program[m].unit = u
    /\ \A j \in (n + 1)..(m - 1) : Program[j].unit # u

Ended == \A u \in DOMAIN at : at[u] = End

\* A pipe has an instruction only once its core's scalar unit is past it.
Issued(u) == at[u] # End /\ (u # Scalar(u) => at[u] < at[Scalar(u)])

Reaches(u, do) == Issued(u) /\ Program[at[u]].do = do

Advance(u) == at' = [at EXCEPT ![u] = Following(u, @)] /\ UNCHANGED kernel

TypeOK ==
  /\ kernel \in DOMAIN Programs
  /\ at \in [Units(kernel) -> 1..End]
  /\ \A u \in Units(kernel) : at[u] = End \/ Program[at[u]].unit = u
  /\ flags \in [Flags(kernel) -> Nat]

Init ==
  /\ kernel \in DOMAIN Programs
  /\ at = [u \in Units(kernel) |-> Following(u, 0)]
  /\ flags = [f \in Flags(kernel) |-> 0]

\* A copy, a vector instruction, or a scalar access to a buffer.
Work(u) == Reaches(u, "work") /\ Advance(u) /\ UNCHANGED flags

Signal(u) ==
  /\ Reaches(u, "set")
  /\ flags' = [flags EXCEPT ![Program[at[u]].flag] = @ + 1]
  /\ Advance(u)

Await(u) ==
  /\ Reaches(u, "wait")
  /\ flags[Program[at[u]].flag] > 0
  /\ flags' = [flags EXCEPT ![Program[at[u]].flag] = @ - 1]
  /\ Advance(u)

\* PIPE_ALL: everything the core has issued before it has been performed.
Barrier(u) ==
  /\ Reaches(u, "barrier")
  /\ \A v \in DOMAIN at : v # u /\ Scalar(v) = u => at[v] > at[u]
  /\ Advance(u)
  /\ UNCHANGED flags

Next == \E u \in DOMAIN at : Work(u) \/ Signal(u) \/ Await(u) \/ Barrier(u)

Spec == Init /\ [][Next]_vars /\ WF_vars(Next)

-----------------------------------------------------------------------------
\* Instructions before the n-th that another unit has yet to perform.
Outstanding(n) ==
  UNION {{m \in at[u]..(n - 1) : Program[m].unit = u} : u \in DOMAIN at \ {Program[n].unit}}

\* The instructions that may be under way now.
UnderWay == {at[u] : u \in {v \in DOMAIN at : Reaches(v, "work")}}

\* A buffer with which the kernel is known to break the property.
Excepted(property, k, b) == <<property, k, b>> \in Exceptions

\* A pipe never reads a buffer before what the text puts there earlier has
\* arrived: a copy before its compute, a compute before its store.
OperandsArrive ==
  \A n \in UnderWay : Program[n].unit[2] # "S" =>
    \A m \in Outstanding(n) : \A b \in Program[m].out \intersect Program[n].in :
      Excepted("OperandsArrive", kernel, b)

\* A buffer is never written again while an earlier instruction has yet to
\* read it, or to write it: rings and reused rows are safe.
TilesNotOverwritten ==
  \A n \in UnderWay : \A m \in Outstanding(n) :
    \A b \in (Program[m].in \union Program[m].out) \intersect Program[n].out :
      Excepted("TilesNotOverwritten", kernel, b)

\* The scalar unit decides on data (a slot count, a row number, a peak) only
\* after the pipe that brings or computes it is done.
ScalarReadsArrive ==
  \A n \in UnderWay : Program[n].unit[2] = "S" =>
    \A m \in Outstanding(n) : \A b \in Program[m].out \intersect Program[n].in :
      Excepted("ScalarReadsArrive", kernel, b)

\* A kernel ends with every event waited for as often as it was set, so that
\* nothing it leaves behind opens a wait too early the next time.
FlagsConsumed == Ended => \A f \in DOMAIN flags : flags[f] = 0

\* A kernel never hangs on an event that nobody sets.
KernelEnds == <>Ended
=============================================================================
