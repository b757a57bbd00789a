----------------------------- MODULE DeviceStream -----------------------------
(***************************************************************************)
(* How every chain of the repository drives the NPU: one host thread issues *)
(* commands in program order.  A kernel launch (or an asynchronous copy) is *)
(* only queued and runs later, in launch order; a blocking aclrtMemcpy acts *)
(* at once and is ordered with nothing that is queued; only                 *)
(* aclrtSynchronizeStream waits for the queue.  Which of two accesses to a  *)
(* buffer comes first is therefore decided by where the program put its     *)
(* synchronisations.                                                        *)
(*                                                                         *)
(* A chain is given by its programs: the command sequences its host code    *)
(* can issue, one for each outcome of its data-dependent branches.  The     *)
(* content of a buffer is abstracted to the command that wrote it last.     *)
(***************************************************************************)
EXTENDS Naturals, Sequences

CONSTANTS
  Buffers,   (* device buffers, and host memory the device reads in place   *)
  Programs   (* a command sequence for every environment; a command has     *)
             (* the fields do, in and out                                   *)

Kinds == {"launch", "copy", "sync"}

ASSUME ProgramsAssumption ==
  \A e \in DOMAIN Programs :
    /\ Len(Programs[e]) \in Nat
    /\ \A n \in 1..Len(Programs[e]) :
         LET c == Programs[e][n]
         IN /\ c.do \in Kinds /\ c.in \subseteq Buffers /\ c.out \subseteq Buffers
            /\ c.do = "sync" => c.out = {}

VARIABLES
  program,  (* the environment, which decides what the host issues         *)
  pc,       (* the command the host issues next                            *)
  stream,   (* queued launches, oldest first                               *)
  mem       (* per buffer: the command that wrote it last, 0 for none      *)

vars == <<program, pc, stream, mem>>

Code == Programs[program]

AtHost(kind) == pc <= Len(Code) /\ Code[pc].do = kind

\* Command n takes effect on its output buffers.
Perform(n) == mem' = [b \in Buffers |-> IF b \in Code[n].out THEN n ELSE mem[b]]

Init ==
  /\ program \in DOMAIN Programs
  /\ pc = 1
  /\ stream = << >>
  /\ mem = [b \in Buffers |-> 0]

\* (Mutant: a launch swallows the command behind it.)
LaunchSkips ==
  /\ AtHost("launch")
  /\ stream' = Append(stream, pc)
  /\ pc' = pc + 2
  /\ UNCHANGED <<program, mem>>

\* ACLRT_LAUNCH_KERNEL, aclrtMemcpyAsync: queued.
Launch ==
  /\ AtHost("launch")
  /\ stream' = Append(stream, pc)
  /\ pc' = pc + 1
  /\ UNCHANGED <<program, mem>>

\* aclrtMemcpy, aclrtMemset, and host code that writes memory a queued copy
\* will read: done when the call returns.
Copy ==
  /\ AtHost("copy")
  /\ Perform(pc)
  /\ pc' = pc + 1
  /\ UNCHANGED <<program, stream>>

\* (Mutant: the synchronisation returns at once.)
SyncReturnsEarly ==
  /\ AtHost("sync")
  /\ pc' = pc + 1
  /\ UNCHANGED <<program, stream, mem>>

\* aclrtSynchronizeStream returns once nothing is queued.
Sync ==
  /\ AtHost("sync") /\ stream = << >>
  /\ pc' = pc + 1
  /\ UNCHANGED <<program, stream, mem>>

\* (Mutant: the device may take any queued operation first.)
ExecuteAny ==
  \E k \in 1..Len(stream) :
    /\ Perform(stream[k])
    /\ stream' = SubSeq(stream, 1, k - 1) \o SubSeq(stream, k + 1, Len(stream))
    /\ UNCHANGED <<program, pc>>

\* The device finishes its oldest queued operation.
Execute ==
  /\ stream # << >>
  /\ Perform(Head(stream))
  /\ stream' = Tail(stream)
  /\ UNCHANGED <<program, pc>>

Next == Launch \/ Copy \/ Sync \/ Execute

Spec == Init /\ [][Next]_vars

-----------------------------------------------------------------------------
TypeOK ==
  /\ program \in DOMAIN Programs
  /\ pc \in 1..(Len(Code) + 1)
  /\ stream \in Seq(1..Len(Code))
  /\ mem \in [Buffers -> Nat]

Conflict(m, n) ==
  \/ Code[m].out \cap (Code[n].in \union Code[n].out) # {}
  \/ Code[m].in \cap Code[n].out # {}

\* A host copy never touches a buffer that a queued operation still writes, and
\* never overwrites one that a queued operation still reads: an operation on
\* the device may be in the middle of its run when the copy acts.
CopiesDoNotRace ==
  AtHost("copy") => \A k \in 1..Len(stream) : ~Conflict(stream[k], pc)

\* The last command before n that writes b is w, 0 if there is none.
LastWriter(b, n, w) ==
  /\ \/ w = 0
     \/ w \in 1..(n - 1) /\ b \in Code[w].out
  /\ \A m \in (w + 1)..(n - 1) : b \notin Code[m].out

ReadsInOrder(n) == \A b \in Code[n].in : LastWriter(b, n, mem[b])

\* Although launches run late, every operation reads exactly what it would
\* read if each command took effect when the host issued it.
ProgramOrder ==
  /\ stream # << >> => ReadsInOrder(Head(stream))
  /\ AtHost("copy") => ReadsInOrder(pc)

\* What a host program must do for that: between a launch and a copy that share
\* a buffer one of them writes, it synchronises.
Disciplined(p) ==
  \A m, n \in 1..Len(p) :
    /\ m < n /\ p[m].do = "launch" /\ p[n].do = "copy"
    /\ \/ p[m].out \cap (p[n].in \union p[n].out) # {}
       \/ p[m].in \cap p[n].out # {}
    => \E s \in (m + 1)..(n - 1) : p[s].do = "sync"
===============================================================================
