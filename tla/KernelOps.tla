------------------------------ MODULE KernelOps ------------------------------
(***************************************************************************)
(* The instructions of a vector kernel as its C++ text issues them.  The    *)
(* scalar unit runs the text; it hands copies into the core's buffers to    *)
(* MTE2, vector instructions to V and copies out of them to MTE3, which run *)
(* side by side, each in order.  SetFlag and WaitFlag of an event A_B are   *)
(* queued on pipes A and B; PipeBarrier<PIPE_ALL> stops the scalar unit.    *)
(*                                                                         *)
(* A kernel is the sequence of its instructions for one choice of its data  *)
(* (loop counts, branches); a tile is a buffer, or a part of one, by name.  *)
(* PipeBarrier<PIPE_V> orders V with itself and is left out: V is in order. *)
(***************************************************************************)
LOCAL INSTANCE Naturals
LOCAL INSTANCE Sequences

Pipes  == {"MTE2", "MTE1", "M", "V", "MTE3"}
Stages == Pipes \union {"S"}

\* A unit is a stage of a core; its core's scalar unit issues what it does.
Unit(core, stage) == <<core, stage>>
Scalar(u)         == <<u[1], "S">>

NoFlag == <<Unit(0, "none"), Unit(0, "none"), 0>>

\* Texts are those of core 0 until OnCore says otherwise.
Instruction(stage, do, in, out, flag) ==
  << [unit |-> Unit(0, stage), do |-> do, in |-> in, out |-> out, flag |-> flag] >>

\* DataCopy to and from a buffer of the core, and a vector instruction.
Load(out)        == Instruction("MTE2", "work", {}, out, NoFlag)
Compute(in, out) == Instruction("V", "work", in, out, NoFlag)
Store(in)        == Instruction("MTE3", "work", in, {}, NoFlag)

\* The same with an array of the device that the kernel writes and reads back.
LoadFrom(in, out) == Instruction("MTE2", "work", in, out, NoFlag)
StoreTo(in, out)  == Instruction("MTE3", "work", in, out, NoFlag)

\* On the cube side MTE1 brings L1 to L0, and L1 to the vector's buffers; M
\* multiplies; V, which the queue of results passes them to, brings them back.
LoadL0(in, out) == Instruction("MTE1", "work", in, out, NoFlag)
CopyL1(in, out) == Instruction("MTE1", "work", in, out, NoFlag)
Mmad(in, out)   == Instruction("M", "work", in, out, NoFlag)
CopyCo(in, out) == Instruction("V", "work", in, out, NoFlag)

\* GetValue and SetValue.
Read(in)   == Instruction("S", "work", in, {}, NoFlag)
Write(out) == Instruction("S", "work", {}, out, NoFlag)

\* The HardEvents, <<pipe that sets, pipe that waits>>.
MTE2_V    == <<"MTE2", "V">>
MTE2_MTE3 == <<"MTE2", "MTE3">>
MTE2_S    == <<"MTE2", "S">>
V_MTE2    == <<"V", "MTE2">>
V_MTE3    == <<"V", "MTE3">>
V_S       == <<"V", "S">>
MTE3_V    == <<"MTE3", "V">>
MTE3_MTE2 == <<"MTE3", "MTE2">>
MTE3_S    == <<"MTE3", "S">>
MTE2_MTE1 == <<"MTE2", "MTE1">>
MTE1_MTE2 == <<"MTE1", "MTE2">>
MTE1_M    == <<"MTE1", "M">>
M_MTE1    == <<"M", "MTE1">>
MTE3_MTE1 == <<"MTE3", "MTE1">>
M_V       == <<"M", "V">>
V_M       == <<"V", "M">>
M_S       == <<"M", "S">>
S_V       == <<"S", "V">>
S_MTE2    == <<"S", "MTE2">>
S_MTE3    == <<"S", "MTE3">>

Event(event, id) == <<Unit(0, event[1]), Unit(0, event[2]), id>>

SetFlag(event, id)  == Instruction(event[1], "set", {}, {}, Event(event, id))
WaitFlag(event, id) == Instruction(event[2], "wait", {}, {}, Event(event, id))

\* SetFlag and WaitFlag one after the other in the text.
Sync(event, id) == SetFlag(event, id) \o WaitFlag(event, id)

PipeAll == Instruction("S", "barrier", {}, {}, NoFlag)

-----------------------------------------------------------------------------
\* Control of the text: a branch, and a loop that counts from zero.
When(condition, body) == IF condition THEN body ELSE << >>

Loop(n, Body(_)) ==
  LET turns[i \in 0..n] == IF i = 0 THEN << >> ELSE turns[i - 1] \o Body(i - 1)
  IN  turns[n]

\* Part n of a buffer that is used in parts.
Part(name, n) == name \o "_" \o <<"0", "1", "2", "3">>[n + 1]

-----------------------------------------------------------------------------
\* A TQue of a given depth, by what its calls leave on the pipes.  Turn n of a
\* queue takes slot n % depth.  EnQue and DeQue are the two halves of the event
\* that passes the slot on, and FreeTensor sets the one AllocTensor waits for
\* when the slot is taken again; what is free at the end the pipe's destructor
\* waits for.  Queues number their events apart from those of the text.
Queue(name, depth, pass, back, ids) ==
  [name |-> name, depth |-> depth, pass |-> pass, back |-> back, ids |-> ids]

QSlot(q, n)       == Part(q.name, n % q.depth)
QEvent(q, n)      == q.ids + (n % q.depth)
AllocTensor(q, n) == When(n >= q.depth, WaitFlag(q.back, QEvent(q, n)))
EnQueDeQue(q, n)  == Sync(q.pass, QEvent(q, n))
FreeTensor(q, n)  == SetFlag(q.back, QEvent(q, n))

\* After so many turns.
QueueEnd(q, turns) ==
  Loop(IF turns < q.depth THEN turns ELSE q.depth, LAMBDA i : WaitFlag(q.back, q.ids + i))

-----------------------------------------------------------------------------
\* The same text on another core, with buffers of its own; shared are the
\* arrays of the device.
OnCore(core, shared, text) ==
  LET own(b)   == IF b \in shared \/ core = 0 THEN b ELSE b \o "@" \o <<"1", "2", "3">>[core]
      here(u)  == <<core, u[2]>>
  IN  [n \in 1..Len(text) |->
         [text[n] EXCEPT !.unit = here(@), !.in = {own(b) : b \in @},
                         !.out = {own(b) : b \in @},
                         !.flag = IF @ = NoFlag THEN @ ELSE <<here(@[1]), here(@[2]), @[3]>>]]

\* Every core does its part.
OnCores(n, shared, Text(_)) == Loop(n, LAMBDA c : OnCore(c, shared, Text(c)))

\* Core a announces to core b that it has arrived.
Arrival(a, b, do) ==
  LET unit == IF do = "set" THEN a ELSE b
  IN  << [unit |-> Unit(unit, "S"), do |-> do, in |-> {}, out |-> {},
          flag |-> <<Unit(a, "S"), Unit(b, "S"), 0>>] >>

\* SyncAll: every core finishes what it has issued, announces it to the others
\* and waits for theirs.
SyncAll(n) ==
  LET others(do) ==
        Loop(n, LAMBDA a : Loop(n, LAMBDA b : When(a # b, Arrival(a, b, do))))
  IN  OnCores(n, {}, LAMBDA c : PipeAll) \o others("set") \o others("wait")
=============================================================================
