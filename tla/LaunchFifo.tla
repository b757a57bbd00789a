------------------------------ MODULE LaunchFifo ------------------------------
(***************************************************************************)
(* What a caller of the precoder runtime may count on, whatever the runtime *)
(* caches: the kernels it launched on its stream execute in launch order,  *)
(* and each one multiplies the grid by the weights of the configuration it *)
(* was launched with, in every part of the plan it loads.                  *)
(***************************************************************************)
EXTENDS Sequences

CONSTANTS
  Configs,  (* precoding configurations                            *)
  Parts     (* device arrays of one plan: weights, PRG map, tiling *)

VARIABLES
  pending,  (* configurations of the launched kernels not yet executed *)
  applied   (* the plan, part by part, of the last executed kernel     *)

vars == <<pending, applied>>

Plan(c) == [p \in Parts |-> c]

Init ==
  /\ pending = << >>
  /\ applied \in {Plan(c) : c \in Configs}

Launch(c) ==
  /\ pending' = Append(pending, c)
  /\ UNCHANGED applied

Execute ==
  /\ pending # << >>
  /\ applied' = Plan(Head(pending))
  /\ pending' = Tail(pending)

Next == Execute \/ \E c \in Configs : Launch(c)

Spec == Init /\ [][Next]_vars
===============================================================================
