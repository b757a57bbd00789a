------------------------------ MODULE MCTxProfile ------------------------------
(* The way of a profile to the fused transmitter, for radios of several sizes. *)
EXTENDS GrantJobs
===============================================================================
