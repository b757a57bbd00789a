------------------------------ MODULE MCMimoRxRun ------------------------------
(* The receiver with the jobs of GrantJobs.                                  *)
EXTENDS MimoRxRun, GrantJobs

MCJobs == GeneratedJobs \union ContractJobs \union RxJobs \union TxJobs

\* TLC evaluates the programs here, once.
ASSUME ProgramsAreTexts ==
  Programs \in [Environments ->
    Seq([do : Kinds, op : STRING, in : SUBSET Buffers, out : SUBSET Buffers,
         slot : Slots, number : 0..1023])]
===============================================================================
