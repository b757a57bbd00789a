----------------------------- MODULE MCSisoRxChain -----------------------------
(* The SISO receiver, with its programs evaluated.                           *)
EXTENDS SisoRxChain

\* TLC evaluates the programs here, once.
ASSUME ProgramsAreTexts ==
  Programs = [c \in Environments |-> Program(c)]
===============================================================================
