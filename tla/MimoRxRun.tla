------------------------------- MODULE MimoRxRun -------------------------------
(***************************************************************************)
(* The receiver from the radio profile and the grant to the receipt: the     *)
(* commands of MimoRxChain, held where Run loads or checks the runtime       *)
(* configuration.  The profile is accepted before anything is issued, five   *)
(* operators are asked before the first slot, the DMRS generator within it   *)
(* (the front end is queued by then) and two more behind the last slot.  A   *)
(* refusal is an exception: nothing more is issued, what is queued runs.     *)
(***************************************************************************)
EXTENDS MimoRxChain, RuntimeConfig

chainVars == <<program, pc, stream, mem>>

\* The stage the host must have reached to issue the command at pc.
FirstDmrs    == Len(Setup \o Demodulate) + 1
FirstDecoder == Len(Setup) + NumSlots * SlotLength + 1

Needed ==
  IF pc <= Len(Setup) THEN "resolved"
  ELSE IF pc < FirstDmrs THEN "prepared"
  ELSE IF pc < FirstDecoder THEN "slots" ELSE "decoder"

\* The program runs for the slot number of the grant; other executables issue
\* nothing here.
RunInit ==
  /\ Init /\ ConfigInit
  /\ job.executable = "rx_chain" => program.grant = job.grant.slot_number
  /\ job.executable # "rx_chain" => program.outcome = "unchecked"

\* The host goes on to the next command ...
Issue ==
  /\ job.executable = "rx_chain" /\ stage = Needed
  /\ Launch \/ Copy \/ Sync
  /\ UNCHANGED configVars

\* ... or from one stage to the next, once the commands between are issued.
Author ==
  /\ Merge \/ Compile \/ Evaluate \/ Pack \/ Load \/ Resolve
  /\ UNCHANGED chainVars

Check ==
  /\ \/ Prepare /\ (job.executable = "rx_chain" => Needed = "prepared")
     \/ EnterSlots /\ Needed = "slots"
     \/ StartDecoder /\ Needed = "decoder"
  /\ UNCHANGED chainVars

Device == Execute /\ UNCHANGED configVars

RunNext == Issue \/ Author \/ Check \/ Device

RunSpec == RunInit /\ [][RunNext]_<<chainVars, configVars>>
===============================================================================
