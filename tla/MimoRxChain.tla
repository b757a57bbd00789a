------------------------------ MODULE MimoRxChain ------------------------------
(***************************************************************************)
(* The fused MIMO receiver (chain/pusch_mimo_rx_chain): Run clears what must *)
(* start from zero, queues the kernels of a slot and synchronises, 23 times, *)
(* then decodes the transport block, compares the bits with the expected     *)
(* ones if there are any and writes bits and receipt.                       *)
(*                                                                         *)
(* Every slot derives its configuration again from the grant                 *)
(* (common/pusch_mimo_runtime_config), and the DMRS generator puts it into   *)
(* pinned host memory that queued copies read.  A program is what the host   *)
(* issues for one grant and one outcome of the checks on the decoded bits;   *)
(* files and host vectors are buffers too.  DeviceStream gives it meaning.   *)
(***************************************************************************)
EXTENDS Naturals, Sequences

CONSTANTS
  NumSlots,    (* kSlots, 23                                               *)
  GrantSlots   (* slot numbers of the grants, of 0..1023                   *)

ASSUME ScopeAssumption == NumSlots \in Nat \ {0} /\ GrantSlots \subseteq 0..1023

Slots == 0..(NumSlots - 1)

\* Buffers by name; d_cw_llr has one part per slot, and d_hgrid one for the
\* active layers and one for the planes no kernel writes.
Dev(names) == names \X {0}
Llr(s)     == <<"cw_llr", s>>
LlrAll     == {Llr(s) : s \in Slots}

Buffers ==
  Dev({"iq", "fft", "rx", "pinned", "cinit_metadata", "physical", "dmrs", "hls", "pilots",
       "noise", "ce_h", "ce_t", "workspace", "ce_out", "hgrid", "hgrid_inactive", "hrm", "y", "no",
       "xhat", "layer_llr", "sign", "llr_nr", "ldpc_llr", "prev", "ldpc_bits", "lam_out",
       "ldpc_scratch", "bits", "output", "receipt"})
  \union LlrAll

Command(do, op, in, out) == [do |-> do, op |-> op, in |-> Dev(in), out |-> Dev(out)]
Kernel(op, in, out) == Command("launch", op, in, out)
Memcpy(op, in, out) == Command("copy", op, in, out)
Synchronize         == Command("sync", "sync", {}, {})

\* (Mutant: the slot the caller asks for is ignored.)
SlotNumberOfGrant(grant, slot) == grant

\* DerivePuschMimoConfig: an argument of 0 stands for "the grant's slot number".
SlotNumber(grant, slot) == IF slot = 0 THEN grant ELSE slot

\* The fused transmitter numbers the same slots from 0 (tx_chain.cpp, RunImpl).
TxSlotNumber(slot) == slot

-----------------------------------------------------------------------------
\* Before the loop: inactive detector planes are cleared once, not per slot.
Setup == << Memcpy("memset_hgrid", {}, {"hgrid", "hgrid_inactive"}) >>

\* (Mutant: the active prefix is copied before the kernel writes it.)
DmrsEnqueueEarly ==
  << Memcpy("profile", {}, {"pinned"}),
     Kernel("profile_h2d", {"pinned"}, {"cinit_metadata"}),
     Kernel("prefix_d2d", {"physical"}, {"dmrs"}),
     Kernel("mimo_dmrs_gen", {"cinit_metadata"}, {"physical"}) >>

\* mimo_dmrs_gen Enqueue: the profile goes to pinned host memory at once, what
\* follows is queued.
DmrsEnqueue ==
  << Memcpy("profile", {}, {"pinned"}),
     Kernel("profile_h2d", {"pinned"}, {"cinit_metadata"}),
     Kernel("mimo_dmrs_gen", {"cinit_metadata"}, {"physical"}),
     Kernel("prefix_d2d", {"physical"}, {"dmrs"}) >>

\* The front end of a slot.
Demodulate ==
  << Kernel("rx_iq_h2d", {}, {"iq"}),
     Kernel("ofdm_demod", {"iq"}, {"fft", "workspace"}),
     Kernel("re_demap", {"fft"}, {"rx", "workspace"}) >>

\* (Mutant: the workspace is cleared before the packing uses it.)
EstimateClearsFirst ==
  << Kernel("mimo_dmrs_ls", {"rx", "dmrs"}, {"hls", "pilots", "noise", "workspace"}),
     Kernel("memset_ce", {}, {"ce_t"}),
     Kernel("memset_workspace", {}, {"workspace"}),
     Kernel("pack_natural", {"hls"}, {"ce_h", "workspace"}),
     Kernel("lmmse", {"ce_h", "ce_t", "workspace"}, {"ce_t", "workspace", "ce_out"}),
     Kernel("pad_layers", {"ce_out"}, {"hgrid", "workspace"}) >>

\* LS and LMMSE estimation.  CE accumulates into ce_t and its workspace, which
\* other kernels use as scratch space.
Estimate ==
  << Kernel("mimo_dmrs_ls", {"rx", "dmrs"}, {"hls", "pilots", "noise", "workspace"}),
     Kernel("pack_natural", {"hls"}, {"ce_h", "workspace"}),
     Kernel("memset_ce", {}, {"ce_t"}),
     Kernel("memset_workspace", {}, {"workspace"}),
     Kernel("lmmse", {"ce_h", "ce_t", "workspace"}, {"ce_t", "workspace", "ce_out"}),
     Kernel("pad_layers", {"ce_out"}, {"hgrid", "workspace"}) >>

\* Detection and demapping into the slot's part of d_cw_llr.
Detect(s) ==
  << Kernel("io_pack", {"rx", "hgrid", "hgrid_inactive", "noise"}, {"hrm", "y", "no"}),
     Kernel("bri_detect", {"hrm", "y", "no"}, {"xhat", "workspace"}),
     Kernel("qam_demod", {"xhat"}, {"layer_llr", "workspace"}),
     [Kernel("layer_demap", {"layer_llr"}, {"workspace"}) EXCEPT !.out = @ \union {Llr(s)}] >>

\* (Mutant: the slots are not kept apart by a synchronisation.)
SlotCommandsUnsynchronised(s) == Demodulate \o DmrsEnqueue \o Estimate \o Detect(s)

\* One turn of the slot loop.
SlotCommands(s) == Demodulate \o DmrsEnqueue \o Estimate \o Detect(s) \o << Synchronize >>

\* The decoder, up to the download of the bits.
Decode ==
  << Memcpy("gold_sign", {}, {"sign"}),
     Memcpy("memset_ldpc", {}, {"prev", "ldpc_bits", "lam_out", "ldpc_scratch"}),
     [Kernel("descramble", {"sign"}, {"llr_nr", "workspace"}) EXCEPT !.in = @ \union LlrAll],
     Kernel("rate_dematch", {"llr_nr"}, {"ldpc_llr", "workspace"}),
     Kernel("ldpc_decode", {"ldpc_llr", "prev", "ldpc_bits", "lam_out", "ldpc_scratch"},
            {"ldpc_bits", "lam_out", "ldpc_scratch"}),
     Synchronize,
     Memcpy("download", {"ldpc_bits"}, {"bits"}) >>

\* Whether the bits are binary, and how they compare with expected_bits.bin.
Outcomes == {"not_binary", "unchecked", "wrong", "right"}

\* (Mutant: the receipt is written before the bits are compared.)
WriteResultsEarly(outcome) ==
  IF outcome = "not_binary" THEN << >>
  ELSE << Memcpy("WriteExact", {"bits"}, {"output"}), Memcpy("receipt", {"output"}, {"receipt"}) >>

\* Each check that fails ends the run; the receipt is written last.
WriteResults(outcome) ==
  (IF outcome = "not_binary" THEN << >> ELSE << Memcpy("WriteExact", {"bits"}, {"output"}) >>)
  \o (IF outcome \in {"not_binary", "wrong"} THEN << >>
      ELSE << Memcpy("receipt", {"output"}, {"receipt"}) >>)

\* A command of Run belongs to a slot and is issued under its configuration.
Stamped(c, slot, grant) ==
  [do |-> c.do, op |-> c.op, in |-> c.in, out |-> c.out,
   slot |-> slot, number |-> SlotNumber(grant, slot)]

For(slot, grant, commands) == [n \in 1..Len(commands) |-> Stamped(commands[n], slot, grant)]

SlotLength == Len(SlotCommands(0))

\* The slot loop: the commands of slot 0, of slot 1 and so on.
SlotLoop(grant) ==
  [n \in 1..(NumSlots * SlotLength) |->
     LET slot == (n - 1) \div SlotLength
     IN  Stamped(SlotCommands(slot)[((n - 1) % SlotLength) + 1], slot, grant)]

Environments == [grant : GrantSlots, outcome : Outcomes]

\* Run.
Program(e) ==
  For(0, e.grant, Setup) \o SlotLoop(e.grant) \o For(0, e.grant, Decode \o WriteResults(e.outcome))

Programs == [e \in Environments |-> Program(e)]

VARIABLES program, pc, stream, mem
INSTANCE DeviceStream

-----------------------------------------------------------------------------
Executing(op) == stream # << >> /\ Code[Head(stream)].op = op
Now == Code[Head(stream)]
Wrote(b) == Code[mem[<<b, 0>>]]

\* Per-slot buffers are reused by every slot; only what Setup cleared is older.
PerSlot == Dev({"iq", "fft", "rx", "cinit_metadata", "physical", "dmrs", "hls", "noise", "ce_h",
                "ce_out", "hrm", "y", "no", "xhat", "layer_llr"})

\* What a kernel of a slot reads was computed in this slot, and the block is
\* descrambled from the LLRs every slot left in its part of d_cw_llr.
OwnSlotOnly ==
  /\ stream # << >> => \A b \in Now.in \cap PerSlot : mem[b] # 0 /\ Code[mem[b]].slot = Now.slot
  /\ Executing("descramble") =>
       \A s \in Slots : mem[Llr(s)] # 0 /\ Code[mem[Llr(s)]].slot = s

\* CE starts from cleared accumulators in every slot although the workspace is
\* everybody's scratch space, and the detector finds positive zero in the planes
\* of inactive layers (operator.yaml, active_layer_rule).
StartsFromZero ==
  /\ Executing("lmmse") =>
       /\ Wrote("ce_t").op = "memset_ce" /\ Wrote("ce_t").slot = Now.slot
       /\ Wrote("workspace").op = "memset_workspace" /\ Wrote("workspace").slot = Now.slot
  /\ Executing("io_pack") =>
       Wrote("hgrid").op = "pad_layers" /\ Wrote("hgrid_inactive").op = "memset_hgrid"
  /\ Executing("ldpc_decode") => Wrote("lam_out").op = "memset_ldpc"

\* The pilots a slot is estimated with are the ones its transmitter sent: both
\* ends number the slot alike.  (pusch_grant.schema.json allows 0..1023.)
PilotsAgree ==
  Executing("mimo_dmrs_ls") => Wrote("pinned").number = TxSlotNumber(Now.slot)

\* verify_fused_receipt.py trusts a PASS receipt beside the decoded bits: it
\* exists only if the bits of this block were written and not found wrong.
ReceiptVouches ==
  mem[<<"receipt", 0>>] # 0 =>
    /\ program.outcome \notin {"not_binary", "wrong"}
    /\ Wrote("output").op = "WriteExact" /\ Wrote("ldpc_bits").op = "ldpc_decode"
    /\ mem[<<"ldpc_bits", 0>>] < mem[<<"bits", 0>>] /\ mem[<<"bits", 0>>] < mem[<<"output", 0>>]
===============================================================================
