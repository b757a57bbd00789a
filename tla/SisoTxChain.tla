------------------------------ MODULE SisoTxChain ------------------------------
(***************************************************************************)
(* The host side of the SISO transmitter (chain/pusch_siso_tx_chain): tx_tb  *)
(* queues the transport-block kernels, tx_slot queues five kernels a slot    *)
(* around two blocking copies, the upload of the slot's DMRS seeds and the   *)
(* download of its samples, and main writes the file and may time kernels.   *)
(* The only synchronisations are those of the timing.  DeviceStream gives    *)
(* the programs meaning.                                                    *)
(***************************************************************************)
EXTENDS Naturals, Sequences

CONSTANTS
  SlotsPerTb,    (* SLOTS_PER_TB, 23 in tx_chain.h                          *)
  TimedM, TimedK (* launches per batch and batches of time_kernel, 20 and 8 *)

ASSUME ScopeAssumption ==
  SlotsPerTb \in Nat \ {0} /\ TimedM \in Nat \ {0} /\ TimedK \in Nat

Slots == 0..(SlotsPerTb - 1)

\* Buffers of the arena (re and im planes as one), and the samples on the host.
Buffers ==
  {"seg_bits", "enc", "layout", "gold", "scr", "gu", "cinit", "dmrs", "gf", "ofdm_iq",
   "iq", "tx_iq.bin"}

Command(do, op, in, out) == [do |-> do, op |-> op, in |-> in, out |-> out]
Kernel(op, in, out) == Command("launch", op, in, out)
Memcpy(op, in, out) == Command("copy", op, in, out)
Synchronize         == Command("sync", "sync", {}, {})

-----------------------------------------------------------------------------
TbKernels ==
  << Kernel("ldpc_encode", {"seg_bits"}, {"enc"}),
     Kernel("rate_match", {"enc"}, {"layout"}),
     Kernel("scramble", {"layout", "gold"}, {"scr"}) >>

\* tx_tb, with bake_tx_gold.
TxTb == << Memcpy("bake_tx_gold", {}, {"gold"}), Memcpy("tx_bits", {}, {"seg_bits"}) >> \o TbKernels

QamMod    == Kernel("qam256_mod", {"scr"}, {"gu"})
CinitCopy == Memcpy("upload_dmrs_cinit", {}, {"cinit"})
DmrsGen   == Kernel("dmrs_gen", {"cinit"}, {"dmrs"})
ReMap     == Kernel("re_map", {"gu"}, {"gf"})
OfdmMod   == Kernel("ofdm_mod", {"gf"}, {"ofdm_iq"})

Merge     == Kernel("merge_dmrs_device", {"gu", "dmrs"}, {"gu"})
Download  == Memcpy("download", {"ofdm_iq"}, {"iq"})

\* (Mutant: the pilots are merged after the grid was mapped.)
TxSlotMergesLate == << QamMod, CinitCopy, DmrsGen, ReMap, Merge, OfdmMod, Download >>

\* merge_dmrs_device rewrites the DMRS symbols of the grid in place.
TxSlot == << QamMod, CinitCopy, DmrsGen, Merge, ReMap, OfdmMod, Download >>

\* What is issued for a slot, and what only to be timed.
Stamped(c, slot, timed) ==
  [do |-> c.do, op |-> c.op, in |-> c.in, out |-> c.out, slot |-> slot, timed |-> timed]

For(slot, timed, commands) == [n \in 1..Len(commands) |-> Stamped(commands[n], slot, timed)]

\* The slots of a block, one after another.
SlotLoop ==
  [n \in 1..(SlotsPerTb * Len(TxSlot)) |->
     Stamped(TxSlot[((n - 1) % Len(TxSlot)) + 1], (n - 1) \div Len(TxSlot), FALSE)]

\* time_kernel: 2 * TimedM launches to warm up, TimedK batches of TimedM, and a
\* synchronisation after each.
WarmUp      == 2 * TimedM + 1
TimedLength == WarmUp + TimedK * (TimedM + 1)

TimeKernel(c) ==
  [n \in 1..TimedLength |->
     IF n = WarmUp \/ (n > WarmUp /\ (n - WarmUp) % (TimedM + 1) = 0) THEN Synchronize ELSE c]

\* tx_profile_kernels.
TimedKernels == TbKernels \o << QamMod, DmrsGen, ReMap, OfdmMod >>

TxProfileKernels ==
  << CinitCopy >>
    \o [n \in 1..(Len(TimedKernels) * TimedLength) |->
          TimeKernel(TimedKernels[((n - 1) \div TimedLength) + 1])[((n - 1) % TimedLength) + 1]]

\* main; the environment is whether TX_PROFILE asks for the timing.
Program(profile) ==
  For(0, FALSE, TxTb) \o SlotLoop
    \o For(0, FALSE, << Memcpy("WriteFile", {"iq"}, {"tx_iq.bin"}) >>)
    \o For(0, TRUE, IF profile THEN TxProfileKernels ELSE << >>)

Programs == [profile \in BOOLEAN |-> Program(profile)]

VARIABLES program, pc, stream, mem
INSTANCE DeviceStream

-----------------------------------------------------------------------------
Executing(op) == stream # << >> /\ Code[Head(stream)].op = op
Now == Code[Head(stream)]
Wrote(b) == Code[mem[b]]

\* The slots share every buffer and nothing but the order of the stream keeps
\* them apart: a slot is modulated from a grid that its own kernels filled and
\* merged, and its bits are the scrambled ones of the block.
SlotFromItsOwnGrid ==
  /\ Executing("qam256_mod") => mem["scr"] # 0 /\ Wrote("scr").op = "scramble"
  /\ Executing("merge_dmrs_device") =>
       /\ Wrote("gu").op = "qam256_mod" /\ Wrote("gu").slot = Now.slot
       /\ Wrote("dmrs").op = "dmrs_gen" /\ Wrote("dmrs").slot = Now.slot
  /\ Executing("ofdm_mod") /\ ~Now.timed =>
       /\ Wrote("gf").op = "re_map" /\ Wrote("gf").slot = Now.slot
       /\ Wrote("gu").op = "merge_dmrs_device" /\ Wrote("gu").slot = Now.slot
       /\ mem["gu"] < mem["gf"]

\* mapping/merge_dmrs_siso/operator.yaml, current_sequence: the chain
\* synchronises the stream between dmrs_gen_kernel and the merge
\* (explicit_pre_merge_stream_sync_in_current_tx_chain: true).  The sequence it
\* describes would also keep the next slot's upload of seeds behind this slot's
\* generator.
SynchronizedBeforeMerge ==
  pc <= Len(Code) /\ Code[pc].op = "merge_dmrs_device" => stream = << >>
===============================================================================
