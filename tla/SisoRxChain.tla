----------------------------- MODULE SisoRxChain -----------------------------
(***************************************************************************)
(* The host side of the SISO receiver (chain/pusch_siso_rx_chain): rx_acquire *)
(* finds the cell in the capture and sets the read pointer, rx_slot queues the *)
(* ten kernels of a slot with no synchronisation in between, rx_tb decodes  *)
(* the transport block, and main acquires again when the block was bad.     *)
(*                                                                         *)
(* The window of a slot follows from the read pointer and the timing offset *)
(* that the previous slot's tracker left on the device, never from the host.*)
(* A program is what the host issues for one choice of the environment and  *)
(* of what acquisition and decoding report; DeviceStream gives it meaning.  *)
(***************************************************************************)
EXTENDS Naturals, Sequences, FiniteSets

CONSTANTS
  Cells,         (* cell identities SSS acquisition may report              *)
  Timings,       (* values of mu_t PSS acquisition may report               *)
  SlotsPerTb,    (* SLOTS_PER_TB, 23 in rx_chain.h                          *)
  MaxTb,         (* bound on the blocks a --loop run decodes                *)
  TimedM, TimedK (* launches per batch and batches of time_kernel, 20 and 8 *)

\* No cell is the one nothing was ever locked to (cached_cell_id, -1).
ASSUME ScopeAssumption ==
  /\ SlotsPerTb \in Nat \ {0} /\ MaxTb \in Nat \ {0}
  /\ TimedM \in Nat \ {0} /\ TimedK \in Nat
  /\ "none" \notin Cells

Slots == 0..(SlotsPerTb - 1)

\* Buffers of the arena, by name; llr_in has one part per slot.
Dev(names) == names \X {0}
Llr(s)     == <<"llr_in", s>>
LlrAll     == {Llr(s) : s \in Slots}

Buffers ==
  Dev({"capture", "ssb768", "pss_scr", "pss_out", "ypss", "psscfo_scr", "psscfo_out",
       "tiling_sss", "sss_scr", "sss_out", "ssbfft_in", "ssbfft_scr", "r", "pbch_out",
       "rd_ptr", "dt_out", "eq_n0", "xref", "cfod_x", "cc_ab",
       "slot_iq", "cfoest_out", "slot_iq_d", "y", "yd", "h", "x", "cfodmrs_out",
       "cir", "sign", "cw_ds", "lam", "bits"})
  \union LlrAll

Command(do, op, in, out) == [do |-> do, op |-> op, in |-> in, out |-> out]
Kernel(op, in, out) == Command("launch", op, Dev(in), Dev(out))
Memcpy(op, in, out) == Command("copy", op, Dev(in), Dev(out))
Synchronize         == Command("sync", "sync", {}, {})

-----------------------------------------------------------------------------
Decimate           == Kernel("decimate", {"capture"}, {"ssb768"})
PssCorrelator      == Kernel("pss_correlator", {"ssb768", "pss_scr"}, {"pss_scr", "pss_out"})
PssCfoEstimator    == Kernel("pss_cfo_estimator", {"ypss", "psscfo_scr"}, {"psscfo_out"})
SssCorrelator      == Kernel("sss_correlator", {"ssb768", "tiling_sss", "sss_scr"}, {"sss_scr", "sss_out"})
SsbFft             == Kernel("ssb_fft", {"ssbfft_in", "ssbfft_scr"}, {"ssbfft_scr", "r"})
PbchDmrsCorrelator == Kernel("pbch_dmrs_correlator", {"r"}, {"pbch_out"})

\* rx_acquire reads every kernel result after a synchronisation.
\* Frame timing: decimated capture, AGC, PSS peak.
AcquireFrame ==
  << Memcpy("capture", {}, {"capture"}),
     Decimate,
     Synchronize,
     Memcpy("agc", {"ssb768"}, {"ssb768"}),
     Memcpy("zero", {}, {"pss_scr"}),
     PssCorrelator,
     Synchronize,
     Memcpy("peak", {"pss_scr"}, {}) >>

\* The window at the peak, its frequency offset, and the cell it belongs to.
AcquireCell ==
  << Memcpy("extract_y_at_pss", {"ssb768"}, {"ypss"}),
     Memcpy("derotation", {}, {"psscfo_scr"}),
     PssCfoEstimator,
     Synchronize,
     Memcpy("read", {"psscfo_out"}, {}),
     Memcpy("tiling", {}, {"tiling_sss"}),
     Memcpy("zero", {}, {"sss_scr"}),
     SssCorrelator,
     Synchronize,
     Memcpy("read", {"sss_out"}, {}) >>

\* (Mutant: the beam index is read without waiting for the correlator.)
AcquireBeamTooSoon ==
  << Memcpy("pbch_window", {"ssb768"}, {"ssbfft_in"}),
     Memcpy("zero", {}, {"ssbfft_scr"}),
     SsbFft,
     PbchDmrsCorrelator,
     Memcpy("read", {"pbch_out"}, {}) >>

\* The beam, from the PBCH DMRS.
AcquireBeam ==
  << Memcpy("pbch_window", {"ssb768"}, {"ssbfft_in"}),
     Memcpy("zero", {}, {"ssbfft_scr"}),
     SsbFft,
     PbchDmrsCorrelator,
     Synchronize,
     Memcpy("read", {"pbch_out"}, {}) >>

\* The state of the slot loop, for the cell and the timing just found.
SetUpSlots ==
  << Memcpy("set_rd_ptr", {}, {"rd_ptr", "dt_out"}),
     Memcpy("eq_n0", {}, {"eq_n0"}),
     Memcpy("gen_dmrs_ref", {}, {"xref", "cfod_x"}),
     Memcpy("build_cfo_comp_aux", {}, {"cc_ab"}) >>

Acquire == AcquireFrame \o AcquireCell \o AcquireBeam \o SetUpSlots

\* (Mutant: the tracker leaves its estimate on chip.)
TrackTimingUnpublished == Kernel("timing_tracker", {"h"}, {"cir"})

TrackTiming == Kernel("timing_tracker", {"h"}, {"cir", "dt_out"})

\* rx_slot: nothing but launches.
SlotKernels(s) ==
  << Kernel("win_slice", {"capture", "dt_out", "rd_ptr"}, {"slot_iq", "rd_ptr"}),
     Kernel("cfo_estimate", {"slot_iq"}, {"cfoest_out"}),
     Kernel("cfo_compensate", {"slot_iq", "cc_ab"}, {"slot_iq_d"}),
     Kernel("ofdm_demod", {"slot_iq_d"}, {"y"}),
     Kernel("re_demap", {"y"}, {"yd"}),
     Kernel("channel_est_ls", {"yd", "xref"}, {"h"}),
     Kernel("equalize", {"yd", "h", "eq_n0"}, {"x"}),
     Command("launch", "qam256_demod", Dev({"x"}), {Llr(s)}),
     Kernel("cfo_dmrs", {"yd", "cfod_x"}, {"cfodmrs_out"}),
     TrackTiming >>

\* (Mutant: the sign table is uploaded once and for all.)
BakeGoldSignOnce(cached, cell) ==
  IF cached = "none" THEN << Memcpy("bake_gold_sign", {}, {"sign"}) >> ELSE << >>

\* bake_gold_sign uploads a new sign table only for a new cell.
BakeGoldSign(cached, cell) ==
  IF cached = cell THEN << >> ELSE << Memcpy("bake_gold_sign", {}, {"sign"}) >>

DecodeKernels ==
  << Command("launch", "descramble", LlrAll \union Dev({"sign"}), Dev({"cw_ds"})),
     Kernel("rate_dematch", {"cw_ds"}, {"lam"}),
     Kernel("ldpc_decode", {"lam"}, {"bits"}) >>

\* rx_tb, after the bake: decode, wait, and count the bit errors.
Decode == DecodeKernels \o << Synchronize, Memcpy("ber", {"bits"}, {}) >>

\* print_rx_report.
Report == << Synchronize, Memcpy("report", {"cfodmrs_out", "dt_out", "cir"}, {}) >>

\* time_kernel: 2 * TimedM launches to warm up, TimedK batches of TimedM, and a
\* synchronisation after each.
WarmUp      == 2 * TimedM + 1
TimedLength == WarmUp + TimedK * (TimedM + 1)

TimeKernel(c) ==
  [n \in 1..TimedLength |->
     IF n = WarmUp \/ (n > WarmUp /\ (n - WarmUp) % (TimedM + 1) = 0) THEN Synchronize ELSE c]

\* time_rx_kernels_realchain times all kernels of the chain on its live buffers.
TimedKernels ==
  << Decimate, PssCorrelator, PssCfoEstimator, SssCorrelator, SsbFft, PbchDmrsCorrelator >>
    \o SlotKernels(0) \o DecodeKernels

TimeKernels ==
  [n \in 1..(Len(TimedKernels) * TimedLength) |->
     TimeKernel(TimedKernels[((n - 1) \div TimedLength) + 1])[((n - 1) % TimedLength) + 1]]

\* What each command was issued for: the block, the slot and the last lock.
Stamped(c, tag) ==
  [do |-> c.do, op |-> c.op, in |-> c.in, out |-> c.out, tb |-> tag.tb, slot |-> tag.slot,
   cell |-> tag.cell, mu |-> tag.mu, fresh |-> tag.fresh, timed |-> tag.timed]

For(tag, commands) == [n \in 1..Len(commands) |-> Stamped(commands[n], tag)]

-----------------------------------------------------------------------------
\* What the environment variables select, what each acquisition reports, and
\* which blocks exceed the error rate that makes main acquire again.
Environments ==
  {c \in [loop : BOOLEAN, skipTb : BOOLEAN, timed : BOOLEAN, dataIq : BOOLEAN,
          cell : [1..(MaxTb + 1) -> Cells], mu : [1..(MaxTb + 1) -> Timings],
          bad : [1..MaxTb -> BOOLEAN]] :
     /\ c.skipTb => \A t \in 1..MaxTb : ~c.bad[t]
     /\ c.loop \/ \A t \in 2..MaxTb : ~c.bad[t]}

\* The lock block t is received under: one more after every bad block before it.
LockOf(c, t) == 1 + Cardinality({u \in 1..(t - 1) : c.bad[u]})

Tag(c, t, s, timed) ==
  [tb |-> t, slot |-> s, cell |-> c.cell[LockOf(c, t)], mu |-> c.mu[LockOf(c, t)],
   fresh |-> t = 1 \/ c.bad[t - 1], timed |-> timed]

\* The slots of block t, one after another.
SlotLength == Len(SlotKernels(0))

SlotLoop(c, t) ==
  [n \in 1..(SlotsPerTb * SlotLength) |->
     LET s == (n - 1) \div SlotLength
     IN Stamped(SlotKernels(s)[((n - 1) % SlotLength) + 1], Tag(c, t, s, FALSE))]

\* rx_tb for block t, which skips everything under RX_SKIP_TB.
DecodeBlock(c, t) ==
  LET cached == IF t = 1 THEN "none" ELSE c.cell[LockOf(c, t - 1)]
  IN IF c.skipTb THEN << >> ELSE BakeGoldSign(cached, c.cell[LockOf(c, t)]) \o Decode

\* One turn of main's loop, for block t.
Block(c, t) ==
  SlotLoop(c, t) \o For(Tag(c, t, 0, FALSE), DecodeBlock(c, t) \o Report)
    \o For(Tag(c, t, 0, TRUE), IF c.timed THEN TimeKernels ELSE << >>)

Locked(c, t) == For(Tag(c, t, 0, FALSE), Acquire)

\* main: acquire, overwrite the capture if RX_DATA_IQ names a file, ...
Start(c) ==
  Locked(c, 1)
    \o For(Tag(c, 1, 0, FALSE), IF c.dataIq THEN << Memcpy("data_iq", {}, {"capture"}) >> ELSE << >>)

\* ... then one block, or under --loop one block after another, and after a bad
\* one a new acquisition.
Turn(c, t) == Block(c, t) \o (IF c.bad[t] THEN Locked(c, t + 1) ELSE << >>)

\* All that is issued up to and with turn t.
Issued(c) ==
  LET issued[t \in 0..MaxTb] == IF t = 0 THEN Start(c) ELSE issued[t - 1] \o Turn(c, t)
  IN issued

Turns(c)   == IF c.loop THEN MaxTb ELSE 1
Program(c) == Issued(c)[Turns(c)]

Programs == [c \in Environments |-> Program(c)]

VARIABLES program, pc, stream, mem
INSTANCE DeviceStream

-----------------------------------------------------------------------------
Executing(op) == stream # << >> /\ Code[Head(stream)].op = op
Now == Code[Head(stream)]
Wrote(b) == Code[mem[b]]

\* When a block is descrambled, every slot's LLRs are this block's own, and the
\* sign table, uploaded only when the cell changes, is that of the cell whose
\* DMRS the channel was estimated with.
BlockUnderOneCell ==
  Executing("descramble") /\ ~Now.timed =>
    /\ \A s \in Slots : Wrote(Llr(s)).tb = Now.tb
    /\ Wrote(<<"sign", 0>>).cell = Now.cell
    /\ Wrote(<<"xref", 0>>).cell = Now.cell

\* operator.yaml of win_slice (stream_semantics): the timing offset of a slot is
\* visible to the next slot's window without the host.  The first slot under a
\* lock starts from the pointer the acquisition set.
FeedbackFromPreviousSlot ==
  Executing("win_slice") /\ ~Now.timed =>
    LET rd == Wrote(<<"rd_ptr", 0>>)
        dt == Wrote(<<"dt_out", 0>>)
    IN /\ rd.tb = dt.tb /\ rd.slot = dt.slot
       /\ Now.slot > 0 =>
            /\ rd.op = "win_slice" /\ dt.op = "timing_tracker" /\ ~rd.timed
            /\ rd.tb = Now.tb /\ rd.slot = Now.slot - 1
       /\ Now.slot = 0 /\ Now.fresh => rd.op = "set_rd_ptr" /\ rd.tb = Now.tb

\* win_slice's operator.yaml (safe_window_condition): the window it reads lies
\* inside the capture.  In samples, with a timing offset of zero: mu_t counts
\* at 7.68 MHz, the block starts 52640 samples after it.
Decim         == 8
PuschOffset   == 52640
SamplesOfSlot == 30720
CaptureLength == 1228800

WindowsSinceLock(n) ==
  LET locks == {m \in 1..n : Code[m].op = "set_rd_ptr"}
      last  == CHOOSE m \in locks : \A q \in locks : q <= m
  IN Cardinality({m \in last..n : Code[m].op = "win_slice"})

WindowStart ==
  Now.mu * Decim + PuschOffset + (WindowsSinceLock(Head(stream)) - 1) * SamplesOfSlot

SafeWindow ==
  Executing("win_slice") => WindowStart + SamplesOfSlot < CaptureLength
===============================================================================
