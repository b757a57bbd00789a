------------------------------ MODULE MimoTxChain ------------------------------
(***************************************************************************)
(* The fused MIMO TX process (chain/pusch_mimo_tx_chain): the host queues    *)
(* the transport-block prefix once and then, for every slot, the operators   *)
(* from QAM modulation to OFDM modulation on one stream, all through device  *)
(* buffers that every slot reuses.  The DMRS generator is fed from pinned    *)
(* host memory, which its runtime (mimo/mimo_dmrs_gen) rewrites at the next  *)
(* Enqueue while the copies it queued read it only when the stream gets to   *)
(* them.  The stream synchronisation at the end of a slot is all that keeps  *)
(* the two apart.                                                           *)
(*                                                                         *)
(* Data is abstracted to its provenance: a buffer holds the set of           *)
(* <<source, slot>> pairs that went into it.                                *)
(***************************************************************************)
EXTENDS Integers, Sequences

CONSTANTS
  NumSlots,     (* options.num_slots                                       *)
  Profile,      (* profile_enabled: a runtime profile adds antenna mapping *)
  WithReceipt   (* options.receipt_json is given                           *)

ASSUME SlotsAssumption  == NumSlots \in Nat \ {0}
ASSUME OptionAssumption == Profile \in BOOLEAN /\ WithReceipt \in BOOLEAN

Slots == 0..(NumSlots - 1)

\* One queued operation: the buffers it reads and the buffer it writes.
Op(in, out) == [in |-> in, out |-> out]

AirGrid == IF Profile THEN "antenna_grid" ELSE "port_grid"

\* (Mutant: the active prefix is copied before the kernel writes it.)
DmrsOpsEarly ==
  << Op({"cinit_host"}, "cinit_device"),
     Op({"metadata_host"}, "metadata_device"),
     Op({"physical"}, "dmrs_re"),
     Op({"physical"}, "dmrs_im"),
     Op({"cinit_device", "metadata_device"}, "physical") >>

\* dmrs_gen Enqueue: two copies out of pinned host memory, the kernel, and two
\* copies of the active prefix of its physical output.
DmrsOps ==
  << Op({"cinit_host"}, "cinit_device"),
     Op({"metadata_host"}, "metadata_device"),
     Op({"cinit_device", "metadata_device"}, "physical"),
     Op({"physical"}, "dmrs_re"),
     Op({"physical"}, "dmrs_im") >>

\* The transport block up to the layers.  The first three operations run once,
\* before slot 0.
LayerOps ==
  << Op({"info"}, "encoded"),
     Op({"encoded"}, "bits_nr"),
     Op({"bits_nr"}, "bits_qam"),
     Op({"bits_qam"}, "qam"),
     Op({"qam"}, "layer") >>

\* From the layers and their DMRS to the waveform.
GridOps ==
  << Op({"layer", "dmrs_re", "dmrs_im"}, "layer_grid"),
     Op({"layer_grid"}, "port_grid"),
     Op({"port_grid"}, "antenna_grid"),
     Op({AirGrid}, "fft_grid"),
     Op({"fft_grid"}, "iq") >>

\* Everything queued for a transport block, in launch order.
Program == LayerOps \o DmrsOps \o GridOps

FirstOfSlot == 4
DmrsEnqueue == 6     \* the Enqueue that rewrites the pinned area queues 6..10
AntennaMap  == 13    \* queued under a runtime profile only
LastOfSlot  == 15

Buffers == {Program[k].out : k \in 1..LastOfSlot} \ {"iq"}
Staged  == {"cinit_host", "metadata_host"}

\* What each buffer is meant to carry in a slot.
Carries(b) ==
  CASE b \in {"qam", "layer"} -> {"bits"}
    [] b = "cinit_device" -> {"cinit"}
    [] b = "metadata_device" -> {"metadata"}
    [] b \in {"physical", "dmrs_re", "dmrs_im"} -> {"cinit", "metadata"}
    [] b \in {"layer_grid", "port_grid", "antenna_grid", "fft_grid", "iq"} ->
         {"bits", "cinit", "metadata"}

Of(sources, s) == sources \X {s}
Expected(s) == Of(Carries("iq"), s)

VARIABLES
  phase,    (* of the host: queue, download, write, receipt, done, failed  *)
  slot, k,  (* the operation the host queues next                          *)
  stream,   (* queued operations, oldest first                             *)
  pinned,   (* slot whose profile is in the pinned staging area, -1 at first *)
  buf,      (* provenance of every device buffer                           *)
  iq,       (* provenance of every slot of d_iq                            *)
  hostIq,   (* the downloaded copy                                         *)
  outFile,  (* output_iq: previous contents, cut short, or this run's      *)
  receipt   (* receipt_json: previous contents, cut short, or PASS         *)

host  == <<phase, slot, k, pinned>>
files == <<hostIq, outFile, receipt>>
vars  == <<host, stream, buf, iq, files>>

Blank == [s \in Slots |-> {}]

Init ==
  /\ phase = "queue" /\ slot = 0 /\ k = 1
  /\ stream = << >>
  /\ pinned = -1
  /\ buf = [b \in Buffers |-> {}]
  /\ iq = Blank /\ hostIq = Blank
  /\ outFile = "previous" /\ receipt = "previous"

\* The next operation the host queues: a legacy run has no antenna mapping.
NextOp(n) == IF n + 1 = AntennaMap /\ ~Profile THEN n + 2 ELSE n + 1

\* One launch or asynchronous copy.  The first of the DMRS generator rewrites
\* the pinned staging area on the host before anything is queued.
QueueOp ==
  /\ phase = "queue" /\ k <= LastOfSlot
  /\ stream' = Append(stream, [slot |-> slot, op |-> k])
  /\ pinned' = IF k = DmrsEnqueue THEN slot ELSE pinned
  /\ k' = NextOp(k)
  /\ UNCHANGED <<phase, slot, buf, iq, files>>

\* Any launch, copy, synchronisation or profile check can be refused, a copy of
\* the DMRS generator after the pinned area was rewritten; the exception ends
\* the run with exit code 1.
QueueFails ==
  /\ phase = "queue"
  /\ phase' = "failed"
  /\ pinned' \in IF k = DmrsEnqueue THEN {pinned, slot} ELSE {pinned}
  /\ UNCHANGED <<slot, k, stream, buf, iq, files>>

\* (Mutants: no synchronisation; one slot too many; the same slot again.)
SlotBoundaryUnsynchronised ==
  /\ phase = "queue" /\ k > LastOfSlot
  /\ IF slot + 1 < NumSlots
     THEN slot' = slot + 1 /\ k' = FirstOfSlot /\ UNCHANGED phase
     ELSE phase' = "download" /\ UNCHANGED <<slot, k>>
  /\ UNCHANGED <<stream, pinned, buf, iq, files>>

SlotBoundaryOneTooMany ==
  /\ phase = "queue" /\ k > LastOfSlot /\ stream = << >>
  /\ IF slot + 1 <= NumSlots
     THEN slot' = slot + 1 /\ k' = FirstOfSlot /\ UNCHANGED phase
     ELSE phase' = "download" /\ UNCHANGED <<slot, k>>
  /\ UNCHANGED <<stream, pinned, buf, iq, files>>

SlotBoundaryStays ==
  /\ phase = "queue" /\ k > LastOfSlot /\ stream = << >>
  /\ IF slot + 1 < NumSlots
     THEN k' = FirstOfSlot /\ UNCHANGED <<slot, phase>>
     ELSE phase' = "download" /\ UNCHANGED <<slot, k>>
  /\ UNCHANGED <<stream, pinned, buf, iq, files>>

\* aclrtSynchronizeStream at the end of the slot returns.
SlotBoundary ==
  /\ phase = "queue" /\ k > LastOfSlot /\ stream = << >>
  /\ IF slot + 1 < NumSlots
     THEN slot' = slot + 1 /\ k' = FirstOfSlot /\ UNCHANGED phase
     ELSE phase' = "download" /\ UNCHANGED <<slot, k>>
  /\ UNCHANGED <<stream, pinned, buf, iq, files>>

\* What an operation of slot s finds in a buffer when it executes.
Found(b, s) ==
  CASE b = "info" -> {<<"info", 0>>}
    [] b = "cinit_host" -> {<<"cinit", pinned>>}
    [] b = "metadata_host" -> {<<"metadata", pinned>>}
    [] b = "bits_qam" -> IF buf[b] = {} THEN {} ELSE {<<"bits", s>>}
    [] OTHER -> buf[b]

\* The stream executes its oldest operation.
Execute ==
  /\ stream # << >>
  /\ LET o     == Head(stream)
         value == UNION {Found(b, o.slot) : b \in Program[o.op].in}
     IN IF Program[o.op].out = "iq"
        THEN iq' = [iq EXCEPT ![o.slot] = value] /\ UNCHANGED buf
        ELSE buf' = [buf EXCEPT ![Program[o.op].out] = value] /\ UNCHANGED iq
  /\ stream' = Tail(stream)
  /\ UNCHANGED <<host, files>>

\* The blocking copy of d_iq, which can be refused, then the check that it is
\* not all zero.
Download ==
  /\ phase = "download"
  /\ \/ hostIq' = iq /\ phase' = IF iq = Blank THEN "failed" ELSE "write"
     \/ phase' = "failed" /\ UNCHANGED hostIq
  /\ UNCHANGED <<slot, k, pinned, stream, buf, iq, outFile, receipt>>

\* (Mutant: the result of the write is not looked at.)
WriteOutputUnchecked ==
  /\ phase = "write"
  /\ outFile' \in {"written", "partial"}
  /\ phase' = IF WithReceipt THEN "receipt" ELSE "done"
  /\ UNCHANGED <<slot, k, pinned, stream, buf, iq, hostIq, receipt>>

\* WriteExact truncates the file, then writes it or throws.
WriteOutput ==
  /\ phase = "write"
  /\ \/ outFile' = "written" /\ phase' = IF WithReceipt THEN "receipt" ELSE "done"
     \/ outFile' = "partial" /\ phase' = "failed"
  /\ UNCHANGED <<slot, k, pinned, stream, buf, iq, hostIq, receipt>>

WriteReceipt ==
  /\ phase = "receipt"
  /\ \/ receipt' = "PASS" /\ phase' = "done"
     \/ receipt' = "partial" /\ phase' = "failed"
  /\ UNCHANGED <<slot, k, pinned, stream, buf, iq, hostIq, outFile>>

HostStep == QueueOp \/ SlotBoundary \/ Download \/ WriteOutput \/ WriteReceipt

Next == HostStep \/ QueueFails \/ Execute

\* The host thread runs, and the device executes what is queued.
Spec == Init /\ [][Next]_vars /\ WF_vars(HostStep) /\ WF_vars(Execute)

-----------------------------------------------------------------------------
TypeOK ==
  /\ phase \in {"queue", "download", "write", "receipt", "done", "failed"}
  /\ slot \in Slots
  /\ k \in 1..(LastOfSlot + 1)
  /\ stream \in Seq([slot : Slots, op : 1..LastOfSlot])
  /\ pinned \in Slots \union {-1}
  /\ DOMAIN buf = Buffers
  /\ DOMAIN iq = Slots /\ DOMAIN hostIq = Slots
  /\ outFile \in {"previous", "partial", "written"}
  /\ receipt \in {"previous", "partial", "PASS"}

\* Every slot of the waveform is modulated from its own bits and its own DMRS,
\* although all of them pass through the same buffers and staging area.
SlotProvenance == \A s \in Slots : iq[s] \in {{}, Expected(s)}

\* mimo_dmrs_gen.h: "synchronize its stream before another Enqueue".  No copy
\* out of the pinned area is still queued when the area is rewritten.
StagingStable ==
  \A n \in 1..Len(stream) :
    Program[stream[n].op].in \subseteq Staged => stream[n].slot = pinned

\* A PASS receipt vouches for a completely written waveform in which every
\* slot was produced, each from its own sources.
PassMeansComplete ==
  receipt = "PASS" => outFile = "written" /\ hostIq = [s \in Slots |-> Expected(s)]

\* The run ends: written, or refused.
Terminates == <>(phase \in {"done", "failed"})
===============================================================================
