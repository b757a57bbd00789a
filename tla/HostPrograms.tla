----------------------------- MODULE HostPrograms -----------------------------
(***************************************************************************)
(* The calls the operator programs and the staged chain are written with, as *)
(* commands of DeviceStream.  Consecutive blocking copies are one command    *)
(* over the set of their buffers, real and imaginary planes are one buffer,  *)
(* and the loops of a benchmark are cut to a few turns, named below.         *)
(*                                                                         *)
(* Four shapes of a benchmark recur: a wait after every launch (Awaited), a  *)
(* wait after the warm-up and one for every timed launch (Timed), batches of *)
(* launches behind one wait (Throughput), and kernels that need memory       *)
(* cleared before each launch (the prepare sequence p of Awaited).           *)
(***************************************************************************)
EXTENDS Naturals, Sequences, SequencesExt

CONSTANTS
  Warmups,    (* warm-up launches: 2 to 50 in the programs                  *)
  TimedRuns,  (* measurements: 3 to 200 in the programs                     *)
  PerSync     (* launches behind one wait in a batch: 3 to 100              *)

ASSUME LoopAssumption == {Warmups, TimedRuns, PerSync} \subseteq Nat \ {0}

Command(do, op, in, out) == [do |-> do, op |-> op, in |-> in, out |-> out]

Kernel(op, in, out)   == << Command("launch", op, in, out) >>
\* aclrtMemcpyAsync on the stream of the kernels.
QueuedCopy(in, out)   == << Command("launch", "copy", in, out) >>
\* aclrtMemcpy, host to device and back; aclrtMemset and uploads of a pattern.
Upload(buffers)       == << Command("copy", "upload", {}, buffers) >>
Fill(buffers)         == << Command("copy", "fill", {}, buffers) >>
Download(buffers)     == << Command("copy", "download", buffers, {}) >>
\* aclrtFree: from here on the memory is anybody's.
Free(buffers)         == << Command("copy", "free", {}, buffers) >>
\* aclrtSynchronizeStream; aclrtSynchronizeEvent on an event recorded last.
Wait                  == << Command("sync", "wait", {}, {}) >>

Times(n, p) == FlattenSeq([i \in 1..n |-> p])

\* The buffers a program names.
BuffersOf(p) == UNION {p[n].in \cup p[n].out : n \in 1..Len(p)}

\* A program frees at its end all it allocated at its start.
Freed(p) == p \o Free(BuffersOf(p))

\* Warm-up and timed launches of p, each waited for.
Awaited(p) == Times(Warmups + TimedRuns, p \o Wait)

\* Warm-up launches behind one wait, timed launches each behind its event;
\* both counts come from the environment, WARMUP and TIMED, and may be 0.
Timed(k, warmups, timed) == Times(warmups, k) \o Wait \o Times(timed, k \o Wait)

\* Warm-up, wait, and batches of launches each behind one wait.
Throughput(k) == Times(Warmups, k) \o Wait \o Times(TimedRuns, Times(PerSync, k) \o Wait)

\* The common operator program: upload, fill the result, run, download.
Measured(k) ==
  Freed(Upload(k[1].in) \o Fill(k[1].out) \o Awaited(k) \o Download(k[1].out))

\* The same for a kernel that works in memory cleared before every launch.
MeasuredCleared(k, scratch) ==
  Freed(Upload(k[1].in \ scratch) \o Fill(k[1].out \ scratch)
          \o Awaited(Fill(scratch) \o k) \o Download(k[1].out \ scratch))

\* One launch, waited for and read back.
Once(k, results) == k \o Wait \o Download(results)
===============================================================================
