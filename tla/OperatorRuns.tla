----------------------------- MODULE OperatorRuns -----------------------------
(***************************************************************************)
(* The operator programs and the stages of the staged loopback on the        *)
(* device: what a launch must find in its buffers, and what a program must   *)
(* not read back.  Besides them, programs whose commands stand for any.      *)
(***************************************************************************)
EXTENDS DeviceStream, LoopbackStages

RealPrograms == SisoPrograms \cup MimoPrograms \cup StagePrograms

\* A program about which nothing is known but that it synchronises.
Anonymous(p) == Disciplined(p) /\ \A n \in 1..Len(p) : p[n].op = "any"

ASSUME OperatorsAssumption ==
  \A e \in DOMAIN Programs : Programs[e] \in RealPrograms \/ Anonymous(Programs[e])

Executing == stream # << >>
Now == Code[Head(stream)]
Wrote(b) == Code[mem[b]]

\* The one memory a program clears behind launches that still use it: the
\* messages of the decoder, in its benchmark.  No launch reads what another one
\* left there, but a launch under way may lose the messages of one iteration
\* before the next reads them; the benchmark looks at no result.
ClearedTooEarly(p) == IF p = LdpcDecode THEN {"prev"} ELSE {}

\* No host copy touches what a queued or running launch writes, nor overwrites
\* what it reads; only those clearings do, and nothing but them: the memory is
\* not freed, and not read back, before the launches are over.
CopiesKeepClear ==
  AtHost("copy") =>
    \A k \in 1..Len(stream) :
      LET m == Code[stream[k]]
          n == Code[pc]
      IN (m.out \cap (n.in \cup n.out)) \cup (m.in \cap n.out)
           \subseteq (IF n.op = "fill" THEN ClearedTooEarly(Code) ELSE {})

\* No launch finds in a buffer it reads what an earlier launch of the same
\* kernel left there: accumulators and scratch memory are cleared between two
\* launches, and the clearing, which does not queue, happens between them on
\* the device too.
StateIsFresh ==
  Executing /\ Now.op # "any" =>
    \A b \in Now.in : mem[b] = 0 \/ Wrote(b) # Now

\* The one program that can launch on memory nobody wrote: the benchmark of
\* the resource grid map goes on without a single case that could be read.
Unloaded == ResourceGridMap(0)

\* Whatever a launch reads was put there by this program, and is not freed: a
\* queued launch reads its buffers long after the call that queued it.
InputsArePresent ==
  Executing /\ Now.op # "any" /\ Code # Unloaded =>
    \A b \in Now.in : mem[b] # 0 /\ Wrote(b).op # "free"

\* A result is read back from the launch that computes it, not from the
\* pattern the program filled its buffer with; unless it launches nothing,
\* which WARMUP=0 TIMED=0 asks for.
ResultsAreComputed ==
  AtHost("copy") /\ Code[pc].op = "download" =>
    \A b \in Code[pc].in :
      (\E n \in 1..Len(Code) : Code[n].do = "launch" /\ b \in Code[n].out)
        => mem[b] # 0 /\ Wrote(b).do = "launch"
===============================================================================
