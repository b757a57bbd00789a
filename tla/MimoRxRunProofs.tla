---------------------------- MODULE MimoRxRunProofs ----------------------------
(***************************************************************************)
(* The fused receiver for any number of slots and any grants: its programs   *)
(* are disciplined, so that DeviceStreamProofs gives every queued operation  *)
(* the data that program order gives it, and what is left is a question      *)
(* about the text of a program.  The invariants follow for the receiver of   *)
(* MimoRxChain and for the run that loads its configuration (MimoRxRun).    *)
(*                                                                         *)
(* The second half is the configuration (RuntimeConfig): what a job that     *)
(* came so far has behind it, and what therefore no later stage refuses.     *)
(***************************************************************************)
EXTENDS MimoRxRun, GrantJobs, SequenceTheorems, FiniteSetTheorems, WellFoundedInduction, TLAPS

Ds == INSTANCE DeviceStreamProofs

-----------------------------------------------------------------------------
\* The text of a program.

\* A concatenation by its halves.
LEMMA Joined ==
  ASSUME NEW S, NEW r \in Seq(S), NEW s \in Seq(S)
  PROVE  /\ (r \o s) \in Seq(S) /\ Len(r \o s) = Len(r) + Len(s)
         /\ \A j \in 1..Len(r) : (r \o s)[j] = r[j]
         /\ \A j \in 1..Len(s) : (r \o s)[j + Len(r)] = s[j]
<1>1. /\ (r \o s) \in Seq(S) /\ Len(r \o s) = Len(r) + Len(s)
      /\ \A j \in 1..(Len(r) + Len(s)) : (r \o s)[j] = IF j <= Len(r) THEN r[j] ELSE s[j - Len(r)]
  BY ConcatProperties, Zenon
<1>2. Len(r) \in Nat /\ Len(s) \in Nat
  BY LenProperties
<1>3. ASSUME NEW j \in 1..Len(s) PROVE (r \o s)[j + Len(r)] = s[j]
  <2>1. j + Len(r) \in 1..(Len(r) + Len(s)) /\ ~(j + Len(r) <= Len(r)) /\ j + Len(r) - Len(r) = j
    BY <1>2
  <2>2. QED BY <1>1, <2>1
<1>4. QED
  BY <1>1, <1>2, <1>3

\* Sequences given by their elements.
LEMMA ThreeOf ==
  ASSUME NEW S, NEW q, q = << q[1], q[2], q[3] >>,
         q[1] \in S, q[2] \in S, q[3] \in S
  PROVE  q \in Seq(S) /\ Len(q) = 3
<1>1. << q[1], q[2], q[3] >> \in Seq(S) /\ Len(<< q[1], q[2], q[3] >>) = 3
  OBVIOUS
<1>2. QED BY <1>1, Zenon

LEMMA FourOf ==
  ASSUME NEW S, NEW q, q = << q[1], q[2], q[3], q[4] >>,
         q[1] \in S, q[2] \in S, q[3] \in S, q[4] \in S
  PROVE  q \in Seq(S) /\ Len(q) = 4
<1>1. << q[1], q[2], q[3], q[4] >> \in Seq(S) /\ Len(<< q[1], q[2], q[3], q[4] >>) = 4
  OBVIOUS
<1>2. QED BY <1>1, Zenon

LEMMA SixOf ==
  ASSUME NEW S, NEW q, q = << q[1], q[2], q[3], q[4], q[5], q[6] >>,
         q[1] \in S, q[2] \in S, q[3] \in S, q[4] \in S, q[5] \in S, q[6] \in S
  PROVE  q \in Seq(S) /\ Len(q) = 6
<1>1. << q[1], q[2], q[3], q[4], q[5], q[6] >> \in Seq(S) /\ Len(<< q[1], q[2], q[3], q[4], q[5], q[6] >>) = 6
  OBVIOUS
<1>2. QED BY <1>1, Zenon

LEMMA SevenOf ==
  ASSUME NEW S, NEW q, q = << q[1], q[2], q[3], q[4], q[5], q[6], q[7] >>,
         q[1] \in S, q[2] \in S, q[3] \in S, q[4] \in S, q[5] \in S, q[6] \in S, q[7] \in S
  PROVE  q \in Seq(S) /\ Len(q) = 7
<1>1. << q[1], q[2], q[3], q[4], q[5], q[6], q[7] >> \in Seq(S) /\ Len(<< q[1], q[2], q[3], q[4], q[5], q[6], q[7] >>) = 7
  OBVIOUS
<1>2. QED BY <1>1, Zenon

\* The commands of a slot by number.
LEMMA SlotText ==
  ASSUME NEW s
  PROVE  /\ Len(SlotCommands(s)) = 18
         /\ \A k \in 1..3 : SlotCommands(s)[k] = Demodulate[k]
         /\ \A k \in 1..4 : SlotCommands(s)[k + 3] = DmrsEnqueue[k]
         /\ \A k \in 1..6 : SlotCommands(s)[k + 7] = Estimate[k]
         /\ \A k \in 1..4 : SlotCommands(s)[k + 13] = Detect(s)[k]
         /\ SlotCommands(s)[18] = Synchronize
<1> DEFINE S == {p[i] : p \in {Demodulate, DmrsEnqueue, Estimate, Detect(s), << Synchronize >>},
                        i \in 1..6}
<1>1. \A p \in {Demodulate, DmrsEnqueue, Estimate, Detect(s), << Synchronize >>} :
        p[1] \in S /\ p[2] \in S /\ p[3] \in S /\ p[4] \in S /\ p[5] \in S /\ p[6] \in S
  OBVIOUS
<1> HIDE DEF S
<1>2. Demodulate \in Seq(S) /\ Len(Demodulate) = 3
  <2>1. Demodulate = << Demodulate[1], Demodulate[2], Demodulate[3] >>
    BY DEF Demodulate
  <2>2. QED BY <1>1, <2>1, ThreeOf
<1>3. DmrsEnqueue \in Seq(S) /\ Len(DmrsEnqueue) = 4
  <2>1. DmrsEnqueue = << DmrsEnqueue[1], DmrsEnqueue[2], DmrsEnqueue[3], DmrsEnqueue[4] >>
    BY DEF DmrsEnqueue
  <2>2. QED BY <1>1, <2>1, FourOf
<1>4. Estimate \in Seq(S) /\ Len(Estimate) = 6
  <2>1. Estimate = << Estimate[1], Estimate[2], Estimate[3], Estimate[4], Estimate[5], Estimate[6] >>
    BY DEF Estimate
  <2>2. QED BY <1>1, <2>1, SixOf
<1>5. Detect(s) \in Seq(S) /\ Len(Detect(s)) = 4
  <2>1. Detect(s) = << Detect(s)[1], Detect(s)[2], Detect(s)[3], Detect(s)[4] >>
    BY DEF Detect
  <2>2. QED BY <1>1, <2>1, FourOf
<1>6. << Synchronize >> \in Seq(S) /\ Len(<< Synchronize >>) = 1 /\ << Synchronize >>[1] = Synchronize
  <2>1. Synchronize \in S
    BY <1>1
  <2>2. QED BY <2>1
<1> DEFINE a == Demodulate
           b == DmrsEnqueue
           c == Estimate
           d == Detect(s)
           e == << Synchronize >>
           q == SlotCommands(s)
<1>7. /\ q = a \o b \o c \o d \o e /\ e[1] = Synchronize
      /\ a \in Seq(S) /\ b \in Seq(S) /\ c \in Seq(S) /\ d \in Seq(S) /\ e \in Seq(S)
      /\ Len(a) = 3 /\ Len(b) = 4 /\ Len(c) = 6 /\ Len(d) = 4 /\ Len(e) = 1
  <2>1. q = a \o b \o c \o d \o e
    BY DEF SlotCommands
  <2>2. QED BY <1>2, <1>3, <1>4, <1>5, <1>6, <2>1, Zenon
<1> HIDE DEF a, b, c, d, e, q
<1>8. /\ Len(q) = 18
      /\ \A k \in 1..3 : q[k] = a[k]
      /\ \A k \in 1..4 : q[k + 3] = b[k]
      /\ \A k \in 1..6 : q[k + 7] = c[k]
      /\ \A k \in 1..4 : q[k + 13] = d[k]
      /\ q[18] = e[1]
  <2> DEFINE ab == a \o b
             abc == ab \o c
             abcd == abc \o d
  <2>0. q = abcd \o e
    BY <1>7
  <2>1. /\ ab \in Seq(S) /\ Len(ab) = Len(a) + Len(b)
        /\ \A j \in 1..Len(a) : ab[j] = a[j]
        /\ \A j \in 1..Len(b) : ab[j + Len(a)] = b[j]
    <3>1. a \in Seq(S) /\ b \in Seq(S)
      BY <1>7
    <3>2. QED BY ONLY <3>1, Joined
  <2> HIDE DEF ab
  <2>2. /\ abc \in Seq(S) /\ Len(abc) = Len(ab) + Len(c)
        /\ \A j \in 1..Len(ab) : abc[j] = ab[j]
        /\ \A j \in 1..Len(c) : abc[j + Len(ab)] = c[j]
    <3>1. ab \in Seq(S) /\ c \in Seq(S)
      BY <1>7, <2>1
    <3>2. QED BY ONLY <3>1, Joined
  <2> HIDE DEF abc
  <2>3. /\ abcd \in Seq(S) /\ Len(abcd) = Len(abc) + Len(d)
        /\ \A j \in 1..Len(abc) : abcd[j] = abc[j]
        /\ \A j \in 1..Len(d) : abcd[j + Len(abc)] = d[j]
    <3>1. abc \in Seq(S) /\ d \in Seq(S)
      BY <1>7, <2>2
    <3>2. QED BY ONLY <3>1, Joined
  <2> HIDE DEF abcd
  <2>4. /\ q \in Seq(S) /\ Len(q) = Len(abcd) + Len(e)
        /\ \A j \in 1..Len(abcd) : q[j] = abcd[j]
        /\ \A j \in 1..Len(e) : q[j + Len(abcd)] = e[j]
    <3>1. abcd \in Seq(S) /\ e \in Seq(S) /\ q = abcd \o e
      BY <1>7, <2>0, <2>3
    <3>2. QED BY ONLY <3>1, Joined
  <2>5. Len(ab) = 7 /\ Len(abc) = 13 /\ Len(abcd) = 17 /\ Len(q) = 18
    BY <1>7, <2>1, <2>2, <2>3, <2>4
  <2>6. ASSUME NEW k \in 1..3 PROVE q[k] = a[k]
    <3>1. k \in 1..Len(a) /\ k \in 1..Len(ab) /\ k \in 1..Len(abc) /\ k \in 1..Len(abcd)
      BY <1>7, <2>5
    <3>2. ab[k] = a[k]
      BY <2>1, <3>1
    <3>3. abc[k] = ab[k]
      BY <2>2, <3>1
    <3>4. abcd[k] = abc[k]
      BY <2>3, <3>1
    <3>5. q[k] = abcd[k]
      BY <2>4, <3>1
    <3>6. QED BY <3>2, <3>3, <3>4, <3>5
  <2>7. ASSUME NEW k \in 1..4 PROVE q[k + 3] = b[k]
    <3>1. k \in 1..Len(b) /\ k + Len(a) = k + 3 /\ k + 3 \in 1..Len(ab) /\ k + 3 \in 1..Len(abc) /\ k + 3 \in 1..Len(abcd)
      BY <1>7, <2>5
    <3>2. ab[k + 3] = b[k]
      BY <2>1, <3>1
    <3>3. abc[k + 3] = ab[k + 3]
      BY <2>2, <3>1
    <3>4. abcd[k + 3] = abc[k + 3]
      BY <2>3, <3>1
    <3>5. q[k + 3] = abcd[k + 3]
      BY <2>4, <3>1
    <3>6. QED BY <3>2, <3>3, <3>4, <3>5
  <2>8. ASSUME NEW k \in 1..6 PROVE q[k + 7] = c[k]
    <3>1. k \in 1..Len(c) /\ k + Len(ab) = k + 7 /\ k + 7 \in 1..Len(abc) /\ k + 7 \in 1..Len(abcd)
      BY <1>7, <2>5
    <3>2. abc[k + 7] = c[k]
      BY <2>2, <3>1
    <3>3. abcd[k + 7] = abc[k + 7]
      BY <2>3, <3>1
    <3>4. q[k + 7] = abcd[k + 7]
      BY <2>4, <3>1
    <3>5. QED BY <3>2, <3>3, <3>4
  <2>9. ASSUME NEW k \in 1..4 PROVE q[k + 13] = d[k]
    <3>1. k \in 1..Len(d) /\ k + Len(abc) = k + 13 /\ k + 13 \in 1..Len(abcd)
      BY <1>7, <2>5
    <3>2. abcd[k + 13] = d[k]
      BY <2>3, <3>1
    <3>3. q[k + 13] = abcd[k + 13]
      BY <2>4, <3>1
    <3>4. QED BY <3>2, <3>3
  <2>10. q[18] = e[1]
    <3>1. 1 \in 1..Len(e) /\ 1 + Len(abcd) = 18
      BY <1>7, <2>5
    <3>2. q[1 + Len(abcd)] = e[1]
      BY <2>4, <3>1
    <3>3. QED BY <3>1, <3>2
  <2>11. QED
    BY <2>4, <2>5, <2>6, <2>7, <2>8, <2>9, <2>10
<1>9. QED
  BY <1>7, <1>8, Zenon DEF q, a, b, c, d

\* The results written for an outcome of the checks.
LEMMA ResultsText ==
  ASSUME NEW S, NEW o \in Outcomes,
         Memcpy("WriteExact", {"bits"}, {"output"}) \in S,
         Memcpy("receipt", {"output"}, {"receipt"}) \in S
  PROVE  /\ WriteResults(o) \in Seq(S)
         /\ o = "not_binary" => Len(WriteResults(o)) = 0
         /\ o = "wrong" => Len(WriteResults(o)) = 1
         /\ o \notin {"not_binary", "wrong"} =>
              /\ Len(WriteResults(o)) = 2
              /\ WriteResults(o)[2] = Memcpy("receipt", {"output"}, {"receipt"})
         /\ o # "not_binary" => WriteResults(o)[1] = Memcpy("WriteExact", {"bits"}, {"output"})
<1> DEFINE b == Memcpy("WriteExact", {"bits"}, {"output"})
           r == Memcpy("receipt", {"output"}, {"receipt"})
           first == IF o = "not_binary" THEN << >> ELSE << b >>
           second == IF o \in {"not_binary", "wrong"} THEN << >> ELSE << r >>
<1>1. b \in S /\ r \in S
  OBVIOUS
<1>2. WriteResults(o) = first \o second
  BY DEF WriteResults
<1> SUFFICES /\ first \o second \in Seq(S)
             /\ o = "not_binary" => Len(first \o second) = 0
             /\ o = "wrong" => Len(first \o second) = 1
             /\ o \notin {"not_binary", "wrong"} =>
                  Len(first \o second) = 2 /\ (first \o second)[2] = r
             /\ o # "not_binary" => (first \o second)[1] = b
  BY <1>2, Zenon
<1> HIDE DEF b, r
<1>3. /\ first \in Seq(S)
      /\ o = "not_binary" => Len(first) = 0
      /\ o # "not_binary" => Len(first) = 1 /\ first[1] = b
  BY <1>1
<1>4. /\ second \in Seq(S)
      /\ o \in {"not_binary", "wrong"} => Len(second) = 0
      /\ o \notin {"not_binary", "wrong"} => Len(second) = 1 /\ second[1] = r
  BY <1>1
<1> HIDE DEF first, second
<1>5. /\ (first \o second) \in Seq(S) /\ Len(first \o second) = Len(first) + Len(second)
      /\ \A j \in 1..Len(first) : (first \o second)[j] = first[j]
      /\ \A j \in 1..Len(second) : (first \o second)[j + Len(first)] = second[j]
  <2>1. first \in Seq(S) /\ second \in Seq(S)
    BY <1>3, <1>4
  <2>2. QED BY ONLY <2>1, Joined
<1>6. o # "not_binary" => (first \o second)[1] = b
  <2>1. SUFFICES ASSUME o # "not_binary" PROVE (first \o second)[1] = b
    OBVIOUS
  <2>2. Len(first) = 1 /\ first[1] = b
    BY <2>1, <1>3
  <2>3. 1 \in 1..Len(first)
    BY <2>2
  <2>4. QED BY <1>5, <2>2, <2>3
<1>7. o \notin {"not_binary", "wrong"} => (first \o second)[2] = r
  <2>1. SUFFICES ASSUME o \notin {"not_binary", "wrong"} PROVE (first \o second)[2] = r
    OBVIOUS
  <2>2. Len(second) = 1 /\ second[1] = r /\ Len(first) = 1
    BY <2>1, <1>3, <1>4, Zenon
  <2>3. 1 \in 1..Len(second) /\ 1 + Len(first) = 2
    BY <2>2
  <2>4. (first \o second)[1 + Len(first)] = second[1]
    BY <1>5, <2>3
  <2>5. QED BY <2>2, <2>3, <2>4
<1>8. QED
  BY <1>3, <1>4, <1>5, <1>6, <1>7

\* The commands behind the slot loop.
Ending(o) == Decode \o WriteResults(o)

\* The commands behind the loop for each outcome.
LEMMA EndingText ==
  ASSUME NEW o \in Outcomes
  PROVE  /\ o = "not_binary" => Len(Ending(o)) = 7
         /\ o = "wrong" => Len(Ending(o)) = 8
         /\ o \notin {"not_binary", "wrong"} =>
              Len(Ending(o)) = 9 /\ Ending(o)[9] = Memcpy("receipt", {"output"}, {"receipt"})
         /\ o # "not_binary" => Ending(o)[8] = Memcpy("WriteExact", {"bits"}, {"output"})
         /\ \A k \in 1..7 : Ending(o)[k] = Decode[k]
<1> DEFINE b == Memcpy("WriteExact", {"bits"}, {"output"})
           r == Memcpy("receipt", {"output"}, {"receipt"})
           S == {Decode[i] : i \in 1..7} \union {b, r}
           w == WriteResults(o)
<1>1. /\ Decode[1] \in S /\ Decode[2] \in S /\ Decode[3] \in S /\ Decode[4] \in S
      /\ Decode[5] \in S /\ Decode[6] \in S /\ Decode[7] \in S /\ b \in S /\ r \in S
  OBVIOUS
<1> HIDE DEF S
<1>2. Decode \in Seq(S) /\ Len(Decode) = 7
  <2>1. Decode = << Decode[1], Decode[2], Decode[3], Decode[4], Decode[5], Decode[6], Decode[7] >>
    BY DEF Decode
  <2>2. QED BY <1>1, <2>1, SevenOf
<1>3. /\ w \in Seq(S)
      /\ o = "not_binary" => Len(w) = 0
      /\ o = "wrong" => Len(w) = 1
      /\ o \notin {"not_binary", "wrong"} => Len(w) = 2 /\ w[2] = r
      /\ o # "not_binary" => w[1] = b
  BY <1>1, ResultsText, Zenon
<1> HIDE DEF w, b, r
<1>4. /\ (Decode \o w) \in Seq(S) /\ Len(Decode \o w) = Len(Decode) + Len(w)
      /\ \A j \in 1..Len(Decode) : (Decode \o w)[j] = Decode[j]
      /\ \A j \in 1..Len(w) : (Decode \o w)[j + Len(Decode)] = w[j]
  <2>1. Decode \in Seq(S) /\ w \in Seq(S)
    BY <1>2, <1>3
  <2>2. QED BY ONLY <2>1, Joined
<1>5. Ending(o) = Decode \o w
  BY DEF Ending, w
<1>6. \A k \in 1..7 : (Decode \o w)[k] = Decode[k]
  BY <1>2, <1>4
<1>7. o # "not_binary" => (Decode \o w)[8] = b
  <2>1. SUFFICES ASSUME o # "not_binary" PROVE (Decode \o w)[8] = b
    OBVIOUS
  <2>2. 1 \in 1..Len(w) /\ 1 + Len(Decode) = 8 /\ w[1] = b
    BY <2>1, <1>2, <1>3 DEF Outcomes
  <2>3. (Decode \o w)[1 + Len(Decode)] = w[1]
    BY <1>4, <2>2
  <2>4. QED BY <2>2, <2>3
<1>8. o \notin {"not_binary", "wrong"} => (Decode \o w)[9] = r
  <2>1. SUFFICES ASSUME o \notin {"not_binary", "wrong"} PROVE (Decode \o w)[9] = r
    OBVIOUS
  <2>2. Len(w) = 2 /\ w[2] = r
    BY <2>1, <1>3, Zenon
  <2>3. 2 \in 1..Len(w) /\ 2 + Len(Decode) = 9
    BY <2>2, <1>2
  <2>4. (Decode \o w)[2 + Len(Decode)] = w[2]
    BY <1>4, <2>3
  <2>5. QED BY <2>2, <2>3, <2>4
<1>9. /\ o = "not_binary" => Len(Decode \o w) = 7
      /\ o = "wrong" => Len(Decode \o w) = 8
      /\ o \notin {"not_binary", "wrong"} => Len(Decode \o w) = 9
  BY <1>2, <1>3, <1>4
<1>10. QED
  BY <1>5, <1>6, <1>7, <1>8, <1>9, Zenon DEF b, r

\* Command k of slot s in a program; the ending stands behind the last slot.
At(s, k) == 1 + 18 * s + k

\* Commands of different slots do not mix.
LEMMA AtOrder ==
  /\ \A s \in Nat, k \in 1..18 : At(s, k) \in Nat /\ At(s, k) > 1
  /\ \A s, t \in Nat, j, k \in 1..18 : At(s, j) < At(t, k) <=> s < t \/ (s = t /\ j < k)
  /\ \A s, t \in Nat, j, k \in 1..18 : At(s, j) = At(t, k) <=> s = t /\ j = k
  BY DEF At

\* A function on 1..N is a sequence.
LEMMA OfFunction ==
  ASSUME NEW S, NEW N \in Nat, NEW f, f = [i \in 1..N |-> f[i]], \A i \in 1..N : f[i] \in S
  PROVE  f \in Seq(S) /\ Len(f) = N /\ DOMAIN f = 1..N
<1>1. f \in [1..N -> S]
  OBVIOUS
<1>2. QED
  BY <1>1

\* What stamping does to a sequence of commands.
LEMMA ForText ==
  ASSUME NEW s, NEW g, NEW c, Len(c) \in Nat
  PROVE  /\ For(s, g, c) \in Seq({For(s, g, c)[i] : i \in 1..Len(c)}) /\ Len(For(s, g, c)) = Len(c)
         /\ \A n \in 1..Len(c) : For(s, g, c)[n] = Stamped(c[n], s, g)
<1> DEFINE f == For(s, g, c)
           S == {f[i] : i \in 1..Len(c)}
<1>1. f = [n \in 1..Len(c) |-> Stamped(c[n], s, g)]
  BY DEF For
<1> HIDE DEF f
<1>2. \A n \in 1..Len(c) : f[n] = Stamped(c[n], s, g)
  BY <1>1
<1>3. f = [i \in 1..Len(c) |-> f[i]] /\ \A i \in 1..Len(c) : f[i] \in S
  BY <1>1
<1> HIDE DEF S
<1>4. f \in Seq(S) /\ Len(f) = Len(c)
  BY <1>3, OfFunction
<1>5. QED
  BY <1>2, <1>4, Zenon DEF f, S

\* The loop holds 18 commands for every slot.
LEMMA LoopText ==
  ASSUME NEW g
  PROVE  /\ SlotLoop(g) \in Seq({SlotLoop(g)[i] : i \in 1..(18 * NumSlots)})
         /\ Len(SlotLoop(g)) = 18 * NumSlots
         /\ \A s \in Slots, k \in 1..18 :
              SlotLoop(g)[18 * s + k] = Stamped(SlotCommands(s)[k], s, g)
<1> DEFINE f == SlotLoop(g)
           S == {f[i] : i \in 1..(18 * NumSlots)}
<1>1. NumSlots \in Nat /\ 18 * NumSlots \in Nat /\ NumSlots * 18 = 18 * NumSlots
  BY ScopeAssumption
<1>2. SlotLength = 18
  BY SlotText DEF SlotLength
<1>3. f = [n \in 1..(18 * NumSlots) |->
             Stamped(SlotCommands((n - 1) \div 18)[((n - 1) % 18) + 1], (n - 1) \div 18, g)]
  BY <1>1, <1>2, Zenon DEF SlotLoop
<1> HIDE DEF f
<1>4. ASSUME NEW s \in Slots, NEW k \in 1..18
      PROVE  f[18 * s + k] = Stamped(SlotCommands(s)[k], s, g)
  <2> DEFINE n == 18 * s + k
             d == (n - 1) \div 18
             m == ((n - 1) % 18) + 1
  <2>1. n \in 1..(18 * NumSlots) /\ d = s /\ m = k
    BY <1>1 DEF Slots
  <2>2. f[n] = Stamped(SlotCommands(d)[m], d, g)
    <3> HIDE DEF n
    <3>1. QED BY <1>3, <2>1
  <2> HIDE DEF d, m
  <2>3. QED BY <2>1, <2>2, Zenon
<1>5. f = [i \in 1..(18 * NumSlots) |-> f[i]] /\ \A i \in 1..(18 * NumSlots) : f[i] \in S
  BY <1>3
<1> HIDE DEF S
<1>6. f \in Seq(S) /\ Len(f) = 18 * NumSlots
  BY <1>1, <1>5, OfFunction
<1>7. QED
  BY <1>4, <1>6, Zenon DEF f, S

\* Run's commands for an environment by slot and number.
LEMMA ProgramText ==
  ASSUME NEW e \in Environments
  PROVE  LET p == Program(e)  o == e.outcome  g == e.grant IN
         /\ Len(p) = 1 + 18 * NumSlots + Len(Ending(o))
         /\ p[1] = Stamped(Setup[1], 0, g)
         /\ \A s \in Slots, k \in 1..18 : p[At(s, k)] = Stamped(SlotCommands(s)[k], s, g)
         /\ \A k \in 1..Len(Ending(o)) : p[At(NumSlots, k)] = Stamped(Ending(o)[k], 0, g)
<1> DEFINE o == e.outcome
           g == e.grant
<1>1. o \in Outcomes /\ g \in GrantSlots
  BY DEF Environments
<1>2. o = e.outcome /\ g = e.grant
  OBVIOUS
<1> HIDE DEF o, g
<1> DEFINE p == Program(e)
           a == For(0, g, Setup)
           l == SlotLoop(g)
           z == For(0, g, Ending(o))
           al == a \o l
           S == {a[i] : i \in 1..Len(a)} \union {l[i] : i \in 1..Len(l)} \union {z[i] : i \in 1..Len(z)}
<1>3. Len(Setup) = 1 /\ Len(Ending(o)) \in Nat
  BY <1>1, EndingText DEF Setup
<1>4. p = al \o z
  BY <1>2 DEF Program, Ending
<1> HIDE DEF p
<1>5. /\ a \in Seq({a[i] : i \in 1..Len(Setup)}) /\ Len(a) = 1
      /\ a[1] = Stamped(Setup[1], 0, g)
  <2>1. /\ a \in Seq({a[i] : i \in 1..Len(Setup)}) /\ Len(a) = Len(Setup)
        /\ \A n \in 1..Len(Setup) : a[n] = Stamped(Setup[n], 0, g)
    <3>1. Len(Setup) \in Nat
      BY <1>3
    <3>2. QED BY <3>1, ForText
  <2> HIDE DEF a
  <2>2. QED BY <1>3, <2>1
<1>6. /\ l \in Seq({l[i] : i \in 1..(18 * NumSlots)}) /\ Len(l) = 18 * NumSlots
      /\ \A s \in Slots, k \in 1..18 : l[18 * s + k] = Stamped(SlotCommands(s)[k], s, g)
  BY LoopText, Zenon
<1>7. /\ z \in Seq({z[i] : i \in 1..Len(Ending(o))}) /\ Len(z) = Len(Ending(o))
      /\ \A k \in 1..Len(Ending(o)) : z[k] = Stamped(Ending(o)[k], 0, g)
  <2>1. Len(Ending(o)) \in Nat
    BY <1>3
  <2>2. QED BY ONLY <2>1, ForText
<1> HIDE DEF a, l, z
<1>8. a \in Seq(S) /\ l \in Seq(S) /\ z \in Seq(S)
  <2>1. /\ {a[i] : i \in 1..Len(Setup)} \subseteq S
        /\ {l[i] : i \in 1..(18 * NumSlots)} \subseteq S
        /\ {z[i] : i \in 1..Len(Ending(o))} \subseteq S
    BY <1>3, <1>5, <1>6, <1>7
  <2> HIDE DEF S
  <2>2. QED BY <1>5, <1>6, <1>7, <2>1, SeqMonotonic
<1> HIDE DEF S
<1>9. /\ al \in Seq(S) /\ Len(al) = Len(a) + Len(l)
      /\ \A j \in 1..Len(a) : al[j] = a[j]
      /\ \A j \in 1..Len(l) : al[j + Len(a)] = l[j]
  <2>1. a \in Seq(S) /\ l \in Seq(S)
    BY <1>8
  <2>2. QED BY ONLY <2>1, Joined
<1> HIDE DEF al
<1>10. /\ p \in Seq(S) /\ Len(p) = Len(al) + Len(z)
       /\ \A j \in 1..Len(al) : p[j] = al[j]
       /\ \A j \in 1..Len(z) : p[j + Len(al)] = z[j]
  <2>1. al \in Seq(S) /\ z \in Seq(S) /\ p = al \o z
    BY <1>4, <1>8, <1>9
  <2>2. QED BY ONLY <2>1, Joined
<1>11. NumSlots \in Nat \ {0} /\ 18 * NumSlots \in Nat
  BY ScopeAssumption
<1>12. Len(al) = 1 + 18 * NumSlots
  BY <1>5, <1>6, <1>9
<1>13. Len(p) = 1 + 18 * NumSlots + Len(Ending(o))
  BY <1>7, <1>10, <1>12
<1>14. p[1] = Stamped(Setup[1], 0, g)
  <2>1. 1 \in 1..Len(a) /\ 1 \in 1..Len(al)
    BY <1>5, <1>11, <1>12
  <2>2. al[1] = a[1]
    BY <1>9, <2>1
  <2>3. p[1] = al[1]
    BY <1>10, <2>1
  <2>4. QED BY <1>5, <2>2, <2>3
<1>15. ASSUME NEW s \in Slots, NEW k \in 1..18
       PROVE  p[At(s, k)] = Stamped(SlotCommands(s)[k], s, g)
  <2>1. /\ 18 * s + k \in 1..Len(l) /\ (18 * s + k) + Len(a) = At(s, k)
        /\ At(s, k) \in 1..Len(al)
    <3>1. Len(l) = 18 * NumSlots /\ Len(a) = 1
      BY <1>5, <1>6
    <3>2. s \in 0..(NumSlots - 1)
      BY DEF Slots
    <3>3. QED BY <3>1, <3>2, <1>11, <1>12 DEF At
  <2>2. al[(18 * s + k) + Len(a)] = l[18 * s + k]
    BY <1>9, <2>1
  <2>3. p[At(s, k)] = al[At(s, k)]
    BY <1>10, <2>1
  <2>4. QED BY <1>6, <2>1, <2>2, <2>3
<1>16. ASSUME NEW k \in 1..Len(Ending(o))
       PROVE  p[At(NumSlots, k)] = Stamped(Ending(o)[k], 0, g)
  <2>1. k \in 1..Len(z) /\ k + Len(al) = At(NumSlots, k)
    BY <1>3, <1>7, <1>11, <1>12 DEF At
  <2>2. p[k + Len(al)] = z[k]
    BY <1>10, <2>1
  <2>3. QED BY <1>7, <2>1, <2>2
<1>17. QED
  BY <1>13, <1>14, <1>15, <1>16, Zenon DEF p, o, g

\* A command of a slot by its number.
LEMMA ByNumber ==
  ASSUME NEW s
  PROVE  LET c == SlotCommands(s)
         IN /\ c[1] = Demodulate[1] /\ c[2] = Demodulate[2] /\ c[3] = Demodulate[3]
            /\ c[4] = DmrsEnqueue[1] /\ c[5] = DmrsEnqueue[2] /\ c[6] = DmrsEnqueue[3]
            /\ c[7] = DmrsEnqueue[4]
            /\ c[8] = Estimate[1] /\ c[9] = Estimate[2] /\ c[10] = Estimate[3]
            /\ c[11] = Estimate[4] /\ c[12] = Estimate[5] /\ c[13] = Estimate[6]
            /\ c[14] = Detect(s)[1] /\ c[15] = Detect(s)[2] /\ c[16] = Detect(s)[3]
            /\ c[17] = Detect(s)[4]
            /\ c[18] = Synchronize
<1> DEFINE c == SlotCommands(s)
<1>1. /\ c[1] = Demodulate[1] /\ c[2] = Demodulate[2] /\ c[3] = Demodulate[3]
      /\ c[1 + 3] = DmrsEnqueue[1] /\ c[2 + 3] = DmrsEnqueue[2] /\ c[3 + 3] = DmrsEnqueue[3]
      /\ c[4 + 3] = DmrsEnqueue[4]
      /\ c[1 + 7] = Estimate[1] /\ c[2 + 7] = Estimate[2] /\ c[3 + 7] = Estimate[3]
      /\ c[4 + 7] = Estimate[4] /\ c[5 + 7] = Estimate[5] /\ c[6 + 7] = Estimate[6]
      /\ c[1 + 13] = Detect(s)[1] /\ c[2 + 13] = Detect(s)[2] /\ c[3 + 13] = Detect(s)[3]
      /\ c[4 + 13] = Detect(s)[4]
      /\ c[18] = Synchronize
  BY SlotText
<1> HIDE DEF c
<1>2. QED
  BY <1>1 DEF c

\* What a command of a slot is.
LEMMA SlotKinds ==
  ASSUME NEW s, NEW k \in 1..18
  PROVE  LET c == SlotCommands(s)[k]
         IN /\ c.do = IF k = 4 THEN "copy" ELSE IF k = 18 THEN "sync" ELSE "launch"
            /\ c.op = "mimo_dmrs_ls" <=> k = 8
            /\ c.op = "memset_ce" <=> k = 10
            /\ c.op = "memset_workspace" <=> k = 11
            /\ c.op = "lmmse" <=> k = 12
            /\ c.op = "pad_layers" <=> k = 13
            /\ c.op = "io_pack" <=> k = 14
            /\ c.op \notin {"descramble", "ldpc_decode", "memset_hgrid"}
<1>1. k \in {1, 2, 3, 4, 5, 6, 7, 8, 9, 10, 11, 12, 13, 14, 15, 16, 17, 18}
  OBVIOUS
<1>2. QED
  <2>1. CASE k \in 1..3
    BY <2>1, <1>1, ByNumber DEF Demodulate, Kernel, Memcpy, Command
  <2>2. CASE k \in 4..7
    BY <2>2, <1>1, ByNumber DEF DmrsEnqueue, Kernel, Memcpy, Command
  <2>3. CASE k \in 8..13
    BY <2>3, <1>1, ByNumber DEF Estimate, Kernel, Memcpy, Command
  <2>4. CASE k \in 14..17
    <3>1. /\ Detect(s)[1].do = "launch" /\ Detect(s)[1].op = "io_pack"
          /\ Detect(s)[2].do = "launch" /\ Detect(s)[2].op = "bri_detect"
          /\ Detect(s)[3].do = "launch" /\ Detect(s)[3].op = "qam_demod"
      BY DEF Detect, Kernel, Command
    <3>2. Detect(s)[4].do = "launch" /\ Detect(s)[4].op = "layer_demap"
      BY DEF Detect, Kernel, Command
    <3>3. /\ SlotCommands(s)[14] = Detect(s)[1] /\ SlotCommands(s)[15] = Detect(s)[2]
          /\ SlotCommands(s)[16] = Detect(s)[3] /\ SlotCommands(s)[17] = Detect(s)[4]
      BY ByNumber
    <3>4. QED BY <2>4, <3>1, <3>2, <3>3
  <2>5. CASE k = 18
    BY <2>5, <1>1, ByNumber DEF Synchronize, Command
  <2>6. QED BY <2>1, <2>2, <2>3, <2>4, <2>5

\* A buffer by its name.
LEMMA DevName ==
  /\ \A names, b : b \in Dev(names) <=> \E x \in names : b = <<x, 0>>
  /\ \A names, more : names \subseteq more => Dev(names) \subseteq Dev(more)
  /\ Dev({}) = {}
  BY DEF Dev

\* What the commands of a slot read and write.
LEMMA SlotSets ==
  ASSUME NEW s
  PROVE  LET c == SlotCommands(s)
         IN /\ c[1].in = Dev({}) /\ c[1].out = Dev({"iq"})
            /\ c[2].in = Dev({"iq"}) /\ c[2].out = Dev({"fft", "workspace"})
            /\ c[3].in = Dev({"fft"}) /\ c[3].out = Dev({"rx", "workspace"})
            /\ c[4].in = Dev({}) /\ c[4].out = Dev({"pinned"})
            /\ c[5].in = Dev({"pinned"}) /\ c[5].out = Dev({"cinit_metadata"})
            /\ c[6].in = Dev({"cinit_metadata"}) /\ c[6].out = Dev({"physical"})
            /\ c[7].in = Dev({"physical"}) /\ c[7].out = Dev({"dmrs"})
            /\ c[8].in = Dev({"rx", "dmrs"}) /\ c[8].out = Dev({"hls", "pilots", "noise", "workspace"})
            /\ c[9].in = Dev({"hls"}) /\ c[9].out = Dev({"ce_h", "workspace"})
            /\ c[10].in = Dev({}) /\ c[10].out = Dev({"ce_t"})
            /\ c[11].in = Dev({}) /\ c[11].out = Dev({"workspace"})
            /\ c[12].in = Dev({"ce_h", "ce_t", "workspace"})
            /\ c[12].out = Dev({"ce_t", "workspace", "ce_out"})
            /\ c[13].in = Dev({"ce_out"}) /\ c[13].out = Dev({"hgrid", "workspace"})
            /\ c[14].in = Dev({"rx", "hgrid", "hgrid_inactive", "noise"})
            /\ c[14].out = Dev({"hrm", "y", "no"})
            /\ c[15].in = Dev({"hrm", "y", "no"}) /\ c[15].out = Dev({"xhat", "workspace"})
            /\ c[16].in = Dev({"xhat"}) /\ c[16].out = Dev({"layer_llr", "workspace"})
            /\ c[17].in = Dev({"layer_llr"}) /\ c[17].out = Dev({"workspace"}) \union {Llr(s)}
            /\ c[18].in = Dev({}) /\ c[18].out = Dev({})
<1> DEFINE c == SlotCommands(s)
<1>1. /\ c[1].in = Dev({}) /\ c[1].out = Dev({"iq"})
      /\ c[2].in = Dev({"iq"}) /\ c[2].out = Dev({"fft", "workspace"})
      /\ c[3].in = Dev({"fft"}) /\ c[3].out = Dev({"rx", "workspace"})
  BY ByNumber DEF Demodulate, Kernel, Command
<1>2. /\ c[4].in = Dev({}) /\ c[4].out = Dev({"pinned"})
      /\ c[5].in = Dev({"pinned"}) /\ c[5].out = Dev({"cinit_metadata"})
      /\ c[6].in = Dev({"cinit_metadata"}) /\ c[6].out = Dev({"physical"})
      /\ c[7].in = Dev({"physical"}) /\ c[7].out = Dev({"dmrs"})
  BY ByNumber DEF DmrsEnqueue, Kernel, Memcpy, Command
<1>3. /\ c[8].in = Dev({"rx", "dmrs"}) /\ c[8].out = Dev({"hls", "pilots", "noise", "workspace"})
      /\ c[9].in = Dev({"hls"}) /\ c[9].out = Dev({"ce_h", "workspace"})
      /\ c[10].in = Dev({}) /\ c[10].out = Dev({"ce_t"})
      /\ c[11].in = Dev({}) /\ c[11].out = Dev({"workspace"})
      /\ c[12].in = Dev({"ce_h", "ce_t", "workspace"})
      /\ c[12].out = Dev({"ce_t", "workspace", "ce_out"})
      /\ c[13].in = Dev({"ce_out"}) /\ c[13].out = Dev({"hgrid", "workspace"})
  BY ByNumber DEF Estimate, Kernel, Command
<1>4. /\ c[14].in = Dev({"rx", "hgrid", "hgrid_inactive", "noise"})
      /\ c[14].out = Dev({"hrm", "y", "no"})
      /\ c[15].in = Dev({"hrm", "y", "no"}) /\ c[15].out = Dev({"xhat", "workspace"})
      /\ c[16].in = Dev({"xhat"}) /\ c[16].out = Dev({"layer_llr", "workspace"})
      /\ c[17].in = Dev({"layer_llr"}) /\ c[17].out = Dev({"workspace"}) \union {Llr(s)}
  <2>1. /\ Detect(s)[1].in = Dev({"rx", "hgrid", "hgrid_inactive", "noise"})
        /\ Detect(s)[1].out = Dev({"hrm", "y", "no"})
        /\ Detect(s)[2].in = Dev({"hrm", "y", "no"}) /\ Detect(s)[2].out = Dev({"xhat", "workspace"})
        /\ Detect(s)[3].in = Dev({"xhat"}) /\ Detect(s)[3].out = Dev({"layer_llr", "workspace"})
    BY DEF Detect, Kernel, Command
  <2>2. Detect(s)[4].in = Dev({"layer_llr"}) /\ Detect(s)[4].out = Dev({"workspace"}) \union {Llr(s)}
    BY DEF Detect, Kernel, Command
  <2>3. c[14] = Detect(s)[1] /\ c[15] = Detect(s)[2] /\ c[16] = Detect(s)[3] /\ c[17] = Detect(s)[4]
    BY ByNumber
  <2> HIDE DEF c
  <2>4. QED BY <2>1, <2>2, <2>3
<1>5. c[18].in = Dev({}) /\ c[18].out = Dev({})
  BY ByNumber DEF Synchronize, Command
<1>6. QED
  BY <1>1, <1>2, <1>3, <1>4, <1>5

\* For case splits by number.
LEMMA OneToEighteen ==
  ASSUME NEW k \in 1..18
  PROVE  k \in {1, 2, 3, 4, 5, 6, 7, 8, 9, 10, 11, 12, 13, 14, 15, 16, 17, 18}
  OBVIOUS

\* A slot uses buffers of the receiver only.
LEMMA SlotBuffers ==
  ASSUME NEW s \in Slots, NEW k \in 1..18
  PROVE  SlotCommands(s)[k].in \subseteq Buffers /\ SlotCommands(s)[k].out \subseteq Buffers
<1> DEFINE names == {"iq", "fft", "rx", "pinned", "cinit_metadata", "physical", "dmrs", "hls",
              "pilots", "noise", "ce_h", "ce_t", "workspace", "ce_out", "hgrid", "hgrid_inactive",
              "hrm", "y", "no", "xhat", "layer_llr"}
<1>1. Dev(names) \subseteq Buffers /\ Llr(s) \in Buffers
  BY DEF Dev, Buffers, LlrAll
<1>2. SlotCommands(s)[k].in \subseteq Dev(names) /\ SlotCommands(s)[k].out \subseteq Dev(names) \union {Llr(s)}
  BY SlotSets, OneToEighteen DEF Dev
<1> HIDE DEF names
<1>3. QED
  BY <1>1, <1>2

\* The command of a slot that leaves what the others read.
Source(x) ==
  CASE x = "iq" -> 1 [] x = "fft" -> 2 [] x = "rx" -> 3
    [] x = "cinit_metadata" -> 5 [] x = "physical" -> 6 [] x = "dmrs" -> 7
    [] x = "hls" -> 8 [] x = "noise" -> 8 [] x = "ce_h" -> 9 [] x = "ce_out" -> 12
    [] x = "hrm" -> 14 [] x = "y" -> 14 [] x = "no" -> 14
    [] x = "xhat" -> 15 [] x = "layer_llr" -> 16

PerSlotNames == {"iq", "fft", "rx", "cinit_metadata", "physical", "dmrs", "hls", "noise", "ce_h",
                 "ce_out", "hrm", "y", "no", "xhat", "layer_llr"}

\* Every per-slot buffer is written by its source ...
LEMMA SourceWrites ==
  ASSUME NEW s, NEW x \in PerSlotNames
  PROVE  Source(x) \in 1..18 /\ <<x, 0>> \in SlotCommands(s)[Source(x)].out
  BY SlotSets, DevName DEF Source, PerSlotNames

\* ... before anything in the slot reads it.
LEMMA SourceIsBefore ==
  ASSUME NEW s, NEW x \in PerSlotNames, NEW k \in 1..18, <<x, 0>> \in SlotCommands(s)[k].in
  PROVE  Source(x) < k
  BY SlotSets, DevName, OneToEighteen DEF Source, PerSlotNames

\* Who writes the buffers the other invariants are about.
LEMMA SlotWriters ==
  ASSUME NEW s \in Slots, NEW k \in 1..18
  PROVE  LET o == SlotCommands(s)[k].out
         IN /\ <<"pinned", 0>> \in o <=> k = 4
            /\ <<"ce_t", 0>> \in o <=> k \in {10, 12}
            /\ k = 11 => <<"workspace", 0>> \in o
            /\ <<"hgrid", 0>> \in o <=> k = 13
            /\ \A x \in {"hgrid_inactive", "sign", "prev", "lam_out", "ldpc_bits", "bits", "output",
                         "receipt"} : <<x, 0>> \notin o
            /\ \A t \in Slots : Llr(t) \in o <=> k = 17 /\ t = s
<1> DEFINE o == SlotCommands(s)[k].out
<1>1. /\ <<"pinned", 0>> \in o <=> k = 4
      /\ <<"ce_t", 0>> \in o <=> k \in {10, 12}
      /\ k = 11 => <<"workspace", 0>> \in o
      /\ <<"hgrid", 0>> \in o <=> k = 13
  BY SlotSets, OneToEighteen DEF Dev, Llr
<1>2. \A x \in {"hgrid_inactive", "sign", "prev", "lam_out", "ldpc_bits", "bits", "output",
                "receipt"} : <<x, 0>> \notin o
  BY SlotSets, OneToEighteen DEF Dev, Llr
<1>3. \A t \in Slots : Llr(t) \in o <=> k = 17 /\ t = s
  <2>1. ASSUME NEW t, k # 17 PROVE Llr(t) \notin o
    BY <2>1, SlotSets, OneToEighteen DEF Dev, Llr
  <2>2. ASSUME NEW t, k = 17 PROVE Llr(t) \in o <=> t = s
    <3>1. o = Dev({"workspace"}) \union {Llr(s)}
      BY <2>2, SlotSets
    <3> HIDE DEF o
    <3>2. QED BY <3>1 DEF Dev, Llr
  <2>3. QED BY <2>1, <2>2
<1>4. QED
  BY <1>1, <1>2, <1>3

\* The same for the ending.
LEMMA EndingSets ==
  ASSUME NEW o \in Outcomes
  PROVE  LET c == Ending(o)
         IN /\ Len(c) \in 7..9
            /\ c[1].do = "copy" /\ c[1].op = "gold_sign" /\ c[1].in = Dev({}) /\ c[1].out = Dev({"sign"})
            /\ c[2].do = "copy" /\ c[2].op = "memset_ldpc"
            /\ c[2].in = Dev({}) /\ c[2].out = Dev({"prev", "ldpc_bits", "lam_out", "ldpc_scratch"})
            /\ c[3].do = "launch" /\ c[3].op = "descramble"
            /\ c[3].in = Dev({"sign"}) \union LlrAll /\ c[3].out = Dev({"llr_nr", "workspace"})
            /\ c[4].do = "launch" /\ c[4].op = "rate_dematch"
            /\ c[4].in = Dev({"llr_nr"}) /\ c[4].out = Dev({"ldpc_llr", "workspace"})
            /\ c[5].do = "launch" /\ c[5].op = "ldpc_decode"
            /\ c[5].in = Dev({"ldpc_llr", "prev", "ldpc_bits", "lam_out", "ldpc_scratch"})
            /\ c[5].out = Dev({"ldpc_bits", "lam_out", "ldpc_scratch"})
            /\ c[6].do = "sync" /\ c[6].op = "sync" /\ c[6].in = Dev({}) /\ c[6].out = Dev({})
            /\ c[7].do = "copy" /\ c[7].op = "download"
            /\ c[7].in = Dev({"ldpc_bits"}) /\ c[7].out = Dev({"bits"})
            /\ Len(c) >= 8 =>
                 /\ o # "not_binary" /\ c[8].do = "copy" /\ c[8].op = "WriteExact"
                 /\ c[8].in = Dev({"bits"}) /\ c[8].out = Dev({"output"})
            /\ Len(c) >= 9 =>
                 /\ o \notin {"not_binary", "wrong"} /\ c[9].do = "copy" /\ c[9].op = "receipt"
                 /\ c[9].in = Dev({"output"}) /\ c[9].out = Dev({"receipt"})
<1> DEFINE c == Ending(o)
<1>1. c[1] = Decode[1] /\ c[2] = Decode[2] /\ c[3] = Decode[3] /\ c[4] = Decode[4]
      /\ c[5] = Decode[5] /\ c[6] = Decode[6] /\ c[7] = Decode[7]
  BY EndingText
<1>2. /\ o = "not_binary" => Len(c) = 7
      /\ o = "wrong" => Len(c) = 8
      /\ o \notin {"not_binary", "wrong"} => Len(c) = 9
      /\ o # "not_binary" => c[8] = Memcpy("WriteExact", {"bits"}, {"output"})
      /\ o \notin {"not_binary", "wrong"} => c[9] = Memcpy("receipt", {"output"}, {"receipt"})
  BY EndingText
<1> HIDE DEF c
<1>3. /\ c[1].do = "copy" /\ c[1].op = "gold_sign" /\ c[1].in = Dev({}) /\ c[1].out = Dev({"sign"})
      /\ c[2].do = "copy" /\ c[2].op = "memset_ldpc"
      /\ c[2].in = Dev({}) /\ c[2].out = Dev({"prev", "ldpc_bits", "lam_out", "ldpc_scratch"})
      /\ c[4].do = "launch" /\ c[4].op = "rate_dematch"
      /\ c[4].in = Dev({"llr_nr"}) /\ c[4].out = Dev({"ldpc_llr", "workspace"})
      /\ c[5].do = "launch" /\ c[5].op = "ldpc_decode"
      /\ c[5].in = Dev({"ldpc_llr", "prev", "ldpc_bits", "lam_out", "ldpc_scratch"})
      /\ c[5].out = Dev({"ldpc_bits", "lam_out", "ldpc_scratch"})
      /\ c[6].do = "sync" /\ c[6].op = "sync" /\ c[6].in = Dev({}) /\ c[6].out = Dev({})
      /\ c[7].do = "copy" /\ c[7].op = "download"
      /\ c[7].in = Dev({"ldpc_bits"}) /\ c[7].out = Dev({"bits"})
  BY <1>1 DEF Decode, Kernel, Memcpy, Synchronize, Command
<1>4. /\ c[3].do = "launch" /\ c[3].op = "descramble"
      /\ c[3].in = Dev({"sign"}) \union LlrAll /\ c[3].out = Dev({"llr_nr", "workspace"})
  <2>1. /\ Decode[3].do = "launch" /\ Decode[3].op = "descramble"
        /\ Decode[3].in = Dev({"sign"}) \union LlrAll /\ Decode[3].out = Dev({"llr_nr", "workspace"})
    BY DEF Decode, Kernel, Command
  <2>2. QED BY <1>1, <2>1
<1>5. /\ Len(c) \in 7..9
      /\ Len(c) >= 8 => o # "not_binary"
      /\ Len(c) >= 9 => o \notin {"not_binary", "wrong"}
  <2>1. CASE o = "not_binary"
    <3>1. Len(c) = 7
      BY <2>1, <1>2, Zenon
    <3>2. Len(c) \in 7..9 /\ ~(Len(c) >= 8) /\ ~(Len(c) >= 9)
      BY <3>1
    <3>3. QED BY <3>2
  <2>2. CASE o = "wrong"
    <3>1. Len(c) = 8
      BY <2>2, <1>2, Zenon
    <3>2. Len(c) \in 7..9 /\ ~(Len(c) >= 9)
      BY <3>1
    <3>3. QED BY <2>2, <3>2
  <2>3. CASE o \notin {"not_binary", "wrong"}
    <3>1. Len(c) = 9
      BY <2>3, <1>2, Zenon
    <3>2. Len(c) \in 7..9
      BY <3>1
    <3>3. QED BY <2>3, <3>2
  <2>4. QED BY <2>1, <2>2, <2>3
<1>6. Len(c) >= 8 => /\ c[8].do = "copy" /\ c[8].op = "WriteExact"
                     /\ c[8].in = Dev({"bits"}) /\ c[8].out = Dev({"output"})
  BY <1>2, <1>5 DEF Memcpy, Command
<1>7. Len(c) >= 9 => /\ c[9].do = "copy" /\ c[9].op = "receipt"
                     /\ c[9].in = Dev({"output"}) /\ c[9].out = Dev({"receipt"})
  BY <1>2, <1>5 DEF Memcpy, Command
<1>8. QED
  BY <1>3, <1>4, <1>5, <1>6, <1>7 DEF c

\* The same, with the properties of interest by number.
LEMMA EndingFacts ==
  ASSUME NEW o \in Outcomes, NEW k \in 1..Len(Ending(o))
  PROVE  LET c == Ending(o)[k]
         IN /\ k \in 1..9
            /\ c.do = IF k \in 3..5 THEN "launch" ELSE IF k = 6 THEN "sync" ELSE "copy"
            /\ c.in \subseteq Buffers /\ c.out \subseteq Buffers /\ (k = 6 => c.out = {})
            /\ c.op = "descramble" <=> k = 3
            /\ c.op = "ldpc_decode" <=> k = 5
            /\ c.op = "memset_ldpc" <=> k = 2
            /\ c.op = "WriteExact" <=> k = 8
            /\ c.op \notin {"mimo_dmrs_ls", "lmmse", "io_pack"}
            /\ \A x \in PerSlotNames : <<x, 0>> \notin c.in
            /\ \A x \in {"pinned", "hgrid_inactive"} : <<x, 0>> \notin c.out
            /\ \A t \in Slots : Llr(t) \notin c.out
            /\ \A x \in {"lam_out", "ldpc_bits"} : <<x, 0>> \in c.out <=> k \in {2, 5}
            /\ <<"bits", 0>> \in c.out <=> k = 7
            /\ <<"output", 0>> \in c.out <=> k = 8
            /\ <<"receipt", 0>> \in c.out <=> k = 9
<1> DEFINE c == Ending(o)[k]
<1>1. k \in {1, 2, 3, 4, 5, 6, 7, 8, 9} /\ k <= Len(Ending(o))
  <2>1. Len(Ending(o)) \in 7..9
    BY EndingSets
  <2> DEFINE l == Len(Ending(o))
  <2>2. k \in 1..l /\ l \in 7..9
    BY <2>1
  <2> HIDE DEF l
  <2>3. k \in 1..9 /\ k <= l
    BY <2>2
  <2>4. k \in {1, 2, 3, 4, 5, 6, 7, 8, 9}
    BY <2>3
  <2>5. QED BY <2>3, <2>4 DEF l
<1>2. /\ c.do = IF k \in 3..5 THEN "launch" ELSE IF k = 6 THEN "sync" ELSE "copy"
      /\ c.op = "descramble" <=> k = 3
      /\ c.op = "ldpc_decode" <=> k = 5
      /\ c.op = "memset_ldpc" <=> k = 2
      /\ c.op = "WriteExact" <=> k = 8
      /\ c.op \notin {"mimo_dmrs_ls", "lmmse", "io_pack"}
  BY <1>1, EndingSets
<1>3. c.in \subseteq Buffers /\ c.out \subseteq Buffers /\ (k = 6 => c.out = {})
  BY <1>1, EndingSets DEF Buffers, Dev
<1>4. \A x \in PerSlotNames : <<x, 0>> \notin c.in
  BY <1>1, EndingSets DEF Dev, PerSlotNames, LlrAll, Llr
<1>5. /\ \A x \in {"pinned", "hgrid_inactive"} : <<x, 0>> \notin c.out
      /\ \A t \in Slots : Llr(t) \notin c.out
  BY <1>1, EndingSets DEF Dev, Llr
<1>6. /\ \A x \in {"lam_out", "ldpc_bits"} : <<x, 0>> \in c.out <=> k \in {2, 5}
      /\ <<"bits", 0>> \in c.out <=> k = 7
      /\ <<"output", 0>> \in c.out <=> k = 8
      /\ <<"receipt", 0>> \in c.out <=> k = 9
  BY <1>1, EndingSets DEF Dev
<1>7. QED
  BY <1>1, <1>2, <1>3, <1>4, <1>5, <1>6

\* A program by slot and number, its fields, and every command's place in it.
LEMMA Places ==
  ASSUME NEW e \in DOMAIN Programs
  PROVE  LET p == Programs[e]  o == e.outcome  g == e.grant IN
         /\ e \in Environments /\ o \in Outcomes /\ NumSlots \in Nat \ {0} /\ Len(Ending(o)) \in 7..9
         /\ Len(p) = At(NumSlots, Len(Ending(o))) /\ Len(p) \in Nat
         /\ p[1].do = "copy" /\ p[1].op = "memset_hgrid"
         /\ p[1].in = Dev({}) /\ p[1].out = Dev({"hgrid", "hgrid_inactive"})
         /\ \A s \in Slots, k \in 1..18 :
              LET q == p[At(s, k)]  c == SlotCommands(s)[k]
              IN /\ q.do = c.do /\ q.op = c.op /\ q.in = c.in /\ q.out = c.out
                 /\ q.slot = s /\ q.number = SlotNumber(g, s)
         /\ \A k \in 1..Len(Ending(o)) :
              LET q == p[At(NumSlots, k)]  c == Ending(o)[k]
              IN q.do = c.do /\ q.op = c.op /\ q.in = c.in /\ q.out = c.out
         /\ \A n \in 1..Len(p) :
              \/ n = 1
              \/ \E s \in Slots, k \in 1..18 : n = At(s, k)
              \/ \E k \in 1..Len(Ending(o)) : n = At(NumSlots, k)
<1> DEFINE p == Programs[e]
           o == e.outcome
           g == e.grant
<1>1. e \in Environments /\ p = Program(e)
  BY DEF Programs
<1>2. o \in Outcomes
  BY <1>1 DEF Environments
<1>3. NumSlots \in Nat \ {0} /\ Len(Ending(o)) \in 7..9
  BY <1>2, ScopeAssumption, EndingSets
<1>4. g = e.grant /\ o = e.outcome
  OBVIOUS
<1> HIDE DEF p, o, g
<1>5. /\ Len(p) = 1 + 18 * NumSlots + Len(Ending(o))
      /\ p[1] = Stamped(Setup[1], 0, g)
      /\ \A s \in Slots, k \in 1..18 : p[At(s, k)] = Stamped(SlotCommands(s)[k], s, g)
      /\ \A k \in 1..Len(Ending(o)) : p[At(NumSlots, k)] = Stamped(Ending(o)[k], 0, g)
  <2>1. e \in Environments
    BY <1>1
  <2>2. QED BY <1>1, <1>4, <2>1, ProgramText, Zenon
<1>6. Len(p) = At(NumSlots, Len(Ending(o))) /\ Len(p) \in Nat
  BY <1>3, <1>5 DEF At
<1>7. /\ p[1].do = "copy" /\ p[1].op = "memset_hgrid"
      /\ p[1].in = Dev({}) /\ p[1].out = Dev({"hgrid", "hgrid_inactive"})
  <2>1. p[1] = Stamped(Setup[1], 0, g)
    BY <1>5
  <2>2. QED BY <2>1 DEF Stamped, Setup, Memcpy, Command
<1>8. \A c, s : LET q == Stamped(c, s, g)
                IN /\ q.do = c.do /\ q.op = c.op /\ q.in = c.in /\ q.out = c.out
                   /\ q.slot = s /\ q.number = SlotNumber(g, s)
  BY DEF Stamped
<1>9. \A s \in Slots, k \in 1..18 :
        LET q == p[At(s, k)]  c == SlotCommands(s)[k]
        IN /\ q.do = c.do /\ q.op = c.op /\ q.in = c.in /\ q.out = c.out
           /\ q.slot = s /\ q.number = SlotNumber(g, s)
  <2>1. \A s \in Slots, k \in 1..18 : p[At(s, k)] = Stamped(SlotCommands(s)[k], s, g)
    BY <1>5
  <2>2. QED BY <2>1, <1>8
<1>10. \A k \in 1..Len(Ending(o)) :
         LET q == p[At(NumSlots, k)]  c == Ending(o)[k]
         IN q.do = c.do /\ q.op = c.op /\ q.in = c.in /\ q.out = c.out
  <2>1. \A k \in 1..Len(Ending(o)) : p[At(NumSlots, k)] = Stamped(Ending(o)[k], 0, g)
    BY <1>5
  <2>2. QED BY <2>1, <1>8
<1>11. ASSUME NEW n \in 1..Len(p), n # 1,
              ~ \E k \in 1..Len(Ending(o)) : n = At(NumSlots, k)
       PROVE  \E s \in Slots, k \in 1..18 : n = At(s, k)
  <2>1. n - 1 \in 1..(18 * NumSlots)
    <3> DEFINE l == Len(Ending(o))
    <3>1. l \in 7..9 /\ n \in 1..(1 + 18 * NumSlots + l)
      BY <1>3, <1>5
    <3>2. ~ \E k \in 1..l : n = 1 + 18 * NumSlots + k
      BY <1>11 DEF At
    <3> HIDE DEF l
    <3>3. SUFFICES ASSUME n > 1 + 18 * NumSlots PROVE FALSE
      BY <3>1, <1>3, <1>11
    <3>4. n - (1 + 18 * NumSlots) \in 1..l /\ n = 1 + 18 * NumSlots + (n - (1 + 18 * NumSlots))
      BY <3>1, <3>3, <1>3
    <3>5. QED BY <3>2, <3>4
  <2> DEFINE s == (n - 2) \div 18
             k == ((n - 2) % 18) + 1
  <2>2. s \in 0..(NumSlots - 1) /\ k \in 1..18 /\ n = 1 + 18 * s + k
    BY <2>1, <1>3, <1>11
  <2> HIDE DEF s, k
  <2>3. QED BY <2>2 DEF Slots, At
<1>12. QED
  <2>1. \A n \in 1..Len(p) :
          \/ n = 1
          \/ \E s \in Slots, k \in 1..18 : n = At(s, k)
          \/ \E k \in 1..Len(Ending(o)) : n = At(NumSlots, k)
    BY <1>11
  <2>2. QED BY <1>1, <1>2, <1>3, <1>6, <1>7, <1>9, <1>10, <2>1, Zenon DEF p, o, g

-----------------------------------------------------------------------------
\* What DeviceStreamProofs asks of the programs.

\* The assumption of DeviceStream on its programs.
LEMMA ProgramsWellFormed == Ds!ProgramsAssumption
<1>1. SUFFICES ASSUME NEW e \in DOMAIN Programs
               PROVE  /\ Len(Programs[e]) \in Nat
                      /\ \A n \in 1..Len(Programs[e]) :
                           LET c == Programs[e][n]
                           IN /\ c.do \in Kinds /\ c.in \subseteq Buffers /\ c.out \subseteq Buffers
                              /\ c.do = "sync" => c.out = {}
  BY DEF Ds!ProgramsAssumption, Kinds, Ds!Kinds
<1> DEFINE p == Programs[e]
           o == e.outcome
<1>2. /\ o \in Outcomes /\ NumSlots \in Nat \ {0} /\ Len(p) \in Nat
      /\ p[1].do = "copy" /\ p[1].in = Dev({}) /\ p[1].out = Dev({"hgrid", "hgrid_inactive"})
      /\ \A s \in Slots, k \in 1..18 :
           LET q == p[At(s, k)]  c == SlotCommands(s)[k]
           IN q.do = c.do /\ q.op = c.op /\ q.in = c.in /\ q.out = c.out
      /\ \A k \in 1..Len(Ending(o)) :
           LET q == p[At(NumSlots, k)]  c == Ending(o)[k]
           IN q.do = c.do /\ q.op = c.op /\ q.in = c.in /\ q.out = c.out
      /\ \A n \in 1..Len(p) :
           \/ n = 1
           \/ \E s \in Slots, k \in 1..18 : n = At(s, k)
           \/ \E k \in 1..Len(Ending(o)) : n = At(NumSlots, k)
  BY Places, SMTT(60)
<1> HIDE DEF p, o
<1>3. SUFFICES ASSUME NEW n \in 1..Len(p)
               PROVE  /\ p[n].do \in Kinds /\ p[n].in \subseteq Buffers /\ p[n].out \subseteq Buffers
                      /\ p[n].do = "sync" => p[n].out = {}
  BY <1>2 DEF p
<1>4. CASE n = 1
  BY <1>2, <1>4 DEF Kinds, Dev, Buffers
<1>5. ASSUME NEW s \in Slots, NEW k \in 1..18, n = At(s, k)
      PROVE  /\ p[n].do \in Kinds /\ p[n].in \subseteq Buffers /\ p[n].out \subseteq Buffers
             /\ p[n].do = "sync" => p[n].out = {}
  <2> DEFINE c == SlotCommands(s)[k]
  <2>1. p[n].do = c.do /\ p[n].in = c.in /\ p[n].out = c.out
    BY <1>2, <1>5
  <2>2. c.do = IF k = 4 THEN "copy" ELSE IF k = 18 THEN "sync" ELSE "launch"
    BY SlotKinds
  <2>3. c.in \subseteq Buffers /\ c.out \subseteq Buffers
    BY SlotBuffers
  <2>4. k = 18 => c.out = {}
    BY SlotSets DEF Dev
  <2> HIDE DEF c
  <2>5. QED BY <2>1, <2>2, <2>3, <2>4 DEF Kinds
<1>6. ASSUME NEW k \in 1..Len(Ending(o)), n = At(NumSlots, k)
      PROVE  /\ p[n].do \in Kinds /\ p[n].in \subseteq Buffers /\ p[n].out \subseteq Buffers
             /\ p[n].do = "sync" => p[n].out = {}
  <2> DEFINE c == Ending(o)[k]
  <2>1. p[n].do = c.do /\ p[n].in = c.in /\ p[n].out = c.out
    BY <1>2, <1>6
  <2>2. /\ c.do = IF k \in 3..5 THEN "launch" ELSE IF k = 6 THEN "sync" ELSE "copy"
        /\ c.in \subseteq Buffers /\ c.out \subseteq Buffers /\ (k = 6 => c.out = {})
    BY <1>2, EndingFacts
  <2> HIDE DEF c
  <2>3. QED BY <2>1, <2>2 DEF Kinds
<1>7. QED
  BY <1>2, <1>4, <1>5, <1>6

\* Between a launch and a copy of Run that share a buffer stands a
\* synchronisation: of the launch's slot, of the decoder, or - for the profile
\* the DMRS generator writes to pinned memory - of the slot before.
LEMMA RunIsDisciplined == \A e \in DOMAIN Programs : Ds!Disciplined(Programs[e])
<1>1. SUFFICES ASSUME NEW e \in DOMAIN Programs PROVE Ds!Disciplined(Programs[e])
  OBVIOUS
<1> DEFINE p == Programs[e]
           o == e.outcome
           l == Len(Ending(o))
<1>2. /\ o \in Outcomes /\ NumSlots \in Nat \ {0} /\ l \in 7..9 /\ p[1].do = "copy"
      /\ \A s \in Slots, k \in 1..18 :
           LET q == p[At(s, k)]  c == SlotCommands(s)[k]
           IN /\ q.do = c.do /\ q.op = c.op /\ q.in = c.in /\ q.out = c.out
              /\ q.slot = s /\ q.number = SlotNumber(e.grant, s)
      /\ \A k \in 1..l :
           LET q == p[At(NumSlots, k)]  c == Ending(o)[k]
           IN q.do = c.do /\ q.op = c.op /\ q.in = c.in /\ q.out = c.out
      /\ \A i \in 1..Len(p) :
           \/ i = 1
           \/ \E s \in Slots, k \in 1..18 : i = At(s, k)
           \/ \E k \in 1..l : i = At(NumSlots, k)
  BY Places
<1> HIDE DEF p, o
<1>3. ASSUME NEW s \in Slots, NEW k \in 1..18
       PROVE  /\ p[At(s, k)].do = SlotCommands(s)[k].do
              /\ p[At(s, k)].in = SlotCommands(s)[k].in /\ p[At(s, k)].out = SlotCommands(s)[k].out
              /\ p[At(s, k)].do = IF k = 4 THEN "copy" ELSE IF k = 18 THEN "sync" ELSE "launch"
  <2>1. /\ p[At(s, k)].do = SlotCommands(s)[k].do
        /\ p[At(s, k)].in = SlotCommands(s)[k].in /\ p[At(s, k)].out = SlotCommands(s)[k].out
    BY <1>2
  <2>2. SlotCommands(s)[k].do = IF k = 4 THEN "copy" ELSE IF k = 18 THEN "sync" ELSE "launch"
    BY SlotKinds
  <2>3. QED BY <2>1, <2>2
<1>4. ASSUME NEW k \in 1..l
       PROVE  p[At(NumSlots, k)].do =
               IF k \in 3..5 THEN "launch" ELSE IF k = 6 THEN "sync" ELSE "copy"
  <2>1. p[At(NumSlots, k)].do = Ending(o)[k].do
    BY <1>2
  <2>2. Ending(o)[k].do = IF k \in 3..5 THEN "launch" ELSE IF k = 6 THEN "sync" ELSE "copy"
    BY <1>2, EndingFacts
  <2>3. QED BY <2>1, <2>2
<1> HIDE DEF l
<1>5. SUFFICES ASSUME NEW m \in 1..Len(p), NEW n \in 1..Len(p),
                      m < n, p[m].do = "launch", p[n].do = "copy",
                      \/ p[m].out \cap (p[n].in \union p[n].out) # {}
                      \/ p[m].in \cap p[n].out # {}
               PROVE  \E s \in (m + 1)..(n - 1) : p[s].do = "sync"
  BY DEF Ds!Disciplined, p
<1>6. ASSUME NEW s \in Slots PROVE p[At(s, 18)].do = "sync"
  BY <1>3
<1>7. p[At(NumSlots, 6)].do = "sync"
  <2>1. 6 \in 1..l
    BY <1>2
  <2>2. QED BY <1>4, <2>1
<1>8. ASSUME NEW s \in Slots, NEW k \in 1..18, m = At(s, k)
      PROVE  \E i \in (m + 1)..(n - 1) : p[i].do = "sync"
  <2>1. k # 18
    BY <1>5, <1>6, <1>8
  <2>2. At(s, 18) \in (m + 1)..(n - 1) => \E i \in (m + 1)..(n - 1) : p[i].do = "sync"
    BY <1>6
  <2>3. m \in Nat /\ At(s, 18) \in Nat /\ m < At(s, 18) /\ s \in 0..(NumSlots - 1)
    <3>1. NumSlots \in Nat /\ s \in 0..(NumSlots - 1)
      BY <1>2 DEF Slots
    <3>2. QED BY <1>8, <2>1, <3>1 DEF At
  <2>4. ASSUME NEW t \in Slots, NEW j \in 1..18, n = At(t, j) PROVE At(s, 18) < n
    <3>1. p[n].do = IF j = 4 THEN "copy" ELSE IF j = 18 THEN "sync" ELSE "launch"
      BY <1>3, <2>4
    <3>2. j = 4
      BY <1>5, <3>1
    <3>3. t # s
      <4>1. SUFFICES ASSUME t = s PROVE FALSE
        OBVIOUS
      <4>2. k \in {1, 2, 3}
        <5>1. p[At(s, k)].do = IF k = 4 THEN "copy" ELSE IF k = 18 THEN "sync" ELSE "launch"
          BY <1>3
        <5>2. k # 4
          BY <1>5, <1>8, <5>1
        <5>3. At(s, k) < At(s, 4) /\ s \in Nat
          BY <1>5, <1>8, <2>4, <3>2, <4>1 DEF Slots
        <5>4. QED BY <5>3 DEF At
      <4>3. p[n].in = {} /\ p[n].out = Dev({"pinned"})
        <5>1. p[n].in = SlotCommands(t)[4].in /\ p[n].out = SlotCommands(t)[4].out
          BY <1>3, <2>4, <3>2
        <5>2. SlotCommands(t)[4].in = Dev({}) /\ SlotCommands(t)[4].out = Dev({"pinned"})
          BY SlotSets
        <5>3. QED BY <5>1, <5>2, DevName
      <4>4. p[m].in = SlotCommands(s)[k].in /\ p[m].out = SlotCommands(s)[k].out
        BY <1>3, <1>8
      <4>5. <<"pinned", 0>> \notin SlotCommands(s)[k].in /\ <<"pinned", 0>> \notin SlotCommands(s)[k].out
        BY <4>2, SlotSets DEF Dev
      <4>6. Dev({"pinned"}) = {<<"pinned", 0>>}
        BY DEF Dev
      <4>7. QED BY <1>5, <4>3, <4>4, <4>5, <4>6
    <3>4. s \in 0..(NumSlots - 1) /\ t \in 0..(NumSlots - 1) /\ NumSlots \in Nat
      BY <1>2 DEF Slots
    <3>5. s < t
      BY <1>5, <1>8, <2>4, <3>2, <3>3, <3>4 DEF At
    <3>6. QED BY <2>4, <3>4, <3>5 DEF At
  <2>5. ASSUME NEW j \in 1..l, n = At(NumSlots, j) PROVE At(s, 18) < n
    <3>1. j \in Nat /\ j > 0 /\ NumSlots \in Nat /\ s \in 0..(NumSlots - 1)
      BY <1>2, <2>3
    <3>2. QED BY <2>5, <3>1 DEF At
  <2>6. n # 1
    BY <1>5, <2>3
  <2>7. At(s, 18) < n
    BY <1>2, <2>4, <2>5, <2>6
  <2>8. QED BY <2>2, <2>3, <2>7
<1>9. ASSUME NEW k \in 1..l, m = At(NumSlots, k)
      PROVE  \E i \in (m + 1)..(n - 1) : p[i].do = "sync"
  <2>1. p[m].do = IF k \in 3..5 THEN "launch" ELSE IF k = 6 THEN "sync" ELSE "copy"
    BY <1>4, <1>9
  <2>2. k \in 3..5
    BY <1>5, <2>1
  <2>3. ASSUME NEW t \in Slots, NEW j \in 1..18, n = At(t, j) PROVE FALSE
    <3>1. t \in 0..(NumSlots - 1) /\ NumSlots \in Nat
      BY <1>2 DEF Slots
    <3>2. QED BY <1>5, <1>9, <2>2, <2>3, <3>1 DEF At
  <2>4. PICK j \in 1..l : n = At(NumSlots, j)
    <3>1. n # 1
      BY <1>5
    <3>2. QED BY <1>2, <2>3, <3>1
  <2>5. p[n].do = IF j \in 3..5 THEN "launch" ELSE IF j = 6 THEN "sync" ELSE "copy"
    BY <1>4, <2>4
  <2>6. j \notin 3..5 /\ j # 6
    BY <1>5, <2>5
  <2>7. At(NumSlots, 6) \in (m + 1)..(n - 1)
    BY <1>5, <1>2, <1>9, <2>2, <2>4, <2>6 DEF At
  <2>8. QED BY <1>7, <2>7
<1>10. m # 1
  BY <1>5, <1>2
<1>11. QED
  BY <1>2, <1>8, <1>9, <1>10

-----------------------------------------------------------------------------
\* What program order means for the reads of a program.

\* The facts about programs for the one that runs: its ends ...
LEMMA CodeText ==
  ASSUME program \in DOMAIN Programs
  PROVE  /\ program.outcome \in Outcomes /\ program.grant \in GrantSlots /\ NumSlots \in Nat \ {0}
         /\ Len(Ending(program.outcome)) \in 7..9
         /\ Len(Code) = At(NumSlots, Len(Ending(program.outcome))) /\ Len(Code) \in Nat
         /\ Code[1].op = "memset_hgrid" /\ Code[1].do = "copy"
         /\ Code[1].in = {} /\ Code[1].out = Dev({"hgrid", "hgrid_inactive"})
<1>1. /\ program \in Environments /\ NumSlots \in Nat \ {0} /\ Len(Ending(program.outcome)) \in 7..9
      /\ Len(Code) = At(NumSlots, Len(Ending(program.outcome))) /\ Len(Code) \in Nat
      /\ Code[1].op = "memset_hgrid" /\ Code[1].do = "copy"
      /\ Code[1].in = Dev({}) /\ Code[1].out = Dev({"hgrid", "hgrid_inactive"})
  BY Places DEF Code
<1>2. QED
  BY <1>1, DevName DEF Environments

\* ... a command of a slot ...
LEMMA CodeOfSlot ==
  ASSUME program \in DOMAIN Programs, NEW s \in Slots, NEW k \in 1..18
  PROVE  /\ Code[At(s, k)].do = SlotCommands(s)[k].do /\ Code[At(s, k)].op = SlotCommands(s)[k].op
         /\ Code[At(s, k)].in = SlotCommands(s)[k].in /\ Code[At(s, k)].out = SlotCommands(s)[k].out
         /\ Code[At(s, k)].slot = s /\ Code[At(s, k)].number = SlotNumber(program.grant, s)
<1>1. \A t \in Slots, j \in 1..18 :
        LET q == Code[At(t, j)]  c == SlotCommands(t)[j]
        IN /\ q.do = c.do /\ q.op = c.op /\ q.in = c.in /\ q.out = c.out
           /\ q.slot = t /\ q.number = SlotNumber(program.grant, t)
  BY Places DEF Code
<1>2. QED
  BY <1>1

\* ... a command behind the loop ...
LEMMA CodeOfEnding ==
  ASSUME program \in DOMAIN Programs, NEW k \in 1..Len(Ending(program.outcome))
  PROVE  /\ Code[At(NumSlots, k)].do = Ending(program.outcome)[k].do
         /\ Code[At(NumSlots, k)].op = Ending(program.outcome)[k].op
         /\ Code[At(NumSlots, k)].in = Ending(program.outcome)[k].in
         /\ Code[At(NumSlots, k)].out = Ending(program.outcome)[k].out
<1>1. \A j \in 1..Len(Ending(program.outcome)) :
        LET q == Code[At(NumSlots, j)]  c == Ending(program.outcome)[j]
        IN q.do = c.do /\ q.op = c.op /\ q.in = c.in /\ q.out = c.out
  BY Places DEF Code
<1>2. QED
  BY <1>1

\* ... and there are no others.
LEMMA CodePlace ==
  ASSUME program \in DOMAIN Programs, NEW n \in 1..Len(Code)
  PROVE  \/ n = 1
         \/ \E s \in Slots, k \in 1..18 : n = At(s, k)
         \/ \E k \in 1..Len(Ending(program.outcome)) : n = At(NumSlots, k)
<1>1. \A i \in 1..Len(Code) :
        \/ i = 1
        \/ \E s \in Slots, k \in 1..18 : i = At(s, k)
        \/ \E k \in 1..Len(Ending(program.outcome)) : i = At(NumSlots, k)
  BY Places DEF Code
<1>2. QED
  BY <1>1

\* The last writer is no earlier than any writer before the read.
LEMMA LastWrite ==
  ASSUME NEW b, NEW h \in Nat, NEW w \in Nat, LastWriter(b, h, w),
         NEW n \in 1..(h - 1), b \in Code[n].out
  PROVE  w \in n..(h - 1) /\ w # 0 /\ b \in Code[w].out
<1>1. ~(n \in (w + 1)..(h - 1))
  BY DEF LastWriter
<1>2. n <= w
  BY <1>1
<1>3. w \in 1..(h - 1) /\ b \in Code[w].out
  BY <1>2 DEF LastWriter
<1>4. QED
  BY <1>2, <1>3

\* Between two commands of a slot there are only commands of this slot.
LEMMA WithinSlot ==
  ASSUME NEW s \in Slots, NEW j \in 1..18, NEW k \in 1..18, NEW w \in At(s, j)..(At(s, k) - 1)
  PROVE  \E i \in j..(k - 1) : i \in 1..18 /\ w = At(s, i)
<1>1. s \in Nat
  BY ScopeAssumption DEF Slots
<1>2. w - (1 + 18 * s) \in j..(k - 1) /\ w = 1 + 18 * s + (w - (1 + 18 * s))
  BY <1>1 DEF At
<1>3. w - (1 + 18 * s) \in 1..18
  BY <1>2
<1>4. QED
  BY <1>2, <1>3 DEF At

\* Of a queued or running operation the invariants need only that it reads in
\* program order and that its number is one of the program's.
Reads(h) == /\ program \in DOMAIN Programs /\ mem \in [Buffers -> Nat]
            /\ h \in 1..Len(Code) /\ Code[h].do = "launch" /\ ReadsInOrder(h)

\* A read in a slot of what that slot wrote before.
LEMMA ReadInSlot ==
  ASSUME NEW s \in Slots, NEW j \in 1..18, NEW k \in 1..18, NEW b, Reads(At(s, k)), j < k,
         b \in SlotCommands(s)[j].out, b \in SlotCommands(s)[k].in
  PROVE  \E i \in j..(k - 1) : i \in 1..18 /\ mem[b] = At(s, i) /\ b \in SlotCommands(s)[i].out
<1>1. b \in Code[At(s, k)].in /\ b \in Code[At(s, j)].out
  BY CodeOfSlot DEF Reads
<1>2. b \in Buffers /\ mem[b] \in Nat
  BY SlotBuffers DEF Reads
<1>3. At(s, j) \in 1..(At(s, k) - 1) /\ At(s, k) \in Nat
  <2>1. s \in Nat
    BY ScopeAssumption DEF Slots
  <2>2. QED BY <2>1 DEF At
<1>4. LastWriter(b, At(s, k), mem[b])
  BY <1>1 DEF Reads, ReadsInOrder
<1>5. mem[b] \in At(s, j)..(At(s, k) - 1) /\ b \in Code[mem[b]].out
  BY <1>1, <1>2, <1>3, <1>4, LastWrite
<1>6. PICK i \in j..(k - 1) : i \in 1..18 /\ mem[b] = At(s, i)
  BY <1>5, WithinSlot
<1>7. Code[At(s, i)].out = SlotCommands(s)[i].out
  BY <1>6, CodeOfSlot DEF Reads
<1>8. QED
  BY <1>5, <1>6, <1>7

\* Slots are numbered below NumSlots.
LEMMA SlotNumbers ==
  /\ NumSlots \in Nat \ {0}
  /\ \A s \in Slots : s \in Nat /\ s < NumSlots
  BY ScopeAssumption DEF Slots

\* The per-slot buffers by name.
LEMMA PerSlotByName == \A b \in PerSlot : \E x \in PerSlotNames : b = <<x, 0>>
  BY DEF PerSlot, PerSlotNames, Dev

\* First part of OwnSlotOnly.
LEMMA SlotReadsItself ==
  ASSUME NEW h, Reads(h), NEW b \in Code[h].in \cap PerSlot
  PROVE  mem[b] # 0 /\ Code[mem[b]].slot = Code[h].slot
<1>1. PICK x \in PerSlotNames : b = <<x, 0>>
  BY PerSlotByName
<1>2. h # 1
  BY CodeText DEF Reads
<1>3. ASSUME NEW k \in 1..Len(Ending(program.outcome)), h = At(NumSlots, k) PROVE FALSE
  <2>1. Code[h].in = Ending(program.outcome)[k].in /\ program.outcome \in Outcomes
    BY <1>3, CodeOfEnding, CodeText DEF Reads
  <2>2. <<x, 0>> \notin Ending(program.outcome)[k].in
    BY <2>1, EndingFacts
  <2>3. QED BY <1>1, <2>1, <2>2
<1>4. PICK s \in Slots, k \in 1..18 : h = At(s, k)
  BY <1>2, <1>3, CodePlace DEF Reads
<1>5. b \in SlotCommands(s)[k].in /\ Code[h].slot = s
  BY <1>4, CodeOfSlot DEF Reads
<1>6. Source(x) \in 1..18 /\ Source(x) < k /\ b \in SlotCommands(s)[Source(x)].out
  BY <1>1, <1>5, SourceWrites, SourceIsBefore
<1>7. PICK i \in Source(x)..(k - 1) : i \in 1..18 /\ mem[b] = At(s, i)
  BY <1>4, <1>5, <1>6, ReadInSlot
<1>8. At(s, i) # 0
  BY <1>7, SlotNumbers DEF At
<1>9. Code[At(s, i)].slot = s
  BY <1>7, CodeOfSlot DEF Reads
<1>10. QED
  BY <1>5, <1>7, <1>8, <1>9

\* Second part of OwnSlotOnly.
LEMMA BlockFromAllSlots ==
  ASSUME NEW h, Reads(h), Code[h].op = "descramble", NEW s \in Slots
  PROVE  mem[Llr(s)] # 0 /\ Code[mem[Llr(s)]].slot = s
<1> DEFINE o == program.outcome
           w == mem[Llr(s)]
<1>1. program \in DOMAIN Programs /\ o \in Outcomes /\ Len(Ending(o)) \in 7..9 /\ h \in 1..Len(Code)
  BY CodeText DEF Reads
<1>2. ASSUME NEW t \in Slots, NEW k \in 1..18, h = At(t, k) PROVE FALSE
  <2>1. Code[h].op = SlotCommands(t)[k].op
    BY <1>1, <1>2, CodeOfSlot
  <2>2. SlotCommands(t)[k].op # "descramble"
    BY SlotKinds
  <2>3. QED BY <2>1, <2>2
<1>3. h # 1
  BY <1>1, CodeText
<1>4. PICK k \in 1..Len(Ending(o)) : h = At(NumSlots, k)
  BY <1>1, <1>2, <1>3, CodePlace
<1>5. k = 3
  <2>1. Code[h].op = Ending(o)[k].op
    BY <1>1, <1>4, CodeOfEnding
  <2>2. QED BY <1>1, <2>1, EndingFacts
<1>6. Llr(s) \in Code[h].in /\ Llr(s) \in Buffers /\ w \in Nat
  <2>1. Code[h].in = Ending(o)[3].in
    BY <1>1, <1>4, <1>5, CodeOfEnding
  <2>2. Llr(s) \in LlrAll /\ Llr(s) \in Buffers
    BY DEF LlrAll, Buffers
  <2>3. Llr(s) \in Ending(o)[3].in
    BY <1>1, <2>2, EndingSets
  <2>4. QED BY <2>1, <2>2, <2>3 DEF Reads
<1>7. Llr(s) \in Code[At(s, 17)].out
  <2>1. Code[At(s, 17)].out = SlotCommands(s)[17].out
    BY <1>1, CodeOfSlot
  <2>2. Llr(s) \in SlotCommands(s)[17].out
    BY SlotSets
  <2>3. QED BY <2>1, <2>2
<1>8. At(s, 17) \in 1..(h - 1) /\ h \in Nat
  BY <1>4, <1>5, SlotNumbers DEF At
<1>9. LastWriter(Llr(s), h, w)
  BY <1>6 DEF Reads, ReadsInOrder
<1> HIDE DEF w
<1>10. w \in At(s, 17)..(h - 1) /\ w # 0 /\ Llr(s) \in Code[w].out
  BY <1>6, <1>7, <1>8, <1>9, LastWrite
<1>11. w \in 1..Len(Code) /\ w # 1
  BY <1>1, <1>8, <1>10, SlotNumbers DEF At
<1>12. ASSUME NEW j \in 1..Len(Ending(o)), w = At(NumSlots, j) PROVE FALSE
  <2>1. Code[w].out = Ending(o)[j].out
    BY <1>1, <1>12, CodeOfEnding
  <2>2. Llr(s) \notin Ending(o)[j].out
    BY <1>1, EndingFacts
  <2>3. QED BY <1>10, <2>1, <2>2
<1>13. PICK t \in Slots, j \in 1..18 : w = At(t, j)
  BY <1>1, <1>11, <1>12, CodePlace
<1>14. Code[w].out = SlotCommands(t)[j].out /\ Code[w].slot = t
  BY <1>1, <1>13, CodeOfSlot
<1>15. t = s
  BY <1>10, <1>14, SlotWriters
<1>16. QED
  BY <1>10, <1>14, <1>15 DEF w

\* Where the operations stand that the other invariants are about.
LEMMA OperationOfSlot ==
  ASSUME program \in DOMAIN Programs, NEW h \in 1..Len(Code),
         NEW n, \/ n = 8 /\ Code[h].op = "mimo_dmrs_ls"
                \/ n = 12 /\ Code[h].op = "lmmse"
                \/ n = 14 /\ Code[h].op = "io_pack"
  PROVE  \E s \in Slots : h = At(s, n) /\ Code[h].slot = s
<1>1. program.outcome \in Outcomes /\ h # 1
  BY CodeText
<1>2. ASSUME NEW k \in 1..Len(Ending(program.outcome)), h = At(NumSlots, k) PROVE FALSE
  <2>1. Code[h].op = Ending(program.outcome)[k].op
    BY <1>2, CodeOfEnding
  <2>2. Ending(program.outcome)[k].op \notin {"mimo_dmrs_ls", "lmmse", "io_pack"}
    BY <1>1, EndingFacts
  <2>3. QED BY <2>1, <2>2
<1>3. PICK s \in Slots, k \in 1..18 : h = At(s, k)
  BY <1>1, <1>2, CodePlace
<1>4. Code[h].op = SlotCommands(s)[k].op /\ Code[h].slot = s
  BY <1>3, CodeOfSlot
<1>5. /\ SlotCommands(s)[k].op = "mimo_dmrs_ls" <=> k = 8
      /\ SlotCommands(s)[k].op = "lmmse" <=> k = 12
      /\ SlotCommands(s)[k].op = "io_pack" <=> k = 14
  BY SlotKinds
<1>6. k = n
  BY <1>4, <1>5
<1>7. QED
  BY <1>3, <1>4, <1>6

\* There is one decoder launch.
LEMMA DecoderPlace ==
  ASSUME program \in DOMAIN Programs, NEW h \in 1..Len(Code), Code[h].op = "ldpc_decode"
  PROVE  h = At(NumSlots, 5)
<1>1. program.outcome \in Outcomes /\ h # 1
  BY CodeText
<1>2. ASSUME NEW s \in Slots, NEW k \in 1..18, h = At(s, k) PROVE FALSE
  <2>1. Code[h].op = SlotCommands(s)[k].op
    BY <1>2, CodeOfSlot
  <2>2. SlotCommands(s)[k].op # "ldpc_decode"
    BY SlotKinds
  <2>3. QED BY <2>1, <2>2
<1>3. PICK k \in 1..Len(Ending(program.outcome)) : h = At(NumSlots, k)
  BY <1>1, <1>2, CodePlace
<1>4. Code[h].op = Ending(program.outcome)[k].op
  BY <1>3, CodeOfEnding
<1>5. k = 5
  BY <1>1, <1>4, EndingFacts
<1>6. QED
  BY <1>3, <1>5

\* First part of StartsFromZero: the accumulators and the workspace.
LEMMA EstimateStartsFromZero ==
  ASSUME NEW h, Reads(h), Code[h].op = "lmmse"
  PROVE  /\ Wrote("ce_t").op = "memset_ce" /\ Wrote("ce_t").slot = Code[h].slot
         /\ Wrote("workspace").op = "memset_workspace" /\ Wrote("workspace").slot = Code[h].slot
<1>1. PICK s \in Slots : h = At(s, 12) /\ Code[h].slot = s
  BY OperationOfSlot DEF Reads
<1>2. /\ <<"ce_t", 0>> \in SlotCommands(s)[12].in /\ <<"workspace", 0>> \in SlotCommands(s)[12].in
      /\ <<"ce_t", 0>> \in SlotCommands(s)[10].out /\ <<"workspace", 0>> \in SlotCommands(s)[11].out
  BY SlotSets DEF Dev
<1>3. PICK i \in 10..11 : /\ i \in 1..18 /\ mem[<<"ce_t", 0>>] = At(s, i)
                          /\ <<"ce_t", 0>> \in SlotCommands(s)[i].out
  <2>1. Reads(At(s, 12)) /\ 10 \in 1..18 /\ 12 \in 1..18 /\ 10 < 12 /\ 12 - 1 = 11
    BY <1>1
  <2>2. \E i \in 10..(12 - 1) : /\ i \in 1..18 /\ mem[<<"ce_t", 0>>] = At(s, i)
                                /\ <<"ce_t", 0>> \in SlotCommands(s)[i].out
    BY <1>2, <2>1, ReadInSlot
  <2>3. QED BY <2>1, <2>2
<1>4. i = 10
  BY <1>3, SlotWriters
<1>5. mem[<<"workspace", 0>>] = At(s, 11)
  <2>1. Reads(At(s, 12)) /\ 11 \in 1..18 /\ 12 \in 1..18 /\ 11 < 12
    BY <1>1
  <2>2. \E j \in 11..(12 - 1) : j \in 1..18 /\ mem[<<"workspace", 0>>] = At(s, j)
    BY <1>2, <2>1, ReadInSlot
  <2>3. QED BY <2>2
<1>6. /\ Code[At(s, 10)].op = "memset_ce" /\ Code[At(s, 10)].slot = s
      /\ Code[At(s, 11)].op = "memset_workspace" /\ Code[At(s, 11)].slot = s
  <2>1. /\ Code[At(s, 10)].op = SlotCommands(s)[10].op /\ Code[At(s, 10)].slot = s
        /\ Code[At(s, 11)].op = SlotCommands(s)[11].op /\ Code[At(s, 11)].slot = s
    BY CodeOfSlot DEF Reads
  <2>2. SlotCommands(s)[10].op = "memset_ce" /\ SlotCommands(s)[11].op = "memset_workspace"
    BY SlotKinds
  <2>3. QED BY <2>1, <2>2
<1>7. QED
  BY <1>1, <1>3, <1>4, <1>5, <1>6 DEF Wrote

\* Second part: the planes of the active and of the inactive layers.
LEMMA DetectorStartsFromZero ==
  ASSUME NEW h, Reads(h), Code[h].op = "io_pack"
  PROVE  Wrote("hgrid").op = "pad_layers" /\ Wrote("hgrid_inactive").op = "memset_hgrid"
<1>1. PICK s \in Slots : h = At(s, 14) /\ Code[h].slot = s
  BY OperationOfSlot DEF Reads
<1>2. /\ <<"hgrid", 0>> \in SlotCommands(s)[14].in /\ <<"hgrid_inactive", 0>> \in SlotCommands(s)[14].in
      /\ <<"hgrid", 0>> \in SlotCommands(s)[13].out
  BY SlotSets DEF Dev
<1>3. Wrote("hgrid").op = "pad_layers"
  <2>1. Reads(At(s, 14)) /\ 13 \in 1..18 /\ 14 \in 1..18 /\ 13 < 14
    BY <1>1
  <2>2. \E j \in 13..(14 - 1) : j \in 1..18 /\ mem[<<"hgrid", 0>>] = At(s, j)
    BY <1>2, <2>1, ReadInSlot
  <2>3. mem[<<"hgrid", 0>>] = At(s, 13)
    BY <2>2
  <2>4. Code[At(s, 13)].op = SlotCommands(s)[13].op
    BY CodeOfSlot DEF Reads
  <2>5. SlotCommands(s)[13].op = "pad_layers"
    BY SlotKinds
  <2>6. QED BY <2>3, <2>4, <2>5 DEF Wrote
<1> DEFINE b == <<"hgrid_inactive", 0>>
           w == mem[b]
<1>4. b \in Code[h].in /\ b \in Buffers /\ w \in Nat /\ b \in Code[1].out /\ h \in Nat
  <2>1. Code[h].in = SlotCommands(s)[14].in
    BY <1>1, CodeOfSlot DEF Reads
  <2>2. b \in Buffers /\ b \in Dev({"hgrid", "hgrid_inactive"})
    BY DEF Buffers, Dev
  <2>3. Code[1].out = Dev({"hgrid", "hgrid_inactive"}) /\ Len(Code) \in Nat
    BY CodeText DEF Reads
  <2>4. mem \in [Buffers -> Nat] /\ h \in 1..Len(Code)
    BY DEF Reads
  <2>5. w \in Nat
    BY <2>2, <2>4
  <2>6. QED BY <1>2, <2>1, <2>2, <2>3, <2>4, <2>5
<1>5. LastWriter(b, h, w)
  BY <1>4 DEF Reads, ReadsInOrder
<1>6. 1 \in 1..(h - 1)
  BY <1>1, SlotNumbers DEF At
<1>7. w \in 1..(h - 1) /\ b \in Code[w].out /\ w \in 1..Len(Code)
  <2> HIDE DEF w, b
  <2>1. w \in 1..(h - 1) /\ b \in Code[w].out
    BY <1>4, <1>5, <1>6, LastWrite
  <2>2. h \in 1..Len(Code) /\ Len(Code) \in Nat
    BY CodeText DEF Reads
  <2>3. QED BY <2>1, <2>2
<1> HIDE DEF w
<1>8. ASSUME NEW t \in Slots, NEW k \in 1..18, w = At(t, k) PROVE FALSE
  <2>1. Code[w].out = SlotCommands(t)[k].out
    BY <1>8, CodeOfSlot DEF Reads
  <2>2. b \notin SlotCommands(t)[k].out
    BY SlotWriters
  <2>3. QED BY <1>7, <2>1, <2>2
<1>9. ASSUME NEW k \in 1..Len(Ending(program.outcome)), w = At(NumSlots, k) PROVE FALSE
  <2>1. Code[w].out = Ending(program.outcome)[k].out /\ program.outcome \in Outcomes
    BY <1>9, CodeOfEnding, CodeText DEF Reads
  <2>2. b \notin Ending(program.outcome)[k].out
    BY <2>1, EndingFacts
  <2>3. QED BY <1>7, <2>1, <2>2
<1>10. w = 1
  BY <1>7, <1>8, <1>9, CodePlace DEF Reads
<1>11. Code[1].op = "memset_hgrid"
  BY CodeText DEF Reads
<1>12. QED
  BY <1>3, <1>10, <1>11 DEF Wrote, w

\* Third part: the decoder's a-posteriori memory.
LEMMA DecoderStartsFromZero ==
  ASSUME NEW h, Reads(h), Code[h].op = "ldpc_decode"
  PROVE  Wrote("lam_out").op = "memset_ldpc"
<1> DEFINE o == program.outcome
           b == <<"lam_out", 0>>
           w == mem[b]
<1>1. /\ program \in DOMAIN Programs /\ o \in Outcomes /\ Len(Ending(o)) \in 7..9
      /\ h \in 1..Len(Code) /\ h \in Nat
  BY CodeText DEF Reads
<1>2. h = At(NumSlots, 5)
  BY <1>1, DecoderPlace
<1>3. 5 \in 1..Len(Ending(o)) /\ 2 \in 1..Len(Ending(o)) /\ \A i \in 2..4 : i \in 1..Len(Ending(o))
  <2> DEFINE l == Len(Ending(o))
  <2>1. l \in 7..9
    BY <1>1
  <2> HIDE DEF l
  <2>2. 5 \in 1..l /\ 2 \in 1..l /\ \A i \in 2..4 : i \in 1..l
    BY <2>1
  <2>3. QED BY <2>2 DEF l
<1>4. /\ Code[h].in = Ending(o)[5].in
      /\ \A i \in 2..4 : Code[At(NumSlots, i)].out = Ending(o)[i].out
      /\ Code[At(NumSlots, 2)].op = Ending(o)[2].op
  BY <1>1, <1>2, <1>3, CodeOfEnding
<1>5. b \in Ending(o)[5].in /\ b \in Ending(o)[2].out /\ Ending(o)[2].op = "memset_ldpc"
  BY <1>1, EndingSets DEF Dev
<1>6. b \in Code[h].in /\ b \in Code[At(NumSlots, 2)].out
  BY <1>4, <1>5
<1>7. b \in Buffers /\ mem \in [Buffers -> Nat]
  BY DEF Buffers, Dev, Reads
<1>8. w \in Nat
  BY <1>7
<1>9. LastWriter(b, h, w)
  BY <1>6 DEF Reads, ReadsInOrder
<1> HIDE DEF w
<1>10. At(NumSlots, 2) \in 1..(h - 1)
  BY <1>2, SlotNumbers DEF At
<1>11. w \in At(NumSlots, 2)..(h - 1) /\ b \in Code[w].out
  <2> DEFINE n == At(NumSlots, 2)
  <2>1. h \in Nat /\ w \in Nat /\ LastWriter(b, h, w) /\ n \in 1..(h - 1) /\ b \in Code[n].out
    BY <1>1, <1>6, <1>8, <1>9, <1>10
  <2> HIDE DEF b, n
  <2>2. w \in n..(h - 1) /\ b \in Code[w].out
    BY ONLY <2>1, LastWrite
  <2>3. QED BY <2>2 DEF n
<1>12. PICK i \in 2..4 : w = At(NumSlots, i)
  <2>1. w - (1 + 18 * NumSlots) \in 2..4 /\ w = 1 + 18 * NumSlots + (w - (1 + 18 * NumSlots))
    BY <1>2, <1>11, SlotNumbers DEF At
  <2>2. QED BY <2>1 DEF At
<1>13. i = 2
  <2>1. b \in Ending(o)[i].out /\ i \in 1..Len(Ending(o))
    BY <1>3, <1>4, <1>11, <1>12
  <2>2. b \in Ending(o)[i].out <=> i \in {2, 5}
    BY <1>1, <2>1, EndingFacts
  <2>3. QED BY <2>1, <2>2
<1>14. QED
  BY <1>4, <1>5, <1>12, <1>13 DEF Wrote, w

-----------------------------------------------------------------------------
\* The invariant of DeviceStreamProofs, for these programs.
IInv == Ds!IInv

\* What the invariant says of the queue and of the buffers.
LEMMA DeviceFacts ==
  ASSUME IInv
  PROVE  /\ program \in DOMAIN Programs /\ pc \in 1..(Len(Code) + 1) /\ mem \in [Buffers -> Nat]
         /\ \A q \in Ds!Queued :
              /\ q \in 1..(pc - 1) /\ q \in 1..Len(Code) /\ Code[q].do = "launch"
              /\ \A n \in (q + 1)..(pc - 1) : Code[n].do # "sync"
         /\ \A b \in Buffers :
              /\ mem[b] # 0 =>
                   mem[b] \in 1..(pc - 1) /\ mem[b] \notin Ds!Queued /\ b \in Code[mem[b]].out
              /\ \A m \in (mem[b] + 1)..(pc - 1) : b \in Code[m].out => m \in Ds!Queued
<1>1. Ds!TypeOK /\ Ds!NothingOvertakes /\ Ds!LastPerformed
  BY DEF IInv, Ds!IInv
<1>2. program \in DOMAIN Programs /\ pc \in 1..(Len(Code) + 1) /\ mem \in [Buffers -> Nat]
  BY <1>1 DEF Ds!TypeOK, Ds!Code, Code
<1>3. ASSUME NEW q \in Ds!Queued
      PROVE  /\ q \in 1..(pc - 1) /\ q \in 1..Len(Code) /\ Code[q].do = "launch"
             /\ \A n \in (q + 1)..(pc - 1) : Code[n].do # "sync"
  <2>1. q \in 1..(pc - 1) /\ q \in 1..Len(Code) /\ Code[q].do = "launch"
    BY ProgramsWellFormed, Ds!QueuedRange DEF IInv, Ds!Code, Code
  <2>2. \A n \in (q + 1)..(pc - 1) : Code[n].do # "sync"
    BY <1>1 DEF Ds!NothingOvertakes, Ds!Code, Code
  <2>3. QED BY <2>1, <2>2
<1>4. ASSUME NEW b \in Buffers
      PROVE  /\ mem[b] # 0 =>
                  mem[b] \in 1..(pc - 1) /\ mem[b] \notin Ds!Queued /\ b \in Code[mem[b]].out
             /\ \A m \in (mem[b] + 1)..(pc - 1) : b \in Code[m].out => m \in Ds!Queued
  <2>1. b \in Ds!OrderedBuffers
    BY <1>2, RunIsDisciplined, Ds!DisciplineOrders, ProgramsWellFormed
  <2>2. QED BY <1>1, <2>1 DEF Ds!LastPerformed, Ds!Code, Code
<1>5. QED
  BY <1>2, <1>3, <1>4

\* The operation the device is busy with reads in program order.
LEMMA HeadReads ==
  ASSUME IInv, stream # << >>
  PROVE  Head(stream) \in Ds!Queued /\ Reads(Head(stream))
<1>1. Head(stream) \in Ds!Queued
  BY ProgramsWellFormed, Ds!OldestQueued DEF IInv, Ds!IInv
<1>2. Ds!ReadsInOrder(Head(stream))
  BY ProgramsWellFormed, RunIsDisciplined, Ds!HeadReadsInOrder DEF IInv
<1>3. ReadsInOrder(Head(stream))
  BY <1>2 DEF Ds!ReadsInOrder, ReadsInOrder, Ds!LastWriter, LastWriter, Ds!Code, Code
<1>4. QED
  BY <1>1, <1>3, DeviceFacts DEF Reads

\* A write that is no longer queued is the last one performed, or an older one.
LEMMA Performed ==
  ASSUME IInv, NEW b \in Buffers, NEW n \in 1..(pc - 1), b \in Code[n].out, n \notin Ds!Queued
  PROVE  /\ mem[b] \in n..(pc - 1) /\ mem[b] # 0 /\ mem[b] \in 1..Len(Code)
         /\ mem[b] \notin Ds!Queued /\ b \in Code[mem[b]].out
<1> DEFINE w == mem[b]
<1>1. /\ w # 0 => w \in 1..(pc - 1) /\ w \notin Ds!Queued /\ b \in Code[w].out
      /\ \A m \in (w + 1)..(pc - 1) : b \in Code[m].out => m \in Ds!Queued
  BY DeviceFacts
<1>2. w \in Nat /\ program \in DOMAIN Programs /\ pc \in 1..(Len(Code) + 1)
  BY DeviceFacts
<1>3. Len(Code) \in Nat
  BY <1>2, CodeText
<1> HIDE DEF w
<1>4. ~(n \in (w + 1)..(pc - 1))
  BY <1>1
<1>5. n <= w /\ w # 0 /\ w \in Nat
  BY <1>2, <1>3, <1>4
<1>6. w \in n..(pc - 1) /\ w \in 1..Len(Code)
  BY <1>1, <1>2, <1>3, <1>5
<1>7. QED
  BY <1>1, <1>5, <1>6 DEF w

\* What is delivered is written by the commands behind the slot loop only.
LEMMA DeliveredPlace ==
  ASSUME program \in DOMAIN Programs, NEW n \in 1..Len(Code),
         NEW x \in {"ldpc_bits", "bits", "output", "receipt"}, <<x, 0>> \in Code[n].out
  PROVE  \E k \in 1..Len(Ending(program.outcome)) :
            n = At(NumSlots, k) /\ <<x, 0>> \in Ending(program.outcome)[k].out
<1>1. n # 1
  BY CodeText DEF Dev
<1>2. ASSUME NEW s \in Slots, NEW k \in 1..18, n = At(s, k) PROVE FALSE
  <2>1. Code[n].out = SlotCommands(s)[k].out
    BY <1>2, CodeOfSlot
  <2>2. <<x, 0>> \notin SlotCommands(s)[k].out
    BY SlotWriters
  <2>3. QED BY <2>1, <2>2
<1>3. PICK k \in 1..Len(Ending(program.outcome)) : n = At(NumSlots, k)
  BY <1>1, <1>2, CodePlace
<1>4. Code[n].out = Ending(program.outcome)[k].out
  BY <1>3, CodeOfEnding
<1>5. QED
  BY <1>3, <1>4

\* The profile is written by the fourth command of a slot only.
LEMMA ProfilePlace ==
  ASSUME program \in DOMAIN Programs, NEW n \in 1..Len(Code), <<"pinned", 0>> \in Code[n].out
  PROVE  \E s \in Slots : n = At(s, 4)
<1>1. n # 1
  BY CodeText DEF Dev
<1>2. ASSUME NEW k \in 1..Len(Ending(program.outcome)), n = At(NumSlots, k) PROVE FALSE
  <2>1. Code[n].out = Ending(program.outcome)[k].out /\ program.outcome \in Outcomes
    BY <1>2, CodeOfEnding, CodeText
  <2>2. <<"pinned", 0>> \notin Ending(program.outcome)[k].out
    BY <2>1, EndingFacts
  <2>3. QED BY <2>1, <2>2
<1>3. PICK s \in Slots, k \in 1..18 : n = At(s, k)
  BY <1>1, <1>2, CodePlace
<1>4. Code[n].out = SlotCommands(s)[k].out
  BY <1>3, CodeOfSlot
<1>5. k = 4
  BY <1>4, SlotWriters
<1>6. QED
  BY <1>3, <1>5

\* A slot is estimated with the profile it wrote itself: the next slot's cannot
\* be written before the synchronisation between them.
LEMMA ProfileOfSlot ==
  ASSUME IInv, stream # << >>, Now.op = "mimo_dmrs_ls"
  PROVE  /\ Now.slot \in Slots
         /\ Wrote("pinned").number = SlotNumber(program.grant, Now.slot)
<1> DEFINE h == Head(stream)
           b == <<"pinned", 0>>
           w == mem[b]
<1>1. h \in Ds!Queued /\ Reads(h)
  BY HeadReads
<1>2. program \in DOMAIN Programs /\ h \in 1..Len(Code) /\ pc \in 1..(Len(Code) + 1)
  BY <1>1, DeviceFacts DEF Reads
<1>3. PICK s \in Slots : h = At(s, 8) /\ Code[h].slot = s
  BY <1>2, OperationOfSlot DEF Now
<1>4. h \in 1..(pc - 1) /\ \A n \in (h + 1)..(pc - 1) : Code[n].do # "sync"
  BY <1>1, DeviceFacts
<1>5. b \in Buffers
  BY DEF Buffers, Dev
<1>6. /\ b \in Code[At(s, 4)].out /\ Code[At(s, 4)].do = "copy" /\ Code[At(s, 18)].do = "sync"
      /\ \A t \in Slots : Code[At(t, 4)].number = SlotNumber(program.grant, t)
  <2>1. /\ Code[At(s, 4)].out = SlotCommands(s)[4].out /\ Code[At(s, 4)].do = SlotCommands(s)[4].do
        /\ Code[At(s, 18)].do = SlotCommands(s)[18].do
        /\ \A t \in Slots : Code[At(t, 4)].number = SlotNumber(program.grant, t)
    BY <1>2, CodeOfSlot
  <2>2. SlotCommands(s)[4].do = "copy" /\ SlotCommands(s)[18].do = "sync"
    BY SlotKinds
  <2>3. b \in SlotCommands(s)[4].out
    BY SlotWriters
  <2>4. QED BY <2>1, <2>2, <2>3
<1>7. At(s, 4) \notin Ds!Queued
  BY <1>6, DeviceFacts
<1>8. At(s, 4) \in 1..(pc - 1) /\ s \in Nat
  BY <1>2, <1>3, <1>4, CodeText, SlotNumbers DEF At
<1>9. w \in At(s, 4)..(pc - 1) /\ w \in 1..Len(Code) /\ b \in Code[w].out
  BY <1>5, <1>6, <1>7, <1>8, Performed
<1>10. PICK t \in Slots : w = At(t, 4)
  BY <1>2, <1>9, ProfilePlace
<1>11. t = s
  <2>1. t \in Nat /\ t >= s
    BY <1>8, <1>9, <1>10, SlotNumbers DEF At
  <2>2. ASSUME t > s PROVE FALSE
    <3>1. At(s, 18) \in (h + 1)..(pc - 1)
      BY <1>2, <1>3, <1>8, <1>9, <1>10, <2>1, <2>2, CodeText DEF At
    <3>2. QED BY <1>4, <1>6, <3>1
  <2>3. QED BY <1>8, <2>1, <2>2
<1>12. QED
  BY <1>3, <1>6, <1>10, <1>11 DEF Now, Wrote

\* Once the host is past the last synchronisation nothing is queued.
LEMMA NothingQueuedBehind ==
  ASSUME IInv, pc > At(NumSlots, 6), pc - 1 <= Len(Code)
  PROVE  Ds!Queued = {}
<1>1. SUFFICES ASSUME NEW q \in Ds!Queued PROVE FALSE
  OBVIOUS
<1>2. program \in DOMAIN Programs /\ q \in 1..Len(Code) /\ Code[q].do = "launch" /\ pc \in Nat
  BY CodeText, DeviceFacts
<1>3. \A n \in (q + 1)..(pc - 1) : Code[n].do # "sync"
  BY DeviceFacts
<1>4. Code[At(NumSlots, 6)].do = "sync"
  <2>1. program.outcome \in Outcomes /\ Len(Ending(program.outcome)) \in 7..9
    BY <1>2, CodeText
  <2>2. 6 \in 1..Len(Ending(program.outcome))
    <3> DEFINE l == Len(Ending(program.outcome))
    <3>1. l \in 7..9
      BY <2>1
    <3> HIDE DEF l
    <3>2. 6 \in 1..l
      BY <3>1
    <3>3. QED BY <3>2 DEF l
  <2>3. QED BY <1>2, <2>1, <2>2, CodeOfEnding, EndingSets
<1>5. q < At(NumSlots, 6)
  <2>1. q # 1
    BY <1>2, CodeText
  <2>2. ASSUME NEW s \in Slots, NEW k \in 1..18, q = At(s, k) PROVE q < At(NumSlots, 6)
    BY <2>2, SlotNumbers DEF At
  <2>3. ASSUME NEW k \in 1..Len(Ending(program.outcome)), q = At(NumSlots, k)
        PROVE  q < At(NumSlots, 6)
    <3>1. Ending(program.outcome)[k].do = "launch" /\ program.outcome \in Outcomes
      BY <1>2, <2>3, CodeOfEnding, CodeText
    <3>2. k \in 3..5
      BY <3>1, EndingFacts
    <3>3. QED BY <2>3, <3>2, SlotNumbers DEF At
  <2>4. QED BY <1>2, <2>1, <2>2, <2>3, CodePlace
<1>6. At(NumSlots, 6) \in (q + 1)..(pc - 1)
  BY <1>2, <1>5, SlotNumbers DEF At
<1>7. QED
  BY <1>3, <1>4, <1>6

\* By then what is delivered is the decoder's bits, their copy and the file.
LEMMA Delivered ==
  ASSUME IInv, Len(Ending(program.outcome)) = 9, pc > At(NumSlots, 9)
  PROVE  /\ mem[<<"ldpc_bits", 0>>] = At(NumSlots, 5) /\ mem[<<"bits", 0>>] = At(NumSlots, 7)
         /\ mem[<<"output", 0>>] = At(NumSlots, 8)
<1> DEFINE o == program.outcome
<1>1. /\ program \in DOMAIN Programs /\ pc \in 1..(Len(Code) + 1) /\ Len(Code) \in Nat
      /\ o \in Outcomes
  BY DeviceFacts, CodeText
<1>2. Ds!Queued = {}
  BY <1>1, NothingQueuedBehind, SlotNumbers DEF At
<1>3. ASSUME NEW k \in 1..9, NEW x \in {"ldpc_bits", "bits", "output"}, <<x, 0>> \in Ending(o)[k].out
      PROVE  \E j \in 1..9 : /\ mem[<<x, 0>>] = At(NumSlots, j) /\ k <= j
                             /\ <<x, 0>> \in Ending(o)[j].out
  <2>1. <<x, 0>> \in Buffers
    BY DEF Buffers, Dev
  <2>2. At(NumSlots, k) \in 1..(pc - 1)
    BY <1>1, SlotNumbers DEF At
  <2>3. <<x, 0>> \in Code[At(NumSlots, k)].out
    BY <1>1, <1>3, CodeOfEnding
  <2>4. /\ mem[<<x, 0>>] \in At(NumSlots, k)..(pc - 1) /\ mem[<<x, 0>>] \in 1..Len(Code)
        /\ <<x, 0>> \in Code[mem[<<x, 0>>]].out
    BY <1>2, <2>1, <2>2, <2>3, Performed
  <2>5. PICK j \in 1..9 : mem[<<x, 0>>] = At(NumSlots, j) /\ <<x, 0>> \in Ending(o)[j].out
    BY <1>1, <2>4, DeliveredPlace
  <2>6. At(NumSlots, k) <= At(NumSlots, j)
    BY <1>1, <2>4, <2>5, SlotNumbers DEF At
  <2>7. k <= j
    BY <2>6, SlotNumbers DEF At
  <2>8. QED BY <2>5, <2>7
<1>4. \A j \in 1..9 : /\ <<"ldpc_bits", 0>> \in Ending(o)[j].out <=> j \in {2, 5}
                      /\ <<"bits", 0>> \in Ending(o)[j].out <=> j = 7
                      /\ <<"output", 0>> \in Ending(o)[j].out <=> j = 8
  BY <1>1, EndingFacts
<1>5. mem[<<"ldpc_bits", 0>>] = At(NumSlots, 5)
  <2>1. PICK j \in 1..9 : /\ mem[<<"ldpc_bits", 0>>] = At(NumSlots, j) /\ 5 <= j
                          /\ <<"ldpc_bits", 0>> \in Ending(o)[j].out
    BY <1>3, <1>4
  <2>2. j = 5
    BY <1>4, <2>1
  <2>3. QED BY <2>1, <2>2
<1>6. mem[<<"bits", 0>>] = At(NumSlots, 7)
  <2>1. PICK j \in 1..9 : mem[<<"bits", 0>>] = At(NumSlots, j) /\ <<"bits", 0>> \in Ending(o)[j].out
    BY <1>3, <1>4
  <2>2. QED BY <1>4, <2>1
<1>7. mem[<<"output", 0>>] = At(NumSlots, 8)
  <2>1. PICK j \in 1..9 : mem[<<"output", 0>>] = At(NumSlots, j) /\ <<"output", 0>> \in Ending(o)[j].out
    BY <1>3, <1>4
  <2>2. QED BY <1>4, <2>1
<1>8. QED
  BY <1>5, <1>6, <1>7

-----------------------------------------------------------------------------
\* The properties, from the invariant.

LEMMA InvariantOwnSlot == IInv => OwnSlotOnly
<1>1. SUFFICES ASSUME IInv PROVE OwnSlotOnly
  OBVIOUS
<1>2. ASSUME stream # << >>, NEW b \in Now.in \cap PerSlot
      PROVE  mem[b] # 0 /\ Code[mem[b]].slot = Now.slot
  BY <1>1, <1>2, HeadReads, SlotReadsItself DEF Now
<1>3. ASSUME Executing("descramble"), NEW s \in Slots
      PROVE  mem[Llr(s)] # 0 /\ Code[mem[Llr(s)]].slot = s
  BY <1>1, <1>3, HeadReads, BlockFromAllSlots DEF Executing
<1>4. QED
  BY <1>2, <1>3 DEF OwnSlotOnly

LEMMA InvariantZero == IInv => StartsFromZero
<1>1. SUFFICES ASSUME IInv PROVE StartsFromZero
  OBVIOUS
<1>2. ASSUME Executing("lmmse")
      PROVE  /\ Wrote("ce_t").op = "memset_ce" /\ Wrote("ce_t").slot = Now.slot
             /\ Wrote("workspace").op = "memset_workspace" /\ Wrote("workspace").slot = Now.slot
  BY <1>1, <1>2, HeadReads, EstimateStartsFromZero DEF Executing, Now
<1>3. ASSUME Executing("io_pack")
      PROVE  Wrote("hgrid").op = "pad_layers" /\ Wrote("hgrid_inactive").op = "memset_hgrid"
  BY <1>1, <1>3, HeadReads, DetectorStartsFromZero DEF Executing
<1>4. ASSUME Executing("ldpc_decode") PROVE Wrote("lam_out").op = "memset_ldpc"
  BY <1>1, <1>4, HeadReads, DecoderStartsFromZero DEF Executing
<1>5. QED
  BY <1>2, <1>3, <1>4 DEF StartsFromZero

LEMMA InvariantPilots ==
  ASSUME IInv, program.grant = 0
  PROVE  PilotsAgree
<1>1. SUFFICES ASSUME Executing("mimo_dmrs_ls")
               PROVE  Wrote("pinned").number = TxSlotNumber(Now.slot)
  BY DEF PilotsAgree
<1>2. Now.slot \in Slots /\ Wrote("pinned").number = SlotNumber(program.grant, Now.slot)
  BY <1>1, ProfileOfSlot DEF Executing, Now
<1>3. QED
  BY <1>2 DEF SlotNumber, TxSlotNumber

LEMMA InvariantReceipt == IInv => ReceiptVouches
<1> DEFINE o == program.outcome
           r == mem[<<"receipt", 0>>]
<1>1. SUFFICES ASSUME IInv, r # 0
               PROVE  /\ o \notin {"not_binary", "wrong"}
                      /\ Wrote("output").op = "WriteExact" /\ Wrote("ldpc_bits").op = "ldpc_decode"
                      /\ mem[<<"ldpc_bits", 0>>] < mem[<<"bits", 0>>]
                      /\ mem[<<"bits", 0>>] < mem[<<"output", 0>>]
  BY DEF ReceiptVouches
<1>2. /\ program \in DOMAIN Programs /\ pc \in 1..(Len(Code) + 1) /\ Len(Code) \in Nat
      /\ o \in Outcomes /\ Len(Ending(o)) \in 7..9
  BY <1>1, DeviceFacts, CodeText
<1>3. r \in 1..(pc - 1) /\ <<"receipt", 0>> \in Code[r].out
  <2>1. <<"receipt", 0>> \in Buffers
    BY DEF Buffers, Dev
  <2>2. QED BY <1>1, <2>1, DeviceFacts
<1>4. r \in 1..Len(Code)
  <2> HIDE DEF r
  <2>1. QED BY <1>2, <1>3
<1>5. PICK k \in 1..Len(Ending(o)) : r = At(NumSlots, k) /\ <<"receipt", 0>> \in Ending(o)[k].out
  BY <1>2, <1>3, <1>4, DeliveredPlace
<1>6. k = 9
  BY <1>2, <1>5, EndingFacts
<1>7. Len(Ending(o)) = 9
  <2> DEFINE l == Len(Ending(o))
  <2>1. l \in 7..9 /\ 9 \in 1..l
    BY <1>2, <1>5, <1>6
  <2> HIDE DEF l
  <2>2. l = 9
    BY <2>1
  <2>3. QED BY <2>2 DEF l
<1>8. pc > At(NumSlots, 9)
  <2> HIDE DEF r
  <2>1. QED BY <1>2, <1>3, <1>5, <1>6
<1>9. /\ mem[<<"ldpc_bits", 0>>] = At(NumSlots, 5) /\ mem[<<"bits", 0>>] = At(NumSlots, 7)
      /\ mem[<<"output", 0>>] = At(NumSlots, 8)
  BY <1>1, <1>7, <1>8, Delivered
<1>10. Code[At(NumSlots, 5)].op = "ldpc_decode" /\ Code[At(NumSlots, 8)].op = "WriteExact"
  <2>1. 5 \in 1..Len(Ending(o)) /\ 8 \in 1..Len(Ending(o))
    BY <1>7
  <2>2. Ending(o)[5].op = "ldpc_decode" /\ Ending(o)[8].op = "WriteExact"
    BY <1>2, <2>1, EndingFacts
  <2>3. QED BY <1>2, <2>1, <2>2, CodeOfEnding
<1>11. o \notin {"not_binary", "wrong"}
  BY <1>2, <1>5, <1>6, <1>7, EndingSets
<1>12. At(NumSlots, 5) < At(NumSlots, 7) /\ At(NumSlots, 7) < At(NumSlots, 8)
  BY SlotNumbers DEF At
<1>13. QED
  BY <1>9, <1>10, <1>11, <1>12 DEF Wrote

LEMMA InvariantRaces == IInv => CopiesDoNotRace
<1>1. SUFFICES ASSUME IInv, AtHost("copy"), NEW k \in 1..Len(stream) PROVE ~Conflict(stream[k], pc)
  BY DEF CopiesDoNotRace
<1>2. Ds!AtHost("copy")
  BY <1>1 DEF AtHost, Ds!AtHost, Code, Ds!Code
<1>3. stream[k] \in Ds!Queued
  BY DEF Ds!Queued
<1>4. ~Ds!Conflict(stream[k], pc)
  BY <1>1, <1>2, <1>3, ProgramsWellFormed, RunIsDisciplined, Ds!CopyMeetsNoConflict DEF IInv
<1>5. QED
  BY <1>4 DEF Conflict, Ds!Conflict, Code, Ds!Code

-----------------------------------------------------------------------------
\* The invariant is one of the receiver, and of the run around it: loading and
\* checking the configuration leaves program, queue and buffers alone.

LEMMA InitIInv == Init => IInv
<1>1. Init => Ds!Init
  BY DEF Init, Ds!Init
<1>2. QED
  BY <1>1, ProgramsWellFormed, Ds!InitIInv DEF IInv

LEMMA NextIInv == ASSUME IInv, [Next]_vars PROVE IInv'
<1>1. [Ds!Next]_(Ds!vars)
  BY DEF Next, Ds!Next, vars, Ds!vars, Launch, Ds!Launch, Copy, Ds!Copy, Sync, Ds!Sync,
         Execute, Ds!Execute, AtHost, Ds!AtHost, Perform, Ds!Perform, Code, Ds!Code
<1>2. QED
  BY <1>1, ProgramsWellFormed, Ds!NextIInv DEF IInv

LEMMA RunStepIsAReceiverStep == [RunNext]_<<chainVars, configVars>> => [Next]_vars
<1>1. Issue => Next
  BY DEF Issue, Next
<1>2. Device => Next
  BY DEF Device, Next
<1>3. Author \/ Check => UNCHANGED vars
  BY DEF Author, Check, chainVars, vars
<1>4. UNCHANGED <<chainVars, configVars>> => UNCHANGED vars
  BY DEF chainVars, vars
<1>5. QED
  BY <1>1, <1>2, <1>3, <1>4 DEF RunNext

\* A run with its configuration is a run of the receiver: what happens around
\* its commands adds no behaviour to them.
THEOREM RunIsAReceiver == RunSpec => Spec
<1>1. RunInit => Init
  BY DEF RunInit
<1>2. QED
  BY <1>1, RunStepIsAReceiverStep, PTL DEF RunSpec, Spec

LEMMA RunInvariant == RunSpec => []IInv
<1>1. RunInit => IInv
  BY InitIInv DEF RunInit
<1>2. IInv /\ [RunNext]_<<chainVars, configVars>> => IInv'
  BY NextIInv, RunStepIsAReceiverStep
<1>3. QED
  BY <1>1, <1>2, PTL DEF RunSpec

\* No blocking copy of the receiver (the profile in pinned memory, the sign
\* table, the decoder's state, the download) overlaps a queued operation on the
\* buffer it touches, for any number of slots, wherever the run is refused.
THEOREM RunDoesNotRace == RunSpec => []CopiesDoNotRace
  BY RunInvariant, InvariantRaces, PTL

\* No kernel of a slot computes with another slot's samples, pilots, estimates
\* or symbols in the buffers all slots share, and the block is descrambled from
\* the LLRs of every slot.
THEOREM SlotsKeepApart == RunSpec => []OwnSlotOnly
  BY RunInvariant, InvariantOwnSlot, PTL

\* The estimator, the detector and the decoder find the zeros they accumulate
\* into, although other kernels use the same workspace in between.
THEOREM AccumulatorsAreCleared == RunSpec => []StartsFromZero
  BY RunInvariant, InvariantZero, PTL

\* A receipt is in place only beside the decoder's bits, downloaded and written
\* before it, that no check found wrong.
THEOREM ReceiptIsEarned == RunSpec => []ReceiptVouches
  BY RunInvariant, InvariantReceipt, PTL

\* Grants of slot number 0, the only ones for which an argument of 0 and the
\* grant's slot number are the same, give both ends the same pilots.
THEOREM PilotsAgreeFromZero ==
  ASSUME GrantSlots \subseteq {0}
  PROVE  RunSpec => []PilotsAgree
<1>1. IInv => PilotsAgree
  <2>1. SUFFICES ASSUME IInv PROVE PilotsAgree
    OBVIOUS
  <2>2. program.grant \in GrantSlots
    BY <2>1, DeviceFacts, CodeText
  <2>3. QED BY <2>1, <2>2, InvariantPilots
<1>2. QED
  BY <1>1, RunInvariant, PTL

-----------------------------------------------------------------------------
\* The configuration, for every set of jobs, well formed or not: the loader
\* refuses only what it alone checks, the receiver's operators refuse no eligible
\* plan but for what the registry does not ask, and none refuses once slots are
\* computed.

\* How far a job came, and the stages past each of the accepting ones.
Reached == IF stage = "refused" THEN refusal ELSE stage

PastSlots    == {"decoder", "slots"}
PastPrepare  == PastSlots \union {"prepared"}
PastResolve  == PastPrepare \union {"resolved"}
PastLoad     == PastResolve \union {"loaded"}
PastPack     == PastLoad \union {"packed"}
PastEvaluate == PastPack \union {"evaluated"}
PastCompile  == PastEvaluate \union {"compiled"}
PastMerge    == PastCompile \union {"merged"}

Merges   == RadioMerges /\ AllocationMerges /\ SchedulerMerges
Compiles == SpatialCompiles /\ WaveformCompiles /\ ReceiverCompiles

\* A plan as the compiler makes it or the selected build changes it.
PlanSound(p) ==
  /\ p = [data_re |-> p.data_re, data_stride |-> p.data_stride,
          row_stride |-> p.row_stride, tpmi |-> p.tpmi, prg_size_rb |-> p.prg_size_rb,
          rx_bucket |-> p.rx_bucket, layer_bucket |-> p.layer_bucket,
          adapter_required |-> p.adapter_required, eligibility |-> p.eligibility]
  /\ p.data_re = DataRe /\ p.data_stride >= DataRe
  /\ p.row_stride >= Grant.used_subcarriers
  /\ p.rx_bucket \in Radio.rx_antennas..Radio.max_rx_antennas
  /\ p.layer_bucket \in Rank..StorageLayers
  /\ p.adapter_required \/ (Radio.rx_antennas = p.rx_bucket /\ Rank = p.layer_bucket)

\* What a job that came so far has behind it.
Behind ==
  /\ Reached \in PastMerge \union {"authored"}
  /\ Reached \in PastMerge => Merges
  /\ Reached \in PastCompile => Compiles /\ PlanSound(plan)
  /\ Reached \in PastCompile /\ plan.eligibility = "eligible" => OperatorsPass
  /\ Reached = "compiled" /\ stage # "refused" => plan.eligibility = "not_evaluated"
  /\ plan # << >> => Reached \in PastCompile
  /\ Reached \in PastPack => config = RuntimeConfig
  /\ Reached \in PastLoad => Loads
  /\ Reached \in PastResolve /\ job.executable = "rx_chain" => RxShape
  /\ Reached \in PastPrepare /\ job.executable = "rx_chain" => RxPrepares
  /\ Reached \in PastSlots => job.executable = "rx_chain"

\* Why it was refused.
Why ==
  /\ stage # "refused" => refusal = "none"
  /\ refusal = "packed" => ~Loads
  /\ refusal = "resolved" /\ job.executable = "rx_chain" => ~RxPrepares
  /\ refusal = "prepared" => job.executable = "rx_chain" /\ ~DmrsGen(Derived)
  /\ refusal = "slots" => ~(Descramble(Derived) /\ RateDematch(Derived))

ConfigIInv == Behind /\ Why
-----------------------------------------------------------------------------
\* The natural numbers below one another, and the least of a set of them.
Below == {ss \in Nat \X Nat : ss[1] < ss[2]}

LEMMA LeastElement ==
  ASSUME NEW T, T \subseteq Nat, T # {}
  PROVE  \E x \in T : \A y \in T : x <= y
<1>1. IsWellFoundedOn(Below, Nat)
  BY NatLessThanWellFounded DEF OpToRel, Below
<1>2. \E x \in T : \A y \in T : ~ (<<y, x>> \in Below)
  BY <1>1, WFMin
<1>3. PICK x \in T : \A y \in T : ~ (<<y, x>> \in Below)
  BY <1>2
<1>4. ASSUME NEW y \in T PROVE x <= y
  <2>1. x \in Nat /\ y \in Nat
    OBVIOUS
  <2>2. y < x => <<y, x>> \in Below
    BY <2>1 DEF Below
  <2>3. QED
    BY <2>1, <2>2, <1>3
<1>5. QED
  BY <1>4

\* The smallest bucket that holds the value, if one does.
LEMMA BucketHolds ==
  ASSUME NEW v \in Nat, NEW S, S \subseteq Nat, \E b \in S : b >= v
  PROVE  SmallestBucket(v, S) \in S /\ SmallestBucket(v, S) >= v
<1>. DEFINE T == {b \in S : b >= v}
<1>1. T \subseteq Nat /\ T # {}
  OBVIOUS
<1>2. \E x \in T : \A y \in T : x <= y
  <2>. HIDE DEF T
  <2>1. QED
    BY <1>1, LeastElement
<1>3. \E b \in S : b >= v /\ \A c \in S : c >= v => b <= c
  BY <1>2
<1>4. QED
  BY <1>3 DEF SmallestBucket

\* Rounding up to an alignment is never below.
Alignments == 1..4096

LEMMA AlignUpIsAbove ==
  ASSUME NEW v, v \in Nat, NEW a, a \in Alignments
  PROVE  AlignUp(v, a) >= v
BY SMTT(30) DEF AlignUp, Alignments

\* DMRS symbols counted from the first of an allocation of n.
LEMMA SymbolsFit ==
  ASSUME NEW n, n \in 1..14, NEW S, S \in SUBSET (0..(n - 1))
  PROVE  /\ Cardinality(S) \in Nat /\ Cardinality(S) <= n
         /\ S # {} => Cardinality(S) # 0
<1>1. 0 \in Int /\ n - 1 \in Int /\ ~(0 > n - 1)
  OBVIOUS
<1>2. Cardinality(0..(n - 1)) = n - 1 - 0 + 1 /\ IsFiniteSet(0..(n - 1))
  BY <1>1, FS_Interval
<1>3. Cardinality(0..(n - 1)) = n
  BY <1>2
<1>4. IsFiniteSet(S) /\ Cardinality(S) <= n
  BY <1>2, <1>3, FS_Subset
<1>5. QED
  BY <1>4, FS_CardinalityType, FS_EmptySet

-----------------------------------------------------------------------------
\* The plan of a profile both compilers accepted.
LEMMA PlanIsSound ==
  ASSUME Merges, Compiles
  PROVE  PlanSound(Plan)
<1>1. Rank \in 1..4
  BY DEF Merges, RadioMerges, AllocationMerges
<1>2. Radio.rx_antennas \in 1..64 /\ Radio.max_rx_antennas \in 1..64
  BY DEF Merges, Compiles, RadioMerges, SpatialCompiles
<1>3. /\ SmallestBucket(Radio.rx_antennas, Radio.rx_buckets) \in 1..Radio.max_rx_antennas
      /\ SmallestBucket(Radio.rx_antennas, Radio.rx_buckets) >= Radio.rx_antennas
  <2>1. /\ Radio.rx_buckets \subseteq 1..Radio.max_rx_antennas
        /\ \E b \in Radio.rx_buckets : b >= Radio.rx_antennas
    BY DEF Compiles, ReceiverCompiles
  <2>2. Radio.rx_antennas \in Nat /\ Radio.rx_buckets \subseteq Nat
    BY <1>2, <2>1
  <2>3. QED
    BY <2>1, <2>2, BucketHolds
<1>4. SmallestBucket(Rank, {1, 2, 4}) \in Rank..StorageLayers
  <2>1. Rank \in Nat /\ {1, 2, 4} \subseteq Nat /\ \E b \in {1, 2, 4} : b >= Rank
    BY <1>1
  <2>2. SmallestBucket(Rank, {1, 2, 4}) \in {1, 2, 4} /\ SmallestBucket(Rank, {1, 2, 4}) >= Rank
    BY <2>1, BucketHolds
  <2>3. QED
    BY <1>1, <2>2 DEF StorageLayers
<1>5. /\ Grant.num_rb \in 1..275 /\ Grant.used_subcarriers = Grant.num_rb * 12
      /\ Grant.data_re_alignment \in 1..4096 /\ Grant.qam_row_alignment \in 1..4096
      /\ Grant.num_symbols \in 1..14
      /\ \A s \in Grant.dmrs_symbols : s \in 0..13 /\ s < Grant.num_symbols
  BY DEF Merges, Compiles, AllocationMerges, WaveformCompiles
<1>6. DataRe \in Nat
  <2>1. Grant.dmrs_symbols \in SUBSET (0..(Grant.num_symbols - 1))
    BY <1>5
  <2>2. /\ Cardinality(Grant.dmrs_symbols) \in Nat
        /\ Cardinality(Grant.dmrs_symbols) <= Grant.num_symbols
    BY <1>5, <2>1, SymbolsFit
  <2>3. Grant.num_symbols - Cardinality(Grant.dmrs_symbols) \in Nat
    BY <1>5, <2>2
  <2>4. Grant.used_subcarriers \in Nat
    BY <1>5
  <2>5. ASSUME NEW m \in Nat, NEW n \in Nat PROVE m * n \in Nat
    OBVIOUS
  <2>6. QED
    BY <2>3, <2>4, <2>5, Zenon DEF DataRe
<1>7. /\ AlignUp(DataRe, Grant.data_re_alignment) >= DataRe
      /\ AlignUp(Grant.used_subcarriers, Grant.qam_row_alignment) >= Grant.used_subcarriers
  <2>1. Grant.used_subcarriers \in Nat
    BY <1>5
  <2>2. Grant.data_re_alignment \in Alignments /\ Grant.qam_row_alignment \in Alignments
    BY <1>5 DEF Alignments
  <2>3. QED
    BY <1>6, <2>1, <2>2, AlignUpIsAbove, Zenon
<1>8. QED
  BY <1>1, <1>2, <1>3, <1>4, <1>7 DEF PlanSound, Plan

\* The two DMRS symbols of a slot.
LEMMA TwoDmrsSymbols == Cardinality({2, 11}) = 2
<1>1. IsFiniteSet({2}) /\ Cardinality({2}) = 1
  BY FS_Singleton
<1>2. Cardinality({2} \union {11}) = Cardinality({2}) + 1
  BY <1>1, FS_AddElement
<1>3. {2, 11} = {2} \union {11}
  OBVIOUS
<1>4. QED
  BY <1>1, <1>2, <1>3

\* What a build is selected for, and what it makes of the plan.
LEMMA EvaluatedIsSound ==
  ASSUME Merges, PlanSound(plan), plan.eligibility = "not_evaluated"
  PROVE  /\ PlanSound(Evaluated)
         /\ Evaluated.eligibility = "eligible" => OperatorsPass
         /\ Evaluated.data_stride = plan.data_stride
<1>1. Rank \in 1..4 /\ Rank \in Int
  BY DEF Merges, RadioMerges, AllocationMerges
<1>. DEFINE p == plan
            flat == [data_re |-> p.data_re, data_stride |-> p.data_stride,
                     row_stride |-> p.row_stride, tpmi |-> p.tpmi,
                     prg_size_rb |-> p.prg_size_rb, rx_bucket |-> p.rx_bucket,
                     layer_bucket |-> p.layer_bucket, adapter_required |-> p.adapter_required,
                     eligibility |-> p.eligibility]
<1>2. plan = flat
  BY DEF PlanSound
<1>3. CASE Matching = {}
  <2>1. Evaluated = [flat EXCEPT !.eligibility = "ineligible"]
    BY <1>2, <1>3, Zenon DEF Evaluated
  <2>2. QED
    BY <2>1 DEF PlanSound
<1>4. CASE Matching # {}
  <2>. DEFINE first == CHOOSE n \in Matching : \A m \in Matching : n <= m
              v == Variants[first]
              verdict == IF OperatorsPass THEN "eligible" ELSE "ineligible"
  <2>1. first \in Matching
    <3>1. Matching \subseteq Nat
      <4>1. Matching \subseteq DOMAIN Variants
        BY DEF Matching
      <4>2. DOMAIN Variants = 1..2
        BY DEF Variants
      <4>3. QED
        BY <4>1, <4>2
    <3>2. \E n \in Matching : \A m \in Matching : n <= m
      BY <1>4, <3>1, LeastElement
    <3>3. QED
      BY <3>2
  <2>2. Matches(v)
    BY <2>1 DEF Matching
  <2>3. v.rx_bucket \in Nat
    <3>1. \A n \in DOMAIN Variants : Variants[n].rx_bucket \in Nat
      BY DEF Variants
    <3>2. first \in DOMAIN Variants
      BY <2>1 DEF Matching
    <3>3. QED
      BY <3>1, <3>2
  <2>4. v.rx_bucket \in Radio.rx_antennas..Radio.max_rx_antennas
    BY <2>2, <2>3 DEF Matches, PlanSound
  <2>5. Evaluated = [WithVariant(v) EXCEPT !.eligibility = verdict]
    BY <1>4, Zenon DEF Evaluated
  <2>. HIDE DEF first, v
  <2>6. WithVariant(v) =
          [flat EXCEPT !.rx_bucket = v.rx_bucket, !.layer_bucket = 16,
                       !.adapter_required = v.rx_bucket # Radio.rx_antennas \/ 16 # Rank]
    BY <1>2, Zenon DEF WithVariant, StorageLayers
  <2>7. /\ Evaluated.data_re = p.data_re /\ Evaluated.data_stride = p.data_stride
        /\ Evaluated.row_stride = p.row_stride /\ Evaluated.tpmi = p.tpmi
        /\ Evaluated.prg_size_rb = p.prg_size_rb
    BY <2>5, <2>6
  <2>8. /\ Evaluated.rx_bucket = v.rx_bucket /\ Evaluated.layer_bucket = 16
        /\ Evaluated.adapter_required = (v.rx_bucket # Radio.rx_antennas \/ 16 # Rank)
        /\ Evaluated.eligibility = verdict
    BY <2>5, <2>6
  <2>9. Evaluated =
          [data_re |-> Evaluated.data_re, data_stride |-> Evaluated.data_stride,
           row_stride |-> Evaluated.row_stride, tpmi |-> Evaluated.tpmi,
           prg_size_rb |-> Evaluated.prg_size_rb, rx_bucket |-> Evaluated.rx_bucket,
           layer_bucket |-> Evaluated.layer_bucket,
           adapter_required |-> Evaluated.adapter_required,
           eligibility |-> Evaluated.eligibility]
    BY <2>5, <2>6
  <2>10. /\ Evaluated.layer_bucket \in Rank..StorageLayers
         /\ Evaluated.adapter_required
              \/ (Radio.rx_antennas = Evaluated.rx_bucket /\ Rank = Evaluated.layer_bucket)
    <3>1. 16 \in Rank..16 /\ 16 # Rank
      BY <1>1
    <3>2. Evaluated.adapter_required
      BY <2>8, <3>1, Zenon
    <3>3. QED
      BY <2>8, <3>1, <3>2, Zenon DEF StorageLayers
  <2>. DEFINE e == Evaluated
  <2>11. PlanSound(e)
    <3>1. /\ e.data_re = DataRe /\ e.data_stride >= DataRe
          /\ e.row_stride >= Grant.used_subcarriers
      BY <2>7 DEF PlanSound
    <3>2. e.rx_bucket \in Radio.rx_antennas..Radio.max_rx_antennas
      BY <2>4, <2>8
    <3>. HIDE DEF e
    <3>3. QED
      BY <3>1, <3>2, <2>9, <2>10, Zenon DEF PlanSound, e
  <2>12. QED
    BY <2>7, <2>8, <2>11
<1>5. QED
  BY <1>3, <1>4

-----------------------------------------------------------------------------
\* The fields of the packed configuration.
LEMMA PackedFields ==
  ASSUME config = RuntimeConfig
  PROVE  /\ config.radio = Radio /\ config.grant = Grant /\ config.plan = plan
         /\ config.rank = Rank /\ config.num_tx_ports = StandardPorts(Rank)
         /\ config.max_layers = 4 /\ config.mode = Mode
         /\ config.dmrs_ports = StandardDmrsPorts(Rank)
         /\ config.gain = IF Grant.gain = "tiny" THEN "zero" ELSE Grant.gain
BY DEF RuntimeConfig

\* The ports of a rank: as many DMRS ports as layers, all of them different, and
\* at least as many antenna ports.
LEMMA PortsOfRank ==
  ASSUME NEW rank, rank \in 1..4
  PROVE  /\ Len(StandardDmrsPorts(rank)) = rank
         /\ DOMAIN StandardDmrsPorts(rank) = 1..rank
         /\ \A i \in 1..rank : StandardDmrsPorts(rank)[i] \in 1000..1003
         /\ \A i, j \in 1..rank : i # j => StandardDmrsPorts(rank)[i] # StandardDmrsPorts(rank)[j]
         /\ StandardPorts(rank) \in {1, 2, 4} /\ StandardPorts(rank) \in rank..4
<1>1. StandardPorts(rank) \in {1, 2, 4} /\ StandardPorts(rank) \in rank..4
  BY DEF StandardPorts
<1>2. CASE rank = 2
  <2>1. StandardDmrsPorts(rank) = <<1000, 1002>>
    BY <1>2 DEF StandardDmrsPorts
  <2>2. QED
    BY <1>1, <1>2, <2>1
<1>3. CASE rank # 2
  <2>1. StandardDmrsPorts(rank) = [n \in 1..rank |-> 999 + n]
    BY <1>3 DEF StandardDmrsPorts
  <2>2. [n \in 1..rank |-> 999 + n] \in Seq(Int)
    OBVIOUS
  <2>3. Len(StandardDmrsPorts(rank)) = rank
    BY <2>1, <2>2
  <2>4. /\ DOMAIN StandardDmrsPorts(rank) = 1..rank
        /\ \A i \in 1..rank : StandardDmrsPorts(rank)[i] = 999 + i
    BY <2>1
  <2>5. QED
    BY <1>1, <2>3, <2>4
<1>4. QED
  BY <1>2, <1>3

\* What both compilers accept and only the loader does not check is loaded.
LEMMA LoaderAgrees ==
  ASSUME Merges, Compiles, PlanSound(plan), config = RuntimeConfig, ~OnlyLoaderChecks
  PROVE  Loads
<1>1. Rank \in 1..4 /\ Rank \in Radio.supported_ranks
  BY DEF Merges, RadioMerges, AllocationMerges
<1>2. /\ config.radio = Radio /\ config.grant = Grant /\ config.plan = plan
      /\ config.rank = Rank /\ config.num_tx_ports = StandardPorts(Rank)
      /\ config.max_layers = 4 /\ config.mode = Mode
      /\ config.dmrs_ports = StandardDmrsPorts(Rank)
      /\ config.gain = IF Grant.gain = "tiny" THEN "zero" ELSE Grant.gain
  BY PackedFields
<1>3. SpatialValid(config)
  <2>1. /\ Radio.architecture \in {"full_digital", "hybrid", "analog"}
        /\ Radio.tx_antennas \in 1..16 /\ Radio.tx_rf_chains \in 1..Radio.tx_antennas
        /\ Radio.rx_antennas \in 1..64 /\ Radio.rx_rf_chains \in 1..Radio.rx_antennas
        /\ Radio.architecture = "full_digital" =>
             Radio.tx_rf_chains = Radio.tx_antennas /\ Radio.rx_rf_chains = Radio.rx_antennas
        /\ Rank <= Radio.tx_rf_chains /\ Rank <= Radio.rx_rf_chains
        /\ StandardPorts(Rank) <= Radio.tx_rf_chains
        /\ Mode = "bypass" => StandardPorts(Rank) = Rank
    BY <1>1 DEF Compiles, SpatialCompiles
  <2>2. Radio.max_rx_antennas \in Radio.rx_antennas..64
    BY <2>1 DEF Merges, RadioMerges
  <2>3. 4 \in Rank..4 /\ StandardPorts(Rank) \in Rank..4
    BY <1>1, PortsOfRank
  <2>4. /\ plan.rx_bucket \in Radio.rx_antennas..Radio.max_rx_antennas
        /\ plan.layer_bucket \in Rank..StorageLayers
        /\ plan.adapter_required \/ (Radio.rx_antennas = plan.rx_bucket /\ Rank = plan.layer_bucket)
    BY DEF PlanSound
  <2>5. QED
    BY <1>1, <1>2, <2>1, <2>2, <2>3, <2>4, Zenon DEF SpatialValid
<1>4. WaveformValid(config)
  <2>1. /\ Grant.qm \in {2, 4, 6, 8} /\ Grant.fft_size \in 128..4096
        /\ Grant.num_rb \in 1..275 /\ Grant.rb_start + Grant.num_rb <= 275
        /\ Grant.used_subcarriers = Grant.num_rb * 12
        /\ Grant.used_subcarriers <= Grant.padded_subcarriers
        /\ Grant.padded_subcarriers <= Grant.fft_size
    BY DEF Compiles, WaveformCompiles
  <2>2. Grant.num_symbols \in 1..14 /\ Grant.n_scid <= 1
    <3>1. AllocationMerges /\ SchedulerMerges
      BY DEF Merges
    <3>2. Grant.num_symbols \in 1..14
      BY <3>1 DEF AllocationMerges
    <3>3. Grant.n_scid \in 0..1
      BY <3>1 DEF SchedulerMerges
    <3>4. QED
      BY <3>2, <3>3
  <2>3. Cardinality(Grant.dmrs_symbols) \in 1..(Grant.num_symbols - 1)
    <3>1. Grant.dmrs_symbols \in SUBSET (0..(Grant.num_symbols - 1)) /\ Grant.dmrs_symbols # {}
      <4>1. AllocationMerges /\ WaveformCompiles
        BY DEF Merges, Compiles
      <4>2. /\ Grant.dmrs_symbols # {}
            /\ \A s \in Grant.dmrs_symbols : s \in 0..13 /\ s < Grant.num_symbols
        BY <4>1 DEF AllocationMerges, WaveformCompiles
      <4>3. QED
        BY <2>2, <4>2
    <3>2. /\ Cardinality(Grant.dmrs_symbols) \in Nat
          /\ Cardinality(Grant.dmrs_symbols) <= Grant.num_symbols
          /\ Cardinality(Grant.dmrs_symbols) # 0
      BY <2>2, <3>1, SymbolsFit
    <3>3. Cardinality(Grant.dmrs_symbols) # Grant.num_symbols
      BY DEF OnlyLoaderChecks
    <3>4. QED
      BY <2>2, <3>2, <3>3
  <2>4. /\ Len(config.dmrs_ports) = config.rank
        /\ \A i, j \in DOMAIN config.dmrs_ports :
             i # j => config.dmrs_ports[i] # config.dmrs_ports[j]
    <3>1. /\ Len(StandardDmrsPorts(Rank)) = Rank
          /\ DOMAIN StandardDmrsPorts(Rank) = 1..Rank
          /\ \A i, j \in 1..Rank :
               i # j => StandardDmrsPorts(Rank)[i] # StandardDmrsPorts(Rank)[j]
      BY <1>1, PortsOfRank
    <3>2. config.dmrs_ports = StandardDmrsPorts(Rank) /\ config.rank = Rank
      BY <1>2
    <3>3. ASSUME NEW i \in DOMAIN config.dmrs_ports, NEW j \in DOMAIN config.dmrs_ports, i # j
          PROVE  config.dmrs_ports[i] # config.dmrs_ports[j]
      BY <3>1, <3>2, <3>3
    <3>4. QED
      BY <3>1, <3>2, <3>3
  <2>5. /\ Grant.type \in {1, 2} /\ Grant.length \in {1, 2}
        /\ Grant.num_cdm_groups \in 1..3
    BY DEF OnlyLoaderChecks
  <2>6. QED
    <3>1. /\ Grant.qm \in {2, 4, 6, 8} /\ Grant.num_symbols \in 1..14
          /\ Grant.fft_size \in 128..4096
      BY <2>1, <2>2
    <3>2. Grant.n_scid <= 1
      BY <2>2
    <3>3. config.grant = Grant
      BY <1>2
    <3>4. QED
      BY <2>1, <2>3, <2>4, <2>5, <3>1, <3>2, <3>3 DEF WaveformValid
<1>5. DynamicValid(config)
  <2>1. Grant.slot_number <= 1023
    <3>1. Grant.slot_number \in 0..1023
      BY DEF Merges, SchedulerMerges
    <3>2. QED
      BY <3>1
  <2>2. Grant.data_scrambling_id <= 1023
    <3>1. Grant.data_scrambling_id \in 0..1023
      BY DEF Merges, SchedulerMerges
    <3>2. QED
      BY <3>1
  <2>3. /\ Grant.additional_position <= 3 /\ Grant.mapping_type <= 1
        /\ Grant.codeword_index <= 1
    <3>1. /\ Grant.codeword_index \in 0..1
          /\ Grant.additional_position \in 0..3 /\ Grant.mapping_type \in 0..1
      BY DEF Merges, SchedulerMerges
    <3>2. QED
      BY <3>1
  <2>4. Grant.rnti # 0 /\ Grant.awgn = "normal"
    BY DEF Merges, SchedulerMerges
  <2>5. /\ Grant.start_symbol <= 13 /\ Grant.num_symbols # 0
        /\ Grant.start_symbol + Grant.num_symbols <= 14
    BY DEF Merges, AllocationMerges
  <2>6. config.gain = "normal"
    <3>1. Grant.gain \in {"tiny", "normal"} /\ Grant.gain # "tiny"
      BY DEF Merges, SchedulerMerges, OnlyLoaderChecks
    <3>2. QED
      BY <1>2, <3>1
  <2>7. /\ plan.data_re = DataRe /\ plan.data_stride >= plan.data_re
        /\ plan.row_stride >= Grant.used_subcarriers
    BY DEF PlanSound
  <2>8. plan.data_re = (Grant.num_symbols - Cardinality(Grant.dmrs_symbols)) * Grant.used_subcarriers
    BY <2>7, Zenon DEF DataRe
  <2>9. config.grant = Grant /\ config.plan = plan
    BY <1>2
  <2>10. QED
    BY <2>1, <2>2, <2>3, <2>4, <2>5, <2>6, <2>7, <2>8, <2>9 DEF DynamicValid
<1>6. job.run_rank # 0 => config.rank = job.run_rank
  BY <1>2 DEF OnlyLoaderChecks
<1>7. QED
  BY <1>3, <1>4, <1>5, <1>6 DEF Loads

-----------------------------------------------------------------------------
\* What the operators behind the first slot ask was asked before it.
LEMMA LateOperatorsAgree ==
  ASSUME Loads, RxPrepares
  PROVE  DmrsGen(Derived) /\ Descramble(Derived) /\ RateDematch(Derived)
<1>1. /\ BandKnown(Derived) /\ StandardMask(Derived)
      /\ TwoSymbols(Derived) /\ DmrsPortsKnown(Derived)
      /\ PortsKnown(Derived) /\ Derived.num_rx = 64 /\ DmrsKnown(Derived)
  BY DEF RxPrepares, ReDemap, DmrsLs, IoPack, QamDemod
<1>2. Derived.grant.data_scrambling_id <= 1023
  <2>1. Derived.grant = config.grant
    BY DEF Derived
  <2>2. config.grant.data_scrambling_id <= 1023
    BY DEF Loads, DynamicValid
  <2>3. QED
    BY <2>1, <2>2
<1>3. RateDematch(Derived) /\ DmrsGen(Derived)
  BY <1>1, Zenon DEF RateDematch, DmrsGen
<1>4. QED
  BY <1>2, <1>3, Zenon DEF Descramble

\* The receiver's operators take an eligible plan of the receiver's shape, if its
\* grant has the usual value in every field the registry does not ask about.
LEMMA OperatorsAgree ==
  ASSUME Merges, Compiles, OperatorsPass, config = RuntimeConfig, Loads, RxShape,
         job.executable = "rx_chain", ~Unregistered
  PROVE  RxPrepares
<1>1. /\ config.grant = Grant /\ config.rank = Rank /\ config.rank = 4
      /\ config.num_tx_ports = StandardPorts(Rank)
      /\ config.dmrs_ports = StandardDmrsPorts(Rank)
  BY PackedFields DEF RxShape
<1>2. /\ Derived.rank = 4 /\ Derived.num_tx_ports = 4 /\ Derived.num_rx = 64
      /\ Derived.grant = Grant /\ Derived.dmrs_ports = StandardDmrsPorts(4)
  <2>1. StandardPorts(4) = 4
    BY DEF StandardPorts
  <2>2. Capacity = 64
    BY DEF Capacity
  <2>3. QED
    BY <1>1, <2>1, <2>2 DEF Derived
<1>3. /\ Grant.qm = 8 /\ Grant.num_symbols = 14 /\ Grant.fft_size = 2048
      /\ Grant.used_subcarriers = 1596 /\ Grant.padded_subcarriers = 1664
      /\ Cardinality(Grant.dmrs_symbols) = 2
  BY DEF OperatorsPass
<1>4. Grant.num_rb = 133
  BY <1>3 DEF Compiles, WaveformCompiles
<1>5. Grant.start_symbol = 0
  <2>1. Grant.start_symbol \in 0..13 /\ Grant.start_symbol + Grant.num_symbols <= 14
    BY DEF Merges, AllocationMerges
  <2>2. QED
    BY <1>3, <2>1
<1>6. Grant.n_scid <= 1
  <2>1. Grant.n_scid \in 0..1
    BY DEF Merges, SchedulerMerges
  <2>2. QED
    BY <2>1
<1>7. /\ Grant.rb_start = 0 /\ Grant.dmrs_symbols = {2, 11} /\ Grant.type = 1
      /\ Grant.length = 1 /\ Grant.num_cdm_groups = 2 /\ Grant.codeword_index = 0
  BY DEF Unregistered
<1>. DEFINE c == Derived
<1>8. BandKnown(c)
  BY <1>2, <1>3, <1>4, <1>5, <1>7 DEF BandKnown
<1>9. PortsKnown(c) /\ DmrsKnown(c) /\ StandardMask(c) /\ TwoSymbols(c)
  BY <1>2, <1>3, <1>6, <1>7 DEF PortsKnown, DmrsKnown, StandardMask, TwoSymbols
<1>10. DmrsPortsKnown(c)
  <2>1. /\ \A i \in 1..4 : StandardDmrsPorts(4)[i] \in 1000..1003
        /\ \A i, j \in 1..4 : i # j => StandardDmrsPorts(4)[i] # StandardDmrsPorts(4)[j]
    BY PortsOfRank
  <2>2. \A i \in 1..4 : \A j \in 1..(i - 1) : j \in 1..4 /\ i # j
    OBVIOUS
  <2>3. QED
    BY <1>2, <2>1, <2>2 DEF DmrsPortsKnown
<1>. HIDE DEF c
<1>11. /\ c.rank = 4 /\ c.num_tx_ports = 4 /\ c.num_rx = 64 /\ c.grant = Grant
  BY <1>2 DEF c
<1>12. ReDemap(c) /\ IoPack(c) /\ QamDemod(c) /\ LayerDemap(c)
  <2>1. c.rank \in 1..4 /\ c.num_rx \in 1..64
    BY <1>11
  <2>2. QED
    BY <1>8, <1>9, <1>11, <2>1 DEF ReDemap, IoPack, QamDemod, LayerDemap
<1>13. DmrsLs(c)
  <2>1. c.rank \in 1..4 /\ c.num_tx_ports >= c.rank
    BY <1>11
  <2>2. QED
    BY <1>3, <1>7, <1>9, <1>10, <1>11, <2>1 DEF DmrsLs
<1>14. QED
  BY <1>12, <1>13 DEF RxPrepares, c

-----------------------------------------------------------------------------
LEMMA InitHolds == ConfigInit => ConfigIInv
BY DEF ConfigInit, ConfigIInv, Behind, Why, Reached, PastMerge, PastCompile, PastEvaluate, PastPack,
       PastLoad, PastResolve, PastPrepare, PastSlots

\* What a stage asks of a job, a plan or a configuration that does not change.
LEMMA JobKept ==
  ASSUME job' = job
  PROVE  /\ (Merges' <=> Merges) /\ (Compiles' <=> Compiles)
         /\ Rank' = Rank /\ Radio' = Radio /\ Grant' = Grant /\ DataRe' = DataRe
<1>1. Radio' = Radio /\ Grant' = Grant
  BY DEF Radio, Grant
<1>2. Rank' = Rank /\ DataRe' = DataRe
  BY <1>1 DEF Rank, DataRe
<1>3. Mode' = Mode /\ Tpmi' = Tpmi /\ PrgSize' = PrgSize
  BY <1>1, <1>2 DEF Mode, Tpmi, PrgSize
<1>4. (RadioMerges' <=> RadioMerges)
  BY <1>1 DEF RadioMerges
<1>5. (AllocationMerges' <=> AllocationMerges)
  BY <1>1, <1>2, <1>3 DEF AllocationMerges
<1>6. (SchedulerMerges' <=> SchedulerMerges)
  BY <1>1 DEF SchedulerMerges
<1>7. (SpatialCompiles' <=> SpatialCompiles)
  BY <1>1, <1>2, <1>3 DEF SpatialCompiles
<1>8. (WaveformCompiles' <=> WaveformCompiles)
  BY <1>1 DEF WaveformCompiles
<1>9. (ReceiverCompiles' <=> ReceiverCompiles)
  BY <1>1 DEF ReceiverCompiles
<1>10. QED
  BY <1>1, <1>2, <1>4, <1>5, <1>6, <1>7, <1>8, <1>9 DEF Merges, Compiles

LEMMA PlanKept ==
  ASSUME job' = job
  PROVE  /\ PlanSound(plan') => PlanSound(plan)'
         /\ plan'.data_stride = plan.data_stride => (OperatorsPass' <=> OperatorsPass)
         /\ plan' = plan => RuntimeConfig' = RuntimeConfig
<1>1. Radio' = Radio /\ Grant' = Grant /\ Rank' = Rank /\ DataRe' = DataRe
  BY JobKept
<1>2. Mode' = Mode
  BY <1>1 DEF Mode
<1>3. PlanSound(plan') => PlanSound(plan)'
  BY <1>1 DEF PlanSound
<1>4. plan'.data_stride = plan.data_stride => (OperatorsPass' <=> OperatorsPass)
  BY <1>1, <1>2 DEF OperatorsPass
<1>5. plan' = plan => RuntimeConfig' = RuntimeConfig
  BY <1>1, <1>2 DEF RuntimeConfig
<1>6. QED
  BY <1>3, <1>4, <1>5

LEMMA ConfigKept ==
  ASSUME job' = job, config' = config
  PROVE  /\ (Loads' <=> Loads) /\ (RxShape' <=> RxShape) /\ Derived' = Derived
         /\ (RxPrepares' <=> RxPrepares) /\ (DmrsGen(Derived)' <=> DmrsGen(Derived))
         /\ (Descramble(Derived)' <=> Descramble(Derived))
         /\ (RateDematch(Derived)' <=> RateDematch(Derived))
<1>1. (SpatialValid(config)' <=> SpatialValid(config))
  BY DEF SpatialValid
<1>2. (WaveformValid(config)' <=> WaveformValid(config))
  BY DEF WaveformValid
<1>3. (DynamicValid(config)' <=> DynamicValid(config))
  BY DEF DynamicValid
<1>4. (Loads' <=> Loads)
  BY <1>1, <1>2, <1>3 DEF Loads
<1>5. (RxShape' <=> RxShape)
  BY DEF RxShape
<1>6. Derived' = Derived
  BY DEF Derived, Capacity
<1>. DEFINE c == Derived
<1>7. c' = c
  BY <1>6
<1>. HIDE DEF c
<1>8. /\ (BandKnown(c)' <=> BandKnown(c)) /\ (PortsKnown(c)' <=> PortsKnown(c))
      /\ (DmrsKnown(c)' <=> DmrsKnown(c)) /\ (StandardMask(c)' <=> StandardMask(c))
  BY <1>7 DEF BandKnown, PortsKnown, DmrsKnown, StandardMask
<1>9. (TwoSymbols(c)' <=> TwoSymbols(c)) /\ (DmrsPortsKnown(c)' <=> DmrsPortsKnown(c))
  BY <1>7 DEF TwoSymbols, DmrsPortsKnown
<1>10. (DmrsGen(c)' <=> DmrsGen(c)) /\ (RateDematch(c)' <=> RateDematch(c))
  BY <1>7, <1>8, <1>9 DEF DmrsGen, RateDematch
<1>11. (Descramble(c)' <=> Descramble(c))
  BY <1>7, <1>10 DEF Descramble
<1>12. (ReDemap(c)' <=> ReDemap(c)) /\ (IoPack(c)' <=> IoPack(c))
  BY <1>7, <1>8 DEF ReDemap, IoPack
<1>13. (DmrsLs(c)' <=> DmrsLs(c))
  BY <1>7, <1>9 DEF DmrsLs
<1>14. (QamDemod(c)' <=> QamDemod(c)) /\ (LayerDemap(c)' <=> LayerDemap(c))
  BY <1>7, <1>8, <1>9 DEF QamDemod, LayerDemap
<1>15. (RxPrepares' <=> RxPrepares)
  BY <1>12, <1>13, <1>14 DEF RxPrepares, c
<1>16. QED
  BY <1>4, <1>5, <1>6, <1>10, <1>11, <1>15 DEF c

-----------------------------------------------------------------------------
\* A refused job has come no further, and no state of it changes but, for the
\* registry, the plan.
LEMMA RefusedStep ==
  ASSUME ConfigIInv, stage # "refused", stage' = "refused", refusal' = stage,
         job' = job, config' = config, PlanSound(plan) => PlanSound(plan'),
         plan # << >> => plan'.data_stride = plan.data_stride,
         plan = << >> => plan' = plan,
         plan' = plan \/ (plan # << >> /\ (plan'.eligibility = "eligible" => OperatorsPass)),
         plan' # plan => stage = "compiled"
  PROVE  Behind'
<1>1. Reached' = Reached /\ Reached = stage
  BY DEF Reached
<1>2. /\ (Merges' <=> Merges) /\ (Compiles' <=> Compiles)
      /\ (Loads' <=> Loads) /\ (RxShape' <=> RxShape) /\ (RxPrepares' <=> RxPrepares)
  BY JobKept, ConfigKept
<1>3. /\ PlanSound(plan) => PlanSound(plan)'
      /\ plan'.data_stride = plan.data_stride => (OperatorsPass' <=> OperatorsPass)
      /\ plan' = plan => RuntimeConfig' = RuntimeConfig
  BY PlanKept
<1>4. QED
  BY <1>1, <1>2, <1>3
     DEF ConfigIInv, Behind, PastMerge, PastCompile, PastEvaluate, PastPack,
         PastLoad, PastResolve, PastPrepare, PastSlots

\* A job goes on past a stage that writes neither the plan nor the configuration.
LEMMA AcceptedStep ==
  ASSUME ConfigIInv, NEW to, stage # "refused", stage' = to, to # "refused",
         refusal' = refusal, job' = job, plan' = plan, config' = config,
         <<stage, to>> \in {<<"authored", "merged">>, <<"packed", "loaded">>,
                            <<"loaded", "resolved">>, <<"resolved", "prepared">>,
                            <<"prepared", "slots">>, <<"slots", "decoder">>},
         stage = "authored" => Merges,
         stage = "packed" => Loads,
         stage = "loaded" /\ job.executable = "rx_chain" => RxShape,
         stage = "resolved" /\ job.executable = "rx_chain" => RxPrepares,
         stage = "prepared" => job.executable = "rx_chain"
  PROVE  ConfigIInv'
<1>1. Reached' = to /\ Reached = stage
  BY DEF Reached
<1>2. /\ (Merges' <=> Merges) /\ (Compiles' <=> Compiles)
      /\ (Loads' <=> Loads) /\ (RxShape' <=> RxShape) /\ (RxPrepares' <=> RxPrepares)
  BY JobKept, ConfigKept
<1>3. /\ PlanSound(plan) => PlanSound(plan)'
      /\ OperatorsPass' <=> OperatorsPass
      /\ RuntimeConfig' = RuntimeConfig
  BY PlanKept
<1>4. Behind'
  BY <1>1, <1>2, <1>3
     DEF ConfigIInv, Behind, PastMerge, PastCompile, PastEvaluate, PastPack,
         PastLoad, PastResolve, PastPrepare, PastSlots
<1>5. refusal = "none"
  BY DEF ConfigIInv, Why
<1>6. Why'
  BY <1>5 DEF Why
<1>7. QED
  BY <1>4, <1>6 DEF ConfigIInv

-----------------------------------------------------------------------------
LEMMA MergeHolds == ASSUME ConfigIInv, Merge PROVE ConfigIInv'
<1>1. stage = "authored" /\ stage # "refused" /\ job' = job /\ plan' = plan /\ config' = config
  BY DEF Merge, Step
<1>2. CASE stage' = "merged" /\ refusal' = refusal /\ Merges
  BY <1>1, <1>2, AcceptedStep
<1>3. CASE stage' = "refused" /\ refusal' = "authored"
  <2>1. Behind'
    BY <1>1, <1>3, RefusedStep
  <2>2. Why'
    BY <1>3 DEF Why
  <2>3. QED
    BY <2>1, <2>2 DEF ConfigIInv
<1>4. QED
  BY <1>2, <1>3 DEF Merge, Step, Merges

LEMMA LoadHolds == ASSUME ConfigIInv, Load PROVE ConfigIInv'
<1>1. stage = "packed" /\ stage # "refused" /\ job' = job /\ plan' = plan /\ config' = config
  BY DEF Load, Step
<1>2. CASE stage' = "loaded" /\ refusal' = refusal /\ Loads
  BY <1>1, <1>2, AcceptedStep
<1>3. CASE stage' = "refused" /\ refusal' = "packed" /\ ~Loads
  <2>1. Behind'
    BY <1>1, <1>3, RefusedStep
  <2>2. Why'
    BY <1>1, <1>3, ConfigKept DEF Why
  <2>3. QED
    BY <2>1, <2>2 DEF ConfigIInv
<1>4. QED
  BY <1>2, <1>3 DEF Load, Step

LEMMA ResolveHolds == ASSUME ConfigIInv, Resolve PROVE ConfigIInv'
<1>1. stage = "loaded" /\ stage # "refused" /\ job' = job /\ plan' = plan /\ config' = config
  BY DEF Resolve, Step
<1>2. CASE stage' = "resolved" /\ refusal' = refusal
           /\ (job.executable = "rx_chain" => RxShape)
  BY <1>1, <1>2, AcceptedStep
<1>3. CASE stage' = "refused" /\ refusal' = "loaded"
  <2>1. Behind'
    BY <1>1, <1>3, RefusedStep
  <2>2. Why'
    BY <1>3 DEF Why
  <2>3. QED
    BY <2>1, <2>2 DEF ConfigIInv
<1>4. QED
  BY <1>2, <1>3 DEF Resolve, Step

LEMMA PrepareHolds == ASSUME ConfigIInv, Prepare PROVE ConfigIInv'
<1>1. stage = "resolved" /\ stage # "refused" /\ job' = job /\ plan' = plan /\ config' = config
  BY DEF Prepare, Step
<1>2. CASE stage' = "prepared" /\ refusal' = refusal
           /\ (job.executable = "rx_chain" => RxPrepares)
  BY <1>1, <1>2, AcceptedStep
<1>3. CASE stage' = "refused" /\ refusal' = "resolved"
           /\ (job.executable = "rx_chain" => ~RxPrepares)
  <2>1. Behind'
    BY <1>1, <1>3, RefusedStep
  <2>2. Why'
    BY <1>1, <1>3, ConfigKept DEF Why
  <2>3. QED
    BY <2>1, <2>2 DEF ConfigIInv
<1>4. QED
  BY <1>2, <1>3 DEF Prepare, Step

LEMMA EnterSlotsHolds == ASSUME ConfigIInv, EnterSlots PROVE ConfigIInv'
<1>1. /\ stage = "prepared" /\ stage # "refused" /\ job' = job /\ plan' = plan /\ config' = config
      /\ job.executable = "rx_chain"
  BY DEF EnterSlots, Step
<1>2. CASE stage' = "slots" /\ refusal' = refusal
  BY <1>1, <1>2, AcceptedStep
<1>3. CASE stage' = "refused" /\ refusal' = "prepared" /\ ~DmrsGen(Derived)
  <2>1. Behind'
    BY <1>1, <1>3, RefusedStep
  <2>2. Why'
    BY <1>1, <1>3, ConfigKept DEF Why
  <2>3. QED
    BY <2>1, <2>2 DEF ConfigIInv
<1>4. QED
  BY <1>2, <1>3 DEF EnterSlots, Step

LEMMA StartDecoderHolds == ASSUME ConfigIInv, StartDecoder PROVE ConfigIInv'
<1>1. stage = "slots" /\ stage # "refused" /\ job' = job /\ plan' = plan /\ config' = config
  BY DEF StartDecoder, Step
<1>2. CASE stage' = "decoder" /\ refusal' = refusal
  BY <1>1, <1>2, AcceptedStep
<1>3. CASE stage' = "refused" /\ refusal' = "slots"
           /\ ~(Descramble(Derived) /\ RateDematch(Derived))
  <2>1. Behind'
    BY <1>1, <1>3, RefusedStep
  <2>2. Why'
    BY <1>1, <1>3, ConfigKept DEF Why
  <2>3. QED
    BY <2>1, <2>2 DEF ConfigIInv
<1>4. QED
  BY <1>2, <1>3 DEF StartDecoder, Step

LEMMA CompileHolds == ASSUME ConfigIInv, Compile PROVE ConfigIInv'
<1>1. stage = "merged" /\ stage # "refused" /\ job' = job /\ config' = config
  BY DEF Compile, Step
<1>2. Merges /\ plan = << >>
  BY <1>1 DEF ConfigIInv, Behind, Reached, PastMerge, PastCompile, PastEvaluate, PastPack,
              PastLoad, PastResolve, PastPrepare, PastSlots
<1>3. CASE stage' = "compiled" /\ refusal' = refusal /\ Compiles
  <2>1. plan' = Plan
    BY <1>3 DEF Compile
  <2>2. PlanSound(plan') /\ plan'.eligibility = "not_evaluated"
    BY <1>2, <1>3, <2>1, PlanIsSound DEF Plan
  <2>3. Reached' = "compiled"
    BY <1>3 DEF Reached
  <2>4. Merges' /\ Compiles' /\ PlanSound(plan)'
    BY <1>1, <1>2, <1>3, <2>2, JobKept, PlanKept
  <2>5. Behind'
    BY <1>3, <2>2, <2>3, <2>4
       DEF Behind, PastMerge, PastCompile, PastEvaluate, PastPack,
           PastLoad, PastResolve, PastPrepare, PastSlots
  <2>6. refusal = "none"
    BY <1>1 DEF ConfigIInv, Why
  <2>7. QED
    BY <1>3, <2>5, <2>6 DEF ConfigIInv, Why
<1>4. CASE stage' = "refused" /\ refusal' = "merged"
  <2>1. plan' = plan
    BY <1>4 DEF Compile
  <2>2. Behind'
    BY <1>1, <1>4, <2>1, RefusedStep
  <2>3. Why'
    BY <1>4 DEF Why
  <2>4. QED
    BY <2>2, <2>3 DEF ConfigIInv
<1>5. QED
  BY <1>3, <1>4 DEF Compile, Step, Compiles

LEMMA EvaluateHolds == ASSUME ConfigIInv, Evaluate PROVE ConfigIInv'
<1>1. stage = "compiled" /\ stage # "refused" /\ job' = job /\ config' = config
  BY DEF Evaluate, Step
<1>2. /\ Merges /\ Compiles /\ PlanSound(plan) /\ plan.eligibility = "not_evaluated"
  BY <1>1 DEF ConfigIInv, Behind, Reached, PastMerge, PastCompile, PastEvaluate, PastPack,
              PastLoad, PastResolve, PastPrepare, PastSlots
<1>3. plan # << >>
  <2>1. "data_re" \in DOMAIN plan
    BY <1>2 DEF PlanSound
  <2>2. DOMAIN << >> = {}
    OBVIOUS
  <2>3. QED
    BY <2>1, <2>2
<1>4. /\ PlanSound(plan') /\ plan'.data_stride = plan.data_stride
      /\ plan'.eligibility = "eligible" => OperatorsPass
  BY <1>2, EvaluatedIsSound DEF Evaluate
<1>5. CASE stage' = "evaluated" /\ refusal' = refusal
  <2>1. Reached' = "evaluated"
    BY <1>5 DEF Reached
  <2>2. /\ Merges' /\ Compiles' /\ PlanSound(plan)'
        /\ plan'.eligibility = "eligible" => OperatorsPass'
    BY <1>1, <1>2, <1>4, JobKept, PlanKept
  <2>3. Behind'
    BY <1>5, <2>1, <2>2
       DEF Behind, PastMerge, PastCompile, PastEvaluate, PastPack,
           PastLoad, PastResolve, PastPrepare, PastSlots
  <2>4. refusal = "none"
    BY <1>1 DEF ConfigIInv, Why
  <2>5. QED
    BY <1>5, <2>3, <2>4 DEF ConfigIInv, Why
<1>6. CASE stage' = "refused" /\ refusal' = "compiled"
  <2>1. Behind'
    BY <1>1, <1>3, <1>4, <1>6, RefusedStep
  <2>2. Why'
    BY <1>6 DEF Why
  <2>3. QED
    BY <2>1, <2>2 DEF ConfigIInv
<1>7. QED
  BY <1>5, <1>6 DEF Evaluate, Step

LEMMA PackHolds == ASSUME ConfigIInv, Pack PROVE ConfigIInv'
<1>1. stage = "evaluated" /\ stage # "refused" /\ job' = job /\ plan' = plan
  BY DEF Pack, Step
<1>2. /\ Merges /\ Compiles /\ PlanSound(plan)
      /\ plan.eligibility = "eligible" => OperatorsPass
  BY <1>1 DEF ConfigIInv, Behind, Reached, PastMerge, PastCompile, PastEvaluate, PastPack,
              PastLoad, PastResolve, PastPrepare, PastSlots
<1>3. CASE stage' = "packed" /\ refusal' = refusal
  <2>1. config' = RuntimeConfig
    BY <1>3 DEF Pack
  <2>2. Reached' = "packed"
    BY <1>3 DEF Reached
  <2>3. /\ Merges' /\ Compiles' /\ PlanSound(plan)' /\ (OperatorsPass' <=> OperatorsPass)
        /\ config' = RuntimeConfig'
    BY <1>1, <1>2, <2>1, JobKept, PlanKept
  <2>4. Behind'
    BY <1>1, <1>2, <1>3, <2>2, <2>3
       DEF ConfigIInv, Behind, Reached, PastMerge, PastCompile, PastEvaluate, PastPack,
           PastLoad, PastResolve, PastPrepare, PastSlots
  <2>5. refusal = "none"
    BY <1>1 DEF ConfigIInv, Why
  <2>6. QED
    BY <1>3, <2>4, <2>5 DEF ConfigIInv, Why
<1>4. CASE stage' = "refused" /\ refusal' = "evaluated"
  <2>1. config' = config
    BY <1>4 DEF Pack
  <2>2. Behind'
    BY <1>1, <1>4, <2>1, RefusedStep
  <2>3. Why'
    BY <1>4 DEF Why
  <2>4. QED
    BY <2>2, <2>3 DEF ConfigIInv
<1>5. QED
  BY <1>3, <1>4 DEF Pack, Step

-----------------------------------------------------------------------------
LEMMA StepHolds == ASSUME ConfigIInv, [ConfigNext]_configVars PROVE ConfigIInv'
<1>1. CASE UNCHANGED configVars
  <2>1. job' = job /\ plan' = plan /\ config' = config /\ stage' = stage /\ refusal' = refusal
    BY <1>1 DEF configVars
  <2>2. Reached' = Reached
    BY <2>1 DEF Reached
  <2>3. /\ (Merges' <=> Merges) /\ (Compiles' <=> Compiles)
        /\ (Loads' <=> Loads) /\ (RxShape' <=> RxShape) /\ (RxPrepares' <=> RxPrepares)
        /\ (DmrsGen(Derived)' <=> DmrsGen(Derived))
        /\ (Descramble(Derived)' <=> Descramble(Derived))
        /\ (RateDematch(Derived)' <=> RateDematch(Derived))
    BY <2>1, JobKept, ConfigKept
  <2>4. /\ PlanSound(plan) => PlanSound(plan)'
        /\ (OperatorsPass' <=> OperatorsPass) /\ RuntimeConfig' = RuntimeConfig
    BY <2>1, PlanKept
  <2>5. Behind'
    BY <2>1, <2>2, <2>3, <2>4
       DEF ConfigIInv, Behind, PastMerge, PastCompile, PastEvaluate, PastPack,
           PastLoad, PastResolve, PastPrepare, PastSlots
  <2>6. Why'
    BY <2>1, <2>3 DEF ConfigIInv, Why
  <2>7. QED
    BY <2>5, <2>6 DEF ConfigIInv
<1>2. CASE ConfigNext
  BY <1>2, MergeHolds, CompileHolds, EvaluateHolds, PackHolds, LoadHolds, ResolveHolds,
     PrepareHolds, EnterSlotsHolds, StartDecoderHolds DEF ConfigNext
<1>3. QED
  BY <1>1, <1>2

\* A refused job was refused where it says it was.
LEMMA RefusedWhere ==
  ASSUME ConfigIInv, refusal # "none"
  PROVE  Reached = refusal
BY DEF ConfigIInv, Why, Reached
-----------------------------------------------------------------------------
\* The generator's radios with the full-band grant: what both compilers, the
\* registry and the loader ask holds of each, by the numbers in its fields.

\* Where such a job may be, and what its plan is until the registry is asked.
GeneratedIInv ==
  job \in GeneratedJobs =>
    /\ stage \in {"authored", "merged", "compiled", "evaluated", "packed", "loaded"}
    /\ stage = "compiled" => plan = Plan

\* The fields of such a job.
LEMMA GeneratedFields ==
  ASSUME job \in GeneratedJobs
  PROVE  \E tx \in 1..16, rx \in 1..64 :
           /\ job.rank \in SupportedRanks(tx, rx)
           /\ job.radio = FullDigital(tx, rx) /\ job.grant = FullBand
           /\ job.capabilities = "require" /\ job.executable = "contract"
           /\ job.run_rank = job.rank
<1>1. PICK tx \in 1..16, rx \in 1..64 : \E rank \in SupportedRanks(tx, rx) :
              job = Job(FullDigital(tx, rx), FullBand, rank, "require", "contract", rank)
  BY DEF GeneratedJobs
<1>2. PICK rank \in SupportedRanks(tx, rx) :
              job = Job(FullDigital(tx, rx), FullBand, rank, "require", "contract", rank)
  BY <1>1
<1>3. /\ job.rank = rank /\ job.radio = FullDigital(tx, rx) /\ job.grant = FullBand
      /\ job.capabilities = "require" /\ job.executable = "contract" /\ job.run_rank = rank
  BY <1>2 DEF Job
<1>4. QED
  BY <1>3

\* Its grant.
LEMMA GeneratedGrant ==
  ASSUME job \in GeneratedJobs
  PROVE  Grant = FullBand
BY GeneratedFields DEF Grant

\* The fields of its radio.
LEMMA GeneratedRadio ==
  ASSUME job \in GeneratedJobs
  PROVE  /\ Radio.architecture = "full_digital"
         /\ Radio.tx_antennas \in 1..16 /\ Radio.tx_rf_chains = Radio.tx_antennas
         /\ Radio.rx_antennas \in 1..64 /\ Radio.rx_rf_chains = Radio.rx_antennas
         /\ Radio.supported_ranks = SupportedRanks(Radio.tx_antennas, Radio.rx_antennas)
         /\ Radio.pusch_port_policy = "nr_4port" /\ Radio.antenna_mapping = "semi_unitary_dft"
         /\ Radio.max_rx_antennas = 64 /\ Radio.rx_buckets = {8, 16, 32, 64}
         /\ Radio.storage_layers = 16
         /\ job.rank \in Radio.supported_ranks
<1>1. PICK tx \in 1..16, rx \in 1..64 :
           job.rank \in SupportedRanks(tx, rx) /\ job.radio = FullDigital(tx, rx)
  BY GeneratedFields
<1>2. Radio = FullDigital(tx, rx)
  BY <1>1 DEF Radio
<1>3. Radio.tx_antennas = tx /\ Radio.rx_antennas = rx
      /\ Radio.supported_ranks = SupportedRanks(tx, rx)
  BY <1>2 DEF FullDigital
<1>4. /\ Radio.architecture = "full_digital"
      /\ Radio.tx_rf_chains = tx /\ Radio.rx_rf_chains = rx
      /\ Radio.pusch_port_policy = "nr_4port" /\ Radio.antenna_mapping = "semi_unitary_dft"
      /\ Radio.max_rx_antennas = 64 /\ Radio.rx_buckets = {8, 16, 32, 64}
      /\ Radio.storage_layers = 16
  BY <1>2 DEF FullDigital
<1>5. QED
  BY <1>1, <1>3, <1>4

\* Its rank: no more than the antennas and, with its ports, the chains carry.
LEMMA GeneratedRank ==
  ASSUME job \in GeneratedJobs
  PROVE  /\ Rank = job.rank /\ Rank \in 1..4 /\ Rank \in Radio.supported_ranks
         /\ Rank <= Radio.rx_antennas /\ Rank <= Radio.tx_antennas
         /\ Radio.supported_ranks \subseteq 1..4
         /\ \A n \in Radio.supported_ranks : StandardPorts(n) <= Radio.tx_antennas
         /\ Mode = IF Rank = 3 THEN "codebook" ELSE "bypass"
         /\ Tpmi = IF Rank = 3 THEN 6 ELSE 0
         /\ PrgSize = 4
<1>1. Radio.tx_antennas \in 1..16 /\ Radio.rx_antennas \in 1..64
  BY GeneratedRadio
<1>2. /\ Radio.supported_ranks = SupportedRanks(Radio.tx_antennas, Radio.rx_antennas)
      /\ job.rank \in Radio.supported_ranks
  BY GeneratedRadio
<1>3. \A n \in Radio.supported_ranks :
        /\ n \in 1..4 /\ n <= Radio.rx_antennas /\ n <= Radio.tx_antennas
        /\ n = 3 => Radio.tx_antennas >= 4
  BY <1>1, <1>2 DEF SupportedRanks
<1>4. job.rank \in 1..4 /\ Rank = job.rank
  BY <1>2, <1>3 DEF Rank, Absent
<1>5. \A n \in Radio.supported_ranks : StandardPorts(n) <= Radio.tx_antennas
  BY <1>1, <1>3 DEF StandardPorts
<1>6. /\ Mode = IF Rank = 3 THEN "codebook" ELSE "bypass"
      /\ Tpmi = IF Rank = 3 THEN 6 ELSE 0
      /\ PrgSize = 4
  BY GeneratedGrant DEF Mode, Tpmi, PrgSize, Absent, FullBand
<1>7. QED
  BY <1>2, <1>3, <1>4, <1>5, <1>6

\* Both compilers take it, and the loader has nothing of its own against it.
LEMMA GeneratedCompiles ==
  ASSUME job \in GeneratedJobs
  PROVE  Merges /\ Compiles /\ Packs /\ ~OnlyLoaderChecks
<1>1. RadioMerges
  <2>1. Radio.supported_ranks # {} /\ Radio.supported_ranks \subseteq 1..4
    BY GeneratedRank
  <2>2. /\ Radio.rx_antennas \in 1..64 /\ Radio.max_rx_antennas = 64
        /\ Radio.rx_buckets = {8, 16, 32, 64}
    BY GeneratedRadio
  <2>3. Radio.rx_buckets # {} /\ Radio.rx_buckets \subseteq 1..64
    BY <2>2
  <2>4. Radio.max_rx_antennas \in 1..64 /\ Radio.max_rx_antennas >= Radio.rx_antennas
    BY <2>2
  <2>5. QED
    BY <2>1, <2>3, <2>4, GeneratedRadio DEF RadioMerges
<1>2. AllocationMerges
  <2>1. Grant.rank \in 1..4 /\ Rank \in Radio.supported_ranks
    BY GeneratedGrant, GeneratedRank DEF FullBand
  <2>2. /\ Grant.num_symbols \in 1..14 /\ Grant.start_symbol \in 0..13
        /\ Grant.start_symbol + Grant.num_symbols <= 14
        /\ Grant.dmrs_symbols # {}
        /\ \A s \in Grant.dmrs_symbols :
             /\ s \in 0..13 /\ s >= Grant.start_symbol
             /\ s < Grant.start_symbol + Grant.num_symbols
    <3>1. Grant.num_symbols = 14 /\ Grant.start_symbol = 0 /\ Grant.dmrs_symbols = {2, 11}
      BY GeneratedGrant DEF FullBand
    <3>2. QED
      BY <3>1
  <2>3. Grant.ports \in {<< >>, StandardDmrsPorts(Rank)}
    BY GeneratedGrant DEF FullBand
  <2>4. Grant.mode \in {"auto", "bypass", "codebook", "non_codebook"}
    BY GeneratedGrant DEF FullBand
  <2>5. Tpmi \in UInt16 /\ PrgSize \in 1..275
    BY GeneratedRank DEF UInt16
  <2>6. QED
    BY <2>1, <2>2, <2>3, <2>4, <2>5, Zenon DEF AllocationMerges
<1>3. SchedulerMerges
  <2>1. /\ Grant.slot_number = 0 /\ Grant.rnti = 12345 /\ Grant.data_scrambling_id = 321
        /\ Grant.dmrs_scrambling_id = 321 /\ Grant.codeword_index = 0
        /\ Grant.additional_position = 0 /\ Grant.mapping_type = 0 /\ Grant.n_scid = 0
        /\ Grant.gain = "normal" /\ Grant.awgn = "normal"
    BY GeneratedGrant DEF FullBand
  <2>2. QED
    BY <2>1 DEF SchedulerMerges, UInt16
<1>4. SpatialCompiles
  <2>1. /\ Rank <= Radio.tx_rf_chains /\ Rank <= Radio.rx_rf_chains
        /\ \A n \in Radio.supported_ranks : StandardPorts(n) <= Radio.tx_rf_chains
        /\ Mode = "bypass" => StandardPorts(Rank) = Rank
    BY GeneratedRadio, GeneratedRank DEF StandardPorts
  <2>2. /\ Radio.tx_rf_chains \in 1..Radio.tx_antennas
        /\ Radio.rx_rf_chains \in 1..Radio.rx_antennas
    BY GeneratedRadio
  <2>3. QED
    BY <2>1, <2>2, GeneratedRadio DEF SpatialCompiles
<1>5. WaveformCompiles
  <2>1. /\ Grant.qm = 8 /\ Grant.fft_size = 2048 /\ Grant.num_rb = 133 /\ Grant.rb_start = 0
        /\ Grant.used_subcarriers = 1596 /\ Grant.padded_subcarriers = 1664
        /\ Grant.dmrs_symbols = {2, 11} /\ Grant.num_symbols = 14
        /\ Grant.data_re_alignment = 64 /\ Grant.qam_row_alignment = 64
    BY GeneratedGrant DEF FullBand
  <2>2. QED
    BY <2>1 DEF WaveformCompiles
<1>6. ReceiverCompiles
  <2>1. /\ Radio.rx_antennas \in 1..64 /\ Radio.max_rx_antennas = 64
        /\ Radio.rx_buckets = {8, 16, 32, 64}
    BY GeneratedRadio
  <2>2. 64 \in Radio.rx_buckets /\ 64 >= Radio.rx_antennas
    BY <2>1
  <2>3. QED
    BY <2>1, <2>2 DEF ReceiverCompiles
<1>7. Cardinality(Grant.dmrs_symbols) = 2
  <2>1. Grant.dmrs_symbols = {2, 11}
    BY GeneratedGrant DEF FullBand
  <2>2. QED
    BY <2>1, TwoDmrsSymbols, Zenon
<1>8. Packs
  <2>1. Grant.type = 1 /\ Grant.length = 1 /\ Grant.num_cdm_groups = 2
    BY GeneratedGrant DEF FullBand
  <2>2. QED
    BY <2>1 DEF Packs, UInt16
<1>9. ~OnlyLoaderChecks
  <2>1. Rank = job.run_rank
    BY GeneratedFields, GeneratedRank
  <2>2. QED
    BY <1>7, <2>1, GeneratedGrant DEF OnlyLoaderChecks, FullBand
<1>10. QED
  BY <1>1, <1>2, <1>3, <1>4, <1>5, <1>6, <1>8, <1>9 DEF Merges, Compiles

\* A build is there for it (the one for every rank), and every operator passes:
\* twelve symbols of 1596 subcarriers, aligned to 64, are the stride they ask for.
LEMMA GeneratedIsEligible ==
  ASSUME job \in GeneratedJobs, plan = Plan
  PROVE  Evaluated.eligibility = "eligible"
<1>1. Matches(Variants[2])
  <2>1. /\ Variants[2].ranks = 1..4 /\ Variants[2].rx_bucket = 64 /\ Variants[2].bri_block = 8
    BY DEF Variants
  <2>2. Rank \in 1..4 /\ Radio.rx_antennas \in 1..64 /\ Radio.max_rx_antennas = 64
    BY GeneratedRadio, GeneratedRank
  <2>3. /\ Grant.num_symbols = 14
        /\ Grant.used_subcarriers = 1596 /\ Grant.padded_subcarriers = 1664
    BY GeneratedGrant DEF FullBand
  <2>4. QED
    BY <2>1, <2>2, <2>3 DEF Matches
<1>2. Matching # {}
  BY <1>1 DEF Matching, Variants
<1>3. Cardinality(Grant.dmrs_symbols) = 2
  <2>1. Grant.dmrs_symbols = {2, 11}
    BY GeneratedGrant DEF FullBand
  <2>2. QED
    BY <2>1, TwoDmrsSymbols, Zenon
<1>4. plan.data_stride = 19200
  <2>1. DataRe = 19152
    BY <1>3, GeneratedGrant DEF DataRe, FullBand
  <2>2. plan.data_stride = AlignUp(DataRe, 64)
    BY GeneratedGrant DEF Plan, FullBand
  <2>3. QED
    BY <2>1, <2>2 DEF AlignUp
<1>5. OperatorsPass
  <2>1. Rank \in 1..4 /\ StandardPorts(Rank) \in {1, 2, 4}
    BY GeneratedRank, PortsOfRank
  <2>2. Mode \in {"bypass", "codebook"}
    BY GeneratedRank
  <2>3. Radio.tx_antennas <= 16 /\ Radio.rx_antennas <= 64
    BY GeneratedRadio
  <2>4. QED
    BY <1>3, <1>4, <2>1, <2>2, <2>3, GeneratedRadio, GeneratedGrant DEF OperatorsPass, FullBand
<1>6. QED
  <2>. DEFINE first == CHOOSE n \in Matching : \A m \in Matching : n <= m
              w == WithVariant(Variants[first])
  <2>1. Evaluated = [w EXCEPT !.eligibility = "eligible"]
    BY <1>2, <1>5, Zenon DEF Evaluated
  <2>2. "eligibility" \in DOMAIN w
    <3>1. "eligibility" \in DOMAIN plan
      BY DEF Plan
    <3>2. DOMAIN w = DOMAIN plan
      BY DEF WithVariant
    <3>3. QED
      BY <3>1, <3>2
  <2>3. QED
    BY <2>1, <2>2

LEMMA GeneratedInit == ConfigInit => GeneratedIInv
BY DEF ConfigInit, GeneratedIInv

LEMMA GeneratedStep ==
  ASSUME ConfigIInv, GeneratedIInv, [ConfigNext]_configVars
  PROVE  GeneratedIInv'
<1>1. SUFFICES ASSUME job' \in GeneratedJobs PROVE GeneratedIInv'
  BY DEF GeneratedIInv
<1>2. job' = job
  BY DEF configVars, ConfigNext, Merge, Compile, Evaluate, Pack, Load, Resolve, Prepare,
         EnterSlots, StartDecoder, Step
<1>3. /\ job \in GeneratedJobs
      /\ stage \in {"authored", "merged", "compiled", "evaluated", "packed", "loaded"}
      /\ stage = "compiled" => plan = Plan
  BY <1>1, <1>2 DEF GeneratedIInv
<1>4. /\ Merges /\ Compiles /\ Packs /\ ~OnlyLoaderChecks
      /\ job.executable = "contract" /\ job.capabilities = "require"
  BY <1>3, GeneratedCompiles, GeneratedFields
<1>5. Plan' = Plan
  BY <1>2, JobKept DEF Plan, Mode, Tpmi, PrgSize
<1>6. CASE UNCHANGED configVars
  BY <1>3, <1>5, <1>6 DEF configVars, GeneratedIInv
<1>7. CASE Merge
  <2>1. stage' = "merged"
    BY <1>4, <1>7 DEF Merge, Step, Merges
  <2>2. QED
    BY <2>1 DEF GeneratedIInv
<1>8. CASE Compile
  <2>1. stage' = "compiled" /\ plan' = Plan
    BY <1>4, <1>8 DEF Compile, Step, Compiles
  <2>2. QED
    BY <1>5, <2>1 DEF GeneratedIInv
<1>9. CASE Evaluate
  <2>1. stage = "compiled"
    BY <1>9 DEF Evaluate, Step
  <2>2. Evaluated.eligibility = "eligible"
    BY <1>3, <2>1, GeneratedIsEligible
  <2>3. stage' = "evaluated"
    BY <1>9, <2>2 DEF Evaluate, Step
  <2>4. QED
    BY <2>3 DEF GeneratedIInv
<1>10. CASE Pack
  <2>1. stage' = "packed"
    BY <1>4, <1>10 DEF Pack, Step
  <2>2. QED
    BY <2>1 DEF GeneratedIInv
<1>11. CASE Load
  <2>1. stage = "packed"
    BY <1>11 DEF Load, Step
  <2>2. PlanSound(plan) /\ config = RuntimeConfig
    BY <2>1 DEF ConfigIInv, Behind, Reached, PastMerge, PastCompile, PastEvaluate, PastPack,
                PastLoad, PastResolve, PastPrepare, PastSlots
  <2>3. Loads
    BY <1>4, <2>2, LoaderAgrees
  <2>4. stage' = "loaded"
    BY <1>11, <2>3 DEF Load, Step
  <2>5. QED
    BY <2>4 DEF GeneratedIInv
<1>12. CASE Resolve
  BY <1>4, <1>12 DEF Resolve
<1>13. CASE Prepare \/ EnterSlots \/ StartDecoder
  BY <1>3, <1>13 DEF Prepare, EnterSlots, StartDecoder, Step
<1>14. QED
  BY <1>6, <1>7, <1>8, <1>9, <1>10, <1>11, <1>12, <1>13 DEF ConfigNext

-----------------------------------------------------------------------------
\* For every set of jobs: the C++ loader refuses a profile both compilers have
\* accepted only for a rank the caller does not expect, or for a field that is
\* nowhere checked before it.
THEOREM OnlyLoaderRefuses == ConfigSpec => []LoaderTakesWhatCompiled
<1>1. ASSUME ConfigIInv PROVE LoaderTakesWhatCompiled
  <2>1. CASE refusal = "packed"
    <3>1. Reached = "packed"
      BY <1>1, <2>1, RefusedWhere
    <3>2. Merges /\ Compiles /\ PlanSound(plan) /\ config = RuntimeConfig /\ ~Loads
      BY <1>1, <2>1, <3>1
         DEF ConfigIInv, Behind, Why, PastMerge, PastCompile, PastEvaluate, PastPack,
             PastLoad, PastResolve, PastPrepare, PastSlots
    <3>3. QED
      BY <3>2, LoaderAgrees DEF LoaderTakesWhatCompiled
  <2>2. QED
    BY <2>1 DEF LoaderTakesWhatCompiled
<1>2. QED
  BY <1>1, InitHolds, StepHolds, PTL DEF ConfigSpec

\* For every set of jobs: an operator of the receiver that refuses in a slot, or
\* behind the last one, would have refused before the first.
THEOREM RefusalsAreEarly == ConfigSpec => []NothingRefusedLate
<1>1. ASSUME ConfigIInv PROVE NothingRefusedLate
  <2>1. ASSUME refusal \in {"prepared", "slots"} PROVE FALSE
    <3>1. Reached \in {"prepared", "slots"}
      BY <1>1, <2>1, RefusedWhere
    <3>2. job.executable = "rx_chain"
      <4>1. CASE refusal = "prepared"
        BY <1>1, <4>1, Zenon DEF ConfigIInv, Why
      <4>2. CASE refusal = "slots"
        <5>1. Reached \in PastSlots
          BY <1>1, <4>2, RefusedWhere DEF PastSlots
        <5>2. QED
          BY <1>1, <5>1, Zenon DEF ConfigIInv, Behind
      <4>3. QED
        BY <2>1, <4>1, <4>2
    <3>3. Loads /\ RxPrepares
      BY <1>1, <3>1, <3>2
         DEF ConfigIInv, Behind, PastMerge, PastCompile, PastEvaluate, PastPack,
             PastLoad, PastResolve, PastPrepare, PastSlots
    <3>4. DmrsGen(Derived) /\ Descramble(Derived) /\ RateDematch(Derived)
      BY <3>3, LateOperatorsAgree
    <3>5. QED
      BY <1>1, <2>1, <3>4, Zenon DEF ConfigIInv, Why
  <2>2. QED
    BY <2>1 DEF NothingRefusedLate
<1>2. QED
  BY <1>1, InitHolds, StepHolds, PTL DEF ConfigSpec

\* For every set of jobs: an eligible plan of the receiver's shape is refused by
\* its operators only for a field the registry does not ask about.
THEOREM EligibleIsExecutable == ConfigSpec => []RegisteredIsExecutable
<1>1. ASSUME ConfigIInv PROVE RegisteredIsExecutable
  <2>1. ASSUME job.executable = "rx_chain", refusal \in {"resolved", "prepared", "slots"},
               Eligible, ~Unregistered
        PROVE  FALSE
    <3>1. Reached = refusal /\ Reached \in {"resolved", "prepared", "slots"}
      BY <1>1, <2>1, RefusedWhere
    <3>2. /\ Merges /\ Compiles /\ OperatorsPass /\ config = RuntimeConfig /\ Loads /\ RxShape
      BY <1>1, <2>1, <3>1
         DEF ConfigIInv, Behind, Eligible, PastMerge, PastCompile, PastEvaluate, PastPack,
             PastLoad, PastResolve, PastPrepare, PastSlots
    <3>3. RxPrepares
      BY <2>1, <3>2, OperatorsAgree
    <3>4. DmrsGen(Derived) /\ Descramble(Derived) /\ RateDematch(Derived)
      BY <3>2, <3>3, LateOperatorsAgree
    <3>5. QED
      BY <1>1, <2>1, <3>3, <3>4 DEF ConfigIInv, Why
  <2>2. QED
    BY <2>1 DEF RegisteredIsExecutable
<1>2. QED
  BY <1>1, InitHolds, StepHolds, PTL DEF ConfigSpec

\* For every set of jobs: a radio of the generator, of 1..16 by 1..64 antennas,
\* with the full-band grant and a rank it says it supports, is eligible and gets
\* through both compilers, the registry and the loader.
THEOREM GeneratedIsLoaded == ConfigSpec => []GeneratedRadiosLoad
<1>1. GeneratedIInv => GeneratedRadiosLoad
  BY DEF GeneratedIInv, GeneratedRadiosLoad
<1>2. ConfigInit => ConfigIInv /\ GeneratedIInv
  BY InitHolds, GeneratedInit
<1>3. ConfigIInv /\ GeneratedIInv /\ [ConfigNext]_configVars => (ConfigIInv /\ GeneratedIInv)'
  BY StepHolds, GeneratedStep
<1>4. QED
  BY <1>1, <1>2, <1>3, PTL DEF ConfigSpec

\* For every set of jobs: the transmitter prepares its operators for no profile at
\* all, eligible or not, because it hands one of them the precoding mode 2 for its
\* antennas and that operator knows modes 0 and 1.  Only the receiver gets there.
PreparedForReceiver ==
  stage \in {"prepared", "slots", "decoder"} => job.executable = "rx_chain"

THEOREM TransmitterPreparesNothing == ConfigSpec => []PreparedForReceiver
<1>1. ConfigInit => PreparedForReceiver
  BY DEF ConfigInit, PreparedForReceiver
<1>2. ASSUME PreparedForReceiver, [ConfigNext]_configVars PROVE PreparedForReceiver'
  <2>1. CASE UNCHANGED configVars
    BY <1>2, <2>1 DEF configVars, PreparedForReceiver
  <2>2. CASE Merge \/ Compile \/ Evaluate \/ Pack \/ Load \/ Resolve
    <3>1. stage' \in {"merged", "compiled", "evaluated", "packed", "loaded", "resolved", "refused"}
      BY <2>2 DEF Merge, Compile, Evaluate, Pack, Load, Resolve, Step
    <3>2. QED
      BY <3>1 DEF PreparedForReceiver
  <2>3. CASE Prepare
    <3>1. ~TxPrepares
      <4>1. AntennaConfig.codebook = 2
        BY DEF AntennaConfig, Derived
      <4>2. ~ReMap(AntennaConfig)
        BY <4>1 DEF ReMap
      <4>3. QED
        BY <4>2 DEF TxPrepares
    <3>2. job' = job /\ (stage' = "refused" \/ job.executable = "rx_chain")
      BY <2>3, <3>1 DEF Prepare, Step
    <3>3. QED
      BY <3>2 DEF PreparedForReceiver
  <2>4. CASE EnterSlots \/ StartDecoder
    <3>1. job' = job /\ job.executable = "rx_chain"
      BY <1>2, <2>4 DEF EnterSlots, StartDecoder, Step, PreparedForReceiver
    <3>2. QED
      BY <3>1 DEF PreparedForReceiver
  <2>5. QED
    BY <1>2, <2>1, <2>2, <2>3, <2>4 DEF ConfigNext
<1>3. QED
  BY <1>1, <1>2, PTL DEF ConfigSpec

\* The run of the receiver takes its configuration the way of ConfigSpec: issuing
\* and executing commands changes nothing of it.
THEOREM RunIsAConfiguration == RunSpec => ConfigSpec
<1>1. RunInit => ConfigInit
  BY DEF RunInit
<1>2. [RunNext]_<<chainVars, configVars>> => [ConfigNext]_configVars
  <2>1. Author => ConfigNext
    BY DEF Author, ConfigNext
  <2>2. Check => ConfigNext
    BY DEF Check, ConfigNext
  <2>3. Issue \/ Device => UNCHANGED configVars
    BY DEF Issue, Device
  <2>4. QED
    BY <2>1, <2>2, <2>3 DEF RunNext
<1>3. QED
  BY <1>1, <1>2, PTL DEF RunSpec, ConfigSpec

\* So the run, too, refuses nothing but what these four say, for any number of
\* slots and any jobs.
THEOREM RunRefusesNoMore ==
  RunSpec => [](LoaderTakesWhatCompiled /\ NothingRefusedLate /\ RegisteredIsExecutable
                /\ GeneratedRadiosLoad)
BY RunIsAConfiguration, OnlyLoaderRefuses, RefusalsAreEarly, EligibleIsExecutable,
   GeneratedIsLoaded, PTL
===============================================================================
