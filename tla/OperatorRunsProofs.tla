-------------------------- MODULE OperatorRunsProofs --------------------------
(***************************************************************************)
(* The operator programs and the stages of the loopback, for any number of   *)
(* cases, warm-ups, measurements and launches behind one wait.  A proof      *)
(* outline annotates a program's text with what is known of the buffers      *)
(* between any two commands; outlines are put together the way the programs  *)
(* are, and what they say of the text, DeviceStreamProofs says of the device. *)
(***************************************************************************)
EXTENDS OperatorRuns, DeviceStreamProofs, SequenceTheorems, WellFoundedInduction

-----------------------------------------------------------------------------
\* Natural numbers and sequences.

Below == {ss \in Nat \X Nat : ss[1] < ss[2]}

LEMMA BelowWellFounded == IsWellFoundedOn(Below, Nat)
  BY NatLessThanWellFounded DEF OpToRel, Below

\* The least of a set of numbers ...
LEMMA LeastElement ==
  ASSUME NEW T, T \subseteq Nat, T # {}
  PROVE  \E x \in T : \A y \in T : x <= y
<1>1. \E x \in T : \A y \in T : ~ (<<y, x>> \in Below)
  BY BelowWellFounded, WFMin
<1>2. PICK x \in T : \A y \in T : ~ (<<y, x>> \in Below)
  BY <1>1
<1>3. ASSUME NEW y \in T PROVE x <= y
  <2>1. x \in Nat /\ y \in Nat
    OBVIOUS
  <2>2. y < x => <<y, x>> \in Below
    BY <2>1 DEF Below
  <2>3. QED
    BY <2>1, <2>2, <1>2
<1>4. QED
  BY <1>3

\* What a number has that 0 has and that passes from each number to the next.
LEMMA Reaches ==
  ASSUME NEW n \in Nat, NEW T, 0 \in T, \A t \in 1..n : t - 1 \in T => t \in T
  PROVE  0..n \subseteq T
<1>1. SUFFICES ASSUME (0..n) \ T # {} PROVE FALSE
  OBVIOUS
<1> DEFINE U == (0..n) \ T
<1>2. U \subseteq Nat /\ U # {}
  BY <1>1
<1>3. PICK x \in U : \A y \in U : x <= y
  BY <1>2, LeastElement, Zenon
<1>4. x \in 1..n /\ x - 1 \in 0..n /\ ~(x <= x - 1)
  OBVIOUS
<1>5. x - 1 \in T
  BY <1>3, <1>4
<1>6. QED
  BY <1>3, <1>4, <1>5

\* A sequence of its own elements.
IsText(q) == q \in Seq({q[i] : i \in 1..Len(q)})

LEMMA SequenceIsText ==
  ASSUME NEW S, NEW q \in Seq(S)
  PROVE  IsText(q) /\ Len(q) \in Nat /\ \A i \in 1..Len(q) : q[i] \in S
<1>1. Len(q) \in Nat /\ q \in [1..Len(q) -> S]
  BY LenProperties
<1>2. q \in [1..Len(q) -> {q[i] : i \in 1..Len(q)}]
  BY <1>1
<1>3. QED
  BY <1>1, <1>2 DEF IsText

LEMMA FunctionIsText ==
  ASSUME NEW N \in Nat, NEW f, f = [i \in 1..N |-> f[i]]
  PROVE  IsText(f) /\ Len(f) = N
<1> DEFINE S == {f[i] : i \in 1..N}
<1>1. \A i \in 1..N : f[i] \in S
  OBVIOUS
<1> HIDE DEF S
<1>2. f \in Seq(S) /\ Len(f) = N
  BY <1>1
<1>3. QED
  BY <1>2, SequenceIsText

\* A concatenation by its halves.
LEMMA Joined ==
  ASSUME NEW r, NEW s, IsText(r), IsText(s)
  PROVE  /\ IsText(r \o s) /\ Len(r) \in Nat /\ Len(s) \in Nat
         /\ Len(r \o s) = Len(r) + Len(s)
         /\ \A j \in 1..Len(r) : (r \o s)[j] = r[j]
         /\ \A j \in 1..Len(s) : (r \o s)[j + Len(r)] = s[j]
<1> DEFINE S == {r[i] : i \in 1..Len(r)} \union {s[i] : i \in 1..Len(s)}
<1>1. r \in Seq(S) /\ s \in Seq(S)
  <2>1. r \in Seq({r[i] : i \in 1..Len(r)}) /\ s \in Seq({s[i] : i \in 1..Len(s)})
    BY DEF IsText
  <2>2. {r[i] : i \in 1..Len(r)} \subseteq S /\ {s[i] : i \in 1..Len(s)} \subseteq S
    OBVIOUS
  <2> HIDE DEF S
  <2>3. QED BY <2>1, <2>2, SeqMonotonic, Zenon
<1> HIDE DEF S
<1>2. /\ (r \o s) \in Seq(S) /\ Len(r \o s) = Len(r) + Len(s)
      /\ \A j \in 1..(Len(r) + Len(s)) : (r \o s)[j] = IF j <= Len(r) THEN r[j] ELSE s[j - Len(r)]
  BY <1>1, ConcatProperties, Zenon
<1>3. Len(r) \in Nat /\ Len(s) \in Nat
  BY <1>1, LenProperties
<1>4. ASSUME NEW j \in 1..Len(s) PROVE (r \o s)[j + Len(r)] = s[j]
  <2>1. j + Len(r) \in 1..(Len(r) + Len(s)) /\ ~(j + Len(r) <= Len(r)) /\ j + Len(r) - Len(r) = j
    BY <1>3
  <2>2. QED BY <1>2, <2>1
<1>5. IsText(r \o s)
  BY <1>2, SequenceIsText
<1>6. QED
  BY <1>2, <1>3, <1>4, <1>5

\* One element, or none.
LEMMA Singles ==
  /\ IsText(<< >>) /\ Len(<< >>) = 0
  /\ \A x : IsText(<< x >>) /\ Len(<< x >>) = 1 /\ << x >>[1] = x
<1>1. ASSUME NEW x PROVE << x >> \in Seq({x}) /\ Len(<< x >>) = 1 /\ << x >>[1] = x
  OBVIOUS
<1>2. << >> \in Seq({}) /\ Len(<< >>) = 0
  OBVIOUS
<1>3. QED
  BY <1>1, <1>2, SequenceIsText

\* An element of a concatenation is one of a half.
LEMMA Halves ==
  ASSUME NEW r, NEW s, IsText(r), IsText(s), NEW n \in 1..Len(r \o s)
  PROVE  \/ n \in 1..Len(r) /\ (r \o s)[n] = r[n]
         \/ \E j \in 1..Len(s) : n = j + Len(r) /\ (r \o s)[n] = s[j]
<1>1. IsText(r) /\ IsText(s)
  OBVIOUS
<1>2. /\ Len(r) \in Nat /\ Len(s) \in Nat /\ Len(r \o s) = Len(r) + Len(s)
      /\ \A j \in 1..Len(r) : (r \o s)[j] = r[j]
      /\ \A j \in 1..Len(s) : (r \o s)[j + Len(r)] = s[j]
  BY ONLY <1>1, Joined
<1> DEFINE j == n - Len(r)
<1>3. n \notin 1..Len(r) => j \in 1..Len(s) /\ n = j + Len(r)
  BY <1>2
<1> HIDE DEF j
<1>4. QED
  BY <1>2, <1>3

-----------------------------------------------------------------------------
\* Proof outlines.  A state of knowledge: buffers last written by a copy that
\* gave them a content, buffers last written by a launch, launches not waited for.
Known(given, made, busy) == [given |-> given, made |-> made, busy |-> busy]
Idle(given, made) == Known(given, made, {})

\* All that y claims, x claims too.
Implies(x, y) == /\ y.given \subseteq x.given /\ y.made \subseteq x.made
                 /\ x.busy \subseteq y.busy

\* The buffers over which launch a and a copy c conflict.
Clash(a, c) == (a.out \cap (c.in \cup c.out)) \cup (a.in \cap c.out)

\* Command c may come in state x of a program whose launches write at most O and
\* that fills E, and only E, behind launches that use it: nothing in E is an
\* input; a launch finds all it reads, and what it also writes newly given; a
\* copy else disturbs no launch under way; a result read back was computed.
Allowed(E, O, c, x) ==
  /\ c.in \cap E = {}
  /\ c.do = "launch" =>
       /\ c.in \subseteq x.given \cup x.made /\ c.in \cap c.out \subseteq x.given
       /\ c.out \subseteq O /\ c.op # "free"
  /\ c.do = "copy" =>
       /\ \A a \in x.busy : Clash(a, c) \subseteq (IF c.op = "fill" THEN E ELSE {})
       /\ c.op = "download" => c.in \cap O \subseteq x.made

After(c, x) ==
  [given |-> IF c.do = "copy" /\ c.op # "free" THEN x.given \cup c.out ELSE x.given \ c.out,
   made  |-> IF c.do = "launch" THEN x.made \cup c.out ELSE x.made \ c.out,
   busy  |-> IF c.do = "launch" THEN x.busy \cup {c} ELSE IF c.do = "sync" THEN {} ELSE x.busy]

\* f annotates text p from x to y.
Annotates(E, O, p, x, y, f) ==
  /\ Implies(x, f[0]) /\ Implies(f[Len(p)], y)
  /\ \A n \in 1..Len(p) : Allowed(E, O, p[n], f[n - 1]) /\ Implies(After(p[n], f[n - 1]), f[n])

Outline(E, O, p, x, y) == IsText(p) /\ \E f : Annotates(E, O, p, x, y, f)

LEMMA ImpliesTransitive ==
  ASSUME NEW x, NEW y, NEW z, Implies(x, y), Implies(y, z)
  PROVE  Implies(x, z)
  BY DEF Implies

\* A program of no command.
LEMMA NoCommand ==
  ASSUME NEW E, NEW O, NEW p, IsText(p), Len(p) = 0, NEW x, NEW y, Implies(x, y)
  PROVE  Outline(E, O, p, x, y)
<1> DEFINE f == [n \in 0..0 |-> x]
<1>2. f[0] = x /\ Implies(x, x)
  BY DEF Implies
<1>3. Annotates(E, O, p, x, y, f)
  BY <1>2 DEF Annotates
<1>4. QED
  BY <1>3 DEF Outline

\* One command.
LEMMA OneCommand ==
  ASSUME NEW E, NEW O, NEW c, NEW x, NEW y, Allowed(E, O, c, x), Implies(After(c, x), y)
  PROVE  Outline(E, O, << c >>, x, y)
<1> DEFINE f == [n \in 0..1 |-> IF n = 0 THEN x ELSE y]
<1>1. IsText(<< c >>) /\ Len(<< c >>) = 1 /\ << c >>[1] = c
  BY Singles
<1>2. f[0] = x /\ f[1] = y /\ Implies(x, x) /\ Implies(y, y)
  BY DEF Implies
<1> HIDE DEF f
<1>3. \A n \in 1..1 : n = 1 /\ n - 1 = 0
  OBVIOUS
<1>4. Annotates(E, O, << c >>, x, y, f)
  BY <1>1, <1>2, <1>3 DEF Annotates
<1>5. QED
  BY <1>1, <1>4 DEF Outline

\* One program after another.
LEMMA Then ==
  ASSUME NEW E, NEW O, NEW p, NEW q, NEW x, NEW y, NEW z, Outline(E, O, p, x, y), Outline(E, O, q, y, z)
  PROVE  Outline(E, O, p \o q, x, z)
<1>1. IsText(p) /\ IsText(q)
  BY DEF Outline
<1>2. PICK f : Annotates(E, O, p, x, y, f)
  BY DEF Outline
<1>3. PICK g : Annotates(E, O, q, y, z, g)
  BY DEF Outline
<1>4. /\ IsText(p \o q) /\ Len(p) \in Nat /\ Len(q) \in Nat /\ Len(p \o q) = Len(p) + Len(q)
      /\ \A j \in 1..Len(p) : (p \o q)[j] = p[j]
      /\ \A j \in 1..Len(q) : (p \o q)[j + Len(p)] = q[j]
  BY ONLY <1>1, Joined
<1> DEFINE h == [n \in 0..(Len(p) + Len(q)) |-> IF n < Len(p) THEN f[n] ELSE g[n - Len(p)]]
<1>5. /\ \A n \in 0..Len(p) : n < Len(p) => h[n] = f[n]
      /\ \A n \in 0..Len(q) : h[n + Len(p)] = g[n]
  <2>1. ASSUME NEW n \in 0..Len(q) PROVE h[n + Len(p)] = g[n]
    <3>1. /\ n + Len(p) \in 0..(Len(p) + Len(q)) /\ ~(n + Len(p) < Len(p))
          /\ n + Len(p) - Len(p) = n
      BY <1>4
    <3>2. QED BY <3>1
  <2>2. ASSUME NEW n \in 0..Len(p), n < Len(p) PROVE h[n] = f[n]
    <3>1. n \in 0..(Len(p) + Len(q))
      BY <1>4
    <3>2. QED BY <2>2, <3>1
  <2>3. QED BY <2>1, <2>2
<1> HIDE DEF h
<1>6. Implies(f[Len(p)], g[0])
  BY <1>2, <1>3, ImpliesTransitive DEF Annotates
<1>7. h[Len(p)] = g[0] /\ h[Len(p) + Len(q)] = g[Len(q)]
  <2>1. 0 \in 0..Len(q) /\ Len(q) \in 0..Len(q) /\ 0 + Len(p) = Len(p) /\ Len(q) + Len(p) = Len(p) + Len(q)
    BY <1>4
  <2>2. QED BY <1>5, <2>1
<1>8. Implies(x, h[0])
  <2>1. CASE Len(p) = 0
    BY <2>1, <1>2, <1>6, <1>7, ImpliesTransitive DEF Annotates
  <2>2. CASE Len(p) # 0
    <3>1. 0 \in 0..Len(p) /\ 0 < Len(p)
      BY <1>4, <2>2
    <3>2. QED BY <3>1, <1>2, <1>5 DEF Annotates
  <2>3. QED BY <2>1, <2>2
<1>9. Implies(h[Len(p \o q)], z)
  BY <1>3, <1>4, <1>7 DEF Annotates
<1>10. ASSUME NEW n \in 1..Len(p \o q)
       PROVE  /\ Allowed(E, O, (p \o q)[n], h[n - 1])
              /\ Implies(After((p \o q)[n], h[n - 1]), h[n])
  <2>1. CASE n \in 1..Len(p)
    <3>1. n - 1 \in 0..Len(p) /\ n - 1 < Len(p) /\ n \in 0..Len(p) /\ n \in Nat
      BY <1>4, <2>1
    <3>2. h[n - 1] = f[n - 1] /\ (p \o q)[n] = p[n]
      BY <1>4, <1>5, <2>1, <3>1
    <3>3. Allowed(E, O, p[n], f[n - 1]) /\ Implies(After(p[n], f[n - 1]), f[n])
      BY <1>2, <2>1 DEF Annotates
    <3>4. CASE n < Len(p)
      BY <1>5, <3>1, <3>2, <3>3, <3>4
    <3>5. CASE ~(n < Len(p))
      <4>1. n = Len(p)
        BY <1>4, <2>1, <3>5
      <4>2. Implies(f[n], h[n])
        BY <1>6, <1>7, <4>1
      <4>3. QED BY <3>2, <3>3, <4>2, ImpliesTransitive
    <3>6. QED BY <3>4, <3>5
  <2>2. CASE n \notin 1..Len(p)
    <3> DEFINE j == n - Len(p)
    <3>1. /\ j \in 1..Len(q) /\ n = j + Len(p) /\ j \in 0..Len(q)
          /\ j - 1 \in 0..Len(q) /\ n - 1 = (j - 1) + Len(p)
      BY <1>4, <2>2
    <3> HIDE DEF j
    <3>2. h[n - 1] = g[j - 1] /\ h[n] = g[j] /\ (p \o q)[n] = q[j]
      BY <1>4, <1>5, <3>1
    <3>3. QED BY <1>3, <3>1, <3>2 DEF Annotates
  <2>3. QED BY <2>1, <2>2
<1>11. Annotates(E, O, p \o q, x, z, h)
  BY <1>8, <1>9, <1>10 DEF Annotates
<1>12. QED
  BY <1>4, <1>11 DEF Outline

\* More may be known before, and less be asked behind.
LEMMA Weaker ==
  ASSUME NEW E, NEW O, NEW p, NEW w, NEW x, NEW y, NEW z,
         Implies(w, x), Outline(E, O, p, x, y), Implies(y, z)
  PROVE  Outline(E, O, p, w, z)
<1>1. PICK f : Annotates(E, O, p, x, y, f)
  BY DEF Outline
<1>2. Annotates(E, O, p, w, z, f)
  BY <1>1, ImpliesTransitive DEF Annotates
<1>3. QED
  BY <1>2 DEF Outline

LEMMA ThenTwo ==
  ASSUME NEW E, NEW O, NEW p, NEW q, NEW r, NEW w, NEW x, NEW y, NEW z,
         Outline(E, O, p, w, x), Outline(E, O, q, x, y), Outline(E, O, r, y, z)
  PROVE  Outline(E, O, p \o q \o r, w, z)
<1>1. Outline(E, O, p \o q, w, y)
  BY Then
<1>2. QED
  BY <1>1, Then

LEMMA ThenThree ==
  ASSUME NEW E, NEW O, NEW p, NEW q, NEW r, NEW s, NEW v, NEW w, NEW x, NEW y, NEW z,
         Outline(E, O, p, v, w), Outline(E, O, q, w, x), Outline(E, O, r, x, y), Outline(E, O, s, y, z)
  PROVE  Outline(E, O, p \o q \o r \o s, v, z)
<1>1. Outline(E, O, p \o q \o r, v, y)
  BY ThenTwo
<1>2. QED
  BY <1>1, Then

-----------------------------------------------------------------------------
\* Sequences of programs.

Flattening(q, n, f) == f = [i \in 1..n |-> IF i = 1 THEN q[i] ELSE f[i - 1] \o q[i]]

\* The recursion of FlattenSeq has a solution: each program extends the ones
\* before.
LEMMA FlatteningExists ==
  ASSUME NEW q, NEW m \in Nat
  PROVE  \E f : Flattening(q, m, f)
<1> DEFINE T == {n \in 0..m : \E f : Flattening(q, n, f)}
<1>1. 0 \in T
  <2> DEFINE f == [i \in 1..0 |-> q[i]]
  <2>1. f = [i \in 1..0 |-> IF i = 1 THEN q[i] ELSE f[i - 1] \o q[i]]
    OBVIOUS
  <2> HIDE DEF f
  <2>2. Flattening(q, 0, f)
    BY <2>1 DEF Flattening
  <2>3. QED BY <2>2
<1>2. ASSUME NEW n \in 1..m, n - 1 \in T PROVE n \in T
  <2>1. PICK f : Flattening(q, n - 1, f)
    BY <1>2
  <2>2. \A i \in 1..(n - 1) : f[i] = IF i = 1 THEN q[i] ELSE f[i - 1] \o q[i]
    <3>1. f = [i \in 1..(n - 1) |-> IF i = 1 THEN q[i] ELSE f[i - 1] \o q[i]]
      BY <2>1 DEF Flattening
    <3>2. QED BY ONLY <3>1
  <2> DEFINE last == IF n = 1 THEN q[n] ELSE f[n - 1] \o q[n]
             g == [i \in 1..n |-> IF i = n THEN last ELSE f[i]]
  <2>3. ASSUME NEW i \in 1..n
        PROVE  g[i] = IF i = 1 THEN q[i] ELSE g[i - 1] \o q[i]
    <3>1. CASE i = n
      <4>1. i # 1 => i - 1 \in 1..n /\ i - 1 # n
        BY <3>1
      <4>2. i # 1 => g[i - 1] = f[n - 1]
        BY <3>1, <4>1
      <4>3. g[i] = last
        BY <3>1
      <4> HIDE DEF g
      <4>4. QED BY <3>1, <4>2, <4>3
    <3>2. CASE i # n
      <4>1. i \in 1..(n - 1) /\ (i # 1 => i - 1 \in 1..n /\ i - 1 # n)
        BY <3>2
      <4>2. g[i] = f[i] /\ (i # 1 => g[i - 1] = f[i - 1])
        BY <3>2, <4>1
      <4> HIDE DEF g
      <4>3. QED BY <2>2, <4>1, <4>2
    <3>3. QED BY <3>1, <3>2
  <2>4. g = [i \in 1..n |-> g[i]]
    OBVIOUS
  <2> HIDE DEF g
  <2>5. Flattening(q, n, g)
    BY <2>3, <2>4 DEF Flattening
  <2>6. QED BY <1>2, <2>5
<1> HIDE DEF T
<1>3. 0..m \subseteq T
  BY <1>1, <1>2, Reaches
<1>4. m \in T
  BY <1>3
<1>5. QED
  BY <1>4 DEF T

\* A family of programs one after another: FlattenSeq of SequencesExt.
LEMMA InTurn ==
  ASSUME NEW E, NEW O, NEW n \in Nat, NEW q, q = [i \in 1..n |-> q[i]], NEW A,
         \A i \in 1..n : Outline(E, O, q[i], A[i - 1], A[i])
  PROVE  Outline(E, O, FlattenSeq(q), A[0], A[n])
<1>1. IsText(q) /\ Len(q) = n
  BY FunctionIsText
<1>2. CASE n = 0
  <2>1. FlattenSeq(q) = q
    BY <1>1, <1>2 DEF FlattenSeq
  <2>2. Implies(A[0], A[n])
    BY <1>2 DEF Implies
  <2>3. QED BY <1>1, <1>2, <2>1, <2>2, NoCommand
<1>3. CASE n # 0
  <2> DEFINE h == CHOOSE f : f = [i \in 1..n |-> IF i = 1 THEN q[i] ELSE f[i - 1] \o q[i]]
  <2>1. PICK g : g = [i \in 1..n |-> IF i = 1 THEN q[i] ELSE g[i - 1] \o q[i]]
    BY FlatteningExists DEF Flattening
  <2>2. h = [i \in 1..n |-> IF i = 1 THEN q[i] ELSE h[i - 1] \o q[i]]
    BY <2>1
  <2>3. FlattenSeq(q) = h[n]
    BY <1>1, <1>3 DEF FlattenSeq
  <2> HIDE DEF h
  <2>4. \A i \in 1..n : h[i] = IF i = 1 THEN q[i] ELSE h[i - 1] \o q[i]
    BY ONLY <2>2
  <2> DEFINE T == {t \in 0..n : t = 0 \/ Outline(E, O, h[t], A[0], A[t])}
  <2>5. 0 \in T
    OBVIOUS
  <2>6. ASSUME NEW t \in 1..n, t - 1 \in T PROVE t \in T
    <3>1. Outline(E, O, q[t], A[t - 1], A[t])
      OBVIOUS
    <3>2. CASE t = 1
      <4>1. h[t] = q[t] /\ t - 1 = 0
        BY <2>4, <3>2
      <4>2. QED BY <3>1, <4>1
    <3>3. CASE t # 1
      <4>1. h[t] = h[t - 1] \o q[t]
        BY <2>4, <3>3
      <4>5. t - 1 # 0
        BY <3>3
      <4>2. Outline(E, O, h[t - 1], A[0], A[t - 1])
        BY <2>6, <4>5
      <4>3. Outline(E, O, h[t - 1] \o q[t], A[0], A[t])
        BY <3>1, <4>2, Then
      <4>4. Outline(E, O, h[t], A[0], A[t]) /\ t \in 0..n
        BY <4>1, <4>3
      <4>6. QED BY <4>4
    <3>4. QED BY <3>2, <3>3
  <2> HIDE DEF T
  <2>7. 0..n \subseteq T
    BY <2>5, <2>6, Reaches
  <2>8. n \in T
    BY <2>7
  <2>9. QED BY <1>3, <2>3, <2>8 DEF T
<1>4. QED
  BY <1>2, <1>3

\* A loop whose body leaves what it found.
LEMMA Repeats ==
  ASSUME NEW E, NEW O, NEW p, NEW x, NEW n \in Nat, Outline(E, O, p, x, x)
  PROVE  Outline(E, O, Times(n, p), x, x)
<1> DEFINE q == [i \in 1..n |-> p]
           A == [i \in 0..n |-> x]
<1>1. q = [i \in 1..n |-> q[i]] /\ \A i \in 1..n : q[i] = p
  OBVIOUS
<1>2. A[0] = x /\ A[n] = x /\ \A i \in 1..n : A[i - 1] = x /\ A[i] = x
  OBVIOUS
<1>3. Times(n, p) = FlattenSeq(q)
  BY DEF Times
<1> HIDE DEF q, A
<1>4. \A i \in 1..n : Outline(E, O, q[i], A[i - 1], A[i])
  BY <1>1, <1>2
<1>5. Outline(E, O, FlattenSeq(q), A[0], A[n])
  BY <1>1, <1>4, InTurn
<1>6. QED
  BY <1>2, <1>3, <1>5

\* A loop that runs at least once, and whose first turn leaves what the later
\* ones find.
LEMMA RunsOnce ==
  ASSUME NEW E, NEW O, NEW p, NEW x, NEW y, NEW n \in Nat \ {0},
         Outline(E, O, p, x, y), Outline(E, O, p, y, y)
  PROVE  Outline(E, O, Times(n, p), x, y)
<1> DEFINE q == [i \in 1..n |-> p]
           A == [i \in 0..n |-> IF i = 0 THEN x ELSE y]
<1>1. q = [i \in 1..n |-> q[i]] /\ \A i \in 1..n : q[i] = p
  OBVIOUS
<1>2. /\ A[0] = x /\ A[n] = y
      /\ \A i \in 1..n : A[i] = y /\ (A[i - 1] = x \/ A[i - 1] = y)
  OBVIOUS
<1>3. Times(n, p) = FlattenSeq(q)
  BY DEF Times
<1> HIDE DEF q, A
<1>4. \A i \in 1..n : Outline(E, O, q[i], A[i - 1], A[i])
  BY <1>1, <1>2
<1>5. Outline(E, O, FlattenSeq(q), A[0], A[n])
  BY <1>1, <1>4, InTurn
<1>6. QED
  BY <1>2, <1>3, <1>5

-----------------------------------------------------------------------------
\* The calls of the programs.

\* A launch in a state where it may come.
Fits(E, O, op, in, out, g, m) ==
  op # "free" /\ in \cap E = {} /\ in \subseteq g \cup m /\ in \cap out \subseteq g /\ out \subseteq O

LEMMA Forgets ==
  ASSUME NEW g, NEW m, NEW h, NEW l, h \subseteq g, l \subseteq m
  PROVE  Implies(Idle(g, m), Idle(h, l))
  BY DEF Implies, Idle, Known

\* An upload or a fill gives its buffers a content.
LEMMA Puts ==
  ASSUME NEW E, NEW O, NEW B, NEW g, NEW m, NEW h, NEW l, h \subseteq g \cup B, l \subseteq m \ B
  PROVE  Outline(E, O, Upload(B), Idle(g, m), Idle(h, l)) /\ Outline(E, O, Fill(B), Idle(g, m), Idle(h, l))
<1>1. ASSUME NEW op \in {"upload", "fill"}
      PROVE  Outline(E, O, << Command("copy", op, {}, B) >>, Idle(g, m), Idle(h, l))
  <2> DEFINE c == Command("copy", op, {}, B)
  <2>1. c.do = "copy" /\ c.op = op /\ c.in = {} /\ c.out = B
    BY DEF Command
  <2> HIDE DEF c
  <2>2. Allowed(E, O, c, Idle(g, m))
    BY <2>1 DEF Allowed, Idle, Known
  <2>3. Implies(After(c, Idle(g, m)), Idle(h, l))
    BY <2>1 DEF Implies, After, Idle, Known
  <2>4. Outline(E, O, << c >>, Idle(g, m), Idle(h, l))
    BY <2>2, <2>3, OneCommand
  <2>5. QED BY <2>4 DEF c
<1>2. QED
  BY <1>1 DEF Upload, Fill

\* An upload behind launches that do not use its buffers.
LEMMA PutsBehind ==
  ASSUME NEW E, NEW O, NEW B, NEW g, NEW m, NEW b, NEW h, NEW l, h \subseteq g \cup B, l \subseteq m \ B,
         \A a \in b : (a.in \cup a.out) \cap B = {}
  PROVE  Outline(E, O, Upload(B), Known(g, m, b), Known(h, l, b))
<1> DEFINE c == Command("copy", "upload", {}, B)
<1>1. c.do = "copy" /\ c.op = "upload" /\ c.in = {} /\ c.out = B
  BY DEF Command
<1> HIDE DEF c
<1>2. Allowed(E, O, c, Known(g, m, b))
  BY <1>1 DEF Allowed, Known, Clash
<1>3. Implies(After(c, Known(g, m, b)), Known(h, l, b))
  BY <1>1 DEF Implies, After, Known
<1>4. Outline(E, O, << c >>, Known(g, m, b), Known(h, l, b))
  BY <1>2, <1>3, OneCommand
<1>5. QED
  BY <1>4 DEF c, Upload

\* A fill behind launches that use its buffers.
LEMMA FillsBehind ==
  ASSUME NEW E, NEW O, NEW B, NEW g, NEW m, NEW b, NEW h, NEW l, h \subseteq g \cup B, l \subseteq m \ B,
         B \subseteq E
  PROVE  Outline(E, O, Fill(B), Known(g, m, b), Known(h, l, b))
<1> DEFINE c == Command("copy", "fill", {}, B)
<1>1. c.do = "copy" /\ c.op = "fill" /\ c.in = {} /\ c.out = B
  BY DEF Command
<1> HIDE DEF c
<1>2. \A a \in b : Clash(a, c) \subseteq E
  BY <1>1 DEF Clash
<1>3. Allowed(E, O, c, Known(g, m, b))
  BY <1>1, <1>2 DEF Allowed, Known
<1>4. Implies(After(c, Known(g, m, b)), Known(h, l, b))
  BY <1>1 DEF Implies, After, Known
<1>5. Outline(E, O, << c >>, Known(g, m, b), Known(h, l, b))
  BY <1>3, <1>4, OneCommand
<1>6. QED
  BY <1>5 DEF c, Fill

LEMMA Takes ==
  ASSUME NEW E, NEW O, NEW B, NEW g, NEW m, B \cap O \subseteq m, B \cap E = {}
  PROVE  Outline(E, O, Download(B), Idle(g, m), Idle(g, m))
<1> DEFINE c == Command("copy", "download", B, {})
<1>1. c.do = "copy" /\ c.op = "download" /\ c.in = B /\ c.out = {}
  BY DEF Command
<1> HIDE DEF c
<1>2. Allowed(E, O, c, Idle(g, m))
  BY <1>1 DEF Allowed, Idle, Known
<1>3. Implies(After(c, Idle(g, m)), Idle(g, m))
  BY <1>1 DEF Implies, After, Idle, Known
<1>4. Outline(E, O, << c >>, Idle(g, m), Idle(g, m))
  BY <1>2, <1>3, OneCommand
<1>5. QED
  BY <1>4 DEF c, Download

LEMMA Frees ==
  ASSUME NEW E, NEW O, NEW B, NEW g, NEW m, NEW h, NEW l, h \subseteq g \ B, l \subseteq m \ B
  PROVE  Outline(E, O, Free(B), Idle(g, m), Idle(h, l))
<1> DEFINE c == Command("copy", "free", {}, B)
<1>1. c.do = "copy" /\ c.op = "free" /\ c.in = {} /\ c.out = B
  BY DEF Command
<1> HIDE DEF c
<1>2. Allowed(E, O, c, Idle(g, m))
  BY <1>1 DEF Allowed, Idle, Known
<1>3. Implies(After(c, Idle(g, m)), Idle(h, l))
  BY <1>1 DEF Implies, After, Idle, Known
<1>4. Outline(E, O, << c >>, Idle(g, m), Idle(h, l))
  BY <1>2, <1>3, OneCommand
<1>5. QED
  BY <1>4 DEF c, Free

LEMMA Waits ==
  ASSUME NEW E, NEW O, NEW g, NEW m, NEW b
  PROVE  Outline(E, O, Wait, Known(g, m, b), Idle(g, m))
<1> DEFINE c == Command("sync", "wait", {}, {})
<1>1. c.do = "sync" /\ c.op = "wait" /\ c.in = {} /\ c.out = {}
  BY DEF Command
<1> HIDE DEF c
<1>2. Allowed(E, O, c, Known(g, m, b))
  BY <1>1 DEF Allowed, Known
<1>3. Implies(After(c, Known(g, m, b)), Idle(g, m))
  BY <1>1 DEF Implies, After, Idle, Known
<1>4. Outline(E, O, << c >>, Known(g, m, b), Idle(g, m))
  BY <1>2, <1>3, OneCommand
<1>5. QED
  BY <1>4 DEF c, Wait

\* A launch, or a queued copy.
LEMMA Queues ==
  ASSUME NEW E, NEW O, NEW op, NEW in, NEW out, NEW g, NEW m, NEW b, NEW h, NEW l, NEW d,
         Fits(E, O, op, in, out, g, m), h \subseteq g \ out, l \subseteq m \cup out,
         b \cup {Command("launch", op, in, out)} \subseteq d
  PROVE  Outline(E, O, Kernel(op, in, out), Known(g, m, b), Known(h, l, d))
<1> DEFINE c == Command("launch", op, in, out)
<1>1. c.do = "launch" /\ c.op = op /\ c.in = in /\ c.out = out
  BY DEF Command
<1>2. b \cup {c} \subseteq d
  OBVIOUS
<1> HIDE DEF c
<1>3. Allowed(E, O, c, Known(g, m, b))
  BY <1>1 DEF Allowed, Known, Fits
<1>4. Implies(After(c, Known(g, m, b)), Known(h, l, d))
  BY <1>1, <1>2 DEF Implies, After, Known
<1>5. Outline(E, O, << c >>, Known(g, m, b), Known(h, l, d))
  BY <1>3, <1>4, OneCommand
<1>6. QED
  BY <1>5 DEF c, Kernel

\* A launch that is waited for.
LEMMA Runs ==
  ASSUME NEW E, NEW O, NEW op, NEW in, NEW out, NEW g, NEW m, NEW h, NEW l,
         Fits(E, O, op, in, out, g, m), h \subseteq g \ out, l \subseteq m \cup out
  PROVE  Outline(E, O, Kernel(op, in, out) \o Wait, Idle(g, m), Idle(h, l))
<1> DEFINE d == {Command("launch", op, in, out)}
<1>1. {} \cup {Command("launch", op, in, out)} \subseteq d
  OBVIOUS
<1> HIDE DEF d
<1>2. Outline(E, O, Kernel(op, in, out), Known(g, m, {}), Known(h, l, d))
  BY <1>1, Queues
<1>3. Outline(E, O, Kernel(op, in, out), Idle(g, m), Known(h, l, d))
  BY <1>2 DEF Idle
<1>4. Outline(E, O, Wait, Known(h, l, d), Idle(h, l))
  BY Waits
<1>5. QED
  BY <1>3, <1>4, Then

\* ... and read back.
LEMMA RunsForResult ==
  ASSUME NEW E, NEW O, NEW op, NEW in, NEW out, NEW results, NEW g, NEW m, NEW h, NEW l,
         Fits(E, O, op, in, out, g, m), h \subseteq g \ out, l \subseteq m \cup out,
         results \cap O \subseteq m \cup out, results \cap E = {}
  PROVE  Outline(E, O, Once(Kernel(op, in, out), results), Idle(g, m), Idle(h, l))
<1>1. Outline(E, O, Kernel(op, in, out) \o Wait, Idle(g, m), Idle(g \ out, m \cup out))
  BY Runs
<1>2. Outline(E, O, Download(results), Idle(g \ out, m \cup out), Idle(g \ out, m \cup out))
  BY Takes
<1>3. Outline(E, O, Kernel(op, in, out) \o Wait \o Download(results), Idle(g, m), Idle(g \ out, m \cup out))
  BY <1>1, <1>2, Then
<1>4. Implies(Idle(g, m), Idle(g, m)) /\ Implies(Idle(g \ out, m \cup out), Idle(h, l))
  BY Forgets
<1>5. Outline(E, O, Kernel(op, in, out) \o Wait \o Download(results), Idle(g, m), Idle(h, l))
  BY <1>3, <1>4, Weaker
<1>6. QED
  BY <1>5 DEF Once

\* Several launches of a kernel that works on none of its inputs ...
LEMMA QueuesBatch ==
  ASSUME NEW E, NEW O, NEW op, NEW in, NEW out, NEW g, NEW m, NEW n \in Nat \ {0},
         Fits(E, O, op, in, out, g, m), in \cap out = {}
  PROVE  Outline(E, O, Times(n, Kernel(op, in, out)), Idle(g, m),
                 Known(g \ out, m \cup out, {Command("launch", op, in, out)}))
<1> DEFINE d == {Command("launch", op, in, out)}
           h == g \ out
           l == m \cup out
<1>1. {} \cup {Command("launch", op, in, out)} \subseteq d /\ d \cup {Command("launch", op, in, out)} \subseteq d
  OBVIOUS
<1>2. /\ h \subseteq g \ out /\ l \subseteq m \cup out
      /\ h \subseteq h \ out /\ l \subseteq l \cup out /\ Fits(E, O, op, in, out, h, l)
  BY DEF Fits
<1> HIDE DEF d, h, l
<1>3. Outline(E, O, Kernel(op, in, out), Known(g, m, {}), Known(h, l, d))
  BY <1>1, <1>2, Queues
<1>4. Outline(E, O, Kernel(op, in, out), Known(h, l, d), Known(h, l, d))
  BY <1>1, <1>2, Queues
<1>5. Outline(E, O, Times(n, Kernel(op, in, out)), Known(g, m, {}), Known(h, l, d))
  BY <1>3, <1>4, RunsOnce
<1>6. QED
  BY <1>5 DEF Idle, d, h, l

\* ... behind one wait.
LEMMA Batches ==
  ASSUME NEW E, NEW O, NEW op, NEW in, NEW out, NEW g, NEW m, NEW n \in Nat \ {0},
         Fits(E, O, op, in, out, g, m), in \cap out = {}
  PROVE  Outline(E, O, Times(n, Kernel(op, in, out)) \o Wait, Idle(g, m), Idle(g \ out, m \cup out))
<1> DEFINE d == {Command("launch", op, in, out)}
<1>1. Outline(E, O, Times(n, Kernel(op, in, out)), Idle(g, m), Known(g \ out, m \cup out, d))
  BY QueuesBatch
<1> HIDE DEF d
<1>2. Outline(E, O, Wait, Known(g \ out, m \cup out, d), Idle(g \ out, m \cup out))
  BY Waits
<1>3. QED
  BY <1>1, <1>2, Then

\* Launches each behind its wait.
LEMMA RunsAgain ==
  ASSUME NEW E, NEW O, NEW op, NEW in, NEW out, NEW g, NEW m, NEW n \in Nat \ {0},
         Fits(E, O, op, in, out, g, m), in \cap out = {}
  PROVE  Outline(E, O, Times(n, Kernel(op, in, out) \o Wait), Idle(g, m), Idle(g \ out, m \cup out))
<1> DEFINE h == g \ out
           l == m \cup out
<1>1. /\ h \subseteq g \ out /\ l \subseteq m \cup out
      /\ h \subseteq h \ out /\ l \subseteq l \cup out /\ Fits(E, O, op, in, out, h, l)
  BY DEF Fits
<1> HIDE DEF h, l
<1>2. Outline(E, O, Kernel(op, in, out) \o Wait, Idle(g, m), Idle(h, l))
  BY <1>1, Runs
<1>3. Outline(E, O, Kernel(op, in, out) \o Wait, Idle(h, l), Idle(h, l))
  BY <1>1, Runs
<1>4. Outline(E, O, Times(n, Kernel(op, in, out) \o Wait), Idle(g, m), Idle(h, l))
  BY <1>2, <1>3, RunsOnce
<1>5. QED
  BY <1>4 DEF h, l

LEMMA LoopCounts == /\ Warmups \in Nat \ {0} /\ TimedRuns \in Nat \ {0} /\ PerSync \in Nat \ {0}
                    /\ Warmups + TimedRuns \in Nat \ {0}
  BY LoopAssumption

\* The measured launches of an operator, each behind its wait.
LEMMA Measurement ==
  ASSUME NEW E, NEW O, NEW op, NEW in, NEW out, NEW g, NEW m, NEW h, NEW l,
         Fits(E, O, op, in, out, g, m), in \cap out = {}, h \subseteq g \ out, l \subseteq m \cup out
  PROVE  Outline(E, O, Awaited(Kernel(op, in, out)), Idle(g, m), Idle(h, l))
<1>1. Outline(E, O, Times(Warmups + TimedRuns, Kernel(op, in, out) \o Wait), Idle(g, m),
              Idle(g \ out, m \cup out))
  BY LoopCounts, RunsAgain
<1>2. Implies(Idle(g, m), Idle(g, m)) /\ Implies(Idle(g \ out, m \cup out), Idle(h, l))
  BY Forgets
<1>3. Outline(E, O, Times(Warmups + TimedRuns, Kernel(op, in, out) \o Wait), Idle(g, m), Idle(h, l))
  BY <1>1, <1>2, Weaker
<1>4. QED
  BY <1>3 DEF Awaited

\* A launch of a kernel that works in memory filled just before.
LEMMA ClearedRun ==
  ASSUME NEW E, NEW O, NEW op, NEW in, NEW out, NEW scratch, NEW g, NEW m, NEW h, NEW l,
         Fits(E, O, op, in, out, h \cup scratch, l \ scratch),
         h \subseteq g, h \cap (out \cup scratch) = {}, l \subseteq m
  PROVE  Outline(E, O, Fill(scratch) \o Kernel(op, in, out) \o Wait, Idle(g, m),
                 Idle(h, (l \ scratch) \cup out))
<1> DEFINE made == (l \ scratch) \cup out
           now  == h \cup scratch
           k    == Kernel(op, in, out)
<1>1. Fits(E, O, op, in, out, now, l \ scratch) /\ made \subseteq (l \ scratch) \cup out /\ h \subseteq now \ out
  BY DEF Fits
<1>2. now \subseteq g \cup scratch /\ l \ scratch \subseteq m \ scratch
  OBVIOUS
<1> HIDE DEF made, now
<1>3. Outline(E, O, Fill(scratch), Idle(g, m), Idle(now, l \ scratch))
  BY <1>2, Puts
<1>4. Outline(E, O, k \o Wait, Idle(now, l \ scratch), Idle(h, made))
  BY <1>1, Runs
<1>5. Outline(E, O, Fill(scratch) \o (k \o Wait), Idle(g, m), Idle(h, made))
  BY <1>3, <1>4, Then
<1>6. Fill(scratch) \o (k \o Wait) = Fill(scratch) \o k \o Wait
  BY DEF Fill, Kernel, Wait
<1>7. QED
  BY <1>5, <1>6 DEF made

\* Measured launches, each in memory filled anew.
LEMMA ClearedMeasurement ==
  ASSUME NEW E, NEW O, NEW op, NEW in, NEW out, NEW scratch, NEW g, NEW m, NEW h, NEW l,
         Fits(E, O, op, in, out, h \cup scratch, l \ scratch),
         h \subseteq g, h \cap (out \cup scratch) = {}, l \subseteq m
  PROVE  Outline(E, O, Awaited(Fill(scratch) \o Kernel(op, in, out)), Idle(g, m),
                 Idle(h, (l \ scratch) \cup out))
<1> DEFINE made == (l \ scratch) \cup out
           p    == Fill(scratch) \o Kernel(op, in, out) \o Wait
<1>1. Outline(E, O, p, Idle(g, m), Idle(h, made))
  BY ClearedRun
<1>2. h \subseteq h /\ l \ scratch \subseteq made /\ (l \ scratch) \ scratch = l \ scratch
  OBVIOUS
<1> HIDE DEF made
<1>3. Outline(E, O, p, Idle(h, made), Idle(h, ((l \ scratch) \ scratch) \cup out))
  BY <1>2, ClearedRun
<1>4. Outline(E, O, p, Idle(h, made), Idle(h, made))
  BY <1>2, <1>3 DEF made
<1> HIDE DEF p
<1>5. Outline(E, O, Times(Warmups + TimedRuns, p), Idle(g, m), Idle(h, made))
  BY <1>1, <1>4, LoopCounts, RunsOnce
<1>6. QED
  BY <1>5 DEF Awaited, made, p

\* Batches, each behind one wait.
LEMMA BatchAfterBatch ==
  ASSUME NEW E, NEW O, NEW op, NEW in, NEW out, NEW g, NEW m, NEW n \in Nat \ {0}, NEW per \in Nat \ {0},
         Fits(E, O, op, in, out, g, m), in \cap out = {}
  PROVE  Outline(E, O, Times(n, Times(per, Kernel(op, in, out)) \o Wait), Idle(g, m),
                 Idle(g \ out, m \cup out))
<1> DEFINE h == g \ out
           l == m \cup out
<1>1. h \ out = h /\ l \cup out = l /\ Fits(E, O, op, in, out, h, l)
  BY DEF Fits
<1>2. Outline(E, O, Times(per, Kernel(op, in, out)) \o Wait, Idle(g, m), Idle(h, l))
  BY Batches
<1> HIDE DEF h, l
<1>3. Outline(E, O, Times(per, Kernel(op, in, out)) \o Wait, Idle(h, l), Idle(h \ out, l \cup out))
  BY <1>1, Batches
<1>4. Outline(E, O, Times(per, Kernel(op, in, out)) \o Wait, Idle(h, l), Idle(h, l))
  BY <1>1, <1>3
<1>5. Outline(E, O, Times(n, Times(per, Kernel(op, in, out)) \o Wait), Idle(g, m), Idle(h, l))
  BY <1>2, <1>4, RunsOnce
<1>6. QED
  BY <1>5 DEF h, l

LEMMA ThroughputRuns ==
  ASSUME NEW E, NEW O, NEW op, NEW in, NEW out, NEW g, NEW m,
         Fits(E, O, op, in, out, g, m), in \cap out = {}
  PROVE  Outline(E, O, Throughput(Kernel(op, in, out)), Idle(g, m), Idle(g \ out, m \cup out))
<1> DEFINE h == g \ out
           l == m \cup out
           k == Kernel(op, in, out)
<1>1. h \ out = h /\ l \cup out = l /\ Fits(E, O, op, in, out, h, l)
  BY DEF Fits
<1>2. Outline(E, O, Times(Warmups, k) \o Wait, Idle(g, m), Idle(h, l))
  BY LoopCounts, Batches
<1> HIDE DEF h, l
<1>3. Outline(E, O, Times(TimedRuns, Times(PerSync, k) \o Wait), Idle(h, l), Idle(h \ out, l \cup out))
  BY <1>1, LoopCounts, BatchAfterBatch
<1>4. Outline(E, O, Times(TimedRuns, Times(PerSync, k) \o Wait), Idle(h, l), Idle(h, l))
  BY <1>1, <1>3
<1>5. Outline(E, O, Times(Warmups, k) \o Wait \o Times(TimedRuns, Times(PerSync, k) \o Wait), Idle(g, m), Idle(h, l))
  BY <1>2, <1>4, Then
<1>6. QED
  BY <1>5 DEF Throughput, h, l

\* What Timed leaves: the results, if it launches at all.
Computed(n, out) == IF n[1] = 0 /\ n[2] = 0 THEN {} ELSE out

LEMMA NoTurn ==
  ASSUME NEW E, NEW O, NEW p, NEW x
  PROVE  Outline(E, O, Times(0, p), x, x)
<1> DEFINE q == [i \in 1..0 |-> p]
<1>1. q = [i \in 1..0 |-> q[i]]
  OBVIOUS
<1> HIDE DEF q
<1>2. IsText(q) /\ Len(q) = 0
  BY <1>1, FunctionIsText
<1>3. Times(0, p) = q
  BY <1>2 DEF Times, FlattenSeq, q
<1>4. Outline(E, O, q, x, x)
  BY <1>2, NoCommand DEF Implies
<1>5. QED
  BY <1>3, <1>4

LEMMA TimedRunsOnce ==
  ASSUME NEW E, NEW O, NEW op, NEW in, NEW out, NEW g, NEW m, NEW n \in Counts,
         op # "free", in \cap E = {}, in \subseteq g \cup m, in \cap out = {}, Computed(n, out) \subseteq O
  PROVE  Outline(E, O, Timed(Kernel(op, in, out), n[1], n[2]), Idle(g, m),
                 Idle(g \ out, m \cup Computed(n, out)))
<1> DEFINE h == g \ out
           l == m \cup out
           k == Kernel(op, in, out)
           s == Times(n[1], k) \o Wait
           t == Times(n[2], k \o Wait)
<1>1. n[1] \in {0, Warmups} /\ n[2] \in {0, TimedRuns}
  BY DEF Counts
<1>2. Timed(k, n[1], n[2]) = s \o t
  BY DEF Timed
<1>3. h \ out = h /\ l \cup out = l
  OBVIOUS
<1>4. CASE n[1] = 0 /\ n[2] = 0
  <2>1. Outline(E, O, Times(n[1], k), Idle(g, m), Idle(g, m))
    BY <1>4, NoTurn
  <2>2. Outline(E, O, Times(n[1], k), Idle(g, m), Known(g, m, {}))
    BY <2>1 DEF Idle
  <2>3. Outline(E, O, Wait, Known(g, m, {}), Idle(g, m))
    BY Waits
  <2>4. Outline(E, O, s, Idle(g, m), Idle(g, m))
    BY <2>2, <2>3, Then
  <2>5. Outline(E, O, t, Idle(g, m), Idle(g, m))
    BY <1>4, NoTurn
  <2>6. Outline(E, O, s \o t, Idle(g, m), Idle(g, m))
    BY <2>4, <2>5, Then
  <2>7. Computed(n, out) = {}
    BY <1>4 DEF Computed
  <2>8. Implies(Idle(g, m), Idle(g, m)) /\ Implies(Idle(g, m), Idle(g \ out, m \cup Computed(n, out)))
    BY <2>7, Forgets
  <2>9. QED
    BY <1>2, <2>6, <2>8, Weaker
<1>5. CASE ~(n[1] = 0 /\ n[2] = 0)
  <2>1. Computed(n, out) = out
    BY <1>5 DEF Computed
  <2>2. Fits(E, O, op, in, out, g, m) /\ Fits(E, O, op, in, out, h, l)
    BY <2>1 DEF Fits
  <2> DEFINE v == IF n[1] = 0 THEN Idle(g, m) ELSE Idle(h, l)
  <2>3. Outline(E, O, s, Idle(g, m), v)
    <3>1. CASE n[1] = 0
      <4>1. Outline(E, O, Times(n[1], k), Idle(g, m), Idle(g, m))
        BY <3>1, NoTurn
      <4>2. Outline(E, O, Times(n[1], k), Idle(g, m), Known(g, m, {}))
        BY <4>1 DEF Idle
      <4>3. Outline(E, O, Wait, Known(g, m, {}), Idle(g, m))
        BY Waits
      <4>4. Outline(E, O, s, Idle(g, m), Idle(g, m))
        BY <4>2, <4>3, Then
      <4>5. QED BY <3>1, <4>4
    <3>2. CASE n[1] # 0
      <4>1. n[1] \in Nat \ {0}
        BY <1>1, <3>2, LoopCounts
      <4>2. Outline(E, O, s, Idle(g, m), Idle(h, l))
        BY <2>2, <4>1, Batches
      <4>3. QED BY <3>2, <4>2
    <3>3. QED BY <3>1, <3>2
  <2>4. Outline(E, O, t, v, Idle(h, l))
    <3>1. CASE n[2] = 0
      <4>1. v = Idle(h, l)
        BY <1>5, <3>1
      <4>2. QED BY <3>1, <4>1, NoTurn
    <3>2. CASE n[2] # 0
      <4>1. n[2] \in Nat \ {0}
        BY <1>1, <3>2, LoopCounts
      <4>2. CASE n[1] = 0
        <5>1. Outline(E, O, t, Idle(g, m), Idle(h, l))
          BY <2>2, <4>1, RunsAgain
        <5>2. QED BY <4>2, <5>1
      <4>3. CASE n[1] # 0
        <5> HIDE DEF h, l
        <5>1. Outline(E, O, t, Idle(h, l), Idle(h \ out, l \cup out))
          BY <2>2, <4>1, RunsAgain
        <5>2. Outline(E, O, t, Idle(h, l), Idle(h, l))
          BY <1>3, <5>1
        <5>3. QED BY <4>3, <5>2
      <4>4. QED BY <4>2, <4>3
    <3>3. QED BY <3>1, <3>2
  <2>5. Outline(E, O, s \o t, Idle(g, m), Idle(h, l))
    BY <2>3, <2>4, Then
  <2>6. QED BY <1>2, <2>1, <2>5
<1>6. QED
  BY <1>4, <1>5

-----------------------------------------------------------------------------
\* Programs.  A sound program clears too early at most what it is excepted for.
\* It starts with nothing known, or is the benchmark of the resource grid map
\* that was given nothing to load.
Sound(p) ==
  \E E, O, X, y : /\ Outline(E, O, p, Idle(X, {}), y)
                  /\ E \subseteq ClearedTooEarly(p) /\ (X = {} \/ p = Unloaded)

LEMMA SoundByOutline ==
  ASSUME NEW O, NEW p, NEW y, Outline({}, O, p, Idle({}, {}), y)
  PROVE  Sound(p)
<1>1. {} \subseteq ClearedTooEarly(p)
  OBVIOUS
<1>2. QED
  BY <1>1 DEF Sound

LEMMA FreedOutline ==
  ASSUME NEW E, NEW O, NEW p, NEW x, NEW g, NEW m, Outline(E, O, p, x, Idle(g, m))
  PROVE  Outline(E, O, Freed(p), x, Idle({}, {}))
<1>1. Outline(E, O, Free(BuffersOf(p)), Idle(g, m), Idle({}, {}))
  BY Frees
<1>2. Outline(E, O, p \o Free(BuffersOf(p)), x, Idle({}, {}))
  BY <1>1, Then
<1>3. QED
  BY <1>2 DEF Freed

LEMMA SoundFreed ==
  ASSUME NEW O, NEW p, NEW g, NEW m, Outline({}, O, p, Idle({}, {}), Idle(g, m))
  PROVE  Sound(Freed(p))
  BY FreedOutline, SoundByOutline

LEMMA KernelParts ==
  ASSUME NEW op, NEW in, NEW out
  PROVE  Kernel(op, in, out)[1].in = in /\ Kernel(op, in, out)[1].out = out
<1>1. Kernel(op, in, out)[1] = Command("launch", op, in, out)
  BY DEF Kernel
<1>2. QED
  BY <1>1 DEF Command

LEMMA MeasuredSound ==
  ASSUME NEW op, NEW in, NEW out, op # "free", in \cap out = {}
  PROVE  Sound(Measured(Kernel(op, in, out)))
<1> DEFINE k == Kernel(op, in, out)
<1>1. Outline({}, out, Upload(in), Idle({}, {}), Idle(in, {}))
  BY Puts
<1>2. Outline({}, out, Fill(out), Idle(in, {}), Idle(in, {}))
  BY Puts
<1>3. Fits({}, out, op, in, out, in, {}) /\ in \subseteq in \ out /\ out \subseteq {} \cup out
  BY DEF Fits
<1>4. Outline({}, out, Awaited(k), Idle(in, {}), Idle(in, out))
  BY <1>3, Measurement
<1>5. Outline({}, out, Download(out), Idle(in, out), Idle(in, out))
  BY Takes
<1>6. k[1].in = in /\ k[1].out = out
  BY KernelParts
<1> HIDE DEF k
<1>9. Outline({}, out, Upload(in) \o Fill(out) \o Awaited(k) \o Download(out), Idle({}, {}), Idle(in, out))
  BY <1>1, <1>2, <1>4, <1>5, ThenThree
<1>10. Sound(Freed(Upload(in) \o Fill(out) \o Awaited(k) \o Download(out)))
  BY <1>9, SoundFreed
<1>11. Measured(k) = Freed(Upload(in) \o Fill(out) \o Awaited(k) \o Download(out))
  BY <1>6 DEF Measured
<1>12. QED
  BY <1>10, <1>11 DEF k

LEMMA MeasuredClearedSound ==
  ASSUME NEW op, NEW in, NEW out, NEW scratch, op # "free", in \cap out \subseteq scratch
  PROVE  Sound(MeasuredCleared(Kernel(op, in, out), scratch))
<1> DEFINE k == Kernel(op, in, out)
           a == in \ scratch
           r == out \ scratch
           s == ({} \ scratch) \cup out
<1>1. /\ a \subseteq {} \cup a /\ a \subseteq a \cup r /\ {} \subseteq {} \ a /\ {} \subseteq {} \ r
      /\ r \cap out \subseteq s
      /\ Fits({}, out, op, in, out, a \cup scratch, {} \ scratch)
      /\ a \subseteq a /\ a \cap (out \cup scratch) = {} /\ {} \subseteq {}
  BY DEF Fits
<1>2. k[1].in = in /\ k[1].out = out
  BY KernelParts
<1> HIDE DEF a, r, s
<1>3. Outline({}, out, Upload(a), Idle({}, {}), Idle(a, {}))
  BY <1>1, Puts
<1>4. Outline({}, out, Fill(r), Idle(a, {}), Idle(a, {}))
  BY <1>1, Puts
<1>5. Outline({}, out, Awaited(Fill(scratch) \o k), Idle(a, {}), Idle(a, s))
  BY <1>1, ClearedMeasurement DEF s
<1>6. Outline({}, out, Download(r), Idle(a, s), Idle(a, s))
  BY <1>1, Takes
<1> HIDE DEF k
<1>9. Outline({}, out, Upload(a) \o Fill(r) \o Awaited(Fill(scratch) \o k) \o Download(r), Idle({}, {}), Idle(a, s))
  BY <1>3, <1>4, <1>5, <1>6, ThenThree
<1>10. Sound(Freed(Upload(a) \o Fill(r) \o Awaited(Fill(scratch) \o k) \o Download(r)))
  BY <1>9, SoundFreed
<1>11. MeasuredCleared(k, scratch) = Freed(Upload(a) \o Fill(r) \o Awaited(Fill(scratch) \o k) \o Download(r))
  BY <1>2 DEF MeasuredCleared, a, r
<1>12. QED
  BY <1>10, <1>11 DEF k

\* A case: its inputs uploaded, its results filled, in either order; one launch,
\* read back.
LEMMA CaseRuns ==
  ASSUME NEW E, NEW O, NEW op, NEW in, NEW out, NEW results, NEW own, NEW filled, NEW g, NEW m, NEW h, NEW l,
         Fits(E, O, op, in, out, g \cup own \cup filled, {}), results \cap O \subseteq out, results \cap E = {},
         h \subseteq (g \cup own \cup filled) \ out, l \subseteq out
  PROVE  /\ Outline(E, O, Upload(own) \o Fill(filled) \o Once(Kernel(op, in, out), results),
                    Idle(g, m), Idle(h, l))
         /\ Outline(E, O, Fill(filled) \o Upload(own) \o Once(Kernel(op, in, out), results),
                    Idle(g, m), Idle(h, l))
<1> DEFINE now == g \cup own \cup filled
           k == Kernel(op, in, out)
<1>1. /\ Fits(E, O, op, in, out, now, {}) /\ h \subseteq now \ out /\ l \subseteq {} \cup out
      /\ results \cap O \subseteq {} \cup out
  OBVIOUS
<1>2. /\ g \cup own \subseteq g \cup own /\ now \subseteq (g \cup own) \cup filled
      /\ g \cup filled \subseteq g \cup filled /\ now \subseteq (g \cup filled) \cup own
  OBVIOUS
<1> HIDE DEF now
<1>3. Outline(E, O, Once(k, results), Idle(now, {}), Idle(h, l))
  BY <1>1, RunsForResult
<1>4. /\ Outline(E, O, Upload(own), Idle(g, m), Idle(g \cup own, {}))
      /\ Outline(E, O, Fill(filled), Idle(g \cup own, {}), Idle(now, {}))
      /\ Outline(E, O, Fill(filled), Idle(g, m), Idle(g \cup filled, {}))
      /\ Outline(E, O, Upload(own), Idle(g \cup filled, {}), Idle(now, {}))
  BY <1>2, Puts
<1>5. /\ Outline(E, O, Upload(own) \o Fill(filled), Idle(g, m), Idle(now, {}))
      /\ Outline(E, O, Fill(filled) \o Upload(own), Idle(g, m), Idle(now, {}))
  BY <1>4, Then
<1>6. QED
  BY <1>3, <1>5, Then

\* The operators of the SISO chains, program by program.
LEMMA ResamplersSound == Sound(Decimate) /\ Sound(Interpolate)
<1> DEFINE a == {"in", "taps", "til"}
           O == {"out"}
           Run(op) == Upload(a) \o Awaited(Kernel(op, a, O)) \o Download(O)
<1>1. ASSUME NEW op, op # "free" PROVE Sound(Freed(Run(op)))
  <2>1. Outline({}, O, Upload(a), Idle({}, {}), Idle(a, {}))
    BY Puts
  <2>2. Fits({}, O, op, a, O, a, {}) /\ a \cap O = {} /\ a \subseteq a \ O /\ O \subseteq {} \cup O
    BY <1>1 DEF Fits
  <2>3. Outline({}, O, Awaited(Kernel(op, a, O)), Idle(a, {}), Idle(a, O))
    BY <2>2, Measurement
  <2>4. Outline({}, O, Download(O), Idle(a, O), Idle(a, O))
    BY Takes
  <2>6. Outline({}, O, Run(op), Idle({}, {}), Idle(a, O))
    BY <2>1, <2>3, <2>4, ThenTwo
  <2> HIDE DEF Run
  <2>7. QED BY <2>6, SoundFreed
<1>2. Decimate = Freed(Run("decimate")) /\ Interpolate = Freed(Run("interpolate"))
  BY DEF Decimate, Interpolate
<1>3. QED
  BY <1>1, <1>2

LEMMA SingleInputsSound ==
  Sound(ReDemap) /\ Sound(ReMap) /\ Sound(CfoCompensate) /\ Sound(PbchDmrsCorrelator)
<1>1. /\ {"in", "idx"} \cap {"out"} = {} /\ {"in", "idx", "a2b2", "til"} \cap {"out"} = {}
      /\ {"r", "d", "dneg", "til"} \cap {"out"} = {}
  OBVIOUS
<1>2. Sound(ReDemap)
  BY <1>1, MeasuredSound DEF ReDemap
<1>3. Sound(ReMap)
  BY <1>1, MeasuredSound DEF ReMap
<1>4. Sound(CfoCompensate)
  BY <1>1, MeasuredSound DEF CfoCompensate
<1>5. Sound(PbchDmrsCorrelator)
  BY <1>1, MeasuredSound DEF PbchDmrsCorrelator
<1>6. QED
  BY <1>2, <1>3, <1>4, <1>5

LEMMA ClearedSound == Sound(SsbFft) /\ Sound(OfdmDemod) /\ Sound(OfdmMod) /\ Sound(SssCorrelator)
<1>1. /\ {"in", "w16", "tw", "idx", "derot", "til", "scratch"} \cap {"scratch", "out"} \subseteq {"scratch"}
      /\ ({"in", "scratch"} \cup Tables) \cap {"scratch", "out"} \subseteq {"scratch"}
      /\ ({"in", "scratch"} \cup Tables) \cap {"scratch", "out", "iq"} \subseteq {"scratch"}
      /\ {"rx", "sss", "tw", "til", "scratch"} \cap {"scratch", "out"} \subseteq {"scratch"}
  BY DEF Tables
<1>2. Sound(SsbFft)
  BY <1>1, MeasuredClearedSound DEF SsbFft
<1>3. Sound(OfdmDemod)
  BY <1>1, MeasuredClearedSound DEF OfdmDemod
<1>4. Sound(OfdmMod)
  BY <1>1, MeasuredClearedSound DEF OfdmMod
<1>5. Sound(SssCorrelator)
  BY <1>1, MeasuredClearedSound DEF SssCorrelator
<1>6. QED
  BY <1>2, <1>3, <1>4, <1>5

LEMMA PssCorrelatorSound == Sound(PssCorrelator)
<1> DEFINE a == {"in", "ref", "tw", "til"}
           O == {"scratch", "out"}
           k == Kernel("pss_correlator", a, O)
           p == Upload(a) \o Fill({"out", "scratch"}) \o Awaited(k) \o Download({"out"}) \o Download({"scratch"})
<1>1. Outline({}, O, Upload(a), Idle({}, {}), Idle(a, {}))
  BY Puts
<1>2. Outline({}, O, Fill({"out", "scratch"}), Idle(a, {}), Idle(a, {}))
  BY Puts
<1>3. Fits({}, O, "pss_correlator", a, O, a, {}) /\ a \cap O = {} /\ a \subseteq a \ O /\ O \subseteq {} \cup O
  BY DEF Fits
<1>4. Outline({}, O, Awaited(k), Idle(a, {}), Idle(a, O))
  BY <1>3, Measurement
<1>5. Outline({}, O, Download({"out"}), Idle(a, O), Idle(a, O)) /\ Outline({}, O, Download({"scratch"}), Idle(a, O), Idle(a, O))
  BY Takes
<1>8. Outline({}, O, Upload(a) \o Fill({"out", "scratch"}) \o Awaited(k) \o Download({"out"}), Idle({}, {}), Idle(a, O))
  BY <1>1, <1>2, <1>4, <1>5, ThenThree
<1>9. Outline({}, O, p, Idle({}, {}), Idle(a, O))
  BY <1>5, <1>8, Then
<1>10. PssCorrelator = Freed(p)
  BY DEF PssCorrelator
<1> HIDE DEF p
<1>11. QED
  BY <1>9, <1>10, SoundFreed

LEMMA EqualizeZfSound == Sound(EqualizeZf)
<1> DEFINE in == {"y", "h", "til"}
           O == {"xhat", "noise"}
           k == Kernel("equalize_zf", in, O)
           Load == Upload({"y", "h"}) \o Fill(O)
           p == Upload({"til"}) \o Times(Cases, Load \o Once(k, O)) \o Load \o Awaited(k)
<1>1. Outline({}, O, Upload({"til"}), Idle({}, {}), Idle({"til"}, {}))
  BY Puts
<1>2. /\ Fits({}, O, "equalize_zf", in, O, {"til"} \cup {"y", "h"} \cup O, {}) /\ O \cap O \subseteq O
      /\ {"til"} \subseteq ({"til"} \cup {"y", "h"} \cup O) \ O /\ {} \subseteq O
  BY DEF Fits
<1>3. Outline({}, O, Load \o Once(k, O), Idle({"til"}, {}), Idle({"til"}, {}))
  BY <1>2, CaseRuns
<1>4. Outline({}, O, Times(Cases, Load \o Once(k, O)), Idle({"til"}, {}), Idle({"til"}, {}))
  BY <1>3, CasesAssumption, Repeats
<1>5. /\ Outline({}, O, Upload({"y", "h"}), Idle({"til"}, {}), Idle(in, {}))
      /\ Outline({}, O, Fill(O), Idle(in, {}), Idle(in, {}))
  BY Puts
<1>6. Outline({}, O, Load, Idle({"til"}, {}), Idle(in, {}))
  BY <1>5, Then
<1>7. Fits({}, O, "equalize_zf", in, O, in, {}) /\ in \cap O = {} /\ in \subseteq in \ O /\ O \subseteq {} \cup O
  BY DEF Fits
<1>8. Outline({}, O, Awaited(k), Idle(in, {}), Idle(in, O))
  BY <1>7, Measurement
<1> HIDE DEF k
<1>9. Outline({}, O, p, Idle({}, {}), Idle(in, O))
  BY <1>1, <1>4, <1>6, <1>8, ThenThree
<1>10. EqualizeZf = Freed(p)
  BY DEF EqualizeZf, k
<1> HIDE DEF p
<1>11. QED
  BY <1>9, <1>10, SoundFreed

LEMMA ChannelEstLsSound == Sound(ChannelEstLs)
<1> DEFINE base == {"weave", "til"}
           in == {"y", "x", "weave", "til"}
           O == {"h", "noise"}
           k == Kernel("channel_est_ls", in, O)
           Case == Fill(O) \o Upload({"y", "x"}) \o Once(k, O)
           p == Upload(base) \o Times(Cases, Case) \o Awaited(k)
<1>1. Outline({}, O, Upload(base), Idle({}, {}), Idle(base, {}))
  BY Puts
<1>2. /\ Fits({}, O, "channel_est_ls", in, O, base \cup {"y", "x"} \cup O, {}) /\ O \cap O \subseteq O
      /\ in \subseteq (base \cup {"y", "x"} \cup O) \ O /\ {} \subseteq O
      /\ Fits({}, O, "channel_est_ls", in, O, in \cup {"y", "x"} \cup O, {})
      /\ in \subseteq (in \cup {"y", "x"} \cup O) \ O
  BY DEF Fits
<1>3. Outline({}, O, Case, Idle(base, {}), Idle(in, {}))
  BY <1>2, CaseRuns
<1>4. Outline({}, O, Case, Idle(in, {}), Idle(in, {}))
  BY <1>2, CaseRuns
<1> HIDE DEF Case
<1>5. Outline({}, O, Times(Cases, Case), Idle(base, {}), Idle(in, {}))
  BY <1>3, <1>4, CasesAssumption, RunsOnce
<1>6. Fits({}, O, "channel_est_ls", in, O, in, {}) /\ in \cap O = {} /\ in \subseteq in \ O /\ O \subseteq {} \cup O
  BY DEF Fits
<1>7. Outline({}, O, Awaited(k), Idle(in, {}), Idle(in, O))
  BY <1>6, Measurement
<1> HIDE DEF k
<1>8. Outline({}, O, p, Idle({}, {}), Idle(in, O))
  BY <1>1, <1>5, <1>7, ThenTwo
<1>9. ChannelEstLs = Freed(p)
  BY DEF ChannelEstLs, k, Case
<1> HIDE DEF p
<1>10. QED
  BY <1>8, <1>9, SoundFreed

\* Cases that may be missing, then the benchmark on one of them.
LEMMA SkippingRuns ==
  ASSUME NEW op, NEW base, NEW own, NEW out, NEW results, op # "free", results \subseteq out,
         (base \cup own) \cap out = {}, NEW found \in Nat
  PROVE  Outline({}, out, Upload(base)
                        \o Times(found, Upload(own) \o Fill(out) \o Once(Kernel(op, base \cup own, out), results))
                        \o Upload(own) \o Awaited(Kernel(op, base \cup own, out)),
                 Idle({}, {}), Idle(base \cup own, out))
<1> DEFINE in == base \cup own
           k == Kernel(op, in, out)
           Case == Upload(own) \o Fill(out) \o Once(k, results)
<1>1. Outline({}, out, Upload(base), Idle({}, {}), Idle(base, {}))
  BY Puts
<1>2. /\ Fits({}, out, op, in, out, base \cup own \cup out, {}) /\ results \cap out \subseteq out
      /\ base \subseteq (base \cup own \cup out) \ out /\ {} \subseteq out
  BY DEF Fits
<1>3. Outline({}, out, Case, Idle(base, {}), Idle(base, {}))
  BY <1>2, CaseRuns
<1> HIDE DEF Case
<1>4. Outline({}, out, Times(found, Case), Idle(base, {}), Idle(base, {}))
  BY <1>3, Repeats
<1>5. Outline({}, out, Upload(own), Idle(base, {}), Idle(in, {}))
  BY Puts
<1>6. Fits({}, out, op, in, out, in, {}) /\ in \cap out = {} /\ in \subseteq in \ out /\ out \subseteq {} \cup out
  BY DEF Fits
<1>7. Outline({}, out, Awaited(k), Idle(in, {}), Idle(in, out))
  BY <1>6, Measurement
<1> HIDE DEF k, in
<1>8. Outline({}, out, Upload(base) \o Times(found, Case) \o Upload(own) \o Awaited(k), Idle({}, {}), Idle(in, out))
  BY <1>1, <1>4, <1>5, <1>7, ThenThree
<1>9. QED
  BY <1>8 DEF k, in, Case

LEMMA CfoDmrsSound == \A p \in CfoDmrs : Sound(p)
<1> DEFINE k == Kernel("cfo_dmrs", {"y", "x", "til"}, {"out"})
           Case == Upload({"y", "x"}) \o Fill({"out"}) \o Once(k, {"out"})
           P(found) == Upload({"til"}) \o Times(found, Case) \o Upload({"y", "x"}) \o Awaited(k)
<1>1. {"til"} \cup {"y", "x"} = {"y", "x", "til"} /\ ({"til"} \cup {"y", "x"}) \cap {"out"} = {}
  OBVIOUS
<1>2. ASSUME NEW found \in 0..Cases PROVE Sound(Freed(P(found)))
  <2>1. found \in Nat
    BY CasesAssumption
  <2>2. Outline({}, {"out"}, Upload({"til"})
                  \o Times(found, Upload({"y", "x"}) \o Fill({"out"})
                                    \o Once(Kernel("cfo_dmrs", {"til"} \cup {"y", "x"}, {"out"}), {"out"}))
                  \o Upload({"y", "x"}) \o Awaited(Kernel("cfo_dmrs", {"til"} \cup {"y", "x"}, {"out"})),
                Idle({}, {}), Idle({"til"} \cup {"y", "x"}, {"out"}))
    BY <1>1, <2>1, SkippingRuns
  <2>3. Outline({}, {"out"}, P(found), Idle({}, {}), Idle({"til"} \cup {"y", "x"}, {"out"}))
    BY <1>1, <2>2
  <2> HIDE DEF P
  <2>4. QED BY <2>3, SoundFreed
<1>3. CfoDmrs = {Freed(P(found)) : found \in 0..Cases}
  BY DEF CfoDmrs
<1> HIDE DEF P
<1>4. QED
  BY <1>2, <1>3

LEMMA DmrsGenSound == \A p \in DmrsGen : Sound(p)
<1> DEFINE base == {"gmat", "g1", "til"}
           out == {"out", "dbg"}
           k == Kernel("dmrs_gen", {"cinit", "gmat", "g1", "til"}, out)
           Case == Upload({"cinit"}) \o Fill(out) \o Once(k, out)
           P(found) == Upload(base) \o Times(found, Case) \o Upload({"cinit"}) \o Awaited(k)
<1>1. base \cup {"cinit"} = {"cinit", "gmat", "g1", "til"} /\ (base \cup {"cinit"}) \cap out = {}
  OBVIOUS
<1>2. ASSUME NEW found \in 0..Cases PROVE Sound(Freed(P(found)))
  <2>1. found \in Nat
    BY CasesAssumption
  <2>2. Outline({}, out, Upload(base)
                  \o Times(found, Upload({"cinit"}) \o Fill(out)
                                    \o Once(Kernel("dmrs_gen", base \cup {"cinit"}, out), out))
                  \o Upload({"cinit"}) \o Awaited(Kernel("dmrs_gen", base \cup {"cinit"}, out)),
                Idle({}, {}), Idle(base \cup {"cinit"}, out))
    BY <1>1, <2>1, SkippingRuns
  <2>3. Outline({}, out, P(found), Idle({}, {}), Idle(base \cup {"cinit"}, out))
    BY <1>1, <2>2
  <2> HIDE DEF P
  <2>4. QED BY <2>3, SoundFreed
<1>3. DmrsGen = {Freed(P(found)) : found \in 0..Cases}
  BY DEF DmrsGen
<1> HIDE DEF P
<1>4. QED
  BY <1>2, <1>3

LEMMA PssCfoEstimatorSound == \A p \in PssCfoEstimator : Sound(p)
<1> DEFINE in == {"y", "x", "tables", "til"}
           base == {"tables", "til"}
           O == {"out"}
           k == Kernel("pss_cfo_estimator", in, O)
           Case == Upload({"y", "x"}) \o Fill(O) \o Once(k, O)
           P(found) == Upload({"tables"}) \o Upload({"til"}) \o Times(found, Case)
                         \o Upload({"y", "x"}) \o Awaited(k) \o Times(TimedRuns, Times(PerSync, k) \o Wait)
<1>1. /\ Outline({}, O, Upload({"tables"}), Idle({}, {}), Idle({"tables"}, {}))
      /\ Outline({}, O, Upload({"til"}), Idle({"tables"}, {}), Idle(base, {}))
      /\ Outline({}, O, Upload({"y", "x"}), Idle(base, {}), Idle(in, {}))
  BY Puts
<1>2. /\ Fits({}, O, "pss_cfo_estimator", in, O, base \cup {"y", "x"} \cup O, {}) /\ O \cap O \subseteq O
      /\ base \subseteq (base \cup {"y", "x"} \cup O) \ O /\ {} \subseteq O
  BY DEF Fits
<1>3. Outline({}, O, Case, Idle(base, {}), Idle(base, {}))
  BY <1>2, CaseRuns
<1>4. /\ Fits({}, O, "pss_cfo_estimator", in, O, in, {}) /\ in \cap O = {} /\ in \subseteq in \ O /\ O \subseteq {} \cup O
      /\ Fits({}, O, "pss_cfo_estimator", in, O, in, O) /\ in \ O = in /\ O \cup O = O
  BY DEF Fits
<1>5. Outline({}, O, Awaited(k), Idle(in, {}), Idle(in, O))
  BY <1>4, Measurement
<1>6. Outline({}, O, Times(TimedRuns, Times(PerSync, k) \o Wait), Idle(in, O), Idle(in \ O, O \cup O))
  BY <1>4, LoopCounts, BatchAfterBatch
<1>7. Outline({}, O, Times(TimedRuns, Times(PerSync, k) \o Wait), Idle(in, O), Idle(in, O))
  BY <1>4, <1>6
<1> HIDE DEF k, Case
<1>8. ASSUME NEW found \in 0..Cases PROVE Sound(Freed(P(found)))
  <2>1. found \in Nat
    BY CasesAssumption
  <2>2. Outline({}, O, Times(found, Case), Idle(base, {}), Idle(base, {}))
    BY <1>3, <2>1, Repeats
  <2>3. Outline({}, O, Upload({"tables"}) \o Upload({"til"}) \o Times(found, Case) \o Upload({"y", "x"}),
                Idle({}, {}), Idle(in, {}))
    BY <1>1, <2>2, ThenThree
  <2>4. Outline({}, O, P(found), Idle({}, {}), Idle(in, O))
    BY <1>5, <1>7, <2>3, ThenTwo
  <2> HIDE DEF P
  <2>5. QED BY <2>4, SoundFreed
<1>9. PssCfoEstimator = {Freed(P(found)) : found \in 0..Cases}
  BY DEF PssCfoEstimator, k, Case
<1> HIDE DEF P
<1>10. QED
  BY <1>8, <1>9

\* Kernels that work in scratch memory, case by case.
LEMMA ScratchCases ==
  ASSUME NEW op, NEW base, op # "free", {"in", "scratch", "out"} \cap base = {}
  PROVE  LET k == Kernel(op, {"in", "scratch"} \cup base, {"scratch", "out"})
             Case == Upload({"in"}) \o Fill({"scratch", "out"}) \o Once(k, {"out"})
         IN Sound(Freed(Upload(base) \o Times(Cases, Case) \o Upload({"in"})
                          \o Awaited(Fill({"scratch"}) \o k)))
<1> DEFINE in == {"in", "scratch"} \cup base
           O == {"scratch", "out"}
           k == Kernel(op, in, O)
           Case == Upload({"in"}) \o Fill(O) \o Once(k, {"out"})
           p == Upload(base) \o Times(Cases, Case) \o Upload({"in"}) \o Awaited(Fill({"scratch"}) \o k)
           now == base \cup {"in"}
<1>1. /\ Outline({}, O, Upload(base), Idle({}, {}), Idle(base, {}))
      /\ Outline({}, O, Upload({"in"}), Idle(base, {}), Idle(now, {}))
  BY Puts
<1>2. /\ Fits({}, O, op, in, O, base \cup {"in"} \cup O, {}) /\ {"out"} \cap O \subseteq O
      /\ base \subseteq (base \cup {"in"} \cup O) \ O /\ {} \subseteq O
  BY DEF Fits
<1>3. Outline({}, O, Case, Idle(base, {}), Idle(base, {}))
  BY <1>2, CaseRuns
<1>4. /\ Fits({}, O, op, in, O, now \cup {"scratch"}, {} \ {"scratch"})
      /\ now \subseteq now /\ now \cap (O \cup {"scratch"}) = {} /\ {} \subseteq {}
  BY DEF Fits
<1> HIDE DEF now
<1>5. Outline({}, O, Awaited(Fill({"scratch"}) \o k), Idle(now, {}), Idle(now, ({} \ {"scratch"}) \cup O))
  BY <1>4, ClearedMeasurement
<1> HIDE DEF k, Case
<1>6. Outline({}, O, Times(Cases, Case), Idle(base, {}), Idle(base, {}))
  BY <1>3, CasesAssumption, Repeats
<1>7. Outline({}, O, p, Idle({}, {}), Idle(now, ({} \ {"scratch"}) \cup O))
  BY <1>1, <1>5, <1>6, ThenThree
<1> HIDE DEF p
<1>8. Sound(Freed(p))
  BY <1>7, SoundFreed
<1>9. QED
  BY <1>8 DEF p, k, Case

LEMMA EstimatorsSound == Sound(CfoEstimate) /\ Sound(PssAcquisition)
<1>1. /\ {"in", "scratch"} \cup {"til"} = {"in", "til", "scratch"}
      /\ {"in", "scratch"} \cup {"pss", "til"} = {"in", "pss", "til", "scratch"}
      /\ {"in", "scratch", "out"} \cap {"til"} = {} /\ {"in", "scratch", "out"} \cap {"pss", "til"} = {}
  OBVIOUS
<1>2. Sound(CfoEstimate)
  BY <1>1, ScratchCases DEF CfoEstimate
<1>3. Sound(PssAcquisition)
  BY <1>1, ScratchCases DEF PssAcquisition
<1>4. QED
  BY <1>2, <1>3

LEMMA TimingTrackerSound == Sound(TimingTracker)
<1> DEFINE base == {"weights", "til"}
           in == {"h", "weights", "til", "scratch"}
           O == {"scratch", "cir", "dt"}
           S == {"scratch"}
           now == {"h", "weights", "til"}
           made == ({} \ S) \cup O
           k == Kernel("timing_tracker", in, O)
           Run == Fill(S) \o k \o Wait
           Case(runs) == Upload({"h"}) \o runs \o Download({"cir", "dt"})
           timed == Awaited(Fill(S) \o k)
           p == Upload(base) \o Case(timed) \o Times(Cases - 1, Case(Run))
<1>1. /\ Fits({}, O, "timing_tracker", in, O, now \cup S, {} \ S)
      /\ now \subseteq now /\ now \cap (O \cup S) = {} /\ {} \subseteq {}
      /\ {"cir", "dt"} \cap O \subseteq made
      /\ now \subseteq base \cup {"h"} /\ now \subseteq now \cup {"h"} /\ {} \subseteq made \ {"h"}
  BY DEF Fits
<1>2. Outline({}, O, timed, Idle(now, {}), Idle(now, made))
  BY <1>1, ClearedMeasurement
<1>3. Outline({}, O, Run, Idle(now, {}), Idle(now, made))
  BY <1>1, ClearedRun
<1> HIDE DEF k, Run, timed, made, now
<1>4. /\ Outline({}, O, Upload(base), Idle({}, {}), Idle(base, {}))
      /\ Outline({}, O, Upload({"h"}), Idle(base, {}), Idle(now, {}))
      /\ Outline({}, O, Upload({"h"}), Idle(now, made), Idle(now, {}))
  BY <1>1, Puts
<1>5. Outline({}, O, Download({"cir", "dt"}), Idle(now, made), Idle(now, made))
  BY <1>1, Takes
<1>6. Outline({}, O, Case(timed), Idle(base, {}), Idle(now, made))
  BY <1>2, <1>4, <1>5, ThenTwo
<1>7. Outline({}, O, Case(Run), Idle(now, made), Idle(now, made))
  BY <1>3, <1>4, <1>5, ThenTwo
<1>8. TimingTracker = Freed(p)
  BY DEF TimingTracker, k, Run, timed
<1> HIDE DEF Case
<1>9. Cases - 1 \in Nat
  BY CasesAssumption
<1>10. Outline({}, O, Times(Cases - 1, Case(Run)), Idle(now, made), Idle(now, made))
  BY <1>7, <1>9, Repeats
<1>11. Outline({}, O, p, Idle({}, {}), Idle(now, made))
  BY <1>4, <1>6, <1>10, ThenTwo
<1> HIDE DEF p
<1>12. QED
  BY <1>8, <1>11, SoundFreed

LEMMA InPlaceSound == Sound(WinSlice) /\ Sound(MergeDmrs)
<1>1. Sound(WinSlice)
  <2> DEFINE in == {"cap", "dt", "rd"}
             O == {"out", "rd"}
             Case == Upload(in) \o Once(Kernel("win_slice", in, O), O)
  <2>1. Outline({}, O, Upload(in), Idle({}, {}), Idle(in, {}))
    BY Puts
  <2>2. Fits({}, O, "win_slice", in, O, in, {}) /\ {} \subseteq in \ O /\ {} \subseteq {} \cup O /\ O \cap O \subseteq {} \cup O
    BY DEF Fits
  <2>3. Outline({}, O, Once(Kernel("win_slice", in, O), O), Idle(in, {}), Idle({}, {}))
    BY <2>2, RunsForResult
  <2>4. Outline({}, O, Case, Idle({}, {}), Idle({}, {}))
    BY <2>1, <2>3, Then
  <2>5. WinSlice = Freed(Times(Cases, Case))
    BY DEF WinSlice
  <2> HIDE DEF Case
  <2>6. Outline({}, O, Times(Cases, Case), Idle({}, {}), Idle({}, {}))
    BY <2>4, CasesAssumption, Repeats
  <2>7. QED BY <2>5, <2>6, SoundFreed
<1>2. Sound(MergeDmrs)
  <2> DEFINE in == {"gu", "dmrs"}
             O == {"gu"}
             p == Upload(in) \o Once(Kernel("merge_dmrs", in, O), O)
  <2>1. Outline({}, O, Upload(in), Idle({}, {}), Idle(in, {}))
    BY Puts
  <2>2. Fits({}, O, "merge_dmrs", in, O, in, {}) /\ {} \subseteq in \ O /\ {} \subseteq {} \cup O /\ O \cap O \subseteq {} \cup O
    BY DEF Fits
  <2>3. Outline({}, O, Once(Kernel("merge_dmrs", in, O), O), Idle(in, {}), Idle({}, {}))
    BY <2>2, RunsForResult
  <2>4. Outline({}, O, p, Idle({}, {}), Idle({}, {}))
    BY <2>1, <2>3, Then
  <2>5. MergeDmrs = Freed(p)
    BY DEF MergeDmrs
  <2> HIDE DEF p
  <2>6. QED BY <2>4, <2>5, SoundFreed
<1>3. QED
  BY <1>1, <1>2

LEMMA QamModSound == \A p \in QamMod : Sound(p)
<1> DEFINE in == {"bits", "til"}
           O == {"syms"}
           k == Kernel("qam_mod", in, O)
           Case == Fill(O) \o Upload({"bits"}) \o Once(k, O)
           P(found) == Upload({"til"}) \o Times(found, Case)
<1>1. Outline({}, O, Upload({"til"}), Idle({}, {}), Idle({"til"}, {}))
  BY Puts
<1>2. /\ Fits({}, O, "qam_mod", in, O, {"til"} \cup {"bits"} \cup O, {}) /\ O \cap O \subseteq O
      /\ {"til"} \subseteq ({"til"} \cup {"bits"} \cup O) \ O /\ in \subseteq ({"til"} \cup {"bits"} \cup O) \ O
      /\ Fits({}, O, "qam_mod", in, O, in \cup {"bits"} \cup O, {})
      /\ in \subseteq (in \cup {"bits"} \cup O) \ O /\ {} \subseteq O
      /\ Fits({}, O, "qam_mod", in, O, in, {}) /\ in \cap O = {}
  BY DEF Fits
<1>3. /\ Outline({}, O, Case, Idle({"til"}, {}), Idle({"til"}, {}))
      /\ Outline({}, O, Case, Idle({"til"}, {}), Idle(in, {}))
      /\ Outline({}, O, Case, Idle(in, {}), Idle(in, {}))
  BY <1>2, CaseRuns
<1>4. Outline({}, O, Throughput(k), Idle(in, {}), Idle(in \ O, {} \cup O))
  BY <1>2, ThroughputRuns
<1>5. QamMod = {P(found) : found \in 0..(Cases - 1)} \cup {Freed(P(Cases) \o Throughput(k))}
  BY DEF QamMod
<1> HIDE DEF Case, k
<1>6. ASSUME NEW found \in 0..(Cases - 1) PROVE Sound(P(found))
  <2>1. found \in Nat
    BY CasesAssumption
  <2>2. Outline({}, O, Times(found, Case), Idle({"til"}, {}), Idle({"til"}, {}))
    BY <1>3, <2>1, Repeats
  <2>3. Outline({}, O, P(found), Idle({}, {}), Idle({"til"}, {}))
    BY <1>1, <2>2, Then
  <2> HIDE DEF P
  <2>4. QED BY <2>3, SoundByOutline
<1>7. Sound(Freed(P(Cases) \o Throughput(k)))
  <2>1. Outline({}, O, Times(Cases, Case), Idle({"til"}, {}), Idle(in, {}))
    BY <1>3, CasesAssumption, RunsOnce
  <2>2. Outline({}, O, P(Cases) \o Throughput(k), Idle({}, {}), Idle(in \ O, {} \cup O))
    BY <1>1, <1>4, <2>1, ThenTwo
  <2> HIDE DEF P
  <2>3. QED BY <2>2, SoundFreed
<1> HIDE DEF P
<1>8. QED
  BY <1>5, <1>6, <1>7

LEMMA QamDemodSound == Sound(QamDemod)
<1> DEFINE base == {"ws", "til"}
           own == {"x", "noise"}
           in == {"x", "noise", "til", "ws"}
           O == {"llr"}
           k == Kernel("qam_demod", in, O)
           Case == Upload(own) \o Fill(O) \o Once(k, O)
           p == Fill({"ws"}) \o Upload({"til"}) \o Times(Cases, Case) \o Throughput(k)
<1>1. /\ Outline({}, O, Fill({"ws"}), Idle({}, {}), Idle({"ws"}, {}))
      /\ Outline({}, O, Upload({"til"}), Idle({"ws"}, {}), Idle(base, {}))
  BY Puts
<1>2. /\ Fits({}, O, "qam_demod", in, O, base \cup own \cup O, {}) /\ O \cap O \subseteq O
      /\ in \subseteq (base \cup own \cup O) \ O
      /\ Fits({}, O, "qam_demod", in, O, in \cup own \cup O, {})
      /\ in \subseteq (in \cup own \cup O) \ O /\ {} \subseteq O
      /\ Fits({}, O, "qam_demod", in, O, in, {}) /\ in \cap O = {}
  BY DEF Fits
<1>3. Outline({}, O, Case, Idle(base, {}), Idle(in, {})) /\ Outline({}, O, Case, Idle(in, {}), Idle(in, {}))
  BY <1>2, CaseRuns
<1>4. Outline({}, O, Throughput(k), Idle(in, {}), Idle(in \ O, {} \cup O))
  BY <1>2, ThroughputRuns
<1>5. QamDemod = Freed(p)
  BY DEF QamDemod
<1> HIDE DEF Case, k
<1>6. Outline({}, O, Times(Cases, Case), Idle(base, {}), Idle(in, {}))
  BY <1>3, CasesAssumption, RunsOnce
<1>7. Outline({}, O, p, Idle({}, {}), Idle(in \ O, {} \cup O))
  BY <1>1, <1>4, <1>6, ThenThree
<1> HIDE DEF p
<1>8. QED
  BY <1>5, <1>7, SoundFreed

\* One launch verified, then throughput.
LEMMA VerifiedRun ==
  ASSUME NEW op, NEW in, NEW out, op # "free", in \cap out = {}
  PROVE  LET k == Kernel(op, in, out)
             verified == Upload(in) \o Fill(out) \o Once(k, out)
         IN /\ Outline({}, out, verified, Idle({}, {}), Idle(in, out))
            /\ Outline({}, out, verified \o Throughput(k), Idle({}, {}), Idle(in \ out, out \cup out))
<1> DEFINE k == Kernel(op, in, out)
           verified == Upload(in) \o Fill(out) \o Once(k, out)
<1>1. /\ Fits({}, out, op, in, out, {} \cup in \cup out, {}) /\ out \cap out \subseteq out
      /\ in \subseteq ({} \cup in \cup out) \ out /\ out \subseteq out
      /\ Fits({}, out, op, in, out, in, out)
  BY DEF Fits
<1>2. Outline({}, out, verified, Idle({}, {}), Idle(in, out))
  BY <1>1, CaseRuns
<1>3. Outline({}, out, Throughput(k), Idle(in, out), Idle(in \ out, out \cup out))
  BY <1>1, ThroughputRuns
<1> HIDE DEF k, verified
<1>4. Outline({}, out, verified \o Throughput(k), Idle({}, {}), Idle(in \ out, out \cup out))
  BY <1>2, <1>3, Then
<1>5. QED
  BY <1>2, <1>4 DEF k, verified

LEMMA RateMatchingSound == \A p \in RateMatch \cup RateDematch : Sound(p)
<1>1. ASSUME NEW op, op # "free"
      PROVE  \A p \in RateMatching(Kernel(op, {"in"}, {"out"})) : Sound(p)
  <2> DEFINE k == Kernel(op, {"in"}, {"out"})
             verified == Upload({"in"}) \o Fill({"out"}) \o Once(k, {"out"})
  <2>1. k[1].in = {"in"} /\ k[1].out = {"out"}
    BY KernelParts
  <2>2. {"in"} \cap {"out"} = {}
    OBVIOUS
  <2>3. /\ Outline({}, {"out"}, verified, Idle({}, {}), Idle({"in"}, {"out"}))
        /\ Outline({}, {"out"}, verified \o Throughput(k), Idle({}, {}), Idle({"in"} \ {"out"}, {"out"} \cup {"out"}))
    BY <1>1, <2>2, VerifiedRun
  <2> HIDE DEF k
  <2>4. RateMatching(k) = {Freed(verified), Freed(verified \o Throughput(k))}
    BY <2>1 DEF RateMatching
  <2> HIDE DEF verified
  <2>5. Sound(Freed(verified)) /\ Sound(Freed(verified \o Throughput(k)))
    BY <2>3, SoundFreed
  <2>6. \A p \in RateMatching(k) : Sound(p)
    BY <2>4, <2>5
  <2>7. QED BY <2>6 DEF k
<1>2. \A p \in RateMatch : Sound(p)
  BY <1>1 DEF RateMatch
<1>3. \A p \in RateDematch : Sound(p)
  BY <1>1 DEF RateDematch
<1>4. QED
  BY <1>2, <1>3

LEMMA LlrAssembleSound == Sound(LlrAssemble)
<1> DEFINE in == {"in", "til"}
           k == Kernel("llr_assemble", in, {"out"})
           p == Upload(in) \o Fill({"out"}) \o Once(k, {"out"}) \o Throughput(k)
<1>1. in \cap {"out"} = {}
  OBVIOUS
<1>2. Outline({}, {"out"}, p, Idle({}, {}), Idle(in \ {"out"}, {"out"} \cup {"out"}))
  BY <1>1, VerifiedRun
<1>3. LlrAssemble = Freed(p)
  BY DEF LlrAssemble
<1> HIDE DEF p
<1>4. QED
  BY <1>2, <1>3, SoundFreed

\* A launch, and a batch that repeats it before the result is read.
LEMMA RepeatedRun ==
  ASSUME NEW op, NEW in, NEW out, NEW filled, NEW loaded, op # "free", in \cap out = {},
         in \subseteq filled \cup loaded
  PROVE  LET k == Kernel(op, in, out)
         IN Sound(Freed(Fill(filled) \o Upload(loaded) \o k \o Wait
                          \o Times(PerSync, k) \o Wait \o Download(out)))
<1> DEFINE k == Kernel(op, in, out)
           d == {Command("launch", op, in, out)}
           p == Fill(filled) \o Upload(loaded) \o k \o Wait \o Times(PerSync, k) \o Wait \o Download(out)
<1>1. /\ Outline({}, out, Fill(filled), Idle({}, {}), Idle(filled, {}))
      /\ Outline({}, out, Upload(loaded), Idle(filled, {}), Idle(filled \cup loaded, {}))
  BY Puts
<1>2. /\ Fits({}, out, op, in, out, filled \cup loaded, {}) /\ Fits({}, out, op, in, out, in, out)
      /\ in \subseteq (filled \cup loaded) \ out /\ out \subseteq {} \cup out
      /\ in \ out = in /\ out \cup out = out /\ out \cap out \subseteq out
      /\ {} \cup {Command("launch", op, in, out)} \subseteq d
  BY DEF Fits
<1> HIDE DEF d
<1>3. Outline({}, out, k, Known(filled \cup loaded, {}, {}), Known(in, out, d))
  BY <1>2, Queues
<1>4. Outline({}, out, k, Idle(filled \cup loaded, {}), Known(in, out, d))
  BY <1>3 DEF Idle
<1>5. Outline({}, out, Wait, Known(in, out, d), Idle(in, out))
  BY Waits
<1>6. Outline({}, out, Times(PerSync, k), Idle(in, out), Known(in \ out, out \cup out, d))
  BY <1>2, LoopCounts, QueuesBatch DEF d
<1>7. Outline({}, out, Times(PerSync, k), Idle(in, out), Known(in, out, d))
  BY <1>2, <1>6
<1>8. Outline({}, out, Download(out), Idle(in, out), Idle(in, out))
  BY <1>2, Takes
<1> HIDE DEF k
<1>9. Outline({}, out, Fill(filled) \o Upload(loaded) \o k \o Wait, Idle({}, {}), Idle(in, out))
  BY <1>1, <1>4, <1>5, ThenThree
<1>10. Outline({}, out, p, Idle({}, {}), Idle(in, out))
  BY <1>5, <1>7, <1>8, <1>9, ThenThree
<1> HIDE DEF p
<1>11. Sound(Freed(p))
  BY <1>10, SoundFreed
<1>12. QED
  BY <1>11 DEF p, k

LEMMA ScramblersSound == Sound(Descramble) /\ Sound(Scramble)
<1>1. /\ {"in", "sign", "nslot"} \cap {"out"} = {}
      /\ {"in", "sign", "nslot"} \subseteq {"out"} \cup {"in", "sign", "nslot"}
      /\ {"in", "gold", "nslot", "ws", "til"} \cap {"out"} = {}
      /\ {"in", "gold", "nslot", "ws", "til"} \subseteq {"out", "ws", "til"} \cup {"in", "gold", "nslot"}
  OBVIOUS
<1>2. Sound(Descramble)
  BY <1>1, RepeatedRun DEF Descramble
<1>3. Sound(Scramble)
  BY <1>1, RepeatedRun DEF Scramble
<1>4. QED
  BY <1>2, <1>3

LEMMA LdpcEncodeSound == \A p \in LdpcEncode : Sound(p)
<1> DEFINE in == {"info", "tables"}
           O == {"out", "dbg"}
           k == Kernel("ldpc_encode", in, O)
           verified == Fill({"tables", "out", "dbg"}) \o Upload({"tables", "info"}) \o Once(k, {"out"})
<1>1. /\ Fits({}, O, "ldpc_encode", in, O, {} \cup {"tables", "info"} \cup {"tables", "out", "dbg"}, {})
      /\ {"out"} \cap O \subseteq O /\ {"out"} \cap {} = {}
      /\ in \subseteq ({} \cup {"tables", "info"} \cup {"tables", "out", "dbg"}) \ O /\ O \subseteq O
      /\ Fits({}, O, "ldpc_encode", in, O, in, O) /\ in \cap O = {}
  BY DEF Fits
<1>2. Outline({}, O, verified, Idle({}, {}), Idle(in, O))
  BY <1>1, CaseRuns
<1>3. Outline({}, O, Throughput(k), Idle(in, O), Idle(in \ O, O \cup O))
  BY <1>1, ThroughputRuns
<1>4. LdpcEncode = {verified, Freed(verified \o Throughput(k))}
  BY DEF LdpcEncode
<1> HIDE DEF k, verified
<1>5. Outline({}, O, verified \o Throughput(k), Idle({}, {}), Idle(in \ O, O \cup O))
  BY <1>2, <1>3, Then
<1>6. Sound(verified) /\ Sound(Freed(verified \o Throughput(k)))
  BY <1>2, <1>5, SoundByOutline, SoundFreed
<1>7. QED
  BY <1>4, <1>6

\* The benchmark clears the messages, which no command reads, behind launches
\* that use them.
LEMMA LdpcDecodeSound == Sound(LdpcDecode)
<1> DEFINE in == {"llr", "graph"}
           O == {"prev", "bits", "posterior"}
           E == {"prev"}
           filled == {"prev", "graph", "bits", "posterior"}
           made == O \ E
           k == Kernel("ldpc_decode", in, O)
           d == {Command("launch", "ldpc_decode", in, O)}
           turn == Fill(E) \o k
           verified == Fill(filled) \o Upload(in) \o Once(k, {"bits", "posterior"})
<1>1. /\ Fits(E, O, "ldpc_decode", in, O, {} \cup in \cup filled, {})
      /\ {"bits", "posterior"} \cap O \subseteq O /\ {"bits", "posterior"} \cap E = {}
      /\ in \subseteq ({} \cup in \cup filled) \ O /\ O \subseteq O
  BY DEF Fits
<1>2. /\ Fits(E, O, "ldpc_decode", in, O, in, made) /\ in \subseteq in \ O /\ O \subseteq made \cup O
      /\ in \subseteq in \cup E /\ made \subseteq O \ E /\ E \subseteq E
      /\ d \cup {Command("launch", "ldpc_decode", in, O)} \subseteq d
  BY DEF Fits
<1>3. Outline(E, O, verified, Idle({}, {}), Idle(in, O))
  BY <1>1, CaseRuns
<1>4. ClearedTooEarly(LdpcDecode) = E
  BY DEF ClearedTooEarly
<1>5. LdpcDecode = Freed(verified \o Throughput(turn))
  BY DEF LdpcDecode, Decoder
<1> HIDE DEF in, O, E, made, d, verified
<1>6. Outline(E, O, Fill(E), Known(in, O, d), Known(in, made, d))
  BY <1>2, FillsBehind
<1>7. Outline(E, O, k, Known(in, made, d), Known(in, O, d))
  BY <1>2, Queues
<1>8. Outline(E, O, turn, Known(in, O, d), Known(in, O, d))
  BY <1>6, <1>7, Then
<1> HIDE DEF k, turn
<1>9. ASSUME NEW n \in Nat PROVE Outline(E, O, Times(n, turn) \o Wait, Idle(in, O), Idle(in, O))
  <2>1. Outline(E, O, Times(n, turn), Known(in, O, d), Known(in, O, d))
    BY <1>8, Repeats
  <2>2. Outline(E, O, Wait, Known(in, O, d), Idle(in, O))
    BY Waits
  <2>3. Outline(E, O, Times(n, turn) \o Wait, Known(in, O, d), Idle(in, O))
    BY <2>1, <2>2, Then
  <2>4. Implies(Idle(in, O), Known(in, O, d)) /\ Implies(Idle(in, O), Idle(in, O))
    BY DEF Implies, Idle, Known
  <2>5. QED BY <2>3, <2>4, Weaker
<1>10. Warmups \in Nat /\ TimedRuns \in Nat /\ PerSync \in Nat
  BY LoopCounts
<1>11. Outline(E, O, Times(Warmups, turn) \o Wait, Idle(in, O), Idle(in, O))
  BY <1>9, <1>10
<1>12. Outline(E, O, Times(TimedRuns, Times(PerSync, turn) \o Wait), Idle(in, O), Idle(in, O))
  BY <1>9, <1>10, Repeats
<1>13. Outline(E, O, Throughput(turn), Idle(in, O), Idle(in, O))
  BY <1>11, <1>12, Then DEF Throughput
<1>14. Outline(E, O, verified \o Throughput(turn), Idle({}, {}), Idle(in, O))
  BY <1>3, <1>13, Then
<1>15. Outline(E, O, LdpcDecode, Idle({}, {}), Idle({}, {}))
  BY <1>5, <1>14, FreedOutline
<1>16. QED
  BY <1>4, <1>15 DEF Sound

LEMMA SisoSound == \A p \in SisoPrograms : Sound(p)
<1>1. ASSUME NEW p \in SisoPrograms, p \notin CfoDmrs \cup DmrsGen \cup PssCfoEstimator \cup QamMod
                                               \cup RateMatch \cup RateDematch \cup LdpcEncode
      PROVE  Sound(p)
  BY <1>1, ResamplersSound, SingleInputsSound, ClearedSound, PssCorrelatorSound, EqualizeZfSound,
     ChannelEstLsSound, EstimatorsSound, TimingTrackerSound, InPlaceSound, QamDemodSound,
     LlrAssembleSound, ScramblersSound, LdpcDecodeSound DEF SisoPrograms
<1>2. QED
  BY <1>1, CfoDmrsSound, DmrsGenSound, PssCfoEstimatorSound, QamModSound, RateMatchingSound,
     LdpcEncodeSound

\* The operators of the MIMO chains.
LEMMA RankedSound ==
  ASSUME NEW op, NEW in, NEW out, NEW shared, NEW prepared, op # "free", in \cap out = {},
         shared \subseteq in, \A O : Outline({}, O, prepared, Idle({}, {}), Idle(shared, {}))
  PROVE  \A p \in Ranked(Kernel(op, in, out), shared, prepared) : Sound(p)
<1> DEFINE k == Kernel(op, in, out)
           own == in \ shared
           Case(n) == Upload(own) \o Fill(out) \o Timed(k, n[1], n[2]) \o Download(out) \o Free(own \cup out)
           P(n) == prepared \o Times(Cases, Case(n)) \o Free(shared)
<1>1. k[1].in = in /\ k[1].out = out
  BY KernelParts
<1>2. ASSUME NEW n \in Counts PROVE Sound(P(n))
  <2> DEFINE O == Computed(n, out)
  <2>1. O \subseteq out
    BY DEF Computed
  <2>2. /\ in \subseteq shared \cup own /\ in \subseteq in \cup out /\ {} \subseteq {} \ own /\ {} \subseteq {} \ out
        /\ in \subseteq in \cup {} /\ O \subseteq O /\ in \ out = in /\ {} \cup O = O
        /\ out \cap O \subseteq O /\ shared \subseteq in \ (own \cup out) /\ {} \subseteq O \ (own \cup out)
    BY <2>1
  <2> HIDE DEF O, own
  <2>3. /\ Outline({}, O, Upload(own), Idle(shared, {}), Idle(in, {}))
        /\ Outline({}, O, Fill(out), Idle(in, {}), Idle(in, {}))
    BY <2>2, Puts
  <2>4. Outline({}, O, Timed(k, n[1], n[2]), Idle(in, {}), Idle(in \ out, {} \cup O))
    BY <2>2, TimedRunsOnce DEF O
  <2>5. Outline({}, O, Timed(k, n[1], n[2]), Idle(in, {}), Idle(in, O))
    BY <2>2, <2>4
  <2>6. Outline({}, O, Download(out), Idle(in, O), Idle(in, O))
    BY <2>2, Takes
  <2>7. Outline({}, O, Free(own \cup out), Idle(in, O), Idle(shared, {}))
    BY <2>2, Frees
  <2> HIDE DEF k
  <2>8. Outline({}, O, Upload(own) \o Fill(out) \o Timed(k, n[1], n[2]) \o Download(out),
                Idle(shared, {}), Idle(in, O))
    BY <2>3, <2>5, <2>6, ThenThree
  <2>9. Outline({}, O, Case(n), Idle(shared, {}), Idle(shared, {}))
    BY <2>7, <2>8, Then
  <2> HIDE DEF Case
  <2>10. Outline({}, O, Times(Cases, Case(n)), Idle(shared, {}), Idle(shared, {}))
    BY <2>9, CasesAssumption, Repeats
  <2>11. Outline({}, O, prepared, Idle({}, {}), Idle(shared, {}))
    OBVIOUS
  <2>12. Outline({}, O, Free(shared), Idle(shared, {}), Idle({}, {}))
    BY Frees
  <2>13. Outline({}, O, P(n), Idle({}, {}), Idle({}, {}))
    BY <2>10, <2>11, <2>12, ThenTwo
  <2> HIDE DEF P
  <2>14. QED BY <2>13, SoundByOutline
<1>3. Ranked(k, shared, prepared) = {P(n) : n \in Counts}
  BY <1>1 DEF Ranked
<1> HIDE DEF P, k
<1>4. \A p \in Ranked(k, shared, prepared) : Sound(p)
  BY <1>2, <1>3
<1>5. QED
  BY <1>4 DEF k

LEMMA RankedProgramsSound ==
  \A p \in QamDemodBatch \cup QamModMimo \cup LayerDemapMimo \cup LayerMapMimo \cup RateDematchMimo
             \cup RateMatchMimo \cup ScrambleMimo \cup DescrambleMimo \cup DataExtract \cup ReMapBatch :
    Sound(p)
<1> DEFINE Prepares(p, B) == \A O : Outline({}, O, p, Idle({}, {}), Idle(B, {}))
<1>1. Prepares(<< >>, {})
  <2>1. IsText(<< >>) /\ Len(<< >>) = 0 /\ Implies(Idle({}, {}), Idle({}, {}))
    BY Singles, Forgets
  <2>2. QED BY <2>1, NoCommand
<1>2. \A B : Prepares(Fill(B), B) /\ Prepares(Upload(B), B)
  BY Puts
<1> HIDE DEF Prepares
<1>3. ASSUME NEW op, NEW in, NEW out, op # "free", in \cap out = {}
      PROVE  /\ \A p \in Ranked(Kernel(op, in, out), {}, << >>) : Sound(p)
             /\ \A B \in SUBSET in : \A p \in Ranked(Kernel(op, in, out), B, Fill(B)) : Sound(p)
             /\ \A B \in SUBSET in : \A p \in Ranked(Kernel(op, in, out), B, Upload(B)) : Sound(p)
  BY <1>1, <1>2, <1>3, RankedSound DEF Prepares
<1>4. /\ {"x", "noise", "til", "ws"} \cap {"llr"} = {} /\ {"ws"} \subseteq {"x", "noise", "til", "ws"}
      /\ {"bits", "til", "ws"} \cap {"syms"} = {} /\ {"ws"} \subseteq {"bits", "til", "ws"}
      /\ {"in", "til"} \cap {"out"} = {} /\ {"xhat", "noise", "til"} \cap {"out"} = {}
      /\ {"in", "descriptors", "til", "ws"} \cap {"out"} = {} /\ {"ws"} \subseteq {"in", "descriptors", "til", "ws"}
      /\ {"in", "gold", "til", "ws"} \cap {"out"} = {} /\ {"ws"} \subseteq {"in", "gold", "til", "ws"}
      /\ {"in", "sign", "til", "ws"} \cap {"out"} = {} /\ {"ws"} \subseteq {"in", "sign", "til", "ws"}
      /\ {"in", "idx", "til", "ws"} \cap {"out"} = {} /\ {"til", "ws"} \subseteq {"in", "idx", "til", "ws"}
  OBVIOUS
<1>5. \A p \in QamDemodBatch : Sound(p)
  BY <1>3, <1>4 DEF QamDemodBatch
<1>6. \A p \in QamModMimo : Sound(p)
  BY <1>3, <1>4 DEF QamModMimo
<1>7. (\A p \in LayerDemapMimo : Sound(p)) /\ (\A p \in LayerMapMimo : Sound(p))
  BY <1>3, <1>4 DEF LayerDemapMimo, LayerMapMimo
<1>8. \A p \in RateDematchMimo : Sound(p)
  BY <1>3, <1>4 DEF RateDematchMimo
<1>9. \A p \in RateMatchMimo : Sound(p)
  BY <1>3, <1>4 DEF RateMatchMimo
<1>10. \A p \in ScrambleMimo : Sound(p)
  BY <1>3, <1>4 DEF ScrambleMimo
<1>11. \A p \in DescrambleMimo : Sound(p)
  BY <1>3, <1>4 DEF DescrambleMimo
<1>12. \A p \in DataExtract : Sound(p)
  BY <1>3, <1>4 DEF DataExtract
<1>13. \A p \in ReMapBatch : Sound(p)
  BY <1>3, <1>4 DEF ReMapBatch
<1>14. QED
  BY <1>5, <1>6, <1>7, <1>8, <1>9, <1>10, <1>11, <1>12, <1>13

LEMMA OneCaseSound ==
  Sound(OfdmDemodBatch) /\ Sound(OfdmModBatch) /\ Sound(PrecodeZf) /\ Sound(DetectBri) /\ Sound(ReDemapBatch)
<1>1. /\ ({"in"} \cup Tables) \cap {"out"} = {} /\ ({"in"} \cup Tables) \cap {"out", "iq"} = {}
      /\ {"w", "s", "mask", "til"} \cap {"out"} = {} /\ {"h", "y", "noise", "til"} \cap {"xhat", "no_eff"} = {}
      /\ {"in", "idx", "til"} \cap {"out"} = {}
  BY DEF Tables
<1>2. Sound(OfdmDemodBatch)
  BY <1>1, MeasuredSound DEF OfdmDemodBatch
<1>3. Sound(OfdmModBatch)
  BY <1>1, MeasuredSound DEF OfdmModBatch
<1>4. Sound(PrecodeZf)
  BY <1>1, MeasuredSound DEF PrecodeZf
<1>5. Sound(DetectBri)
  BY <1>1, MeasuredSound DEF DetectBri
<1>6. Sound(ReDemapBatch)
  BY <1>1, MeasuredSound DEF ReDemapBatch
<1>7. QED
  BY <1>2, <1>3, <1>4, <1>5, <1>6

\* Inputs loaded, results filled, launches timed, results read.
LEMMA TimedCase ==
  ASSUME NEW op, NEW in, NEW out, NEW n \in Counts, NEW O, NEW g, NEW m,
         op # "free", (g \cup in) \cap out = {}, O \cap out = Computed(n, out)
  PROVE  Outline({}, O, Upload(in) \o Fill(out) \o Timed(Kernel(op, in, out), n[1], n[2]) \o Download(out),
                 Idle(g, m), Idle(g \cup in \cup (out \ O), O \cap out))
<1> DEFINE k == Kernel(op, in, out)
           r == Computed(n, out)
           now == g \cup in
           all == now \cup out
           left == now \cup (out \ O)
<1>2. Outline({}, O, Upload(in), Idle(g, m), Idle(now, {})) /\ Outline({}, O, Fill(out), Idle(now, {}), Idle(all, {}))
  BY Puts
<1>3. CASE n[1] = 0 /\ n[2] = 0
  <2>1. Timed(k, n[1], n[2]) = Times(n[1], k) \o Wait \o Times(n[2], k \o Wait)
    BY DEF Timed
  <2>2. Outline({}, O, Timed(k, n[1], n[2]), Idle(all, {}), Idle(all, {}))
    <3>1. /\ Outline({}, O, Times(n[1], k), Idle(all, {}), Idle(all, {}))
          /\ Outline({}, O, Times(n[2], k \o Wait), Idle(all, {}), Idle(all, {}))
      BY <1>3, NoTurn
    <3>2. Outline({}, O, Wait, Idle(all, {}), Idle(all, {}))
      BY Waits DEF Idle
    <3> HIDE DEF k
    <3>3. QED BY <2>1, <3>1, <3>2, ThenTwo
  <2>3. out \cap O \subseteq {} /\ all = left /\ O \cap out = {}
    BY <1>3 DEF Computed
  <2>4. Outline({}, O, Download(out), Idle(all, {}), Idle(all, {}))
    BY <2>3, Takes
  <2> HIDE DEF k, all, left
  <2>5. Outline({}, O, Upload(in) \o Fill(out) \o Timed(k, n[1], n[2]) \o Download(out), Idle(g, m), Idle(all, {}))
    BY <1>2, <2>2, <2>4, ThenThree
  <2>6. QED BY <2>3, <2>5 DEF left, k
<1>4. CASE ~(n[1] = 0 /\ n[2] = 0)
  <2>1. /\ in \subseteq all \cup {} /\ in \cap out = {} /\ Computed(n, out) \subseteq O
        /\ all \ out = left /\ {} \cup Computed(n, out) = out /\ O \cap out = out /\ out \cap O \subseteq out
    BY <1>4 DEF Computed
  <2> HIDE DEF all, left
  <2>2. Outline({}, O, Timed(k, n[1], n[2]), Idle(all, {}), Idle(all \ out, {} \cup Computed(n, out)))
    BY <2>1, TimedRunsOnce
  <2>3. Outline({}, O, Timed(k, n[1], n[2]), Idle(all, {}), Idle(left, out))
    BY <2>1, <2>2
  <2>4. Outline({}, O, Download(out), Idle(left, out), Idle(left, out))
    BY <2>1, Takes
  <2> HIDE DEF k
  <2>5. Outline({}, O, Upload(in) \o Fill(out) \o Timed(k, n[1], n[2]) \o Download(out), Idle(g, m), Idle(left, out))
    BY <1>2, <2>3, <2>4, ThenThree
  <2>6. QED BY <2>1, <2>5 DEF left, k
<1>5. QED
  BY <1>3, <1>4

LEMMA IoPackSound == \A p \in IoPack : Sound(p)
<1> DEFINE in == {"y", "h", "noise", "til"}
           out == {"hrm", "yvpad", "no"}
           k == Kernel("mimo_detect_io_pack", in, out)
           P(n) == Upload(in) \o Fill(out) \o Timed(k, n[1], n[2]) \o Download(out)
<1>1. k[1].in = in /\ k[1].out = out
  BY KernelParts
<1>2. ASSUME NEW n \in Counts PROVE Sound(Freed(P(n)))
  <2> DEFINE O == Computed(n, out)
  <2>1. ({} \cup in) \cap out = {} /\ O \cap out = Computed(n, out)
    BY DEF Computed
  <2> HIDE DEF O
  <2>2. Outline({}, O, P(n), Idle({}, {}), Idle({} \cup in \cup (out \ O), O \cap out))
    BY <2>1, TimedCase
  <2> HIDE DEF P
  <2>3. QED BY <2>2, SoundFreed
<1>3. IoPack = {Freed(P(n)) : n \in Counts}
  BY <1>1 DEF IoPack
<1> HIDE DEF P
<1>4. QED
  BY <1>2, <1>3

LEMMA DmrsLsSound == \A p \in DmrsLs : Sound(p)
<1> DEFINE in == {"rx", "ref", "metadata"}
           out == {"h", "pilots", "noise"}
           base == {"idx"}
           k == Kernel("mimo_dmrs_ls", in, out)
           Ls(n) == Upload(in) \o Fill(out) \o Timed(k, n[1], n[2]) \o Download(out)
           Packing == Once(Kernel("mimo_dmrs_ls_pack_ce", {"h", "idx"}, {"ce"}), {"ce"})
           Pack == Fill({"ce"}) \o Packing
           Rest(compatible) == IF compatible THEN Pack ELSE << >>
           P(n, compatible) == Upload(base) \o Times(Cases, Ls(n) \o Rest(compatible))
<1>1. ASSUME NEW n \in Counts, NEW compatible \in BOOLEAN PROVE Sound(Freed(P(n, compatible)))
  <2> DEFINE O == Computed(n, out) \cup {"ce"}
             g == base \cup in \cup (out \ O)
             m == O \cap out
  <2>1. (base \cup in) \cap out = {} /\ O \cap out = Computed(n, out)
    BY DEF Computed
  <2>2. /\ g \subseteq g \cup {"ce"} /\ m \subseteq m \ {"ce"} /\ base \subseteq g
        /\ Fits({}, O, "mimo_dmrs_ls_pack_ce", {"h", "idx"}, {"ce"}, g, m)
        /\ base \subseteq g \ {"ce"} /\ {} \subseteq m /\ {"ce"} \cap O \subseteq m \cup {"ce"}
    BY DEF Fits
  <2> HIDE DEF O
  <2>3. Outline({}, O, Ls(n), Idle(base, {}), Idle(g, m))
    BY <2>1, TimedCase
  <2> HIDE DEF g, m
  <2>4. Outline({}, O, Pack, Idle(g, m), Idle(base, {}))
    <3>1. Outline({}, O, Fill({"ce"}), Idle(g, m), Idle(g, m))
      BY <2>2, Puts
    <3>2. Outline({}, O, Packing, Idle(g, m), Idle(base, {}))
      BY <2>2, RunsForResult
    <3> HIDE DEF Packing
    <3>3. QED BY <3>1, <3>2, Then
  <2>5. Outline({}, O, << >>, Idle(g, m), Idle(base, {}))
    <3>1. IsText(<< >>) /\ Len(<< >>) = 0 /\ Implies(Idle(g, m), Idle(base, {}))
      BY <2>2, Singles, Forgets
    <3>2. QED BY <3>1, NoCommand
  <2>6. Outline({}, O, Rest(compatible), Idle(g, m), Idle(base, {}))
    BY <2>4, <2>5
  <2> HIDE DEF Ls, Rest
  <2>7. Outline({}, O, Ls(n) \o Rest(compatible), Idle(base, {}), Idle(base, {}))
    BY <2>3, <2>6, Then
  <2>8. Outline({}, O, Times(Cases, Ls(n) \o Rest(compatible)), Idle(base, {}), Idle(base, {}))
    BY <2>7, CasesAssumption, Repeats
  <2>9. Outline({}, O, Upload(base), Idle({}, {}), Idle(base, {}))
    BY Puts
  <2>10. Outline({}, O, P(n, compatible), Idle({}, {}), Idle(base, {}))
    BY <2>8, <2>9, Then
  <2> HIDE DEF P
  <2>11. QED BY <2>10, SoundFreed
<1>2. DmrsLs = {Freed(P(n, compatible)) : n \in Counts, compatible \in BOOLEAN}
  BY DEF DmrsLs
<1> HIDE DEF P
<1>3. QED
  BY <1>1, <1>2

\* The sums of Phase A are cleared before every launch of the estimator.
LEMMA LmmseSound == \A p \in Lmmse : Sound(p)
<1> DEFINE A == {"natural", "idx", "factors", "weights", "til"}
           S == {"sums", "workspace"}
           O == {"hls", "sums", "workspace", "out", "padded"}
           in == {"hls", "factors", "weights", "til", "sums", "workspace"}
           out == {"sums", "workspace", "out"}
           k == Kernel("channel_est_lmmse", in, out)
           natural == Kernel("pack_natural", {"natural", "idx"}, {"hls"})
           padding == Once(Kernel("pad_layers", {"out"}, {"padded"}), {"padded"})
           Run == LmmsePrepare \o k \o Wait
           Start == Upload(A) \o Fill({"hls", "out", "padded"}) \o natural \o Wait
           P(n) == Start \o Times(n[1] + n[2], Run) \o Fill({"padded"}) \o padding
           G == A \cup {"out"}
           H == {"hls"}
           made == (H \ S) \cup out
           d == {Command("launch", "pack_natural", {"natural", "idx"}, H)}
<1>1. /\ Fits({}, O, "pack_natural", {"natural", "idx"}, H, G, {}) /\ G \subseteq G \ H /\ H \subseteq {} \cup H
      /\ {} \cup {Command("launch", "pack_natural", {"natural", "idx"}, H)} \subseteq d
      /\ Fits({}, O, "channel_est_lmmse", in, out, A \cup S, H \ S) /\ A \subseteq G /\ A \subseteq A
      /\ A \cap (out \cup S) = {} /\ H \subseteq H /\ H \subseteq made
      /\ G \subseteq A \cup {"hls", "out", "padded"}
  BY DEF Fits
<1>2. /\ Fits({}, O, "pad_layers", {"out"}, {"padded"}, G, {}) /\ G \subseteq G \cup {"padded"} /\ {} \subseteq H \ {"padded"}
      /\ Fits({}, O, "pad_layers", {"out"}, {"padded"}, A, made) /\ A \subseteq A \cup {"padded"} /\ made \subseteq made \ {"padded"}
      /\ {"padded"} \cap O \subseteq {} \cup {"padded"} /\ {"padded"} \cap O \subseteq made \cup {"padded"}
      /\ {} \subseteq G \ {"padded"} /\ {} \subseteq A \ {"padded"} /\ {} \subseteq {} \cup {"padded"} /\ {} \subseteq made \cup {"padded"}
  BY DEF Fits
<1> HIDE DEF made, G, d
<1>3. /\ Outline({}, O, Upload(A), Idle({}, {}), Idle(A, {}))
      /\ Outline({}, O, Fill({"hls", "out", "padded"}), Idle(A, {}), Idle(G, {}))
  BY <1>1, Puts
<1>4. Outline({}, O, natural, Known(G, {}, {}), Known(G, H, d))
  BY <1>1, Queues
<1>5. Outline({}, O, natural, Idle(G, {}), Known(G, H, d)) /\ Outline({}, O, Wait, Known(G, H, d), Idle(G, H))
  BY <1>4, Waits DEF Idle
<1>6. Run = Fill(S) \o k \o Wait
  BY DEF LmmsePrepare
<1>7. Outline({}, O, Fill(S) \o k \o Wait, Idle(G, H), Idle(A, made)) /\ Outline({}, O, Fill(S) \o k \o Wait, Idle(A, made), Idle(A, made))
  BY <1>1, ClearedRun DEF made
<1> HIDE DEF k, natural, Run
<1>8. Outline({}, O, Start, Idle({}, {}), Idle(G, H))
  BY <1>3, <1>5, ThenThree
<1>9. /\ Outline({}, O, Fill({"padded"}), Idle(G, H), Idle(G, {}))
      /\ Outline({}, O, Fill({"padded"}), Idle(A, made), Idle(A, made))
  BY <1>2, Puts
<1>10. Outline({}, O, padding, Idle(G, {}), Idle({}, {})) /\ Outline({}, O, padding, Idle(A, made), Idle({}, {}))
  BY <1>2, RunsForResult
<1> HIDE DEF Start, padding
<1>11. ASSUME NEW n \in Counts PROVE Sound(Freed(P(n)))
  <2>1. n[1] + n[2] \in Nat
    BY LoopAssumption DEF Counts
  <2>2. Outline({}, O, P(n), Idle({}, {}), Idle({}, {}))
    <3>1. CASE n[1] + n[2] = 0
      <4>1. Outline({}, O, Times(n[1] + n[2], Run), Idle(G, H), Idle(G, H))
        BY <3>1, NoTurn
      <4>2. QED BY <1>8, <1>9, <1>10, <4>1, ThenThree
    <3>2. CASE n[1] + n[2] # 0
      <4>1. n[1] + n[2] \in Nat \ {0}
        BY <2>1, <3>2
      <4>2. Outline({}, O, Times(n[1] + n[2], Run), Idle(G, H), Idle(A, made))
        BY <1>6, <1>7, <4>1, RunsOnce
      <4>3. QED BY <1>8, <1>9, <1>10, <4>2, ThenThree
    <3>3. QED BY <3>1, <3>2
  <2> HIDE DEF P
  <2>3. QED BY <2>2, SoundFreed
<1>12. Lmmse = {Freed(P(n)) : n \in Counts}
  BY DEF Lmmse, Start, natural, Run, k, padding
<1> HIDE DEF P
<1>13. QED
  BY <1>11, <1>12

LEMMA ResourceGridMapSound ==
  ASSUME NEW found \in 0..Cases
  PROVE  Sound(ResourceGridMap(found))
<1> DEFINE in == {"layer", "dmrs", "offsets", "til"}
           O == {"grid"}
           k == Kernel("mimo_resource_grid_map", in, O)
           Case == Upload(in) \o Fill(O) \o Once(k, O)
           d == {Command("launch", "mimo_resource_grid_map", in, O)}
           p == Times(found, Case) \o Times(Warmups, k) \o Wait \o Times(TimedRuns, Times(PerSync, k) \o Wait)
<1>1. k[1].in = in
  BY KernelParts
<1>2. ResourceGridMap(found) = Freed(p)
  BY <1>1 DEF ResourceGridMap
<1>3. /\ Fits({}, O, "mimo_resource_grid_map", in, O, {} \cup in \cup O, {}) /\ O \cap O \subseteq O
      /\ in \subseteq ({} \cup in \cup O) \ O /\ {} \subseteq O
      /\ Fits({}, O, "mimo_resource_grid_map", in, O, in \cup in \cup O, {}) /\ in \subseteq (in \cup in \cup O) \ O
      /\ Fits({}, O, "mimo_resource_grid_map", in, O, in, {}) /\ in \cap O = {}
      /\ Fits({}, O, "mimo_resource_grid_map", in, O, in, O)
      /\ in \ O = in /\ {} \cup O = O /\ O \cup O = O
  BY DEF Fits
<1>4. Outline({}, O, Case, Idle({}, {}), Idle(in, {})) /\ Outline({}, O, Case, Idle(in, {}), Idle(in, {}))
  BY <1>3, CaseRuns
<1>5. Outline({}, O, Times(Warmups, k), Idle(in, {}), Known(in \ O, {} \cup O, d))
  BY <1>3, LoopCounts, QueuesBatch
<1>6. Outline({}, O, Times(TimedRuns, Times(PerSync, k) \o Wait), Idle(in, O), Idle(in \ O, O \cup O))
  BY <1>3, LoopCounts, BatchAfterBatch
<1> HIDE DEF k, Case, d
<1>7. Outline({}, O, Wait, Known(in, O, d), Idle(in, O))
  BY Waits
<1>8. ASSUME NEW x, Outline({}, O, Times(found, Case), x, Idle(in, {}))
      PROVE  Outline({}, O, Freed(p), x, Idle({}, {}))
  <2>1. Outline({}, O, Times(Warmups, k), Idle(in, {}), Known(in, O, d))
    BY <1>3, <1>5
  <2>2. Outline({}, O, Times(TimedRuns, Times(PerSync, k) \o Wait), Idle(in, O), Idle(in, O))
    BY <1>3, <1>6
  <2>3. Outline({}, O, p, x, Idle(in, O))
    BY <1>7, <1>8, <2>1, <2>2, ThenThree
  <2> HIDE DEF p
  <2>4. QED BY <2>3, FreedOutline
<1> HIDE DEF p
<1>9. CASE found = 0
  <2>1. Outline({}, O, Times(found, Case), Idle(in, {}), Idle(in, {}))
    BY <1>9, NoTurn
  <2>2. Outline({}, O, Freed(p), Idle(in, {}), Idle({}, {}))
    BY <1>8, <2>1
  <2>3. ResourceGridMap(found) = Unloaded
    BY <1>9 DEF Unloaded
  <2>4. Outline({}, O, ResourceGridMap(found), Idle(in, {}), Idle({}, {}))
    BY <1>2, <2>2
  <2>5. {} \subseteq ClearedTooEarly(ResourceGridMap(found))
    OBVIOUS
  <2>6. QED BY <2>3, <2>4, <2>5 DEF Sound
<1>10. CASE found # 0
  <2>1. found \in Nat \ {0}
    BY <1>10, CasesAssumption
  <2>2. Outline({}, O, Times(found, Case), Idle({}, {}), Idle(in, {}))
    BY <1>4, <2>1, RunsOnce
  <2>3. QED BY <1>2, <1>8, <2>2, SoundByOutline
<1>11. QED
  BY <1>9, <1>10

\* The generator's runtime queues all it does.
LEMMA EnqueueOutline ==
  ASSUME NEW O, NEW g, NEW m, {"rt_cinit", "rt_til", "physical", "logical"} \subseteq O,
         {"rt_gmat", "rt_g1"} \subseteq g, {"staging", "rt_cinit", "rt_til", "physical", "logical"} \cap g = {}
  PROVE  Outline({}, O, RuntimeEnqueue("logical") \o Wait, Idle(g, m), Idle(g, {"logical"}))
<1> DEFINE seeds == {"rt_cinit", "rt_til"}
           in == {"rt_cinit", "rt_til", "rt_gmat", "rt_g1"}
           now == g \cup {"staging"}
           d == {Command("launch", "copy", {"staging"}, seeds)}
           e == d \cup {Command("launch", "mimo_dmrs_gen", in, {"physical"})}
           f == e \cup {Command("launch", "copy", {"physical"}, {"logical"})}
           u == Upload({"staging"})
           q == QueuedCopy({"staging"}, seeds)
           k == Kernel("mimo_dmrs_gen", in, {"physical"})
           r == QueuedCopy({"physical"}, {"logical"})
<1>1. /\ Fits({}, O, "copy", {"staging"}, seeds, now, {}) /\ now \subseteq now \ seeds /\ seeds \subseteq {} \cup seeds
      /\ Fits({}, O, "mimo_dmrs_gen", in, {"physical"}, now, seeds) /\ now \subseteq now \ {"physical"}
      /\ {"physical"} \subseteq seeds \cup {"physical"}
      /\ Fits({}, O, "copy", {"physical"}, {"logical"}, now, {"physical"}) /\ g \subseteq now \ {"logical"}
      /\ {"logical"} \subseteq {"physical"} \cup {"logical"}
  BY DEF Fits
<1>2. /\ {} \cup {Command("launch", "copy", {"staging"}, seeds)} \subseteq d
      /\ d \cup {Command("launch", "mimo_dmrs_gen", in, {"physical"})} \subseteq e
      /\ e \cup {Command("launch", "copy", {"physical"}, {"logical"})} \subseteq f
  OBVIOUS
<1>3. Outline({}, O, u, Idle(g, m), Idle(now, {}))
  BY Puts
<1> HIDE DEF now, d, e, f, seeds, in, u
<1>4. q = Kernel("copy", {"staging"}, seeds) /\ r = Kernel("copy", {"physical"}, {"logical"})
  BY DEF QueuedCopy, Kernel
<1>5. Outline({}, O, q, Known(now, {}, {}), Known(now, seeds, d))
  BY <1>1, <1>2, <1>4, Queues
<1>6. Outline({}, O, k, Known(now, seeds, d), Known(now, {"physical"}, e))
  BY <1>1, <1>2, Queues
<1>7. Outline({}, O, r, Known(now, {"physical"}, e), Known(g, {"logical"}, f))
  BY <1>1, <1>2, <1>4, Queues
<1>8. Outline({}, O, q, Idle(now, {}), Known(now, seeds, d))
  BY <1>5 DEF Idle
<1>9. Outline({}, O, Wait, Known(g, {"logical"}, f), Idle(g, {"logical"}))
  BY Waits
<1>10. RuntimeEnqueue("logical") = u \o q \o k \o r
  BY DEF RuntimeEnqueue, u, seeds, in
<1> HIDE DEF q, k, r
<1>11. Outline({}, O, u \o q \o k \o r, Idle(g, m), Known(g, {"logical"}, f))
  BY <1>3, <1>6, <1>7, <1>8, ThenThree
<1>12. QED
  BY <1>9, <1>10, <1>11, Then

LEMMA DmrsGenMimoSound == \A p \in DmrsGenMimo : Sound(p)
<1> DEFINE own == {"til", "gmat", "g1"}
           base == {"til", "gmat", "g1", "rt_gmat", "rt_g1"}
           in == {"cinit", "til", "gmat", "g1"}
           out == {"out", "dbg"}
           O == {"rt_cinit", "rt_til", "physical", "logical", "out", "dbg"}
           now == base \cup {"cinit"}
           k == Kernel("mimo_dmrs_gen", in, out)
           Case == RuntimeEnqueue("logical") \o Wait \o Download({"logical"}) \o Free({"logical"})
                     \o Upload({"cinit", "til"}) \o Fill(out) \o Once(k, out)
           Bench == Upload({"cinit", "til"}) \o Times(Warmups, k \o Wait)
                      \o Times(TimedRuns, Times(PerSync, k) \o Wait)
           P(found) == Upload(own) \o Upload({"rt_gmat", "rt_g1"}) \o Times(found, Case) \o Times(found, Bench)
<1>1. /\ {"rt_cinit", "rt_til", "physical", "logical"} \subseteq O /\ {"rt_gmat", "rt_g1"} \subseteq base
      /\ {"staging", "rt_cinit", "rt_til", "physical", "logical"} \cap base = {}
      /\ {"logical"} \cap O \subseteq {"logical"} /\ base \subseteq base \ {"logical"} /\ {} \subseteq {"logical"} \ {"logical"}
      /\ now \subseteq base \cup {"cinit", "til"} /\ now \subseteq now \cup out
      /\ base \subseteq own \cup {"rt_gmat", "rt_g1"}
  OBVIOUS
<1>2. /\ Fits({}, O, "mimo_dmrs_gen", in, out, now, {}) /\ base \subseteq now \ out /\ {} \subseteq {} \cup out
      /\ out \cap O \subseteq {} \cup out /\ in \cap out = {}
      /\ Fits({}, O, "mimo_dmrs_gen", in, out, now, out) /\ now \ out = now /\ {} \cup out = out /\ out \cup out = out
      /\ base \subseteq now
  BY DEF Fits
<1>3. Outline({}, O, RuntimeEnqueue("logical") \o Wait, Idle(base, {}), Idle(base, {"logical"}))
  BY <1>1, EnqueueOutline
<1>4. Outline({}, O, Download({"logical"}), Idle(base, {"logical"}), Idle(base, {"logical"}))
  BY <1>1, Takes
<1>5. Outline({}, O, Free({"logical"}), Idle(base, {"logical"}), Idle(base, {}))
  BY <1>1, Frees
<1> HIDE DEF now
<1>6. /\ Outline({}, O, Upload({"cinit", "til"}), Idle(base, {}), Idle(now, {}))
      /\ Outline({}, O, Fill(out), Idle(now, {}), Idle(now, {}))
      /\ Outline({}, O, Upload(own), Idle({}, {}), Idle(own, {}))
      /\ Outline({}, O, Upload({"rt_gmat", "rt_g1"}), Idle(own, {}), Idle(base, {}))
  BY <1>1, Puts
<1>7. Outline({}, O, Once(k, out), Idle(now, {}), Idle(base, {}))
  BY <1>2, RunsForResult
<1>8. Outline({}, O, Times(Warmups, k \o Wait), Idle(now, {}), Idle(now \ out, {} \cup out))
  BY <1>2, LoopCounts, RunsAgain
<1>9. Outline({}, O, Times(TimedRuns, Times(PerSync, k) \o Wait), Idle(now, out), Idle(now \ out, out \cup out))
  BY <1>2, LoopCounts, BatchAfterBatch
<1> HIDE DEF k
<1>10. Outline({}, O, Case, Idle(base, {}), Idle(base, {}))
  <2>1. Outline({}, O, RuntimeEnqueue("logical") \o Wait \o Download({"logical"}) \o Free({"logical"}),
                Idle(base, {}), Idle(base, {}))
    BY <1>3, <1>4, <1>5, ThenTwo
  <2>2. QED BY <1>6, <1>7, <2>1, ThenThree
<1>11. Outline({}, O, Bench, Idle(base, {}), Idle(base, {}))
  <2>1. /\ Outline({}, O, Times(Warmups, k \o Wait), Idle(now, {}), Idle(now, out))
        /\ Outline({}, O, Times(TimedRuns, Times(PerSync, k) \o Wait), Idle(now, out), Idle(now, out))
    BY <1>2, <1>8, <1>9
  <2>2. Outline({}, O, Bench, Idle(base, {}), Idle(now, out))
    BY <1>6, <2>1, ThenTwo
  <2>3. Implies(Idle(base, {}), Idle(base, {})) /\ Implies(Idle(now, out), Idle(base, {}))
    BY <1>2, Forgets
  <2> HIDE DEF Bench
  <2>4. QED BY <2>2, <2>3, Weaker
<1> HIDE DEF Case, Bench
<1>12. ASSUME NEW found \in 0..Cases PROVE Sound(Freed(P(found)))
  <2>1. found \in Nat
    BY CasesAssumption
  <2>2. /\ Outline({}, O, Times(found, Case), Idle(base, {}), Idle(base, {}))
        /\ Outline({}, O, Times(found, Bench), Idle(base, {}), Idle(base, {}))
    BY <1>10, <1>11, <2>1, Repeats
  <2>3. Outline({}, O, P(found), Idle({}, {}), Idle(base, {}))
    BY <1>6, <2>2, ThenThree
  <2> HIDE DEF P
  <2>4. QED BY <2>3, SoundFreed
<1>13. DmrsGenMimo = {Freed(P(found)) : found \in 0..Cases}
  BY DEF DmrsGenMimo, Case, Bench, k
<1> HIDE DEF P
<1>14. QED
  BY <1>12, <1>13

LEMMA PlanNames ==
  /\ Len(Plans) = 5 /\ 1 \in 1..Len(Plans)
  /\ \A i \in 1..Len(Plans) : Plans[i] # "layer" /\ Plans[i] # "port"
  /\ \A i, j \in 1..Len(Plans) : i # j => Plans[i] # Plans[j]
<1>1. /\ Len(Plans) = 5 /\ Plans[1] = "plan1" /\ Plans[2] = "plan2" /\ Plans[3] = "plan3"
      /\ Plans[4] = "plan4" /\ Plans[5] = "plan5"
  BY DEF Plans
<1>2. \A i \in 1..5 : i = 1 \/ i = 2 \/ i = 3 \/ i = 4 \/ i = 5
  OBVIOUS
<1>3. QED
  BY <1>1, <1>2

\* Every plan has a resource of its own, so the upload of one does not disturb
\* the launches queued on the plans before it.
LEMMA CodebookPrecodeSound == Sound(CodebookPrecode)
<1> DEFINE O == {"port"}
           N == Len(Plans)
           op == "pusch_codebook_precode"
           In(plan) == {"layer", plan}
           Cmd(i) == Command("launch", op, In(Plans[i]), O)
           Case == Upload({"plan"}) \o Fill(O) \o Once(PrecodeKernel("plan"), O)
           G(i) == {"layer"} \cup {Plans[j] : j \in 1..i}
           D(i) == {Cmd(j) : j \in 1..i}
           A == [i \in 0..N |-> Known(G(i), {}, D(i))]
           q == [i \in 1..N |-> Upload({Plans[i]}) \o PrecodeKernel(Plans[i])]
           B == [i \in 0..N |-> Known(G(N), {}, D(N))]
           r == [i \in 1..N |-> PrecodeKernel(Plans[i])]
           k == PrecodeKernel(Plans[1])
<1>1. N \in Nat /\ N # 0
  BY PlanNames
<1>2. \A plan : PrecodeKernel(plan) = Kernel(op, In(plan), O)
  BY DEF PrecodeKernel
<1>3. Outline({}, O, Upload({"layer"}), Idle({}, {}), Idle({"layer"}, {}))
  BY Puts
<1>4. Outline({}, O, Case, Idle({"layer"}, {}), Idle({"layer"}, {}))
  <2>1. /\ Fits({}, O, op, In("plan"), O, {"layer"} \cup {"plan"} \cup O, {}) /\ O \cap O \subseteq O
        /\ {"layer"} \subseteq ({"layer"} \cup {"plan"} \cup O) \ O /\ {} \subseteq O
    BY DEF Fits
  <2>2. Outline({}, O, Upload({"plan"}) \o Fill(O) \o Once(Kernel(op, In("plan"), O), O),
                Idle({"layer"}, {}), Idle({"layer"}, {}))
    BY <2>1, CaseRuns
  <2>3. QED BY <1>2, <2>2
<1> HIDE DEF Case
<1>5. Outline({}, O, Times(Cases, Case), Idle({"layer"}, {}), Idle({"layer"}, {}))
  BY <1>4, CasesAssumption, Repeats
<1>6. ASSUME NEW i \in 1..N PROVE Outline({}, O, Upload({Plans[i]}) \o PrecodeKernel(Plans[i]),
                                          Known(G(i - 1), {}, D(i - 1)), Known(G(i), {}, D(i)))
  <2>1. \A j \in 1..(i - 1) : Plans[j] # Plans[i] /\ j \in 1..i
    BY PlanNames
  <2>2. Plans[i] # "layer" /\ Plans[i] # "port"
    BY PlanNames
  <2>3. ASSUME NEW a \in D(i - 1) PROVE (a.in \cup a.out) \cap {Plans[i]} = {}
    <3>1. PICK j \in 1..(i - 1) : a = Cmd(j)
      OBVIOUS
    <3>2. a.in = {"layer", Plans[j]} /\ a.out = {"port"}
      BY <3>1 DEF Command
    <3>3. QED BY <2>1, <2>2, <3>2
  <2>4. G(i) \subseteq G(i - 1) \cup {Plans[i]}
    <3>1. \A j \in 1..i : j \in 1..(i - 1) \/ j = i
      OBVIOUS
    <3>2. QED BY <3>1
  <2>5. D(i - 1) \cup {Command("launch", op, In(Plans[i]), O)} \subseteq D(i)
    <3>1. i \in 1..i
      OBVIOUS
    <3>2. QED BY <2>1, <3>1
  <2>6. Fits({}, O, op, In(Plans[i]), O, G(i), {}) /\ G(i) \subseteq G(i) \ O
    <3>1. "port" \notin G(i)
      <4>1. \A j \in 1..i : j \in 1..N
        BY <1>1
      <4>2. QED BY <4>1, PlanNames
    <3>2. Plans[i] \in G(i) /\ "layer" \in G(i)
      OBVIOUS
    <3> HIDE DEF G
    <3>3. QED BY <2>2, <3>1, <3>2 DEF Fits
  <2>7. {} \subseteq {} \ {Plans[i]} /\ {} \subseteq {} \cup O
    OBVIOUS
  <2> HIDE DEF G, D
  <2>8. Outline({}, O, Upload({Plans[i]}), Known(G(i - 1), {}, D(i - 1)), Known(G(i), {}, D(i - 1)))
    BY <2>3, <2>4, <2>7, PutsBehind
  <2>9. Outline({}, O, Kernel(op, In(Plans[i]), O), Known(G(i), {}, D(i - 1)), Known(G(i), {}, D(i)))
    BY <2>5, <2>6, <2>7, Queues
  <2>10. Outline({}, O, PrecodeKernel(Plans[i]), Known(G(i), {}, D(i - 1)), Known(G(i), {}, D(i)))
    BY <1>2, <2>9
  <2>11. QED BY <2>8, <2>10, Then
<1>7. ASSUME NEW i \in 1..N
      PROVE  Outline({}, O, PrecodeKernel(Plans[i]), Known(G(N), {}, D(N)), Known(G(N), {}, D(N)))
  <2>1. "port" \notin G(N) /\ Plans[i] \in G(N) /\ "layer" \in G(N)
    BY PlanNames
  <2>2. D(N) \cup {Command("launch", op, In(Plans[i]), O)} \subseteq D(N)
    OBVIOUS
  <2> HIDE DEF G, D
  <2>3. Fits({}, O, op, In(Plans[i]), O, G(N), {}) /\ G(N) \subseteq G(N) \ O /\ {} \subseteq {} \cup O
    BY <2>1 DEF Fits
  <2>4. Outline({}, O, Kernel(op, In(Plans[i]), O), Known(G(N), {}, D(N)), Known(G(N), {}, D(N)))
    BY <2>2, <2>3, Queues
  <2>5. QED BY <1>2, <2>4
<1>8. Outline({}, O, FlattenSeq(q), A[0], A[N])
  <2>1. q = [i \in 1..N |-> q[i]]
    OBVIOUS
  <2>2. \A i \in 1..N : /\ q[i] = Upload({Plans[i]}) \o PrecodeKernel(Plans[i])
                        /\ A[i - 1] = Known(G(i - 1), {}, D(i - 1)) /\ A[i] = Known(G(i), {}, D(i))
    <3>1. \A i \in 1..N : i - 1 \in 0..N /\ i \in 0..N
      BY <1>1
    <3> HIDE DEF G, D
    <3>2. QED BY <3>1
  <2> HIDE DEF q, A, G, D
  <2>3. \A i \in 1..N : Outline({}, O, q[i], A[i - 1], A[i])
    BY <1>6, <2>2
  <2>4. QED BY <1>1, <2>1, <2>3, InTurn
<1>9. Outline({}, O, FlattenSeq(r), B[0], B[N])
  <2>1. r = [i \in 1..N |-> r[i]]
    OBVIOUS
  <2>2. \A i \in 1..N : /\ r[i] = PrecodeKernel(Plans[i])
                        /\ B[i - 1] = Known(G(N), {}, D(N)) /\ B[i] = Known(G(N), {}, D(N))
    <3>1. \A i \in 1..N : i - 1 \in 0..N /\ i \in 0..N
      BY <1>1
    <3> HIDE DEF G, D
    <3>2. QED BY <3>1
  <2> HIDE DEF r, B, G, D
  <2>3. \A i \in 1..N : Outline({}, O, r[i], B[i - 1], B[i])
    BY <1>7, <2>2
  <2>4. QED BY <1>1, <2>1, <2>3, InTurn
<1>10. /\ A[0] = Idle({"layer"}, {}) /\ A[N] = Known(G(N), {}, D(N))
       /\ B[0] = Known(G(N), {}, D(N)) /\ B[N] = Known(G(N), {}, D(N))
  <2>1. 0 \in 0..N /\ N \in 0..N
    BY <1>1
  <2>2. G(0) = {"layer"} /\ D(0) = {}
    OBVIOUS
  <2> HIDE DEF G, D
  <2>3. QED BY <2>1, <2>2 DEF Idle
<1>11. Outline({}, O, Awaited(k), Idle(G(N), {}), Idle({}, {}))
  <2>1. "port" \notin G(N) /\ Plans[1] \in G(N) /\ "layer" \in G(N) /\ Plans[1] # "port"
    BY PlanNames
  <2> HIDE DEF G
  <2>2. /\ Fits({}, O, op, In(Plans[1]), O, G(N), {}) /\ In(Plans[1]) \cap O = {}
        /\ {} \subseteq G(N) \ O /\ {} \subseteq {} \cup O
    BY <2>1 DEF Fits
  <2>3. Outline({}, O, Awaited(Kernel(op, In(Plans[1]), O)), Idle(G(N), {}), Idle({}, {}))
    BY <2>2, Measurement
  <2>4. QED BY <1>2, <2>3
<1> DEFINE p == Upload({"layer"}) \o Times(Cases, Case) \o FlattenSeq(q) \o FlattenSeq(r) \o Wait \o Awaited(k)
<1>12. CodebookPrecode = Freed(p)
  BY DEF CodebookPrecode, Case
<1> HIDE DEF q, r, k, A, B, G, D
<1>13. Outline({}, O, Upload({"layer"}) \o Times(Cases, Case) \o FlattenSeq(q) \o FlattenSeq(r),
               Idle({}, {}), Known(G(N), {}, D(N)))
  <2>1. /\ Outline({}, O, FlattenSeq(q), Idle({"layer"}, {}), Known(G(N), {}, D(N)))
        /\ Outline({}, O, FlattenSeq(r), Known(G(N), {}, D(N)), Known(G(N), {}, D(N)))
    BY <1>8, <1>9, <1>10
  <2>2. QED BY <1>3, <1>5, <2>1, ThenThree
<1>14. Outline({}, O, Wait, Known(G(N), {}, D(N)), Idle(G(N), {}))
  BY Waits
<1>15. Outline({}, O, p, Idle({}, {}), Idle({}, {}))
  BY <1>11, <1>13, <1>14, ThenTwo
<1> HIDE DEF p
<1>16. QED
  BY <1>12, <1>15, SoundFreed

LEMMA MimoSound == \A p \in MimoPrograms : Sound(p)
<1>1. ASSUME NEW p \in {OfdmDemodBatch, OfdmModBatch, PrecodeZf, DetectBri, ReDemapBatch, CodebookPrecode}
      PROVE  Sound(p)
  BY OneCaseSound, CodebookPrecodeSound
<1>2. \A p \in {ResourceGridMap(found) : found \in 0..Cases} : Sound(p)
  BY ResourceGridMapSound
<1>3. QED
  BY <1>1, <1>2, RankedProgramsSound, IoPackSound, DmrsLsSound, LmmseSound, DmrsGenMimoSound
     DEF MimoPrograms

-----------------------------------------------------------------------------
\* The stages of the loopback.
LEMMA SlotsSound ==
  ASSUME NEW O, NEW prepare, NEW slot, NEW x, NEW g, NEW m, x = Idle(g, m),
         Outline({}, O, prepare, Idle({}, {}), x), Outline({}, O, slot, x, x)
  PROVE  \A p \in SlotBySlot(prepare, slot) : Sound(p)
<1>1. ASSUME NEW n \in Nat PROVE Outline({}, O, prepare \o Times(n, slot), Idle({}, {}), Idle(g, m))
  <2>1. Outline({}, O, Times(n, slot), x, x)
    BY Repeats
  <2>2. QED BY <2>1, Then
<1>2. \A done \in 0..(Cases - 1) : Sound(prepare \o Times(done, slot))
  <2>1. \A done \in 0..(Cases - 1) : done \in Nat
    BY CasesAssumption
  <2>2. QED BY <1>1, <2>1, SoundByOutline
<1>3. Sound(Freed(prepare \o Times(Cases, slot)))
  BY <1>1, CasesAssumption, SoundFreed
<1>4. QED
  BY <1>2, <1>3 DEF SlotBySlot

LEMMA DmrsStageSound == \A p \in DmrsStage : Sound(p)
<1> DEFINE base == {"rt_gmat", "rt_g1"}
           L == {"logical"}
           O == {"rt_cinit", "rt_til", "physical", "logical"}
           x == Idle(base, {})
           slot == Fill(L) \o RuntimeEnqueue("logical") \o Wait \o Download(L)
<1>1. /\ {"rt_cinit", "rt_til", "physical", "logical"} \subseteq O /\ {"rt_gmat", "rt_g1"} \subseteq base
      /\ {"staging", "rt_cinit", "rt_til", "physical", "logical"} \cap base = {} /\ L \cap O \subseteq L
  OBVIOUS
<1>2. Outline({}, O, RuntimeEnqueue("logical") \o Wait, Idle(base, {}), Idle(base, L))
  BY <1>1, EnqueueOutline
<1>3. Outline({}, O, Upload(base), Idle({}, {}), x) /\ Outline({}, O, Fill(L), x, x)
  BY Puts
<1>4. Outline({}, O, Download(L), Idle(base, L), Idle(base, L)) /\ Implies(Idle(base, L), x) /\ Implies(x, x)
  BY <1>1, Takes, Forgets
<1>5. Outline({}, O, Fill(L) \o (RuntimeEnqueue("logical") \o Wait) \o Download(L), x, Idle(base, L))
  BY <1>2, <1>3, <1>4, ThenTwo
<1>6. Fill(L) \o (RuntimeEnqueue("logical") \o Wait) \o Download(L) = slot
  BY DEF Fill, RuntimeEnqueue, Upload, QueuedCopy, Kernel, Wait, Download
<1> HIDE DEF slot
<1>7. Outline({}, O, slot, x, x)
  BY <1>4, <1>5, <1>6, Weaker
<1>8. DmrsStage = SlotBySlot(Upload(base), slot)
  BY DEF DmrsStage, slot
<1>9. QED
  BY <1>3, <1>7, <1>8, SlotsSound

\* A slot that uploads all its kernel reads.
LEMMA SelfContainedSlots ==
  ASSUME NEW op, NEW in, NEW out, op # "free", in \cap out = {}
  PROVE  \A p \in SlotBySlot(<< >>, Upload(in) \o Fill(out) \o Once(Kernel(op, in, out), out)) : Sound(p)
<1> DEFINE slot == Upload(in) \o Fill(out) \o Once(Kernel(op, in, out), out)
           x == Idle({}, {})
<1>1. /\ Fits({}, out, op, in, out, {} \cup in \cup out, {}) /\ out \cap out \subseteq out
      /\ {} \subseteq ({} \cup in \cup out) \ out /\ {} \subseteq out
  BY DEF Fits
<1>2. Outline({}, out, slot, x, x)
  BY <1>1, CaseRuns
<1>3. Outline({}, out, << >>, x, x)
  <2>1. IsText(<< >>) /\ Len(<< >>) = 0 /\ Implies(x, x)
    BY Singles, Forgets
  <2>2. QED BY <2>1, NoCommand
<1> HIDE DEF slot
<1>4. \A p \in SlotBySlot(<< >>, slot) : Sound(p)
  BY <1>2, <1>3, SlotsSound
<1>5. QED
  BY <1>4 DEF slot

LEMMA GridAndEstimateSound == \A p \in GridMapStage \cup DmrsLsStage : Sound(p)
<1>1. /\ {"layer", "dmrs", "offsets", "til"} \cap {"grid"} = {}
      /\ {"rx", "ref", "metadata"} \cap {"h", "pilots", "noise"} = {}
  OBVIOUS
<1>2. ASSUME NEW op, NEW in, NEW out, op # "free", in \cap out = {}
      PROVE  LET k == Kernel(op, in, out)
             IN /\ \A p \in SlotBySlot(<< >>, Upload(k[1].in) \o Fill(out) \o Once(k, out)) : Sound(p)
                /\ \A p \in SlotBySlot(<< >>, Upload(k[1].in) \o Fill(k[1].out) \o Once(k, k[1].out)) : Sound(p)
  BY <1>2, KernelParts, SelfContainedSlots
<1>3. \A p \in GridMapStage : Sound(p)
  BY <1>1, <1>2 DEF GridMapStage
<1>4. \A p \in DmrsLsStage : Sound(p)
  BY <1>1, <1>2 DEF DmrsLsStage
<1>5. QED
  BY <1>3, <1>4

LEMMA PrecodeBypassSound == \A p \in PrecodeBypassStage : Sound(p)
<1> DEFINE O == {"port"}
           in == {"layer", "plan1"}
           x == Idle({"plan1"}, {})
           run == Once(PrecodeKernel("plan1"), O)
           Slot(plan) == Upload({"layer"}) \o Fill(O) \o plan \o run
<1>1. /\ Fits({}, O, "pusch_codebook_precode", in, O, in, {}) /\ {"plan1"} \subseteq in \ O /\ {} \subseteq {} \cup O
      /\ O \cap O \subseteq {} \cup O
  BY DEF Fits
<1>2. Outline({}, O, run, Idle(in, {}), x)
  BY <1>1, RunsForResult DEF PrecodeKernel
<1>3. /\ Outline({}, O, Upload({"layer"}), Idle({}, {}), Idle({"layer"}, {}))
      /\ Outline({}, O, Fill(O), Idle({"layer"}, {}), Idle({"layer"}, {}))
      /\ Outline({}, O, Upload({"plan1"}), Idle({"layer"}, {}), Idle(in, {}))
      /\ Outline({}, O, Upload({"layer"}), x, Idle(in, {})) /\ Outline({}, O, Fill(O), Idle(in, {}), Idle(in, {}))
  BY Puts
<1>4. Outline({}, O, << >>, Idle(in, {}), Idle(in, {}))
  <2>1. IsText(<< >>) /\ Len(<< >>) = 0 /\ Implies(Idle(in, {}), Idle(in, {}))
    BY Singles, Forgets
  <2>2. QED BY <2>1, NoCommand
<1> HIDE DEF run
<1>5. Outline({}, O, Slot(Upload({"plan1"})), Idle({}, {}), x)
  BY <1>2, <1>3, ThenThree
<1>6. Outline({}, O, Slot(<< >>), x, x)
  BY <1>2, <1>3, <1>4, ThenThree
<1>7. PrecodeBypassStage = SlotBySlot(Slot(Upload({"plan1"})), Slot(<< >>))
  BY DEF PrecodeBypassStage, run
<1> HIDE DEF Slot
<1>8. QED
  BY <1>5, <1>6, <1>7, SlotsSound

LEMMA OneLaunchSound ==
  ASSUME NEW op, NEW in, NEW out, op # "free", in \cap out = {}
  PROVE  Sound(OneLaunch(Kernel(op, in, out)))
<1> DEFINE k == Kernel(op, in, out)
<1>1. k[1].in = in /\ k[1].out = out
  BY KernelParts
<1>2. Fits({}, out, op, in, out, in, {}) /\ {} \subseteq in \ out /\ {} \subseteq {} \cup out /\ out \cap out \subseteq {} \cup out
  BY DEF Fits
<1>3. Outline({}, out, Upload(in), Idle({}, {}), Idle(in, {}))
  BY Puts
<1>4. Outline({}, out, Once(k, out), Idle(in, {}), Idle({}, {}))
  BY <1>2, RunsForResult
<1> HIDE DEF k
<1>5. Outline({}, out, Upload(in) \o Once(k, out), Idle({}, {}), Idle({}, {}))
  BY <1>3, <1>4, Then
<1>6. OneLaunch(k) = Freed(Upload(in) \o Once(k, out))
  BY <1>1 DEF OneLaunch
<1>7. QED
  BY <1>5, <1>6, SoundFreed DEF k

LEMMA SingleLaunchStagesSound ==
  \A p \in {IoPackStage, DetectorStage, QamDemodStage, LayerDemapStage, ScrambleStage, DescrambleStage,
            RateDematchStage} : Sound(p)
<1>1. /\ {"y", "h", "noise", "til"} \cap {"hrm", "yvpad", "no"} = {}
      /\ {"h", "y", "noise", "dummy", "til"} \cap {"xhat", "no_eff"} = {}
      /\ {"x", "noise", "til"} \cap {"llr"} = {} /\ {"in", "til"} \cap {"out"} = {}
      /\ {"in", "gold", "til"} \cap {"out"} = {} /\ {"in", "sign", "til"} \cap {"out"} = {}
      /\ {"in", "descriptors", "til"} \cap {"out"} = {}
  OBVIOUS
<1>2. Sound(IoPackStage) /\ Sound(DetectorStage)
  BY <1>1, OneLaunchSound DEF IoPackStage, DetectorStage
<1>3. Sound(QamDemodStage) /\ Sound(LayerDemapStage)
  BY <1>1, OneLaunchSound DEF QamDemodStage, LayerDemapStage
<1>4. Sound(ScrambleStage) /\ Sound(DescrambleStage) /\ Sound(RateDematchStage)
  BY <1>1, OneLaunchSound DEF ScrambleStage, DescrambleStage, RateDematchStage
<1>5. QED
  BY <1>2, <1>3, <1>4

LEMMA LdpcDecodeStageSound == Sound(LdpcDecodeStage)
<1> DEFINE in == {"llr", "graph"}
           O == {"prev", "bits", "posterior"}
           p == Upload(in) \o Fill(O) \o Once(Kernel("ldpc_decode", in, O), {"bits"})
<1>1. /\ Fits({}, O, "ldpc_decode", in, O, {} \cup in \cup O, {}) /\ {"bits"} \cap O \subseteq O
      /\ {} \subseteq ({} \cup in \cup O) \ O /\ {} \subseteq O
  BY DEF Fits
<1>2. Outline({}, O, p, Idle({}, {}), Idle({}, {}))
  BY <1>1, CaseRuns
<1>3. LdpcDecodeStage = Freed(p)
  BY DEF LdpcDecodeStage, Decoder
<1> HIDE DEF p
<1>4. QED
  BY <1>2, <1>3, SoundFreed

LEMMA ProgramsSound == \A p \in RealPrograms : Sound(p)
<1>1. \A p \in StagePrograms : Sound(p)
  BY DmrsStageSound, GridAndEstimateSound, PrecodeBypassSound, SingleLaunchStagesSound,
     LdpcDecodeStageSound DEF StagePrograms
<1>2. QED
  BY <1>1, SisoSound, MimoSound DEF RealPrograms

-----------------------------------------------------------------------------
\* What an outline says of the text.

\* Command w is the last of the first n that writes b.
WritesLast(p, b, n, w) == /\ w \in 1..n /\ b \in p[w].out
                          /\ \A m \in (w + 1)..n : b \notin p[m].out

\* State x is true behind the first n commands of p.
Holds(X, p, n, x) ==
  /\ \A b \in x.given :
       \/ b \in X /\ \A m \in 1..n : b \notin p[m].out
       \/ \E w \in 1..n : WritesLast(p, b, n, w) /\ p[w].do = "copy" /\ p[w].op # "free"
  /\ \A b \in x.made :
       \E w \in 1..n : WritesLast(p, b, n, w) /\ p[w].do = "launch" /\ p[w].op # "free"
  /\ \A m \in 1..n :
       p[m].do = "launch" /\ (\A s \in (m + 1)..n : p[s].do # "sync") => p[m] \in x.busy

LEMMA HoldsLess ==
  ASSUME NEW X, NEW p, NEW n, NEW x, NEW y, Holds(X, p, n, x), Implies(x, y)
  PROVE  Holds(X, p, n, y)
  BY DEF Holds, Implies

LEMMA HoldsAfter ==
  ASSUME NEW E, NEW O, NEW X, NEW p, NEW n \in Nat \ {0}, NEW x,
         Holds(X, p, n - 1, x), Allowed(E, O, p[n], x)
  PROVE  Holds(X, p, n, After(p[n], x))
<1> DEFINE c == p[n]
           y == After(c, x)
<1>1. /\ y.given = IF c.do = "copy" /\ c.op # "free" THEN x.given \cup c.out ELSE x.given \ c.out
      /\ y.made  = IF c.do = "launch" THEN x.made \cup c.out ELSE x.made \ c.out
      /\ y.busy  = IF c.do = "launch" THEN x.busy \cup {c} ELSE IF c.do = "sync" THEN {} ELSE x.busy
  BY DEF After
<1> HIDE DEF y
<1>2. n \in 1..n /\ \A m \in 1..n : m \in 1..(n - 1) \/ m = n
  OBVIOUS
<1>3. ASSUME NEW b, b \in c.out PROVE WritesLast(p, b, n, n)
  <2>1. \A m \in (n + 1)..n : FALSE
    OBVIOUS
  <2>2. QED BY <1>2, <1>3, <2>1 DEF WritesLast
<1>4. ASSUME NEW b, b \notin c.out, NEW w, WritesLast(p, b, n - 1, w) PROVE WritesLast(p, b, n, w) /\ w \in 1..n
  <2>1. w \in 1..n /\ \A m \in (w + 1)..n : m \in (w + 1)..(n - 1) \/ m = n
    BY <1>4 DEF WritesLast
  <2>2. QED BY <1>4, <2>1 DEF WritesLast
<1>5. ASSUME NEW b \in y.given
      PROVE  \/ b \in X /\ \A m \in 1..n : b \notin p[m].out
             \/ \E w \in 1..n : WritesLast(p, b, n, w) /\ p[w].do = "copy" /\ p[w].op # "free"
  <2>1. CASE b \in c.out
    BY <1>1, <1>2, <1>3, <2>1
  <2>2. CASE b \notin c.out
    <3>1. b \in x.given
      BY <1>1, <2>2
    <3>2. \/ b \in X /\ \A m \in 1..(n - 1) : b \notin p[m].out
          \/ \E w \in 1..(n - 1) : WritesLast(p, b, n - 1, w) /\ p[w].do = "copy" /\ p[w].op # "free"
      BY <3>1 DEF Holds
    <3>3. QED BY <1>2, <1>4, <2>2, <3>2
  <2>3. QED BY <2>1, <2>2
<1>6. ASSUME NEW b \in y.made
      PROVE  \E w \in 1..n : WritesLast(p, b, n, w) /\ p[w].do = "launch" /\ p[w].op # "free"
  <2>1. CASE b \in c.out
    <3>1. c.do = "launch"
      BY <1>1, <2>1
    <3>2. c.op # "free"
      BY <3>1 DEF Allowed
    <3>3. QED BY <1>2, <1>3, <2>1, <3>1, <3>2
  <2>2. CASE b \notin c.out
    <3>1. b \in x.made
      BY <1>1, <2>2
    <3>2. \E w \in 1..(n - 1) : WritesLast(p, b, n - 1, w) /\ p[w].do = "launch" /\ p[w].op # "free"
      BY <3>1 DEF Holds
    <3>3. QED BY <1>4, <2>2, <3>2
  <2>3. QED BY <2>1, <2>2
<1>7. ASSUME NEW m \in 1..n, p[m].do = "launch", \A s \in (m + 1)..n : p[s].do # "sync"
      PROVE  p[m] \in y.busy
  <2>1. CASE m = n
    BY <1>1, <1>7, <2>1
  <2>2. CASE m # n
    <3>1. m \in 1..(n - 1) /\ n \in (m + 1)..n /\ \A s \in (m + 1)..(n - 1) : s \in (m + 1)..n
      BY <2>2
    <3>2. c.do # "sync" /\ p[m] \in x.busy
      BY <1>7, <3>1 DEF Holds
    <3>3. QED BY <1>1, <3>2
  <2>3. QED BY <2>1, <2>2
<1>8. Holds(X, p, n, y)
  BY <1>5, <1>6, <1>7 DEF Holds
<1>9. QED
  BY <1>8 DEF y

LEMMA AnnotationHolds ==
  ASSUME NEW E, NEW O, NEW X, NEW p, NEW y, NEW f, IsText(p), Annotates(E, O, p, Idle(X, {}), y, f)
  PROVE  \A n \in 0..Len(p) : Holds(X, p, n, f[n])
<1> DEFINE T == {n \in 0..Len(p) : Holds(X, p, n, f[n])}
<1>1. Len(p) \in Nat
  BY SequenceIsText DEF IsText
<1>2. 0 \in T
  <2>1. Holds(X, p, 0, Idle(X, {}))
    BY DEF Holds, Idle, Known
  <2>2. Implies(Idle(X, {}), f[0])
    BY DEF Annotates
  <2>3. QED BY <1>1, <2>1, <2>2, HoldsLess
<1>3. ASSUME NEW n \in 1..Len(p), n - 1 \in T PROVE n \in T
  <2>1. Allowed(E, O, p[n], f[n - 1]) /\ Implies(After(p[n], f[n - 1]), f[n])
    BY DEF Annotates
  <2>2. n \in Nat \ {0} /\ n \in 0..Len(p)
    BY <1>1
  <2>3. Holds(X, p, n, After(p[n], f[n - 1]))
    BY <1>3, <2>1, <2>2, HoldsAfter
  <2>4. QED BY <2>1, <2>2, <2>3, HoldsLess
<1> HIDE DEF T
<1>4. 0..Len(p) \subseteq T
  BY <1>1, <1>2, <1>3, Reaches
<1>5. QED
  BY <1>4 DEF T

\* Program p is annotated by f throughout.
Explains(E, O, X, p, f) ==
  \A n \in 1..Len(p) : Holds(X, p, n - 1, f[n - 1]) /\ Allowed(E, O, p[n], f[n - 1])

LEMMA SoundMeans ==
  ASSUME NEW p, Sound(p)
  PROVE  \E E, O, X, f : /\ Explains(E, O, X, p, f)
                         /\ E \subseteq ClearedTooEarly(p) /\ (X = {} \/ p = Unloaded)
<1>1. PICK E, O, X, y : /\ Outline(E, O, p, Idle(X, {}), y)
                        /\ E \subseteq ClearedTooEarly(p) /\ (X = {} \/ p = Unloaded)
  BY DEF Sound
<1>2. PICK f : Annotates(E, O, p, Idle(X, {}), y, f)
  BY <1>1 DEF Outline
<1>3. \A n \in 0..Len(p) : Holds(X, p, n, f[n])
  BY <1>1, <1>2, AnnotationHolds DEF Outline
<1>4. ASSUME NEW n \in 1..Len(p) PROVE Holds(X, p, n - 1, f[n - 1]) /\ Allowed(E, O, p[n], f[n - 1])
  <2>1. n - 1 \in 0..Len(p)
    OBVIOUS
  <2>2. QED BY <1>2, <1>3, <2>1 DEF Annotates
<1>5. Explains(E, O, X, p, f)
  BY <1>4 DEF Explains
<1>6. QED
  BY <1>1, <1>5

\* A copy behind a launch, with no wait between, is a fill over E if it
\* conflicts with the launch at all.
LEMMA OnlyFillsClash ==
  ASSUME NEW E, NEW O, NEW X, NEW p, NEW f, Explains(E, O, X, p, f),
         NEW m \in 1..Len(p), NEW n \in 1..Len(p), m < n, p[m].do = "launch", p[n].do = "copy",
         \A s \in (m + 1)..(n - 1) : p[s].do # "sync"
  PROVE  Clash(p[m], p[n]) \subseteq (IF p[n].op = "fill" THEN E ELSE {})
<1>1. m \in 1..(n - 1)
  OBVIOUS
<1>2. p[m] \in f[n - 1].busy
  BY <1>1 DEF Holds, Explains
<1>3. QED
  BY <1>2 DEF Allowed, Explains

\* What the commands of a sound program read, its waits order.
LEMMA SoundOrders ==
  ASSUME NEW p, Sound(p), NEW n \in 1..Len(p)
  PROVE  p[n].in \cap Buffers \subseteq Ordered(p)
<1>1. PICK E, O, X, f : Explains(E, O, X, p, f)
  BY SoundMeans
<1>2. SUFFICES ASSUME NEW b \in Buffers, b \in p[n].in,
                      NEW i \in 1..Len(p), NEW j \in 1..Len(p), i < j,
                      p[i].do = "launch", p[j].do = "copy", Share(p[i], p[j], b),
                      \A s \in (i + 1)..(j - 1) : p[s].do # "sync"
               PROVE  FALSE
  BY DEF Ordered
<1>3. b \in Clash(p[i], p[j])
  BY <1>2 DEF Share, Clash
<1>4. Clash(p[i], p[j]) \subseteq (IF p[j].op = "fill" THEN E ELSE {})
  BY <1>1, <1>2, OnlyFillsClash
<1>5. b \notin E
  BY <1>1, <1>2 DEF Allowed, Explains
<1>6. QED
  BY <1>3, <1>4, <1>5

LEMMA ProgramIsOrdered ==
  ASSUME program \in DOMAIN Programs
  PROVE  /\ Sound(Code) \/ Disciplined(Code)
         /\ \A n \in 1..Len(Code) : Code[n].in \subseteq OrderedBuffers
<1>1. Sound(Code) \/ Disciplined(Code)
  BY OperatorsAssumption, ProgramsSound DEF Anonymous, Code
<1>2. ASSUME NEW n \in 1..Len(Code) PROVE Code[n].in \subseteq OrderedBuffers
  <2>1. Code[n].in \subseteq Buffers
    BY <1>2, CommandShape
  <2>2. QED BY <1>1, <1>2, <2>1, SoundOrders, DisciplinedOrders DEF OrderedBuffers
<1>3. QED
  BY <1>1, <1>2

\* A program about which something is known is sound.
LEMMA NamedIsSound ==
  ASSUME program \in DOMAIN Programs, NEW n \in 1..Len(Code), Code[n].op # "any"
  PROVE  Sound(Code)
  BY OperatorsAssumption, ProgramsSound DEF Anonymous, Code

\* The operation at the front of the device.
LEMMA AtTheFront ==
  ASSUME IInv, stream # << >>
  PROVE  /\ Head(stream) \in 1..(pc - 1) /\ Head(stream) \in 1..Len(Code)
         /\ Code[Head(stream)].do = "launch"
         /\ Head(stream) \in Queued /\ \A q \in Queued : Head(stream) <= q
         /\ ReadsInOrder(Head(stream))
         /\ program \in DOMAIN Programs
<1>1. Head(stream) \in Queued /\ \A q \in Queued : Head(stream) <= q
  BY OldestQueued DEF IInv
<1>2. /\ Head(stream) \in 1..(pc - 1) /\ Head(stream) \in 1..Len(Code)
      /\ Code[Head(stream)].do = "launch" /\ program \in DOMAIN Programs
  BY <1>1, QueuedRange DEF IInv, TypeOK
<1>3. Code[Head(stream)].in \subseteq OrderedBuffers
  BY <1>2, ProgramIsOrdered
<1>4. ReadsInOrder(Head(stream))
  BY <1>3, HeadFindsInOrder DEF ReadsInOrder
<1>5. QED
  BY <1>1, <1>2, <1>4

\* What a copy of the host meets on the device: the launches whose memory it
\* clears too early, and no other it conflicts with.
LEMMA CopyClears ==
  ASSUME IInv, AtHost("copy"), NEW q \in Queued
  PROVE  Clash(Code[q], Code[pc]) \subseteq (IF Code[pc].op = "fill" THEN ClearedTooEarly(Code) ELSE {})
<1>1. /\ program \in DOMAIN Programs /\ Len(Code) \in Nat
      /\ pc \in 1..Len(Code) /\ Code[pc].do = "copy"
  BY CommandShape DEF IInv, TypeOK, AtHost
<1>2. q \in 1..Len(Code) /\ q < pc /\ Code[q].do = "launch" /\ q \in Nat
  BY QueuedRange
<1>3. \A s \in (q + 1)..(pc - 1) : Code[s].do # "sync"
  BY DEF IInv, NothingOvertakes
<1>4. CASE Sound(Code)
  <2>1. PICK E, O, X, f : Explains(E, O, X, Code, f) /\ E \subseteq ClearedTooEarly(Code)
    BY <1>4, SoundMeans
  <2>2. Clash(Code[q], Code[pc]) \subseteq (IF Code[pc].op = "fill" THEN E ELSE {})
    BY <1>1, <1>2, <1>3, <2>1, OnlyFillsClash
  <2>3. QED BY <2>1, <2>2
<1>5. CASE Disciplined(Code)
  <2>1. SUFFICES ASSUME NEW b \in Clash(Code[q], Code[pc]) PROVE FALSE
    OBVIOUS
  <2>2. Share(Code[q], Code[pc], b) /\ b \in Buffers
    BY <1>1, <1>2, <2>1, CommandShape DEF Share, Clash
  <2>3. b \in OrderedBuffers
    BY <1>5, <2>2, DisciplinedOrders DEF OrderedBuffers
  <2>4. QED BY <2>2, <2>3, CopyIsAlone
<1>6. QED
  BY <1>1, <1>4, <1>5, ProgramIsOrdered

\* What the outline knows of a buffer, the device holds.
LEMMA GivenIsHeld ==
  ASSUME NEW X, NEW n \in 1..Len(Code), NEW x, Holds(X, Code, n - 1, x), NEW b,
         LastWriter(b, n, mem[b])
  PROVE  /\ b \in x.given =>
              \/ b \in X /\ mem[b] = 0
              \/ mem[b] # 0 /\ Wrote(b).do = "copy" /\ Wrote(b).op # "free"
         /\ b \in x.made => mem[b] # 0 /\ Wrote(b).do = "launch" /\ Wrote(b).op # "free"
<1>1. /\ \/ mem[b] = 0
         \/ mem[b] \in 1..(n - 1) /\ b \in Code[mem[b]].out
      /\ \A m \in (mem[b] + 1)..(n - 1) : b \notin Code[m].out
  BY DEF LastWriter
<1>2. ASSUME NEW w \in 1..(n - 1), WritesLast(Code, b, n - 1, w) PROVE mem[b] = w
  <2>1. mem[b] = 0 => w \in (mem[b] + 1)..(n - 1)
    OBVIOUS
  <2>2. mem[b] \in 1..(n - 1)
    BY <1>1, <1>2, <2>1 DEF WritesLast
  <2>3. ~(mem[b] < w)
    <3>1. mem[b] < w => w \in (mem[b] + 1)..(n - 1)
      BY <2>2
    <3>2. QED BY <1>1, <1>2, <3>1 DEF WritesLast
  <2>4. ~(w < mem[b])
    <3>1. w < mem[b] => mem[b] \in (w + 1)..(n - 1)
      BY <2>2
    <3>2. mem[b] # 0
      BY <2>2
    <3>3. QED BY <1>1, <1>2, <3>1, <3>2 DEF WritesLast
  <2>5. QED BY <2>2, <2>3, <2>4
<1>3. \A w \in 1..(n - 1) : w # 0
  OBVIOUS
<1>4. (\A m \in 1..(n - 1) : b \notin Code[m].out) => mem[b] = 0
  BY <1>1
<1>5. ASSUME b \in x.given
      PROVE  \/ b \in X /\ mem[b] = 0
             \/ mem[b] # 0 /\ Wrote(b).do = "copy" /\ Wrote(b).op # "free"
  <2>1. \/ b \in X /\ \A m \in 1..(n - 1) : b \notin Code[m].out
        \/ \E w \in 1..(n - 1) : WritesLast(Code, b, n - 1, w) /\ Code[w].do = "copy" /\ Code[w].op # "free"
    BY <1>5 DEF Holds
  <2>2. QED BY <1>2, <1>3, <1>4, <2>1 DEF Wrote
<1>6. ASSUME b \in x.made PROVE mem[b] # 0 /\ Wrote(b).do = "launch" /\ Wrote(b).op # "free"
  <2>1. \E w \in 1..(n - 1) : WritesLast(Code, b, n - 1, w) /\ Code[w].do = "launch" /\ Code[w].op # "free"
    BY <1>6 DEF Holds
  <2>2. QED BY <1>2, <1>3, <2>1 DEF Wrote
<1>7. QED
  BY <1>5, <1>6

-----------------------------------------------------------------------------
\* No host copy of an operator program or of a stage overlaps a queued launch
\* that shares a buffer with it, however often its loops turn: except that the
\* decoder's benchmark clears its messages, and nothing else, behind launches.
THEOREM OperatorsDoNotRace == Spec => []CopiesKeepClear
<1>1. Init => IInv
  BY InitIInv
<1>2. IInv /\ [Next]_vars => IInv'
  BY NextIInv
<1>3. ASSUME IInv PROVE CopiesKeepClear
  <2>1. ASSUME AtHost("copy"), NEW k \in 1..Len(stream)
        PROVE  Clash(Code[stream[k]], Code[pc])
                 \subseteq (IF Code[pc].op = "fill" THEN ClearedTooEarly(Code) ELSE {})
    <3>1. stream[k] \in Queued
      BY DEF Queued
    <3>2. QED BY <1>3, <2>1, <3>1, CopyClears
  <2>2. QED BY <2>1 DEF CopiesKeepClear, Clash
<1>4. QED BY <1>1, <1>2, <1>3, PTL DEF Spec

\* Every launch and every copy back of these programs reads what it would read
\* if the device were done with each command when the host issued it: what the
\* decoder's benchmark clears too early, no command reads.
THEOREM OperatorsReadInOrder == Spec => []ProgramOrder
<1>1. Init => IInv
  BY InitIInv
<1>2. IInv /\ [Next]_vars => IInv'
  BY NextIInv
<1>3. ASSUME IInv PROVE ProgramOrder
  <2>1. ASSUME stream # << >> PROVE ReadsInOrder(Head(stream))
    BY <1>3, <2>1, AtTheFront
  <2>2. ASSUME AtHost("copy"), NEW b \in Code[pc].in PROVE LastWriter(b, pc, mem[b])
    <3>1. pc \in 1..Len(Code) /\ program \in DOMAIN Programs
      BY <1>3, <2>2, CommandShape DEF IInv, TypeOK, AtHost
    <3>2. b \in OrderedBuffers
      BY <2>2, <3>1, ProgramIsOrdered
    <3>3. QED BY <1>3, <2>2, <3>2, CopyFindsInOrder
  <2>3. QED BY <2>1, <2>2 DEF ProgramOrder, ReadsInOrder
<1>4. QED BY <1>1, <1>2, <1>3, PTL DEF Spec

\* No launch finds in a buffer what an earlier launch of the same kernel left:
\* accumulators and scratch memory are cleared on the device before every
\* launch, for any number of warm-ups, measurements and cases.
THEOREM StateStaysFresh == Spec => []StateIsFresh
<1>1. Init => IInv
  BY InitIInv
<1>2. IInv /\ [Next]_vars => IInv'
  BY NextIInv
<1>3. ASSUME IInv PROVE StateIsFresh
  <2>1. SUFFICES ASSUME stream # << >>, Now.op # "any", NEW b \in Now.in,
                        mem[b] # 0, Wrote(b) = Now
                 PROVE  FALSE
    BY DEF StateIsFresh, Executing
  <2> DEFINE h == Head(stream)
  <2>2. /\ h \in 1..Len(Code) /\ Code[h].do = "launch" /\ Now = Code[h]
        /\ LastWriter(b, h, mem[b]) /\ program \in DOMAIN Programs
    BY <1>3, <2>1, AtTheFront DEF Now, ReadsInOrder
  <2> HIDE DEF h
  <2>3. Sound(Code)
    BY <2>1, <2>2, NamedIsSound
  <2>4. PICK E, O, X, f : Explains(E, O, X, Code, f)
    BY <2>3, SoundMeans
  <2>5. b \in Now.out
    <3>1. b \in Code[mem[b]].out
      BY <2>1, <2>2 DEF LastWriter
    <3>2. QED BY <2>1, <3>1 DEF Wrote
  <2>6. b \in f[h - 1].given
    BY <2>1, <2>2, <2>4, <2>5 DEF Allowed, Explains
  <2>7. Wrote(b).do = "copy"
    BY <2>1, <2>2, <2>4, <2>6, GivenIsHeld DEF Explains
  <2>8. QED BY <2>1, <2>2, <2>7
<1>4. QED BY <1>1, <1>2, <1>3, PTL DEF Spec

\* Whatever a launch reads was uploaded, filled or computed by this program and
\* is not freed; except in the grid map benchmark that found no case to load.
THEOREM InputsStayPresent == Spec => []InputsArePresent
<1>1. Init => IInv
  BY InitIInv
<1>2. IInv /\ [Next]_vars => IInv'
  BY NextIInv
<1>3. ASSUME IInv PROVE InputsArePresent
  <2>1. SUFFICES ASSUME stream # << >>, Now.op # "any", Code # Unloaded, NEW b \in Now.in
                 PROVE  mem[b] # 0 /\ Wrote(b).op # "free"
    BY DEF InputsArePresent, Executing
  <2> DEFINE h == Head(stream)
             v == mem[b]
  <2>2. /\ h \in 1..(pc - 1) /\ h \in 1..Len(Code) /\ Code[h].do = "launch" /\ Now = Code[h]
        /\ h \in Queued /\ (\A q \in Queued : h <= q) /\ program \in DOMAIN Programs
    BY <1>3, <2>1, AtTheFront DEF Now
  <2> HIDE DEF h
  <2>3. Sound(Code)
    BY <2>1, <2>2, NamedIsSound
  <2>4. PICK E, O, X, f : Explains(E, O, X, Code, f) /\ X = {}
    BY <2>1, <2>3, SoundMeans
  <2>5. /\ b \in Buffers /\ Len(Code) \in Nat /\ pc \in 1..(Len(Code) + 1)
        /\ \/ v = 0
           \/ v \in (1..(pc - 1)) \ Queued /\ b \in Code[v].out
        /\ v = 0 \/ Code[v].do = "copy" =>
             \A m \in (v + 1)..(pc - 1) : b \in Code[m].out => m \in Queued
    <3>1. b \in Buffers /\ Len(Code) \in Nat /\ pc \in 1..(Len(Code) + 1)
      BY <1>3, <2>1, <2>2, CommandShape DEF IInv, TypeOK
    <3>2. LastPerformed
      BY <1>3 DEF IInv
    <3>3. /\ \/ mem[b] = 0
             \/ mem[b] \in (1..(pc - 1)) \ Queued /\ b \in Code[mem[b]].out
          /\ mem[b] = 0 \/ Code[mem[b]].do = "copy" =>
               \A m \in (mem[b] + 1)..(pc - 1) : b \in Code[m].out => m \in Queued
      BY ONLY <3>1, <3>2 DEF LastPerformed
    <3>4. QED BY <3>1, <3>3
  <2>6. PICK w \in 1..(h - 1) : WritesLast(Code, b, h - 1, w) /\ Code[w].op # "free"
    <3>1. b \in f[h - 1].given \cup f[h - 1].made
      BY <2>1, <2>2, <2>4 DEF Allowed, Explains
    <3>2. Holds(X, Code, h - 1, f[h - 1])
      BY <2>2, <2>4 DEF Explains
    <3>3. QED BY <2>4, <3>1, <3>2 DEF Holds
  <2> HIDE DEF v
  <2>7. w \notin Queued /\ w < h /\ w \in Nat /\ h \in Nat /\ b \in Code[w].out
    BY <2>2, <2>6 DEF WritesLast
  <2>8. ASSUME v = 0 \/ Code[v].do = "copy" PROVE ~(v < w)
    <3>1. v < w => w \in (v + 1)..(pc - 1)
      BY <2>2, <2>5, <2>7
    <3>2. QED BY <2>5, <2>7, <2>8, <3>1
  <2>9. v # 0
    BY <2>6, <2>8
  <2>10. ASSUME Code[v].op = "free" PROVE FALSE
    <3>1. v \in 1..Len(Code) /\ v \in 1..(pc - 1) /\ b \in Code[v].out
      BY <2>5, <2>9
    <3>2. Code[v].do # "launch"
      BY <2>4, <2>10, <3>1 DEF Allowed, Explains
    <3>3. Code[v].do = "copy"
      BY <2>2, <3>1, <3>2, CommandShape DEF Kinds
    <3>4. v # w /\ v # h
      BY <2>2, <2>6, <2>10, <3>2
    <3>5. ~(w < v /\ v < h)
      <4>1. w < v /\ v < h => v \in (w + 1)..(h - 1)
        BY <2>7, <3>1
      <4>2. QED BY <2>6, <3>1, <4>1 DEF WritesLast
    <3>6. h < v
      BY <2>7, <2>8, <3>1, <3>3, <3>4, <3>5
    <3>7. \A s \in (h + 1)..(v - 1) : Code[s].do # "sync"
      <4>1. \A s \in (h + 1)..(v - 1) : s \in (h + 1)..(pc - 1)
        BY <2>2, <2>5, <3>1
      <4>2. QED BY <1>3, <2>2, <4>1 DEF IInv, NothingOvertakes
    <3>8. Clash(Code[h], Code[v]) \subseteq (IF Code[v].op = "fill" THEN E ELSE {})
      BY <2>2, <2>4, <3>1, <3>3, <3>6, <3>7, OnlyFillsClash
    <3>9. b \in Clash(Code[h], Code[v])
      BY <2>1, <2>2, <3>1 DEF Clash
    <3>10. QED BY <2>10, <3>8, <3>9
  <2>11. QED BY <2>9, <2>10 DEF Wrote, v
<1>4. QED BY <1>1, <1>2, <1>3, PTL DEF Spec

\* A result is read back from the launch that computes it, never from the
\* pattern its buffer was filled with, unless the program launches nothing.
THEOREM ResultsStayComputed == Spec => []ResultsAreComputed
<1>1. Init => IInv
  BY InitIInv
<1>2. IInv /\ [Next]_vars => IInv'
  BY NextIInv
<1>3. ASSUME IInv PROVE ResultsAreComputed
  <2>1. SUFFICES ASSUME AtHost("copy"), Code[pc].op = "download", NEW b \in Code[pc].in,
                        NEW n \in 1..Len(Code), Code[n].do = "launch", b \in Code[n].out
                 PROVE  mem[b] # 0 /\ Wrote(b).do = "launch"
    BY DEF ResultsAreComputed
  <2> DEFINE v == mem[b]
  <2>2. program \in DOMAIN Programs /\ pc \in 1..Len(Code) /\ Code[pc].do = "copy"
    BY <1>3, <2>1, CommandShape DEF IInv, TypeOK, AtHost
  <2>3. Sound(Code)
    BY <2>1, <2>2, NamedIsSound
  <2>4. PICK E, O, X, f : Explains(E, O, X, Code, f)
    BY <2>3, SoundMeans
  <2>5. /\ b \in Buffers /\ Len(Code) \in Nat
        /\ \/ v = 0
           \/ v \in (1..(pc - 1)) \ Queued /\ b \in Code[v].out
        /\ v = 0 \/ Code[v].do = "copy" =>
             \A m \in (v + 1)..(pc - 1) : b \in Code[m].out => m \in Queued
    <3>1. b \in Buffers /\ Len(Code) \in Nat
      BY <2>1, <2>2, CommandShape
    <3>2. LastPerformed
      BY <1>3 DEF IInv
    <3>3. /\ \/ mem[b] = 0
             \/ mem[b] \in (1..(pc - 1)) \ Queued /\ b \in Code[mem[b]].out
          /\ mem[b] = 0 \/ Code[mem[b]].do = "copy" =>
               \A m \in (mem[b] + 1)..(pc - 1) : b \in Code[m].out => m \in Queued
      BY ONLY <3>1, <3>2 DEF LastPerformed
    <3>4. QED BY <3>1, <3>3
  <2>6. b \in f[pc - 1].made
    BY <2>1, <2>2, <2>4 DEF Allowed, Explains
  <2>7. PICK w \in 1..(pc - 1) : WritesLast(Code, b, pc - 1, w) /\ Code[w].do = "launch"
    BY <2>2, <2>4, <2>6 DEF Explains, Holds
  <2> HIDE DEF v
  <2>8. w \notin Queued /\ w \in Nat /\ b \in Code[w].out
    <3>1. b \in Clash(Code[w], Code[pc])
      BY <2>1, <2>7 DEF Clash, WritesLast
    <3>2. w \notin Queued
      BY <1>3, <2>1, <3>1, CopyClears
    <3>3. QED BY <2>7, <3>2 DEF WritesLast
  <2>9. ASSUME v = 0 \/ Code[v].do = "copy" PROVE FALSE
    <3>1. ~(v < w)
      <4>1. v < w => w \in (v + 1)..(pc - 1)
        BY <2>5, <2>7, <2>8
      <4>2. QED BY <2>5, <2>8, <2>9, <4>1
    <3>2. v # 0
      BY <2>7, <3>1
    <3>3. v # w /\ Code[v].do = "copy"
      BY <2>7, <2>9, <3>2
    <3>4. v \in (w + 1)..(pc - 1) /\ b \in Code[v].out
      BY <2>5, <2>8, <3>1, <3>2, <3>3
    <3>5. QED BY <2>7, <3>4 DEF WritesLast
  <2>10. v \in 1..Len(Code) /\ b \in Code[v].out
    BY <2>2, <2>5, <2>9
  <2>11. Code[v].do = "launch"
    BY <2>2, <2>9, <2>10, CommandShape DEF Kinds
  <2>12. QED BY <2>9, <2>11 DEF Wrote, v
<1>4. QED BY <1>1, <1>2, <1>3, PTL DEF Spec
=============================================================================
