--------------------------- MODULE SisoRxChainProofs ---------------------------
(***************************************************************************)
(* The SISO receiver for any number of slots and blocks.                    *)
(***************************************************************************)
EXTENDS SisoRxChain, SequenceTheorems, FiniteSetTheorems, WellFoundedInduction, TLAPS

Ds == INSTANCE DeviceStreamProofs

-----------------------------------------------------------------------------
\* Natural numbers and sequences.

Below == {ss \in Nat \X Nat : ss[1] < ss[2]}

LEMMA BelowWellFounded == IsWellFoundedOn(Below, Nat)
  BY NatLessThanWellFounded DEF OpToRel, Below

\* The least of a set of numbers ...
LEMMA LeastElement ==
  ASSUME NEW T, T \subseteq Nat, T # {}
  PROVE  \E x \in T : \A y \in T : x <= y
<1>1. \E x \in T : \A y \in T : ~ (<<y, x>> \in Below)
  BY BelowWellFounded, WFMin
<1>2. PICK x \in T : \A y \in T : ~ (<<y, x>> \in Below)
  BY <1>1
<1>3. ASSUME NEW y \in T PROVE x <= y
  <2>1. x \in Nat /\ y \in Nat
    OBVIOUS
  <2>2. y < x => <<y, x>> \in Below
    BY <2>1 DEF Below
  <2>3. QED
    BY <2>1, <2>2, <1>2
<1>4. QED
  BY <1>3

\* ... and the greatest of a bounded one.
LEMMA GreatestElement ==
  ASSUME NEW n \in Nat, NEW T, T \subseteq 0..n, T # {}
  PROVE  \E x \in T : \A y \in T : y <= x
<1> DEFINE U == {n - x : x \in T}
<1>1. U \subseteq Nat /\ U # {}
  <2>1. \A x \in T : n - x \in Nat
    OBVIOUS
  <2>2. QED BY <2>1
<1>2. PICK u \in U : \A v \in U : u <= v
  BY <1>1, LeastElement, Zenon
<1>3. PICK x \in T : u = n - x
  OBVIOUS
<1>4. ASSUME NEW y \in T PROVE y <= x
  <2>1. n - y \in U
    OBVIOUS
  <2>2. n - x <= n - y
    BY <1>2, <1>3, <2>1
  <2>3. x \in 0..n /\ y \in 0..n
    OBVIOUS
  <2>4. QED BY <2>2, <2>3
<1>5. QED
  BY <1>4

\* What a number has that 0 has and that passes from each number to the next.
LEMMA Reaches ==
  ASSUME NEW n \in Nat, NEW T, 0 \in T, \A t \in 1..n : t - 1 \in T => t \in T
  PROVE  0..n \subseteq T
<1>1. SUFFICES ASSUME (0..n) \ T # {} PROVE FALSE
  OBVIOUS
<1> DEFINE U == (0..n) \ T
<1>2. U \subseteq Nat /\ U # {}
  BY <1>1
<1>3. PICK x \in U : \A y \in U : x <= y
  BY <1>2, LeastElement, Zenon
<1>4. x \in 1..n /\ x - 1 \in 0..n /\ ~(x <= x - 1)
  OBVIOUS
<1>5. x - 1 \in T
  BY <1>3, <1>4
<1>6. QED
  BY <1>3, <1>4, <1>5

\* A sequence of its own elements.
IsText(q) == q \in Seq({q[i] : i \in 1..Len(q)})

LEMMA SequenceIsText ==
  ASSUME NEW S, NEW q \in Seq(S)
  PROVE  IsText(q) /\ Len(q) \in Nat /\ \A i \in 1..Len(q) : q[i] \in S
<1>1. Len(q) \in Nat /\ q \in [1..Len(q) -> S]
  BY LenProperties
<1>2. q \in [1..Len(q) -> {q[i] : i \in 1..Len(q)}]
  BY <1>1
<1>3. QED
  BY <1>1, <1>2 DEF IsText

LEMMA FunctionIsText ==
  ASSUME NEW N \in Nat, NEW f, f = [i \in 1..N |-> f[i]]
  PROVE  IsText(f) /\ Len(f) = N
<1> DEFINE S == {f[i] : i \in 1..N}
<1>1. \A i \in 1..N : f[i] \in S
  OBVIOUS
<1> HIDE DEF S
<1>2. f \in Seq(S) /\ Len(f) = N
  BY <1>1
<1>3. QED
  BY <1>2, SequenceIsText

\* A concatenation by its halves.
LEMMA Joined ==
  ASSUME NEW r, NEW s, IsText(r), IsText(s)
  PROVE  /\ IsText(r \o s) /\ Len(r) \in Nat /\ Len(s) \in Nat
         /\ Len(r \o s) = Len(r) + Len(s)
         /\ \A j \in 1..Len(r) : (r \o s)[j] = r[j]
         /\ \A j \in 1..Len(s) : (r \o s)[j + Len(r)] = s[j]
<1> DEFINE S == {r[i] : i \in 1..Len(r)} \union {s[i] : i \in 1..Len(s)}
<1>1. r \in Seq(S) /\ s \in Seq(S)
  <2>1. r \in Seq({r[i] : i \in 1..Len(r)}) /\ s \in Seq({s[i] : i \in 1..Len(s)})
    BY DEF IsText
  <2>2. {r[i] : i \in 1..Len(r)} \subseteq S /\ {s[i] : i \in 1..Len(s)} \subseteq S
    OBVIOUS
  <2> HIDE DEF S
  <2>3. QED BY <2>1, <2>2, SeqMonotonic, Zenon
<1> HIDE DEF S
<1>2. /\ (r \o s) \in Seq(S) /\ Len(r \o s) = Len(r) + Len(s)
      /\ \A j \in 1..(Len(r) + Len(s)) : (r \o s)[j] = IF j <= Len(r) THEN r[j] ELSE s[j - Len(r)]
  BY <1>1, ConcatProperties, Zenon
<1>3. Len(r) \in Nat /\ Len(s) \in Nat
  BY <1>1, LenProperties
<1>4. ASSUME NEW j \in 1..Len(s) PROVE (r \o s)[j + Len(r)] = s[j]
  <2>1. j + Len(r) \in 1..(Len(r) + Len(s)) /\ ~(j + Len(r) <= Len(r)) /\ j + Len(r) - Len(r) = j
    BY <1>3
  <2>2. QED BY <1>2, <2>1
<1>5. IsText(r \o s)
  BY <1>2, SequenceIsText
<1>6. QED
  BY <1>2, <1>3, <1>4, <1>5

\* One element, or none.
LEMMA Singles ==
  /\ IsText(<< >>) /\ Len(<< >>) = 0
  /\ \A x : IsText(<< x >>) /\ Len(<< x >>) = 1 /\ << x >>[1] = x
<1>1. ASSUME NEW x PROVE << x >> \in Seq({x}) /\ Len(<< x >>) = 1 /\ << x >>[1] = x
  OBVIOUS
<1>2. << >> \in Seq({}) /\ Len(<< >>) = 0
  OBVIOUS
<1>3. QED
  BY <1>1, <1>2, SequenceIsText

\* An element of a concatenation is one of a half.
LEMMA Halves ==
  ASSUME NEW r, NEW s, IsText(r), IsText(s), NEW n \in 1..Len(r \o s)
  PROVE  \/ n \in 1..Len(r) /\ (r \o s)[n] = r[n]
         \/ \E j \in 1..Len(s) : n = j + Len(r) /\ (r \o s)[n] = s[j]
<1>1. IsText(r) /\ IsText(s)
  OBVIOUS
<1>2. /\ Len(r) \in Nat /\ Len(s) \in Nat /\ Len(r \o s) = Len(r) + Len(s)
      /\ \A j \in 1..Len(r) : (r \o s)[j] = r[j]
      /\ \A j \in 1..Len(s) : (r \o s)[j + Len(r)] = s[j]
  BY ONLY <1>1, Joined
<1> DEFINE j == n - Len(r)
<1>3. n \notin 1..Len(r) => j \in 1..Len(s) /\ n = j + Len(r)
  BY <1>2
<1> HIDE DEF j
<1>4. QED
  BY <1>2, <1>3

-----------------------------------------------------------------------------
\* What a text says of the buffers.  c is the command whose result a command at
\* place n finds in buffer b: the last one before n that writes it.
Finds(q, n, b, c) ==
  \E w \in 1..(n - 1) : /\ b \in q[w].out /\ c = q[w]
                        /\ \A m \in (w + 1)..(n - 1) : b \notin q[m].out

\* The command whose result the text leaves in b.
Leaves(q, b, c) == Finds(q, Len(q) + 1, b, c)

\* The text writes b nowhere.
Spares(q, b) == \A n \in 1..Len(q) : b \notin q[n].out

\* Nothing found in the first half of a text changes by what follows ...
LEMMA FindsInFirst ==
  ASSUME NEW r, NEW s, IsText(r), IsText(s), NEW n \in 1..(Len(r) + 1), NEW b, NEW c,
         Finds(r, n, b, c)
  PROVE  Finds(r \o s, n, b, c)
<1>1. IsText(r) /\ IsText(s)
  OBVIOUS
<1>2. Len(r) \in Nat /\ \A j \in 1..Len(r) : (r \o s)[j] = r[j]
  BY ONLY <1>1, Joined
<1>3. PICK w \in 1..(n - 1) : /\ b \in r[w].out /\ c = r[w]
                              /\ \A m \in (w + 1)..(n - 1) : b \notin r[m].out
  BY DEF Finds
<1>4. w \in 1..Len(r) /\ \A m \in (w + 1)..(n - 1) : m \in 1..Len(r)
  BY <1>2, <1>3
<1>5. /\ b \in (r \o s)[w].out /\ c = (r \o s)[w]
      /\ \A m \in (w + 1)..(n - 1) : b \notin (r \o s)[m].out
  BY <1>2, <1>3, <1>4
<1>6. QED
  BY <1>3, <1>5 DEF Finds

\* ... nor what is found in the second half by what came before ...
LEMMA FindsInSecond ==
  ASSUME NEW r, NEW s, IsText(r), IsText(s), NEW n \in 1..(Len(s) + 1), NEW b, NEW c,
         Finds(s, n, b, c)
  PROVE  Finds(r \o s, n + Len(r), b, c)
<1>1. IsText(r) /\ IsText(s)
  OBVIOUS
<1>2. /\ Len(r) \in Nat /\ Len(s) \in Nat
      /\ \A j \in 1..Len(s) : (r \o s)[j + Len(r)] = s[j]
  BY ONLY <1>1, Joined
<1>3. PICK w \in 1..(n - 1) : /\ b \in s[w].out /\ c = s[w]
                              /\ \A m \in (w + 1)..(n - 1) : b \notin s[m].out
  BY DEF Finds
<1> DEFINE v == w + Len(r)
           k == n + Len(r)
<1>4. v \in 1..(k - 1) /\ w \in 1..Len(s)
  BY <1>2, <1>3
<1>5. b \in (r \o s)[v].out /\ c = (r \o s)[v]
  BY <1>2, <1>3, <1>4
<1>6. ASSUME NEW m \in (v + 1)..(k - 1) PROVE b \notin (r \o s)[m].out
  <2> DEFINE j == m - Len(r)
  <2>1. j \in (w + 1)..(n - 1) /\ j \in 1..Len(s) /\ m = j + Len(r)
    BY <1>2, <1>3
  <2> HIDE DEF j, v, k
  <2>2. QED BY <1>2, <1>3, <2>1
<1> HIDE DEF v, k
<1>7. Finds(r \o s, k, b, c)
  BY <1>4, <1>5, <1>6 DEF Finds
<1>8. QED
  BY <1>7 DEF k

\* ... and what the first half leaves is found until it is overwritten.
LEMMA FindsAcross ==
  ASSUME NEW r, NEW s, IsText(r), IsText(s), NEW n \in 1..(Len(s) + 1), NEW b, NEW c,
         Leaves(r, b, c), \A m \in 1..(n - 1) : b \notin s[m].out
  PROVE  Finds(r \o s, n + Len(r), b, c)
<1>1. IsText(r) /\ IsText(s)
  OBVIOUS
<1>2. /\ Len(r) \in Nat /\ Len(s) \in Nat
      /\ \A j \in 1..Len(r) : (r \o s)[j] = r[j]
      /\ \A j \in 1..Len(s) : (r \o s)[j + Len(r)] = s[j]
  BY ONLY <1>1, Joined
<1>3. PICK w \in 1..(Len(r) + 1 - 1) : /\ b \in r[w].out /\ c = r[w]
                              /\ \A m \in (w + 1)..(Len(r) + 1 - 1) : b \notin r[m].out
  BY DEF Finds, Leaves
<1>4. w \in 1..Len(r) /\ w \in 1..(n + Len(r) - 1)
  BY <1>2, <1>3
<1>5. b \in (r \o s)[w].out /\ c = (r \o s)[w]
  BY <1>2, <1>3, <1>4
<1>6. ASSUME NEW m \in (w + 1)..(n + Len(r) - 1) PROVE b \notin (r \o s)[m].out
  <2>1. CASE m <= Len(r)
    <3>1. m \in 1..Len(r) /\ m \in (w + 1)..(Len(r) + 1 - 1)
      BY <1>2, <1>4, <2>1
    <3>2. QED BY <1>2, <1>3, <3>1
  <2>2. CASE ~(m <= Len(r))
    <3> DEFINE j == m - Len(r)
    <3>1. j \in 1..(n - 1) /\ j \in 1..Len(s) /\ m = j + Len(r)
      BY <1>2, <1>4, <2>2
    <3> HIDE DEF j
    <3>2. QED BY <1>2, <3>1
  <2>3. QED BY <2>1, <2>2
<1>7. QED
  BY <1>4, <1>5, <1>6 DEF Finds

\* What a concatenation leaves.
LEMMA LeavesJoined ==
  ASSUME NEW r, NEW s, IsText(r), IsText(s), NEW b, NEW c
  PROVE  /\ Leaves(s, b, c) => Leaves(r \o s, b, c)
         /\ Leaves(r, b, c) /\ Spares(s, b) => Leaves(r \o s, b, c)
<1>1. IsText(r) /\ IsText(s)
  OBVIOUS
<1>2. Len(r) \in Nat /\ Len(s) \in Nat /\ Len(r \o s) = Len(r) + Len(s)
  BY ONLY <1>1, Joined
<1>3. /\ Len(s) + 1 \in 1..(Len(s) + 1) /\ Len(s) + 1 + Len(r) = Len(r \o s) + 1
      /\ Len(s) + 1 - 1 = Len(s)
  BY <1>2
<1>4. Leaves(s, b, c) => Leaves(r \o s, b, c)
  <2>1. SUFFICES ASSUME Finds(s, Len(s) + 1, b, c) PROVE Finds(r \o s, Len(r \o s) + 1, b, c)
    BY DEF Leaves
  <2> DEFINE n == Len(s) + 1
  <2>2. IsText(r) /\ IsText(s) /\ n \in 1..(Len(s) + 1) /\ Finds(s, n, b, c)
    BY <1>3, <2>1
  <2> HIDE DEF n
  <2>3. Finds(r \o s, n + Len(r), b, c)
    BY ONLY <2>2, FindsInSecond
  <2>4. QED BY <1>3, <2>3 DEF n
<1>5. Leaves(r, b, c) /\ Spares(s, b) => Leaves(r \o s, b, c)
  <2>1. SUFFICES ASSUME Leaves(r, b, c), Spares(s, b) PROVE Finds(r \o s, Len(r \o s) + 1, b, c)
    BY DEF Leaves
  <2> DEFINE n == Len(s) + 1
  <2>2. /\ IsText(r) /\ IsText(s) /\ n \in 1..(Len(s) + 1) /\ Leaves(r, b, c)
        /\ \A m \in 1..(n - 1) : b \notin s[m].out
    BY <1>3, <2>1 DEF Spares
  <2> HIDE DEF n
  <2>3. Finds(r \o s, n + Len(r), b, c)
    BY ONLY <2>2, FindsAcross
  <2>4. QED BY <1>3, <2>3 DEF n
<1>6. QED
  BY <1>4, <1>5

\* A text that writes a buffer at k leaves there what it wrote at k or later.
LEMMA WritesLeave ==
  ASSUME NEW q, Len(q) \in Nat, NEW b, NEW k \in 1..Len(q), b \in q[k].out
  PROVE  \E w \in k..Len(q) : Leaves(q, b, q[w])
<1> DEFINE T == {w \in k..Len(q) : b \in q[w].out}
<1>1. T \subseteq 0..Len(q) /\ T # {}
  OBVIOUS
<1>2. PICK w \in T : \A y \in T : y <= w
  BY <1>1, GreatestElement, Zenon
<1>3. w \in 1..(Len(q) + 1 - 1) /\ b \in q[w].out /\ w \in k..Len(q)
  OBVIOUS
<1>4. ASSUME NEW m \in (w + 1)..(Len(q) + 1 - 1) PROVE b \notin q[m].out
  <2>1. m \in k..Len(q) /\ ~(m <= w)
    BY <1>3
  <2>2. QED BY <1>2, <2>1
<1>5. Leaves(q, b, q[w])
  BY <1>3, <1>4 DEF Leaves, Finds
<1>6. QED
  BY <1>3, <1>5

\* What no copy writes while anything is queued: the pilots, the read pointer, the
\* timing offset and the LLRs.
Settled == {<<"xref", 0>>, <<"rd_ptr", 0>>, <<"dt_out", 0>>} \union LlrAll

\* A copy b does not disturb a launch a that is queued: it touches nothing a
\* writes, overwrites nothing a reads, leaves alone what is settled, and to a
\* descrambler its sign table.
Harmless(a, b) ==
  b.do = "copy" =>
    /\ a.out \cap (b.in \union b.out) = {} /\ a.in \cap b.out = {}
    /\ Settled \cap b.out = {}
    /\ a.op = "descramble" => <<"sign", 0>> \notin b.out

\* Every launch of a text is waited for, and until then no copy disturbs it.
Awaited(q) ==
  \A m \in 1..Len(q) : q[m].do = "launch" =>
    \E y \in (m + 1)..Len(q) : /\ q[y].do = "sync"
                               /\ \A n \in (m + 1)..(y - 1) : Harmless(q[m], q[n])

LEMMA AwaitedJoined ==
  ASSUME NEW r, NEW s, IsText(r), IsText(s), Awaited(s),
         \/ Awaited(r)
         \/ /\ \A m \in 1..Len(r) : r[m].do # "copy"
            /\ \E z \in 1..Len(s) :
                 /\ s[z].do = "sync"
                 /\ \A j \in 1..(z - 1), m \in 1..Len(r) : Harmless(r[m], s[j])
  PROVE  Awaited(r \o s)
<1> DEFINE q == r \o s
<1>1. IsText(r) /\ IsText(s)
  OBVIOUS
<1>2. /\ Len(r) \in Nat /\ Len(s) \in Nat /\ Len(q) = Len(r) + Len(s)
      /\ \A j \in 1..Len(r) : q[j] = r[j]
      /\ \A j \in 1..Len(s) : q[j + Len(r)] = s[j]
  BY ONLY <1>1, Joined
<1> HIDE DEF q
<1>3. ASSUME NEW m \in 1..Len(r), q[m].do = "launch"
      PROVE  \E y \in (m + 1)..Len(q) : /\ q[y].do = "sync"
                                        /\ \A n \in (m + 1)..(y - 1) : Harmless(q[m], q[n])
  <2>1. CASE Awaited(r)
    <3>1. r[m].do = "launch" /\ q[m] = r[m]
      BY <1>2, <1>3
    <3>2. PICK y \in (m + 1)..Len(r) : /\ r[y].do = "sync"
                                       /\ \A n \in (m + 1)..(y - 1) : Harmless(r[m], r[n])
      BY <2>1, <3>1 DEF Awaited
    <3>3. y \in (m + 1)..Len(q) /\ y \in 1..Len(r) /\ \A n \in (m + 1)..(y - 1) : n \in 1..Len(r)
      BY <1>2
    <3>4. q[y].do = "sync" /\ \A n \in (m + 1)..(y - 1) : Harmless(q[m], q[n])
      BY <1>2, <3>1, <3>2, <3>3
    <3>5. QED BY <3>3, <3>4
  <2>2. ASSUME \A i \in 1..Len(r) : r[i].do # "copy",
               NEW z \in 1..Len(s), s[z].do = "sync",
               \A j \in 1..(z - 1), i \in 1..Len(r) : Harmless(r[i], s[j])
        PROVE  \E y \in (m + 1)..Len(q) : /\ q[y].do = "sync"
                                          /\ \A n \in (m + 1)..(y - 1) : Harmless(q[m], q[n])
    <3> DEFINE y == z + Len(r)
    <3>1. y \in (m + 1)..Len(q) /\ q[y] = s[z]
      BY <1>2
    <3>2. ASSUME NEW n \in (m + 1)..(y - 1) PROVE Harmless(q[m], q[n])
      <4>1. CASE n <= Len(r)
        <5>1. n \in 1..Len(r)
          BY <1>2, <4>1
        <5>2. q[n] = r[n] /\ q[n].do # "copy"
          BY <1>2, <2>2, <5>1
        <5>3. QED BY <5>2 DEF Harmless
      <4>2. CASE ~(n <= Len(r))
        <5> DEFINE j == n - Len(r)
        <5>1. j \in 1..(z - 1) /\ j \in 1..Len(s) /\ n = j + Len(r)
          BY <1>2, <4>2
        <5> HIDE DEF j, y
        <5>2. q[n] = s[j] /\ q[m] = r[m]
          BY <1>2, <5>1
        <5>3. QED BY <2>2, <5>1, <5>2
      <4>3. QED BY <4>1, <4>2
    <3> HIDE DEF y
    <3>3. q[y].do = "sync"
      BY <2>2, <3>1
    <3>4. QED BY <3>1, <3>2, <3>3
  <2>3. QED BY <2>1, <2>2
<1>4. ASSUME NEW k \in 1..Len(s), s[k].do = "launch", NEW m, m = k + Len(r)
      PROVE  \E y \in (m + 1)..Len(q) : /\ q[y].do = "sync"
                                        /\ \A n \in (m + 1)..(y - 1) : Harmless(q[m], q[n])
  <2>1. PICK z \in (k + 1)..Len(s) : /\ s[z].do = "sync"
                                     /\ \A n \in (k + 1)..(z - 1) : Harmless(s[k], s[n])
    BY <1>4 DEF Awaited
  <2> DEFINE y == z + Len(r)
  <2>2. y \in (m + 1)..Len(q) /\ q[y] = s[z] /\ q[m] = s[k]
    BY <1>2, <1>4
  <2>3. ASSUME NEW n \in (m + 1)..(y - 1) PROVE Harmless(q[m], q[n])
    <3> DEFINE j == n - Len(r)
    <3>1. j \in (k + 1)..(z - 1) /\ j \in 1..Len(s) /\ n = j + Len(r)
      BY <1>2, <1>4
    <3> HIDE DEF j, y
    <3>2. q[n] = s[j]
      BY <1>2, <3>1
    <3>3. QED BY <2>1, <2>2, <3>1, <3>2
  <2> HIDE DEF y
  <2>4. QED BY <2>1, <2>2, <2>3
<1>5. ASSUME NEW m \in 1..Len(q), q[m].do = "launch"
      PROVE  \E y \in (m + 1)..Len(q) : /\ q[y].do = "sync"
                                        /\ \A n \in (m + 1)..(y - 1) : Harmless(q[m], q[n])
  <2>1. \/ m \in 1..Len(r)
        \/ \E k \in 1..Len(s) : m = k + Len(r) /\ s[k].do = "launch"
    <3> DEFINE k == m - Len(r)
    <3>1. m \notin 1..Len(r) => k \in 1..Len(s) /\ m = k + Len(r)
      BY <1>2
    <3> HIDE DEF k
    <3>2. m \notin 1..Len(r) => s[k].do = "launch"
      BY <1>2, <1>5, <3>1
    <3>3. QED BY <3>1, <3>2
  <2>2. QED BY <1>3, <1>4, <1>5, <2>1
<1>6. QED
  BY <1>5 DEF Awaited, q

\* A text without launches has nothing to wait for.
LEMMA AwaitedCopies ==
  ASSUME NEW q, \A n \in 1..Len(q) : q[n].do # "launch"
  PROVE  Awaited(q)
  BY DEF Awaited

-----------------------------------------------------------------------------
\* What stamping does to a text.
LEMMA StampedFields ==
  ASSUME NEW c, NEW tag
  PROVE  /\ Stamped(c, tag).do = c.do /\ Stamped(c, tag).op = c.op
         /\ Stamped(c, tag).in = c.in /\ Stamped(c, tag).out = c.out
         /\ Stamped(c, tag).tb = tag.tb /\ Stamped(c, tag).slot = tag.slot
         /\ Stamped(c, tag).cell = tag.cell /\ Stamped(c, tag).fresh = tag.fresh
         /\ Stamped(c, tag).timed = tag.timed
  BY DEF Stamped

LEMMA ForText ==
  ASSUME NEW tag, NEW q, Len(q) \in Nat
  PROVE  /\ IsText(For(tag, q)) /\ Len(For(tag, q)) = Len(q)
         /\ \A n \in 1..Len(q) : For(tag, q)[n] = Stamped(q[n], tag)
<1> DEFINE f == For(tag, q)
<1>1. f = [n \in 1..Len(q) |-> Stamped(q[n], tag)]
  BY DEF For
<1> HIDE DEF f
<1>2. f = [n \in 1..Len(q) |-> f[n]]
  BY <1>1
<1>3. IsText(f) /\ Len(f) = Len(q)
  BY <1>2, FunctionIsText
<1>4. QED
  BY <1>1, <1>3 DEF f

LEMMA ForKeeps ==
  ASSUME NEW tag, NEW q, Len(q) \in Nat
  PROVE  /\ Awaited(q) => Awaited(For(tag, q))
         /\ \A b : Spares(q, b) => Spares(For(tag, q), b)
         /\ \A b, c : \A n \in 1..(Len(q) + 1) :
              Finds(q, n, b, c) => Finds(For(tag, q), n, b, Stamped(c, tag))
         /\ \A b, c : Leaves(q, b, c) => Leaves(For(tag, q), b, Stamped(c, tag))
<1> DEFINE f == For(tag, q)
<1>1. Len(f) = Len(q) /\ \A n \in 1..Len(q) : f[n] = Stamped(q[n], tag)
  BY ForText
<1> HIDE DEF f
<1>2. \A n \in 1..Len(q) : /\ f[n].do = q[n].do /\ f[n].op = q[n].op
                             /\ f[n].in = q[n].in /\ f[n].out = q[n].out
  BY <1>1, StampedFields
<1>3. ASSUME Awaited(q), NEW m \in 1..Len(f), f[m].do = "launch"
      PROVE  \E y \in (m + 1)..Len(f) : /\ f[y].do = "sync"
                                        /\ \A n \in (m + 1)..(y - 1) : Harmless(f[m], f[n])
  <2>1. PICK y \in (m + 1)..Len(q) : /\ q[y].do = "sync"
                                     /\ \A n \in (m + 1)..(y - 1) : Harmless(q[m], q[n])
    BY <1>1, <1>2, <1>3 DEF Awaited
  <2>2. y \in 1..Len(q) /\ \A n \in (m + 1)..(y - 1) : n \in 1..Len(q)
    BY <1>1
  <2>3. \A n \in (m + 1)..(y - 1) : Harmless(f[m], f[n])
    BY <1>1, <1>2, <2>1, <2>2 DEF Harmless
  <2>4. QED BY <1>1, <1>2, <2>1, <2>2, <2>3
<1>4. Awaited(q) => Awaited(f)
  BY <1>3 DEF Awaited
<1>5. ASSUME NEW b, Spares(q, b) PROVE Spares(f, b)
  BY <1>1, <1>2, <1>5 DEF Spares
<1>6. ASSUME NEW b, NEW c, NEW n \in 1..(Len(q) + 1), Finds(q, n, b, c)
      PROVE  Finds(f, n, b, Stamped(c, tag))
  <2>1. PICK w \in 1..(n - 1) : /\ b \in q[w].out /\ c = q[w]
                                /\ \A m \in (w + 1)..(n - 1) : b \notin q[m].out
    BY <1>6 DEF Finds
  <2>2. w \in 1..Len(q) /\ \A m \in (w + 1)..(n - 1) : m \in 1..Len(q)
    BY <2>1
  <2>3. /\ b \in f[w].out /\ Stamped(c, tag) = f[w]
        /\ \A m \in (w + 1)..(n - 1) : b \notin f[m].out
    BY <1>1, <1>2, <2>1, <2>2
  <2>4. QED BY <2>1, <2>3 DEF Finds
<1>7. ASSUME NEW b, NEW c, Leaves(q, b, c) PROVE Leaves(f, b, Stamped(c, tag))
  <2>1. Len(q) + 1 \in 1..(Len(q) + 1) /\ Finds(q, Len(q) + 1, b, c)
    BY <1>7 DEF Leaves
  <2>2. Finds(f, Len(q) + 1, b, Stamped(c, tag))
    BY <1>6, <2>1
  <2>3. QED BY <1>1, <2>2 DEF Leaves
<1>8. QED
  BY <1>4, <1>5, <1>6, <1>7 DEF f

\* Where every launch is followed by another or by a synchronisation, every
\* launch is waited for.
LEMMA AwaitedInRow ==
  ASSUME NEW q, Len(q) \in Nat,
         \A m \in 1..Len(q) : q[m].do = "launch" =>
           m + 1 \in 1..Len(q) /\ q[m + 1].do \in {"launch", "sync"}
  PROVE  Awaited(q)
<1>1. ASSUME NEW m \in 1..Len(q), q[m].do = "launch"
      PROVE  \E y \in (m + 1)..Len(q) : /\ q[y].do = "sync"
                                        /\ \A n \in (m + 1)..(y - 1) : Harmless(q[m], q[n])
  <2> DEFINE T == {y \in (m + 1)..Len(q) : q[y].do # "launch"}
  <2>1. Len(q) \in T
    <3>1. q[Len(q)].do # "launch"
      BY <1>1
    <3>2. m # Len(q)
      BY <1>1, <3>1
    <3>3. QED BY <3>1, <3>2
  <2>2. T \subseteq Nat /\ T # {}
    BY <2>1
  <2>3. PICK y \in T : \A z \in T : y <= z
    BY <2>2, LeastElement, Zenon
  <2>4. y \in (m + 1)..Len(q) /\ q[y].do # "launch"
    OBVIOUS
  <2>5. \A n \in (m + 1)..(y - 1) : q[n].do = "launch"
    <3>1. ASSUME NEW n \in (m + 1)..(y - 1), q[n].do # "launch" PROVE FALSE
      <4>1. n \in T /\ ~(y <= n)
        BY <2>4, <3>1
      <4>2. QED BY <2>3, <4>1
    <3>2. QED BY <3>1
  <2> HIDE DEF T
  <2>6. q[y].do = "sync"
    <3> DEFINE n == y - 1
    <3>1. n \in 1..Len(q) /\ y = n + 1 /\ (n = m \/ n \in (m + 1)..(y - 1))
      BY <2>4
    <3> HIDE DEF n
    <3>2. q[n].do = "launch"
      BY <1>1, <2>5, <3>1
    <3>3. q[n + 1].do \in {"launch", "sync"}
      BY <3>1, <3>2
    <3>4. QED BY <2>4, <3>1, <3>3
  <2>7. \A n \in (m + 1)..(y - 1) : Harmless(q[m], q[n])
    BY <2>5 DEF Harmless
  <2>8. QED BY <2>4, <2>6, <2>7
<1>2. QED
  BY <1>1 DEF Awaited

-----------------------------------------------------------------------------
\* The commands.

Names == {"capture", "ssb768", "pss_scr", "pss_out", "ypss", "psscfo_scr", "psscfo_out",
       "tiling_sss", "sss_scr", "sss_out", "ssbfft_in", "ssbfft_scr", "r", "pbch_out",
       "rd_ptr", "dt_out", "eq_n0", "xref", "cfod_x", "cc_ab",
       "slot_iq", "cfoest_out", "slot_iq_d", "y", "yd", "h", "x", "cfodmrs_out",
       "cir", "sign", "cw_ds", "lam", "bits"}

\* What DeviceStream asks of a command.
Fits(c) ==
  /\ c.do \in Kinds /\ c.in \subseteq Buffers /\ c.out \subseteq Buffers
  /\ c.do = "sync" => c.out = {}

LEMMA CommandFields ==
  ASSUME NEW op, NEW in \in SUBSET Names, NEW out \in SUBSET Names
  PROVE  /\ Kernel(op, in, out).do = "launch" /\ Kernel(op, in, out).op = op
         /\ Kernel(op, in, out).in = Dev(in) /\ Kernel(op, in, out).out = Dev(out)
         /\ Memcpy(op, in, out).do = "copy" /\ Memcpy(op, in, out).op = op
         /\ Memcpy(op, in, out).in = Dev(in) /\ Memcpy(op, in, out).out = Dev(out)
         /\ Fits(Kernel(op, in, out)) /\ Fits(Memcpy(op, in, out))
<1>1. Dev(in) \subseteq Buffers /\ Dev(out) \subseteq Buffers
  BY DEF Buffers, Dev, Names
<1>2. QED
  BY <1>1 DEF Kernel, Memcpy, Command, Fits, Kinds

LEMMA DevHas == \A names, b : (<<b, 0>> \in Dev(names) <=> b \in names)
  BY DEF Dev

LEMMA SyncFields ==
  /\ Synchronize.do = "sync" /\ Synchronize.op = "sync"
  /\ Synchronize.in = {} /\ Synchronize.out = {} /\ Fits(Synchronize)
  BY DEF Synchronize, Command, Fits, Kinds

\* What none of the commands of an acquisition does.
Neutral(c) == Fits(c) /\ c.op \notin {"win_slice", "descramble"} /\ <<"sign", 0>> \notin c.out

LEMMA NeutralCommand ==
  ASSUME NEW op, op \notin {"win_slice", "descramble"},
         NEW in \in SUBSET Names, NEW out \in SUBSET Names, "sign" \notin out
  PROVE  Neutral(Kernel(op, in, out)) /\ Neutral(Memcpy(op, in, out))
  BY CommandFields, DevHas DEF Neutral

LEMMA NeutralSync == Neutral(Synchronize)
  BY SyncFields DEF Neutral

-----------------------------------------------------------------------------
\* The commands of an acquisition, by number.
LEMMA FrameText ==
  /\ IsText(AcquireFrame) /\ Len(AcquireFrame) = 8
  /\ AcquireFrame[1] = Memcpy("capture", {}, {"capture"})
  /\ AcquireFrame[2] = Decimate
  /\ AcquireFrame[3] = Synchronize
  /\ AcquireFrame[4] = Memcpy("agc", {"ssb768"}, {"ssb768"})
  /\ AcquireFrame[5] = Memcpy("zero", {}, {"pss_scr"})
  /\ AcquireFrame[6] = PssCorrelator
  /\ AcquireFrame[7] = Synchronize
  /\ AcquireFrame[8] = Memcpy("peak", {"pss_scr"}, {})
<1> DEFINE a1 == Memcpy("capture", {}, {"capture"})
           a2 == Decimate
           a3 == Synchronize
           a4 == Memcpy("agc", {"ssb768"}, {"ssb768"})
           a5 == Memcpy("zero", {}, {"pss_scr"})
           a6 == PssCorrelator
           a7 == Synchronize
           a8 == Memcpy("peak", {"pss_scr"}, {})
           S  == {a1, a2, a3, a4, a5, a6, a7, a8}
<1>1. AcquireFrame = << a1, a2, a3, a4, a5, a6, a7, a8 >>
  BY DEF AcquireFrame
<1> HIDE DEF a1, a2, a3, a4, a5, a6, a7, a8
<1>2. AcquireFrame \in Seq(S)
  BY <1>1
<1>3. /\ Len(AcquireFrame) = 8
      /\ AcquireFrame[1] = a1 /\ AcquireFrame[2] = a2 /\ AcquireFrame[3] = a3 /\ AcquireFrame[4] = a4
      /\ AcquireFrame[5] = a5 /\ AcquireFrame[6] = a6 /\ AcquireFrame[7] = a7 /\ AcquireFrame[8] = a8
  BY <1>1
<1>4. QED
  BY <1>2, <1>3, SequenceIsText DEF a1, a2, a3, a4, a5, a6, a7, a8

LEMMA CellText ==
  /\ IsText(AcquireCell) /\ Len(AcquireCell) = 10
  /\ AcquireCell[1] = Memcpy("extract_y_at_pss", {"ssb768"}, {"ypss"})
  /\ AcquireCell[2] = Memcpy("derotation", {}, {"psscfo_scr"})
  /\ AcquireCell[3] = PssCfoEstimator
  /\ AcquireCell[4] = Synchronize
  /\ AcquireCell[5] = Memcpy("read", {"psscfo_out"}, {})
  /\ AcquireCell[6] = Memcpy("tiling", {}, {"tiling_sss"})
  /\ AcquireCell[7] = Memcpy("zero", {}, {"sss_scr"})
  /\ AcquireCell[8] = SssCorrelator
  /\ AcquireCell[9] = Synchronize
  /\ AcquireCell[10] = Memcpy("read", {"sss_out"}, {})
<1> DEFINE a1 == Memcpy("extract_y_at_pss", {"ssb768"}, {"ypss"})
           a2 == Memcpy("derotation", {}, {"psscfo_scr"})
           a3 == PssCfoEstimator
           a4 == Synchronize
           a5 == Memcpy("read", {"psscfo_out"}, {})
           a6 == Memcpy("tiling", {}, {"tiling_sss"})
           a7 == Memcpy("zero", {}, {"sss_scr"})
           a8 == SssCorrelator
           a9 == Synchronize
           a10 == Memcpy("read", {"sss_out"}, {})
           S  == {a1, a2, a3, a4, a5, a6, a7, a8, a9, a10}
<1>1. AcquireCell = << a1, a2, a3, a4, a5, a6, a7, a8, a9, a10 >>
  BY DEF AcquireCell
<1> HIDE DEF a1, a2, a3, a4, a5, a6, a7, a8, a9, a10
<1>2. AcquireCell \in Seq(S)
  BY <1>1
<1>3. /\ Len(AcquireCell) = 10
      /\ AcquireCell[1] = a1 /\ AcquireCell[2] = a2 /\ AcquireCell[3] = a3 /\ AcquireCell[4] = a4
      /\ AcquireCell[5] = a5 /\ AcquireCell[6] = a6 /\ AcquireCell[7] = a7 /\ AcquireCell[8] = a8
      /\ AcquireCell[9] = a9 /\ AcquireCell[10] = a10
  BY <1>1
<1>4. QED
  BY <1>2, <1>3, SequenceIsText DEF a1, a2, a3, a4, a5, a6, a7, a8, a9, a10

LEMMA BeamText ==
  /\ IsText(AcquireBeam) /\ Len(AcquireBeam) = 6
  /\ AcquireBeam[1] = Memcpy("pbch_window", {"ssb768"}, {"ssbfft_in"})
  /\ AcquireBeam[2] = Memcpy("zero", {}, {"ssbfft_scr"})
  /\ AcquireBeam[3] = SsbFft
  /\ AcquireBeam[4] = PbchDmrsCorrelator
  /\ AcquireBeam[5] = Synchronize
  /\ AcquireBeam[6] = Memcpy("read", {"pbch_out"}, {})
<1> DEFINE a1 == Memcpy("pbch_window", {"ssb768"}, {"ssbfft_in"})
           a2 == Memcpy("zero", {}, {"ssbfft_scr"})
           a3 == SsbFft
           a4 == PbchDmrsCorrelator
           a5 == Synchronize
           a6 == Memcpy("read", {"pbch_out"}, {})
           S  == {a1, a2, a3, a4, a5, a6}
<1>1. AcquireBeam = << a1, a2, a3, a4, a5, a6 >>
  BY DEF AcquireBeam
<1> HIDE DEF a1, a2, a3, a4, a5, a6
<1>2. AcquireBeam \in Seq(S)
  BY <1>1
<1>3. /\ Len(AcquireBeam) = 6
      /\ AcquireBeam[1] = a1 /\ AcquireBeam[2] = a2 /\ AcquireBeam[3] = a3
      /\ AcquireBeam[4] = a4 /\ AcquireBeam[5] = a5 /\ AcquireBeam[6] = a6
  BY <1>1
<1>4. QED
  BY <1>2, <1>3, SequenceIsText DEF a1, a2, a3, a4, a5, a6

LEMMA SetUpText ==
  /\ IsText(SetUpSlots) /\ Len(SetUpSlots) = 4
  /\ SetUpSlots[1] = Memcpy("set_rd_ptr", {}, {"rd_ptr", "dt_out"})
  /\ SetUpSlots[2] = Memcpy("eq_n0", {}, {"eq_n0"})
  /\ SetUpSlots[3] = Memcpy("gen_dmrs_ref", {}, {"xref", "cfod_x"})
  /\ SetUpSlots[4] = Memcpy("build_cfo_comp_aux", {}, {"cc_ab"})
<1> DEFINE a1 == Memcpy("set_rd_ptr", {}, {"rd_ptr", "dt_out"})
           a2 == Memcpy("eq_n0", {}, {"eq_n0"})
           a3 == Memcpy("gen_dmrs_ref", {}, {"xref", "cfod_x"})
           a4 == Memcpy("build_cfo_comp_aux", {}, {"cc_ab"})
           S  == {a1, a2, a3, a4}
<1>1. SetUpSlots = << a1, a2, a3, a4 >>
  BY DEF SetUpSlots
<1> HIDE DEF a1, a2, a3, a4
<1>2. SetUpSlots \in Seq(S)
  BY <1>1
<1>3. /\ Len(SetUpSlots) = 4
      /\ SetUpSlots[1] = a1 /\ SetUpSlots[2] = a2 /\ SetUpSlots[3] = a3 /\ SetUpSlots[4] = a4
  BY <1>1
<1>4. QED
  BY <1>2, <1>3, SequenceIsText DEF a1, a2, a3, a4

\* A part of an acquisition.
Part(q) == IsText(q) /\ Awaited(q) /\ \A n \in 1..Len(q) : Neutral(q[n])

LEMMA PartsJoin == ASSUME NEW r, NEW s, Part(r), Part(s) PROVE Part(r \o s)
<1>1. IsText(r) /\ IsText(s) /\ Awaited(r) /\ Awaited(s)
  BY DEF Part
<1>2. IsText(r \o s)
  BY <1>1, Joined
<1>3. Awaited(r \o s)
  BY ONLY <1>1, AwaitedJoined
<1>4. ASSUME NEW n \in 1..Len(r \o s) PROVE Neutral((r \o s)[n])
  <2>1. IsText(r) /\ IsText(s) /\ n \in 1..Len(r \o s)
    BY <1>1
  <2>2. \/ n \in 1..Len(r) /\ (r \o s)[n] = r[n]
        \/ \E j \in 1..Len(s) : n = j + Len(r) /\ (r \o s)[n] = s[j]
    BY ONLY <2>1, Halves
  <2>3. QED BY <2>2 DEF Part
<1>5. QED
  BY <1>2, <1>3, <1>4 DEF Part

LEMMA FrameIsPart == Part(AcquireFrame)
<1> DEFINE q == AcquireFrame
<1>1. /\ q[1].do = "copy" /\ q[2].do = "launch" /\ q[3].do = "sync" /\ q[4].do = "copy"
      /\ q[5].do = "copy" /\ q[6].do = "launch" /\ q[7].do = "sync" /\ q[8].do = "copy"
  BY FrameText DEF Decimate, PssCorrelator, Kernel, Memcpy, Synchronize, Command
<1>2. /\ Neutral(q[1]) /\ Neutral(q[2]) /\ Neutral(q[3]) /\ Neutral(q[4])
      /\ Neutral(q[5]) /\ Neutral(q[6]) /\ Neutral(q[7]) /\ Neutral(q[8])
  BY FrameText, NeutralCommand, NeutralSync DEF Decimate, PssCorrelator, Names
<1>3. IsText(q) /\ Len(q) = 8
  BY FrameText
<1> HIDE DEF q
<1>4. \A n \in 1..8 : n \in {1, 2, 3, 4, 5, 6, 7, 8}
  OBVIOUS
<1>5. Awaited(q)
  <2>1. \A m \in 1..Len(q) : q[m].do = "launch" =>
           m + 1 \in 1..Len(q) /\ q[m + 1].do \in {"launch", "sync"}
    BY <1>1, <1>3, <1>4
  <2>2. Len(q) \in Nat
    BY <1>3
  <2>3. QED BY ONLY <2>1, <2>2, AwaitedInRow
<1>6. QED
  BY <1>2, <1>3, <1>4, <1>5 DEF Part, q

LEMMA CellIsPart == Part(AcquireCell)
<1> DEFINE q == AcquireCell
<1>1. /\ q[1].do = "copy" /\ q[2].do = "copy" /\ q[3].do = "launch" /\ q[4].do = "sync"
      /\ q[5].do = "copy" /\ q[6].do = "copy" /\ q[7].do = "copy" /\ q[8].do = "launch"
      /\ q[9].do = "sync" /\ q[10].do = "copy"
  BY CellText DEF PssCfoEstimator, SssCorrelator, Kernel, Memcpy, Synchronize, Command
<1>2. /\ Neutral(q[1]) /\ Neutral(q[2]) /\ Neutral(q[3]) /\ Neutral(q[4]) /\ Neutral(q[5])
      /\ Neutral(q[6]) /\ Neutral(q[7]) /\ Neutral(q[8]) /\ Neutral(q[9]) /\ Neutral(q[10])
  BY CellText, NeutralCommand, NeutralSync DEF PssCfoEstimator, SssCorrelator, Names
<1>3. IsText(q) /\ Len(q) = 10
  BY CellText
<1> HIDE DEF q
<1>4. \A n \in 1..10 : n \in {1, 2, 3, 4, 5, 6, 7, 8, 9, 10}
  OBVIOUS
<1>5. Awaited(q)
  <2>1. \A m \in 1..Len(q) : q[m].do = "launch" =>
           m + 1 \in 1..Len(q) /\ q[m + 1].do \in {"launch", "sync"}
    BY <1>1, <1>3, <1>4
  <2>2. Len(q) \in Nat
    BY <1>3
  <2>3. QED BY ONLY <2>1, <2>2, AwaitedInRow
<1>6. QED
  BY <1>2, <1>3, <1>4, <1>5 DEF Part, q

LEMMA BeamIsPart == Part(AcquireBeam)
<1> DEFINE q == AcquireBeam
<1>1. /\ q[1].do = "copy" /\ q[2].do = "copy" /\ q[3].do = "launch" /\ q[4].do = "launch"
      /\ q[5].do = "sync" /\ q[6].do = "copy"
  BY BeamText DEF SsbFft, PbchDmrsCorrelator, Kernel, Memcpy, Synchronize, Command
<1>2. /\ Neutral(q[1]) /\ Neutral(q[2]) /\ Neutral(q[3])
      /\ Neutral(q[4]) /\ Neutral(q[5]) /\ Neutral(q[6])
  BY BeamText, NeutralCommand, NeutralSync DEF SsbFft, PbchDmrsCorrelator, Names
<1>3. IsText(q) /\ Len(q) = 6
  BY BeamText
<1> HIDE DEF q
<1>4. \A n \in 1..6 : n \in {1, 2, 3, 4, 5, 6}
  OBVIOUS
<1>5. Awaited(q)
  <2>1. \A m \in 1..Len(q) : q[m].do = "launch" =>
           m + 1 \in 1..Len(q) /\ q[m + 1].do \in {"launch", "sync"}
    BY <1>1, <1>3, <1>4
  <2>2. Len(q) \in Nat
    BY <1>3
  <2>3. QED BY ONLY <2>1, <2>2, AwaitedInRow
<1>6. QED
  BY <1>2, <1>3, <1>4, <1>5 DEF Part, q

\* The last part sets the pointer, clears the offset and uploads the pilots.
LEMMA SetUpIsPart ==
  /\ Part(SetUpSlots)
  /\ Leaves(SetUpSlots, <<"rd_ptr", 0>>, Memcpy("set_rd_ptr", {}, {"rd_ptr", "dt_out"}))
  /\ Leaves(SetUpSlots, <<"dt_out", 0>>, Memcpy("set_rd_ptr", {}, {"rd_ptr", "dt_out"}))
  /\ Leaves(SetUpSlots, <<"xref", 0>>, Memcpy("gen_dmrs_ref", {}, {"xref", "cfod_x"}))
<1> DEFINE q == SetUpSlots
<1>1. q[1].do = "copy" /\ q[2].do = "copy" /\ q[3].do = "copy" /\ q[4].do = "copy"
  BY SetUpText DEF Memcpy, Command
<1>2. Neutral(q[1]) /\ Neutral(q[2]) /\ Neutral(q[3]) /\ Neutral(q[4])
  BY SetUpText, NeutralCommand DEF Names
<1>3. /\ q[1].out = Dev({"rd_ptr", "dt_out"}) /\ q[2].out = Dev({"eq_n0"})
      /\ q[3].out = Dev({"xref", "cfod_x"}) /\ q[4].out = Dev({"cc_ab"})
  BY SetUpText DEF Memcpy, Command
<1>4. /\ <<"rd_ptr", 0>> \in q[1].out /\ <<"rd_ptr", 0>> \notin q[2].out \union q[3].out \union q[4].out
      /\ <<"dt_out", 0>> \in q[1].out /\ <<"dt_out", 0>> \notin q[2].out \union q[3].out \union q[4].out
      /\ <<"xref", 0>> \in q[3].out /\ <<"xref", 0>> \notin q[4].out
  BY <1>3 DEF Dev
<1>5. /\ IsText(q) /\ Len(q) = 4
      /\ q[1] = Memcpy("set_rd_ptr", {}, {"rd_ptr", "dt_out"})
      /\ q[3] = Memcpy("gen_dmrs_ref", {}, {"xref", "cfod_x"})
  BY SetUpText
<1> HIDE DEF q
<1>6. \A n \in 1..4 : n \in {1, 2, 3, 4}
  OBVIOUS
<1>7. Awaited(q)
  <2>1. \A m \in 1..Len(q) : q[m].do # "launch"
    BY <1>1, <1>5, <1>6
  <2>2. QED BY <2>1, AwaitedCopies
<1>8. /\ Leaves(q, <<"rd_ptr", 0>>, q[1]) /\ Leaves(q, <<"dt_out", 0>>, q[1])
      /\ Leaves(q, <<"xref", 0>>, q[3])
  <2>1. /\ 1 \in 1..(Len(q) + 1 - 1) /\ 3 \in 1..(Len(q) + 1 - 1)
        /\ \A m \in (1 + 1)..(Len(q) + 1 - 1) : m \in {2, 3, 4}
        /\ \A m \in (3 + 1)..(Len(q) + 1 - 1) : m = 4
    BY <1>5
  <2>2. QED BY <2>1, <1>4 DEF Leaves, Finds
<1>9. QED
  BY <1>2, <1>5, <1>6, <1>7, <1>8 DEF Part, q

LEMMA AcquireIsPart ==
  /\ Part(Acquire)
  /\ Leaves(Acquire, <<"rd_ptr", 0>>, Memcpy("set_rd_ptr", {}, {"rd_ptr", "dt_out"}))
  /\ Leaves(Acquire, <<"dt_out", 0>>, Memcpy("set_rd_ptr", {}, {"rd_ptr", "dt_out"}))
  /\ Leaves(Acquire, <<"xref", 0>>, Memcpy("gen_dmrs_ref", {}, {"xref", "cfod_x"}))
<1> DEFINE abc == AcquireFrame \o AcquireCell \o AcquireBeam
           d   == SetUpSlots
<1>1. Acquire = abc \o d
  BY DEF Acquire
<1>2. Part(abc)
  BY FrameIsPart, CellIsPart, BeamIsPart, PartsJoin
<1>3. Part(d)
  BY SetUpIsPart
<1>4. IsText(abc) /\ IsText(d)
  BY <1>2, <1>3 DEF Part
<1> HIDE DEF abc
<1>5. Part(abc \o d)
  BY <1>2, <1>3, PartsJoin
<1>6. \A b, c : Leaves(d, b, c) => Leaves(abc \o d, b, c)
  BY ONLY <1>4, LeavesJoined
<1>7. QED
  BY <1>1, <1>5, <1>6, SetUpIsPart

LEMMA TagFields ==
  ASSUME NEW c, NEW t, NEW s, NEW timed
  PROVE  /\ Tag(c, t, s, timed).tb = t /\ Tag(c, t, s, timed).slot = s
         /\ Tag(c, t, s, timed).cell = c.cell[LockOf(c, t)]
         /\ Tag(c, t, s, timed).fresh = (t = 1 \/ c.bad[t - 1])
         /\ Tag(c, t, s, timed).timed = timed
  BY DEF Tag

\* What an acquisition issues, and what it leaves: a pointer and an offset that
\* the slots start from, and the pilots of the cell it found.
LEMMA LockedText ==
  ASSUME NEW c, NEW t
  PROVE  /\ Part(Locked(c, t))
         /\ \E rd, x : /\ Leaves(Locked(c, t), <<"rd_ptr", 0>>, rd)
                       /\ Leaves(Locked(c, t), <<"dt_out", 0>>, rd)
                       /\ Leaves(Locked(c, t), <<"xref", 0>>, x)
                       /\ rd.op = "set_rd_ptr" /\ rd.tb = t /\ rd.slot = 0
                       /\ x.cell = c.cell[LockOf(c, t)]
<1> DEFINE tag == Tag(c, t, 0, FALSE)
           q   == Acquire
           f   == For(tag, q)
           set == Memcpy("set_rd_ptr", {}, {"rd_ptr", "dt_out"})
           gen == Memcpy("gen_dmrs_ref", {}, {"xref", "cfod_x"})
<1>1. /\ Part(q) /\ Leaves(q, <<"rd_ptr", 0>>, set) /\ Leaves(q, <<"dt_out", 0>>, set)
      /\ Leaves(q, <<"xref", 0>>, gen)
  BY AcquireIsPart
<1>2. tag.tb = t /\ tag.slot = 0 /\ tag.cell = c.cell[LockOf(c, t)]
  BY DEF Tag
<1>3. set.op = "set_rd_ptr"
  BY DEF Memcpy, Command
<1>4. Locked(c, t) = f
  BY DEF Locked
<1> HIDE DEF q, tag, set, gen
<1>5. Len(q) \in Nat /\ Awaited(q) /\ \A n \in 1..Len(q) : Neutral(q[n])
  BY <1>1, SequenceIsText DEF Part, IsText
<1>6. /\ IsText(f) /\ Len(f) = Len(q) /\ \A n \in 1..Len(q) : f[n] = Stamped(q[n], tag)
  BY <1>5, ForText
<1>7. Awaited(f)
  BY <1>5, ForKeeps
<1>8. ASSUME NEW n \in 1..Len(q) PROVE Neutral(f[n])
  <2>1. f[n] = Stamped(q[n], tag)
    BY <1>6
  <2>2. /\ f[n].do = q[n].do /\ f[n].op = q[n].op /\ f[n].in = q[n].in /\ f[n].out = q[n].out
    BY <2>1, StampedFields
  <2>3. QED BY <1>5, <2>2 DEF Neutral, Fits
<1>9. /\ Leaves(f, <<"rd_ptr", 0>>, Stamped(set, tag)) /\ Leaves(f, <<"dt_out", 0>>, Stamped(set, tag))
      /\ Leaves(f, <<"xref", 0>>, Stamped(gen, tag))
  BY <1>1, <1>5, ForKeeps
<1> HIDE DEF f
<1>10. /\ Stamped(set, tag).op = "set_rd_ptr" /\ Stamped(set, tag).tb = t
       /\ Stamped(set, tag).slot = 0 /\ Stamped(gen, tag).cell = c.cell[LockOf(c, t)]
  BY <1>2, <1>3, StampedFields
<1>11. Part(f)
  BY <1>6, <1>7, <1>8 DEF Part
<1>12. QED
  BY <1>4, <1>9, <1>10, <1>11

-----------------------------------------------------------------------------
\* The slot loop.

\* The kernels of a slot, by number, and what tells them apart.
LEMMA SlotText ==
  ASSUME NEW s
  PROVE  /\ IsText(SlotKernels(s)) /\ Len(SlotKernels(s)) = 10
         /\ SlotKernels(s)[1] = Kernel("win_slice", {"capture", "dt_out", "rd_ptr"}, {"slot_iq", "rd_ptr"})
         /\ SlotKernels(s)[2] = Kernel("cfo_estimate", {"slot_iq"}, {"cfoest_out"})
         /\ SlotKernels(s)[3] = Kernel("cfo_compensate", {"slot_iq", "cc_ab"}, {"slot_iq_d"})
         /\ SlotKernels(s)[4] = Kernel("ofdm_demod", {"slot_iq_d"}, {"y"})
         /\ SlotKernels(s)[5] = Kernel("re_demap", {"y"}, {"yd"})
         /\ SlotKernels(s)[6] = Kernel("channel_est_ls", {"yd", "xref"}, {"h"})
         /\ SlotKernels(s)[7] = Kernel("equalize", {"yd", "h", "eq_n0"}, {"x"})
         /\ SlotKernels(s)[8] = Command("launch", "qam256_demod", Dev({"x"}), {Llr(s)})
         /\ SlotKernels(s)[9] = Kernel("cfo_dmrs", {"yd", "cfod_x"}, {"cfodmrs_out"})
         /\ SlotKernels(s)[10] = TrackTiming
<1> DEFINE q   == SlotKernels(s)
           a1  == Kernel("win_slice", {"capture", "dt_out", "rd_ptr"}, {"slot_iq", "rd_ptr"})
           a2  == Kernel("cfo_estimate", {"slot_iq"}, {"cfoest_out"})
           a3  == Kernel("cfo_compensate", {"slot_iq", "cc_ab"}, {"slot_iq_d"})
           a4  == Kernel("ofdm_demod", {"slot_iq_d"}, {"y"})
           a5  == Kernel("re_demap", {"y"}, {"yd"})
           a6  == Kernel("channel_est_ls", {"yd", "xref"}, {"h"})
           a7  == Kernel("equalize", {"yd", "h", "eq_n0"}, {"x"})
           a8  == Command("launch", "qam256_demod", Dev({"x"}), {Llr(s)})
           a9  == Kernel("cfo_dmrs", {"yd", "cfod_x"}, {"cfodmrs_out"})
           a10 == TrackTiming
<1>1. q = << a1, a2, a3, a4, a5, a6, a7, a8, a9, a10 >>
  BY DEF SlotKernels
<1> HIDE DEF q, a1, a2, a3, a4, a5, a6, a7, a8, a9, a10
<1>2. /\ Len(q) = 10
      /\ q[1] = a1 /\ q[2] = a2 /\ q[3] = a3 /\ q[4] = a4 /\ q[5] = a5
      /\ q[6] = a6 /\ q[7] = a7 /\ q[8] = a8 /\ q[9] = a9 /\ q[10] = a10
  BY <1>1
<1>3. q \in Seq({a1, a2, a3, a4, a5, a6, a7, a8, a9, a10})
  BY <1>1
<1>4. IsText(q)
  BY <1>3, SequenceIsText
<1>5. QED
  BY <1>2, <1>4 DEF q, a1, a2, a3, a4, a5, a6, a7, a8, a9, a10

\* What a kernel of the chain does or does not do: it is launched, it leaves the
\* sign table and the pilots alone, and only the window moves the read pointer.
SlotKernel(c) ==
  /\ Fits(c) /\ c.do = "launch" /\ c.op # "descramble"
  /\ <<"sign", 0>> \notin c.in \union c.out /\ <<"xref", 0>> \notin c.out
  /\ c.op = "win_slice" <=> <<"rd_ptr", 0>> \in c.out
  /\ c.op = "timing_tracker" <=> <<"dt_out", 0>> \in c.out

LEMMA SlotKernelCommand ==
  ASSUME NEW op, op # "descramble", NEW in \in SUBSET Names, NEW out \in SUBSET Names,
         "sign" \notin in \union out, "xref" \notin out,
         op = "win_slice" <=> "rd_ptr" \in out,
         op = "timing_tracker" <=> "dt_out" \in out
  PROVE  SlotKernel(Kernel(op, in, out))
  BY CommandFields, DevHas DEF SlotKernel

LEMMA SlotFacts ==
  ASSUME NEW s \in Slots
  PROVE  /\ \A k \in 1..10 : SlotKernel(SlotKernels(s)[k])
         /\ \A k \in 1..10 : SlotKernels(s)[k].op = "win_slice" <=> k = 1
         /\ \A k \in 1..10 : SlotKernels(s)[k].op = "timing_tracker" <=> k = 10
         /\ Llr(s) \in SlotKernels(s)[8].out
<1> DEFINE q == SlotKernels(s)
<1>0. /\ q[1] = Kernel("win_slice", {"capture", "dt_out", "rd_ptr"}, {"slot_iq", "rd_ptr"})
      /\ q[2] = Kernel("cfo_estimate", {"slot_iq"}, {"cfoest_out"})
      /\ q[3] = Kernel("cfo_compensate", {"slot_iq", "cc_ab"}, {"slot_iq_d"})
      /\ q[4] = Kernel("ofdm_demod", {"slot_iq_d"}, {"y"})
      /\ q[5] = Kernel("re_demap", {"y"}, {"yd"})
      /\ q[6] = Kernel("channel_est_ls", {"yd", "xref"}, {"h"})
      /\ q[7] = Kernel("equalize", {"yd", "h", "eq_n0"}, {"x"})
      /\ q[8] = Command("launch", "qam256_demod", Dev({"x"}), {Llr(s)})
      /\ q[9] = Kernel("cfo_dmrs", {"yd", "cfod_x"}, {"cfodmrs_out"})
      /\ q[10] = TrackTiming
  BY SlotText, Zenon
<1> HIDE DEF q
<1>1. /\ SlotKernel(q[1]) /\ SlotKernel(q[2]) /\ SlotKernel(q[3]) /\ SlotKernel(q[4])
      /\ SlotKernel(q[5]) /\ SlotKernel(q[6]) /\ SlotKernel(q[7]) /\ SlotKernel(q[9])
      /\ SlotKernel(q[10])
  BY <1>0, SlotKernelCommand DEF TrackTiming, Names
<1>2. SlotKernel(q[8]) /\ Llr(s) \in q[8].out
  <2>1. /\ q[8].do = "launch" /\ q[8].op = "qam256_demod"
        /\ q[8].in = Dev({"x"}) /\ q[8].out = {Llr(s)}
    BY <1>0 DEF Command
  <2>2. Dev({"x"}) \subseteq Buffers /\ {Llr(s)} \subseteq Buffers
    BY DEF Buffers, Dev, LlrAll
  <2>3. <<"sign", 0>> \notin Dev({"x"})
    BY DevHas
  <2>4. Llr(s) \notin {<<"sign", 0>>, <<"xref", 0>>, <<"rd_ptr", 0>>, <<"dt_out", 0>>}
    BY DEF Llr
  <2>5. QED BY <2>1, <2>2, <2>3, <2>4 DEF SlotKernel, Fits, Kinds
<1>3. /\ q[1].op = "win_slice" /\ q[2].op = "cfo_estimate" /\ q[3].op = "cfo_compensate"
      /\ q[4].op = "ofdm_demod" /\ q[5].op = "re_demap" /\ q[6].op = "channel_est_ls"
      /\ q[7].op = "equalize" /\ q[8].op = "qam256_demod" /\ q[9].op = "cfo_dmrs"
      /\ q[10].op = "timing_tracker"
  BY <1>0 DEF TrackTiming, Kernel, Command
<1>4. \A k \in 1..10 : k \in {1, 2, 3, 4, 5, 6, 7, 8, 9, 10}
  OBVIOUS
<1>5. \A k \in 1..10 : SlotKernel(q[k])
  BY <1>1, <1>2, <1>4
<1>6. \A k \in 1..10 : (q[k].op = "win_slice" <=> k = 1) /\ (q[k].op = "timing_tracker" <=> k = 10)
  BY <1>3, <1>4
<1>7. QED
  BY <1>2, <1>5, <1>6 DEF q

LEMMA SlotNumbers ==
  /\ SlotsPerTb \in Nat \ {0} /\ Slots = 0..(SlotsPerTb - 1)
  /\ 0 \in Slots /\ SlotsPerTb - 1 \in Slots
  /\ \A s \in Slots : s \in Nat
  BY ScopeAssumption DEF Slots

\* The place of kernel k of slot s in the loop.
At(s, k) == 10 * s + k

\* The loop holds ten commands for every slot.
LEMMA LoopText ==
  ASSUME NEW c, NEW t
  PROVE  /\ IsText(SlotLoop(c, t)) /\ Len(SlotLoop(c, t)) = 10 * SlotsPerTb
         /\ \A s \in Slots, k \in 1..10 :
              /\ At(s, k) \in 1..(10 * SlotsPerTb)
              /\ SlotLoop(c, t)[At(s, k)] = Stamped(SlotKernels(s)[k], Tag(c, t, s, FALSE))
         /\ \A n \in 1..(10 * SlotsPerTb) : \E s \in Slots : \E k \in 1..10 : n = At(s, k)
<1> DEFINE f == SlotLoop(c, t)
<1>1. SlotsPerTb \in Nat /\ SlotsPerTb * 10 = 10 * SlotsPerTb /\ 10 * SlotsPerTb \in Nat
  BY ScopeAssumption
<1>2. SlotLength = 10
  BY SlotText DEF SlotLength
<1>3. f = [n \in 1..(10 * SlotsPerTb) |->
             Stamped(SlotKernels((n - 1) \div 10)[((n - 1) % 10) + 1],
                     Tag(c, t, (n - 1) \div 10, FALSE))]
  BY <1>1, <1>2, Zenon DEF SlotLoop
<1> HIDE DEF f
<1>4. ASSUME NEW s \in Slots, NEW k \in 1..10
      PROVE  /\ At(s, k) \in 1..(10 * SlotsPerTb)
             /\ f[At(s, k)] = Stamped(SlotKernels(s)[k], Tag(c, t, s, FALSE))
  <2> DEFINE n == At(s, k)
             d == (n - 1) \div 10
             m == ((n - 1) % 10) + 1
  <2>1. n \in 1..(10 * SlotsPerTb) /\ d = s /\ m = k
    BY <1>1 DEF Slots, At
  <2>2. f[n] = Stamped(SlotKernels(d)[m], Tag(c, t, d, FALSE))
    <3> HIDE DEF n
    <3>1. QED BY <1>3, <2>1
  <2>3. n \in 1..(10 * SlotsPerTb)
    BY <2>1
  <2> HIDE DEF d, m
  <2>4. f[n] = Stamped(SlotKernels(s)[k], Tag(c, t, s, FALSE))
    BY <2>1, <2>2, Zenon
  <2>5. QED BY <2>3, <2>4
<1>5. ASSUME NEW n \in 1..(10 * SlotsPerTb)
      PROVE  \E s \in Slots : \E k \in 1..10 : n = At(s, k)
  <2> DEFINE d == (n - 1) \div 10
             m == ((n - 1) % 10) + 1
  <2>1. d \in Slots /\ m \in 1..10 /\ n = At(d, m)
    BY <1>1 DEF Slots, At
  <2> HIDE DEF d, m
  <2>2. QED BY <2>1, Zenon
<1>6. f = [i \in 1..(10 * SlotsPerTb) |-> f[i]]
  BY <1>3
<1>7. IsText(f) /\ Len(f) = 10 * SlotsPerTb
  BY <1>1, <1>6, FunctionIsText
<1>8. QED
  BY <1>4, <1>5, <1>7, Zenon DEF f

\* Every command of the loop, with what it was issued for.
LoopCommand(e, c, t, s, k) ==
  /\ SlotKernel(e) /\ e.op = SlotKernels(s)[k].op /\ e.out = SlotKernels(s)[k].out
  /\ e.tb = t /\ e.slot = s /\ e.timed = FALSE /\ e.cell = c.cell[LockOf(c, t)]
  /\ e.fresh = (t = 1 \/ c.bad[t - 1])

LEMMA LoopFields ==
  ASSUME NEW c, NEW t, NEW s \in Slots, NEW k \in 1..10
  PROVE  LoopCommand(SlotLoop(c, t)[At(s, k)], c, t, s, k)
<1> DEFINE e == SlotLoop(c, t)[At(s, k)]
<1> DEFINE a   == SlotKernels(s)[k]
           tag == Tag(c, t, s, FALSE)
<1>1. e = Stamped(a, tag)
  BY LoopText
<1>2. /\ tag.tb = t /\ tag.slot = s /\ tag.timed = FALSE /\ tag.cell = c.cell[LockOf(c, t)]
      /\ tag.fresh = (t = 1 \/ c.bad[t - 1])
  BY DEF Tag
<1>3. SlotKernel(a)
  BY SlotFacts
<1> HIDE DEF a, tag, e
<1>4. /\ e.do = a.do /\ e.op = a.op /\ e.in = a.in /\ e.out = a.out
      /\ e.tb = tag.tb /\ e.slot = tag.slot /\ e.timed = tag.timed /\ e.cell = tag.cell
      /\ e.fresh = tag.fresh
  BY <1>1, StampedFields
<1>5. SlotKernel(e)
  BY <1>3, <1>4 DEF SlotKernel, Fits
<1>6. QED
  BY <1>2, <1>4, <1>5 DEF a, e, LoopCommand

\* A window of block t: the first of the block finds what was left before the
\* turn, every other what the slot before it left.
WindowOk(c, t, u, n) ==
  u[n].op = "win_slice" /\ ~u[n].timed =>
    /\ u[n].tb = t /\ u[n].fresh = (t = 1 \/ c.bad[t - 1])
    /\ \/ /\ u[n].slot = 0
          /\ \A m \in 1..(n - 1) : <<"rd_ptr", 0>> \notin u[m].out /\ <<"dt_out", 0>> \notin u[m].out
       \/ /\ u[n].slot > 0
          /\ \E rd, dt : /\ Finds(u, n, <<"rd_ptr", 0>>, rd) /\ Finds(u, n, <<"dt_out", 0>>, dt)
                         /\ rd.op = "win_slice" /\ dt.op = "timing_tracker" /\ rd.timed = FALSE
                         /\ rd.tb = t /\ dt.tb = t
                         /\ rd.slot = u[n].slot - 1 /\ dt.slot = u[n].slot - 1

LEMMA LoopWindows ==
  ASSUME NEW c, NEW t, NEW q, q = SlotLoop(c, t), NEW n \in 1..Len(q)
  PROVE  WindowOk(c, t, q, n)
<1>0. SUFFICES ASSUME q[n].op = "win_slice"
      PROVE  /\ q[n].tb = t /\ q[n].fresh = (t = 1 \/ c.bad[t - 1])
             /\ \/ q[n].slot = 0 /\ n = 1
                \/ /\ q[n].slot > 0
                   /\ \E rd, dt :
                        /\ Finds(q, n, <<"rd_ptr", 0>>, rd) /\ Finds(q, n, <<"dt_out", 0>>, dt)
                        /\ rd.op = "win_slice" /\ dt.op = "timing_tracker" /\ rd.timed = FALSE
                        /\ rd.tb = t /\ dt.tb = t
                        /\ rd.slot = q[n].slot - 1 /\ dt.slot = q[n].slot - 1
  <2>1. n = 1 => 1..(n - 1) = {}
    OBVIOUS
  <2>2. QED BY <2>1 DEF WindowOk
<1>1. n \in 1..(10 * SlotsPerTb) /\ Len(q) = 10 * SlotsPerTb /\ SlotsPerTb \in Nat
  BY LoopText, SlotNumbers
<1>2. PICK s \in Slots, k \in 1..10 : n = At(s, k)
  BY <1>1, LoopText
<1>3. /\ q[n].op = SlotKernels(s)[k].op /\ q[n].slot = s /\ q[n].tb = t
      /\ q[n].fresh = (t = 1 \/ c.bad[t - 1])
  <2>1. s \in Slots /\ k \in 1..10 /\ q[n] = SlotLoop(c, t)[At(s, k)]
    BY <1>2
  <2>2. LoopCommand(q[n], c, t, s, k)
    BY ONLY <2>1, LoopFields
  <2>3. QED BY <2>2 DEF LoopCommand
<1>4. k = 1
  BY <1>0, <1>3, SlotFacts
<1>5. s \in Nat
  BY SlotNumbers
<1>6. CASE s = 0
  BY <1>2, <1>3, <1>4, <1>6 DEF At
<1>7. CASE s # 0
  <2> DEFINE r == s - 1
             v == At(r, 1)
             w == At(r, 10)
  <2>1. r \in Slots /\ r \in Nat
    BY <1>5, <1>7, SlotNumbers DEF Slots
  <2>2. /\ v \in 1..(n - 1) /\ w \in 1..(n - 1) /\ (w + 1)..(n - 1) = {}
        /\ \A m \in (v + 1)..(n - 1) : \E j \in 1..10 : m = At(r, j) /\ j # 1
    <3>1. n = 10 * r + 11
      BY <1>2, <1>4, <1>5 DEF At
    <3>2. v \in 1..(n - 1) /\ w \in 1..(n - 1) /\ (w + 1)..(n - 1) = {}
      BY <3>1, <2>1 DEF At
    <3>3. ASSUME NEW m \in (v + 1)..(n - 1) PROVE \E j \in 1..10 : m = At(r, j) /\ j # 1
      <4> DEFINE j == m - 10 * r
      <4>1. m \in (10 * r + 2)..(10 * r + 10)
        BY <3>1, <2>1 DEF At
      <4>2. j \in 1..10 /\ m = 10 * r + j /\ j # 1
        <5> HIDE DEF r
        <5>1. QED BY <4>1, <2>1
      <4> HIDE DEF j
      <4>3. QED BY <4>2 DEF At
    <3>4. QED BY <3>2, <3>3
  <2> HIDE DEF r, v, w
  <2>3. /\ SlotKernel(q[v]) /\ q[v].op = SlotKernels(r)[1].op
        /\ q[v].tb = t /\ q[v].slot = r /\ q[v].timed = FALSE
    <3>1. r \in Slots /\ 1 \in 1..10 /\ q[v] = SlotLoop(c, t)[At(r, 1)]
      BY <2>1 DEF v
    <3>2. LoopCommand(q[v], c, t, r, 1)
      BY ONLY <3>1, LoopFields
    <3>3. QED BY <3>2 DEF LoopCommand
  <2>4. /\ SlotKernel(q[w]) /\ q[w].op = SlotKernels(r)[10].op
        /\ q[w].tb = t /\ q[w].slot = r
    <3>1. r \in Slots /\ 10 \in 1..10 /\ q[w] = SlotLoop(c, t)[At(r, 10)]
      BY <2>1 DEF w
    <3>2. LoopCommand(q[w], c, t, r, 10)
      BY ONLY <3>1, LoopFields
    <3>3. QED BY <3>2 DEF LoopCommand
  <2>5. q[v].op = "win_slice" /\ q[w].op = "timing_tracker"
    BY <2>1, <2>3, <2>4, SlotFacts
  <2>6. <<"rd_ptr", 0>> \in q[v].out /\ <<"dt_out", 0>> \in q[w].out
    BY <2>3, <2>4, <2>5 DEF SlotKernel
  <2>7. ASSUME NEW m \in (v + 1)..(n - 1) PROVE <<"rd_ptr", 0>> \notin q[m].out
    <3>1. PICK j \in 1..10 : m = At(r, j) /\ j # 1
      BY <2>2
    <3>2. r \in Slots /\ j \in 1..10 /\ q[m] = SlotLoop(c, t)[At(r, j)]
      BY <2>1, <3>1
    <3>3. SlotKernel(q[m]) /\ q[m].op = SlotKernels(r)[j].op
      <4>1. LoopCommand(q[m], c, t, r, j)
        BY ONLY <3>2, LoopFields
      <4>2. QED BY <4>1 DEF LoopCommand
    <3>4. q[m].op # "win_slice"
      BY <2>1, <3>1, <3>3, SlotFacts
    <3>5. QED BY <3>3, <3>4 DEF SlotKernel
  <2>8. Finds(q, n, <<"rd_ptr", 0>>, q[v])
    BY <2>2, <2>6, <2>7 DEF Finds
  <2>9. Finds(q, n, <<"dt_out", 0>>, q[w])
    BY <2>2, <2>6 DEF Finds
  <2>10. s > 0 /\ r = s - 1
    BY <1>5, <1>7 DEF r
  <2>11. \E rd, dt : /\ Finds(q, n, <<"rd_ptr", 0>>, rd)
                     /\ Finds(q, n, <<"dt_out", 0>>, dt)
                     /\ rd.op = "win_slice" /\ dt.op = "timing_tracker"
                     /\ rd.timed = FALSE
                     /\ rd.tb = t /\ dt.tb = t
                     /\ rd.slot = q[n].slot - 1 /\ dt.slot = q[n].slot - 1
    <3>1. q[v].slot = q[n].slot - 1 /\ q[w].slot = q[n].slot - 1
      BY <1>3, <2>3, <2>4, <2>10
    <3>2. QED BY <2>3, <2>4, <2>5, <2>8, <2>9, <3>1
  <2>12. QED BY <1>3, <2>10, <2>11
<1>8. QED
  BY <1>6, <1>7

\* The loop of a block, by what matters of it: launches that leave the pilots and
\* the sign table alone, and leave pointer and offset of the last slot and LLRs
\* of every slot.
LoopPart(c, t, r) ==
  /\ IsText(r) /\ \A n \in 1..Len(r) : WindowOk(c, t, r, n)
  /\ \A n \in 1..Len(r) : SlotKernel(r[n]) /\ r[n].timed = FALSE
  /\ Spares(r, <<"sign", 0>>) /\ Spares(r, <<"xref", 0>>)
  /\ \E rd, dt : /\ Leaves(r, <<"rd_ptr", 0>>, rd) /\ Leaves(r, <<"dt_out", 0>>, dt)
                 /\ rd.tb = t /\ dt.tb = t /\ rd.slot = dt.slot
  /\ \A s \in Slots : \E l : Leaves(r, Llr(s), l) /\ l.tb = t

LEMMA LoopIsPart ==
  ASSUME NEW c, NEW t, NEW q, q = SlotLoop(c, t)
  PROVE  LoopPart(c, t, q)
<1>1. Len(q) = 10 * SlotsPerTb /\ SlotsPerTb \in Nat \ {0} /\ Len(q) \in Nat
  <2>1. Len(q) = 10 * SlotsPerTb
    BY LoopText, Zenon
  <2>2. QED BY <2>1, SlotNumbers
<1>2. ASSUME NEW n \in 1..Len(q)
      PROVE  /\ SlotKernel(q[n]) /\ q[n].timed = FALSE /\ q[n].tb = t
             /\ \E s \in Slots : \E k \in 1..10 :
                  n = At(s, k) /\ q[n].slot = s /\ q[n].op = SlotKernels(s)[k].op
  <2>1. PICK s \in Slots, k \in 1..10 : n = At(s, k)
    BY <1>1, LoopText
  <2>2. s \in Slots /\ k \in 1..10 /\ q[n] = SlotLoop(c, t)[At(s, k)]
    BY <2>1
  <2>3. /\ SlotKernel(q[n]) /\ q[n].timed = FALSE /\ q[n].tb = t /\ q[n].slot = s
        /\ q[n].op = SlotKernels(s)[k].op
    <3>1. LoopCommand(q[n], c, t, s, k)
      BY ONLY <2>2, LoopFields
    <3>2. QED BY <3>1 DEF LoopCommand
  <2>4. QED BY <2>1, <2>3
<1>3. Spares(q, <<"sign", 0>>) /\ Spares(q, <<"xref", 0>>)
  BY <1>2 DEF Spares, SlotKernel
<1> DEFINE z == SlotsPerTb - 1
           v == At(z, 1)
           w == At(z, 10)
<1>4. z \in Slots /\ z \in Nat /\ v \in 1..Len(q) /\ w \in 1..Len(q) /\ w = Len(q)
  BY <1>1 DEF Slots, At
<1>5. <<"rd_ptr", 0>> \in q[v].out
  <2>1. z \in Slots /\ 1 \in 1..10 /\ q[v] = SlotLoop(c, t)[At(z, 1)]
    BY <1>4
  <2> HIDE DEF v, z
  <2>2. SlotKernel(q[v]) /\ q[v].op = SlotKernels(z)[1].op
    <3>1. LoopCommand(q[v], c, t, z, 1)
      BY ONLY <2>1, LoopFields
    <3>2. QED BY <3>1 DEF LoopCommand
  <2>3. SlotKernels(z)[1].op = "win_slice"
    BY <1>4, SlotFacts
  <2>4. QED BY <2>2, <2>3 DEF SlotKernel
<1>6. <<"dt_out", 0>> \in q[w].out /\ q[w].slot = z /\ q[w].tb = t
  <2>1. z \in Slots /\ 10 \in 1..10 /\ q[w] = SlotLoop(c, t)[At(z, 10)]
    BY <1>4
  <2> HIDE DEF w, z
  <2>2. SlotKernel(q[w]) /\ q[w].op = SlotKernels(z)[10].op /\ q[w].slot = z /\ q[w].tb = t
    <3>1. LoopCommand(q[w], c, t, z, 10)
      BY ONLY <2>1, LoopFields
    <3>2. QED BY <3>1 DEF LoopCommand
  <2>3. SlotKernels(z)[10].op = "timing_tracker"
    BY <1>4, SlotFacts
  <2>4. QED BY <2>2, <2>3 DEF SlotKernel
<1>7. PICK i \in v..Len(q) : Leaves(q, <<"rd_ptr", 0>>, q[i])
  <2> HIDE DEF v
  <2>1. QED BY <1>1, <1>4, <1>5, WritesLeave
<1>8. q[i].tb = t /\ q[i].slot = z
  <2>1. i \in 1..Len(q) /\ i >= v
    BY <1>1, <1>4, <1>7
  <2>2. PICK s \in Slots, k \in 1..10 : i = At(s, k)
    BY <1>1, <2>1, LoopText
  <2>3. s = z
    BY <1>1, <1>4, <2>1, <2>2 DEF Slots, At
  <2>4. s \in Slots /\ k \in 1..10 /\ q[i] = SlotLoop(c, t)[At(s, k)]
    BY <2>2
  <2>5. q[i].tb = t /\ q[i].slot = s
    <3>1. LoopCommand(q[i], c, t, s, k)
      BY ONLY <2>4, LoopFields
    <3>2. QED BY <3>1 DEF LoopCommand
  <2>6. QED BY <2>3, <2>5
<1>9. Leaves(q, <<"dt_out", 0>>, q[w])
  <2>1. PICK j \in w..Len(q) : Leaves(q, <<"dt_out", 0>>, q[j])
    <3> HIDE DEF w
    <3>1. QED BY <1>1, <1>4, <1>6, WritesLeave
  <2>2. j = w
    BY <1>1, <1>4, <2>1
  <2>3. QED BY <2>1, <2>2
<1>10. ASSUME NEW s \in Slots PROVE \E l : Leaves(q, Llr(s), l) /\ l.tb = t
  <2> DEFINE n == At(s, 8)
  <2>1. s \in Slots /\ 8 \in 1..10 /\ q[n] = SlotLoop(c, t)[At(s, 8)]
    OBVIOUS
  <2>2. n \in 1..Len(q)
    BY <1>1, LoopText, <2>1
  <2> HIDE DEF n
  <2>3. q[n].out = SlotKernels(s)[8].out
    <3>1. LoopCommand(q[n], c, t, s, 8)
      BY ONLY <2>1, LoopFields
    <3>2. QED BY <3>1 DEF LoopCommand
  <2>4. Llr(s) \in q[n].out
    BY <2>3, SlotFacts
  <2>5. PICK j \in n..Len(q) : Leaves(q, Llr(s), q[j])
    BY <1>1, <2>2, <2>4, WritesLeave
  <2>6. j \in 1..Len(q)
    BY <1>1, <2>2, <2>5
  <2>7. q[j].tb = t
    BY <1>2, <2>6
  <2>8. QED BY <2>5, <2>7
<1> HIDE DEF v, w, z
<1>11. \E rd, dt : /\ Leaves(q, <<"rd_ptr", 0>>, rd) /\ Leaves(q, <<"dt_out", 0>>, dt)
                   /\ rd.tb = t /\ dt.tb = t /\ rd.slot = dt.slot
  <2>1. q[i].slot = q[w].slot
    BY <1>6, <1>8
  <2>2. QED BY <1>6, <1>7, <1>8, <1>9, <2>1
<1>12. IsText(q) /\ \A n \in 1..Len(q) : WindowOk(c, t, q, n)
  BY LoopText, LoopWindows
<1>13. \A n \in 1..Len(q) : SlotKernel(q[n]) /\ q[n].timed = FALSE
  BY <1>2
<1>14. QED
  BY ONLY <1>3, <1>10, <1>11, <1>12, <1>13 DEF LoopPart

-----------------------------------------------------------------------------
\* Decoding and reporting.

\* What no command of a decode or of a report does.
DecodeCommand(c) ==
  /\ Fits(c) /\ c.op # "win_slice"
  /\ <<"rd_ptr", 0>> \notin c.out /\ <<"dt_out", 0>> \notin c.out /\ <<"xref", 0>> \notin c.out
  /\ \A s \in Slots : Llr(s) \notin c.out

LEMMA DecodeCommands ==
  ASSUME NEW op, op # "win_slice", NEW in \in SUBSET Names, NEW out \in SUBSET Names,
         {"rd_ptr", "dt_out", "xref"} \cap out = {}
  PROVE  DecodeCommand(Kernel(op, in, out)) /\ DecodeCommand(Memcpy(op, in, out))
<1>1. \A s \in Slots : Llr(s) \notin Dev(out)
  BY DEF Llr, Dev, Names
<1>2. QED
  BY <1>1, CommandFields, DevHas DEF DecodeCommand

LEMMA DecodeText ==
  /\ IsText(DecodeKernels) /\ Len(DecodeKernels) = 3
  /\ \A j \in 1..3 : DecodeKernels[j] = Decode[j]
  /\ IsText(Decode) /\ Len(Decode) = 5
  /\ Decode[1] = Command("launch", "descramble", LlrAll \union Dev({"sign"}), Dev({"cw_ds"}))
  /\ Decode[2] = Kernel("rate_dematch", {"cw_ds"}, {"lam"})
  /\ Decode[3] = Kernel("ldpc_decode", {"lam"}, {"bits"})
  /\ Decode[4] = Synchronize
  /\ Decode[5] = Memcpy("ber", {"bits"}, {})
<1> DEFINE a1 == Command("launch", "descramble", LlrAll \union Dev({"sign"}), Dev({"cw_ds"}))
           a2 == Kernel("rate_dematch", {"cw_ds"}, {"lam"})
           a3 == Kernel("ldpc_decode", {"lam"}, {"bits"})
           a4 == Synchronize
           a5 == Memcpy("ber", {"bits"}, {})
           r  == DecodeKernels
           s  == << a4, a5 >>
           S  == {a1, a2, a3, a4, a5}
<1>1. r = << a1, a2, a3 >> /\ Decode = r \o s
  BY DEF Decode, DecodeKernels
<1> HIDE DEF a1, a2, a3, a4, a5
<1>2. /\ r \in Seq(S) /\ Len(r) = 3 /\ r[1] = a1 /\ r[2] = a2 /\ r[3] = a3
      /\ s \in Seq(S) /\ Len(s) = 2 /\ s[1] = a4 /\ s[2] = a5
  BY <1>1
<1> HIDE DEF r, s, S
<1>3. IsText(r) /\ IsText(s)
  BY <1>2, SequenceIsText
<1>4. /\ IsText(r \o s) /\ Len(r \o s) = Len(r) + Len(s)
      /\ \A j \in 1..Len(r) : (r \o s)[j] = r[j]
      /\ \A j \in 1..Len(s) : (r \o s)[j + Len(r)] = s[j]
  BY ONLY <1>3, Joined
<1>5. /\ 1 \in 1..Len(r) /\ 2 \in 1..Len(r) /\ 3 \in 1..Len(r)
      /\ 1 \in 1..Len(s) /\ 2 \in 1..Len(s) /\ 1 + Len(r) = 4 /\ 2 + Len(r) = 5
      /\ Len(r) + Len(s) = 5
  BY <1>2
<1>6. \A j \in 1..3 : r[j] = Decode[j]
  BY <1>1, <1>2, <1>4
<1>7. QED
  BY <1>1, <1>2, <1>3, <1>4, <1>5, <1>6 DEF a1, a2, a3, a4, a5, r

LEMMA ReportText ==
  /\ IsText(Report) /\ Len(Report) = 2
  /\ Report[1] = Synchronize
  /\ Report[2] = Memcpy("report", {"cfodmrs_out", "dt_out", "cir"}, {})
<1> DEFINE a1 == Synchronize
           a2 == Memcpy("report", {"cfodmrs_out", "dt_out", "cir"}, {})
<1>1. Report = << a1, a2 >>
  BY DEF Report
<1> HIDE DEF a1, a2
<1>2. Report \in Seq({a1, a2}) /\ Len(Report) = 2 /\ Report[1] = a1 /\ Report[2] = a2
  BY <1>1
<1>3. QED
  BY <1>2, SequenceIsText DEF a1, a2

\* The cell whose sign table is on the device before block t is decoded.
Cached(c, t) == IF t = 1 THEN "none" ELSE c.cell[LockOf(c, t - 1)]

\* A decode is five commands, behind an upload if the cell is a new one.
LEMMA DecodeBlockText ==
  ASSUME NEW c, NEW t, ~c.skipTb, NEW r, r = DecodeBlock(c, t)
  PROVE  \E o \in {0, 1} :
           /\ IsText(r) /\ Len(r) = 5 + o
           /\ o = 0 <=> Cached(c, t) = c.cell[LockOf(c, t)]
           /\ o = 1 => r[1] = Memcpy("bake_gold_sign", {}, {"sign"})
           /\ \A j \in 1..5 : r[j + o] = Decode[j]
<1> DEFINE bake == Memcpy("bake_gold_sign", {}, {"sign"})
           same == Cached(c, t) = c.cell[LockOf(c, t)]
           b    == IF same THEN << >> ELSE << bake >>
           o    == Len(b)
<1>1. r = b \o Decode
  BY DEF DecodeBlock, BakeGoldSign, Cached
<1>2. /\ IsText(b) /\ o \in {0, 1} /\ (o = 0 <=> same) /\ (o = 1 => b[1] = bake)
  <2> HIDE DEF bake
  <2>1. QED BY Singles
<1>3. IsText(b) /\ IsText(Decode)
  BY <1>2, DecodeText
<1> HIDE DEF b, bake, same
<1>4. /\ IsText(b \o Decode) /\ Len(b \o Decode) = Len(b) + Len(Decode)
      /\ \A j \in 1..Len(b) : (b \o Decode)[j] = b[j]
      /\ \A j \in 1..Len(Decode) : (b \o Decode)[j + Len(b)] = Decode[j]
  BY ONLY <1>3, Joined
<1>5. /\ IsText(r) /\ Len(r) = 5 + o /\ (o = 1 => r[1] = bake)
      /\ \A j \in 1..5 : r[j + o] = Decode[j]
  <2>1. Len(r) = 5 + o
    BY <1>1, <1>2, <1>4, DecodeText
  <2>2. o = 1 => r[1] = bake
    BY <1>1, <1>2, <1>4
  <2>3. \A j \in 1..5 : r[j + o] = Decode[j]
    BY <1>1, <1>4, DecodeText
  <2>4. QED BY <1>1, <1>4, <2>1, <2>2, <2>3
<1> HIDE DEF o
<1>6. QED
  BY <1>2, <1>5 DEF bake, same

LEMMA DecodeFacts ==
  /\ \A j \in 1..5 : DecodeCommand(Decode[j]) /\ <<"sign", 0>> \notin Decode[j].out
  /\ \A j \in 1..5 : Decode[j].op = "descramble" <=> j = 1
  /\ \A j \in 1..3 : Decode[j].do = "launch"
  /\ Decode[4].do = "sync" /\ Decode[5].do = "copy"
<1> DEFINE q == Decode
<1>1. /\ q[1].do = "launch" /\ q[2].do = "launch" /\ q[3].do = "launch"
      /\ q[4].do = "sync" /\ q[5].do = "copy"
      /\ q[1].op = "descramble" /\ q[2].op = "rate_dematch" /\ q[3].op = "ldpc_decode"
      /\ q[4].op = "sync" /\ q[5].op = "ber"
  BY DecodeText DEF Kernel, Memcpy, Command, Synchronize
<1>2. /\ q[1].in = LlrAll \union Dev({"sign"}) /\ q[1].out = Dev({"cw_ds"})
      /\ q[2].out = Dev({"lam"}) /\ q[3].out = Dev({"bits"}) /\ q[4].out = {} /\ q[5].out = Dev({})
  BY DecodeText DEF Kernel, Memcpy, Command, Synchronize
<1>3. DecodeCommand(q[1])
  <2>1. q[1].in \subseteq Buffers /\ q[1].out \subseteq Buffers
    BY <1>2 DEF Buffers, Dev
  <2>2. \A s \in Slots : Llr(s) \notin q[1].out
    BY <1>2 DEF Dev, Llr
  <2>3. /\ <<"rd_ptr", 0>> \notin q[1].out /\ <<"dt_out", 0>> \notin q[1].out
        /\ <<"xref", 0>> \notin q[1].out
    BY <1>2, DevHas
  <2>4. QED BY <1>1, <2>1, <2>2, <2>3 DEF DecodeCommand, Fits, Kinds
<1>4. DecodeCommand(q[2]) /\ DecodeCommand(q[3]) /\ DecodeCommand(q[5])
  BY DecodeText, DecodeCommands DEF Names
<1>5. DecodeCommand(q[4])
  BY DecodeText, SyncFields DEF DecodeCommand
<1>6. /\ <<"sign", 0>> \notin q[1].out /\ <<"sign", 0>> \notin q[2].out
      /\ <<"sign", 0>> \notin q[3].out /\ <<"sign", 0>> \notin q[4].out
      /\ <<"sign", 0>> \notin q[5].out
  BY <1>2, DevHas
<1> HIDE DEF q
<1>7. (\A j \in 1..5 : j \in {1, 2, 3, 4, 5}) /\ \A j \in 1..3 : j \in {1, 2, 3}
  OBVIOUS
<1>8. \A j \in 1..5 : DecodeCommand(q[j]) /\ <<"sign", 0>> \notin q[j].out
  BY <1>3, <1>4, <1>5, <1>6, <1>7
<1>9. /\ \A j \in 1..5 : q[j].op = "descramble" <=> j = 1
      /\ \A j \in 1..3 : q[j].do = "launch"
  BY <1>1, <1>7
<1>10. QED
  BY <1>1, <1>8, <1>9 DEF q

\* The first synchronisation of a text comes before any copy but an upload of
\* the sign table.
OnlyBakes(q) ==
  \E z \in 1..Len(q) :
    /\ q[z].do = "sync"
    /\ \A j \in 1..(z - 1) : q[j].do = "copy" => q[j].in = {} /\ q[j].out = {<<"sign", 0>>}

\* A text uploads the sign table before it descrambles.
Bakes(q) ==
  \E g : Leaves(q, <<"sign", 0>>, g)
         /\ \A n \in 1..Len(q) : q[n].op = "descramble" => Finds(q, n, <<"sign", 0>>, g)

LEMMA DecodeBlockFacts ==
  ASSUME NEW c, NEW t, ~c.skipTb, NEW r, r = DecodeBlock(c, t)
  PROVE  /\ IsText(r) /\ Awaited(r) /\ OnlyBakes(r)
         /\ \A n \in 1..Len(r) : DecodeCommand(r[n])
         /\ \/ Cached(c, t) = c.cell[LockOf(c, t)] /\ Spares(r, <<"sign", 0>>)
            \/ Bakes(r)
<1> DEFINE bake == Memcpy("bake_gold_sign", {}, {"sign"})
<1>1. PICK o \in {0, 1} : /\ IsText(r) /\ Len(r) = 5 + o
                          /\ o = 0 <=> Cached(c, t) = c.cell[LockOf(c, t)]
                          /\ o = 1 => r[1] = bake
                          /\ \A j \in 1..5 : r[j + o] = Decode[j]
  BY DecodeBlockText
<1>2. /\ bake.do = "copy" /\ bake.in = {} /\ bake.out = {<<"sign", 0>>} /\ bake.op = "bake_gold_sign"
      /\ DecodeCommand(bake)
  <2>1. bake.do = "copy" /\ bake.in = {} /\ bake.out = {<<"sign", 0>>} /\ bake.op = "bake_gold_sign"
    BY DEF Memcpy, Command, Dev
  <2>2. DecodeCommand(bake)
    BY DecodeCommands DEF Names
  <2>3. QED BY <2>1, <2>2
<1> HIDE DEF bake
<1>3. ASSUME NEW n \in 1..Len(r)
      PROVE  \/ n = 1 /\ o = 1 /\ r[n] = bake
             \/ \E j \in 1..5 : n = j + o /\ r[n] = Decode[j]
  <2> DEFINE j == n - o
  <2>1. (n = 1 /\ o = 1) \/ (j \in 1..5 /\ n = j + o)
    BY <1>1
  <2> HIDE DEF j
  <2>2. QED BY <1>1, <2>1
<1>4. \A n \in 1..Len(r) : DecodeCommand(r[n])
  BY <1>2, <1>3, DecodeFacts
<1>5. Awaited(r)
  <2>1. ASSUME NEW m \in 1..Len(r), r[m].do = "launch"
        PROVE  m + 1 \in 1..Len(r) /\ r[m + 1].do \in {"launch", "sync"}
    <3>1. PICK j \in 1..5 : m = j + o /\ r[m] = Decode[j]
      BY <1>2, <1>3, <2>1
    <3>2. j \in {1, 2, 3}
      <4>1. j \in {1, 2, 3, 4, 5}
        OBVIOUS
      <4>2. QED BY <2>1, <3>1, <4>1, DecodeFacts
    <3>3. j + 1 \in 1..5 /\ m + 1 = (j + 1) + o /\ m + 1 \in 1..Len(r)
      BY <1>1, <3>1, <3>2
    <3>4. r[m + 1] = Decode[j + 1]
      BY <1>1, <3>3
    <3>5. Decode[j + 1].do \in {"launch", "sync"}
      BY <3>2, DecodeFacts
    <3>6. QED BY <3>3, <3>4, <3>5
  <2>2. Len(r) \in Nat
    BY <1>1
  <2>3. QED BY ONLY <2>1, <2>2, AwaitedInRow
<1>6. OnlyBakes(r)
  <2> DEFINE z == 4 + o
  <2>1. z \in 1..Len(r) /\ r[z].do = "sync"
    BY <1>1, DecodeFacts
  <2>2. ASSUME NEW j \in 1..(z - 1), r[j].do = "copy"
        PROVE  r[j].in = {} /\ r[j].out = {<<"sign", 0>>}
    <3>1. j \in 1..Len(r) /\ j < 4 + o
      BY <1>1
    <3>2. ASSUME NEW i \in 1..5, j = i + o, r[j] = Decode[i] PROVE FALSE
      <4>1. i \in 1..3
        BY <3>1, <3>2
      <4>2. QED BY <2>2, <3>2, <4>1, DecodeFacts
    <3>3. r[j] = bake
      BY <1>3, <3>1, <3>2
    <3>4. QED BY <1>2, <3>3
  <2> HIDE DEF z
  <2>3. QED BY <2>1, <2>2 DEF OnlyBakes
<1>7. CASE o = 0
  <2>1. Spares(r, <<"sign", 0>>)
    BY <1>3, <1>7, DecodeFacts DEF Spares
  <2>2. QED BY <1>1, <1>4, <1>5, <1>6, <1>7, <2>1
<1>8. CASE o = 1
  <2>1. 1 \in 1..Len(r) /\ <<"sign", 0>> \in r[1].out /\ Len(r) \in Nat
    BY <1>1, <1>2, <1>8
  <2>2. \A m \in (1 + 1)..Len(r) : <<"sign", 0>> \notin r[m].out
    <3>1. ASSUME NEW m \in (1 + 1)..Len(r) PROVE <<"sign", 0>> \notin r[m].out
      <4>1. m \in 1..Len(r) /\ m # 1
        BY <2>1
      <4>2. PICK j \in 1..5 : r[m] = Decode[j]
        BY <1>3, <4>1
      <4>3. QED BY <4>2, DecodeFacts
    <3>2. QED BY <3>1
  <2>3. ASSUME NEW n \in 2..(Len(r) + 1) PROVE Finds(r, n, <<"sign", 0>>, r[1])
    <3>1. 1 \in 1..(n - 1) /\ \A m \in (1 + 1)..(n - 1) : m \in (1 + 1)..Len(r)
      BY <2>1
    <3>2. QED BY <2>1, <2>2, <3>1 DEF Finds
  <2>4. Leaves(r, <<"sign", 0>>, r[1])
    <3>1. Len(r) + 1 \in 2..(Len(r) + 1)
      BY <2>1
    <3>2. QED BY <2>3, <3>1 DEF Leaves
  <2>5. ASSUME NEW n \in 1..Len(r), r[n].op = "descramble" PROVE Finds(r, n, <<"sign", 0>>, r[1])
    <3>1. n # 1
      BY <1>1, <1>2, <1>8, <2>5
    <3>2. n \in 2..(Len(r) + 1)
      BY <2>1, <3>1
    <3>3. QED BY <2>3, <3>2
  <2>6. Bakes(r)
    BY <2>4, <2>5 DEF Bakes
  <2>7. QED BY <1>1, <1>4, <1>5, <1>6, <2>6
<1>9. QED
  BY <1>7, <1>8

\* A report only synchronises and reads.
LEMMA ReportFacts ==
  /\ IsText(Report) /\ Awaited(Report) /\ OnlyBakes(Report) /\ Spares(Report, <<"sign", 0>>)
  /\ \A n \in 1..Len(Report) : DecodeCommand(Report[n]) /\ Report[n].op # "descramble"
<1> DEFINE q == Report
<1>1. /\ q[1].do = "sync" /\ q[2].do = "copy" /\ q[1].op = "sync" /\ q[2].op = "report"
      /\ q[1].out = {} /\ q[2].out = Dev({})
  BY ReportText DEF Memcpy, Command, Synchronize
<1>2. DecodeCommand(q[2]) /\ DecodeCommand(q[1])
  <2>1. DecodeCommand(q[2])
    BY ReportText, DecodeCommands DEF Names
  <2>2. DecodeCommand(q[1])
    BY ReportText, SyncFields DEF DecodeCommand
  <2>3. QED BY <2>1, <2>2
<1>3. IsText(q) /\ Len(q) = 2
  BY ReportText
<1> HIDE DEF q
<1>4. \A n \in 1..2 : n \in {1, 2}
  OBVIOUS
<1>5. Awaited(q)
  <2>1. \A n \in 1..Len(q) : q[n].do # "launch"
    BY <1>1, <1>3, <1>4
  <2>2. QED BY <2>1, AwaitedCopies
<1>6. OnlyBakes(q)
  <2>1. 1 \in 1..Len(q) /\ 1..(1 - 1) = {}
    BY <1>3
  <2>2. QED BY <1>1, <2>1 DEF OnlyBakes
<1>7. Spares(q, <<"sign", 0>>)
  BY <1>1, <1>3, <1>4 DEF Spares, Dev
<1>8. \A n \in 1..Len(q) : DecodeCommand(q[n]) /\ q[n].op # "descramble"
  BY <1>1, <1>2, <1>3, <1>4
<1>9. QED
  BY <1>3, <1>5, <1>6, <1>7, <1>8 DEF q

\* Joining texts.
LEMMA SparesJoined ==
  ASSUME NEW r, NEW s, IsText(r), IsText(s), NEW b, Spares(r, b), Spares(s, b)
  PROVE  Spares(r \o s, b)
<1>1. IsText(r) /\ IsText(s)
  OBVIOUS
<1>2. ASSUME NEW n \in 1..Len(r \o s) PROVE b \notin (r \o s)[n].out
  <2>1. IsText(r) /\ IsText(s) /\ n \in 1..Len(r \o s)
    OBVIOUS
  <2>2. \/ n \in 1..Len(r) /\ (r \o s)[n] = r[n]
        \/ \E j \in 1..Len(s) : n = j + Len(r) /\ (r \o s)[n] = s[j]
    BY ONLY <2>1, Halves
  <2>3. QED BY <2>2 DEF Spares
<1>3. QED
  BY <1>2 DEF Spares

LEMMA OnlyBakesJoined ==
  ASSUME NEW r, NEW s, IsText(r), IsText(s), OnlyBakes(r)
  PROVE  OnlyBakes(r \o s)
<1>1. IsText(r) /\ IsText(s)
  OBVIOUS
<1>2. /\ Len(r) \in Nat /\ Len(s) \in Nat /\ Len(r \o s) = Len(r) + Len(s)
      /\ \A j \in 1..Len(r) : (r \o s)[j] = r[j]
  BY ONLY <1>1, Joined
<1>3. PICK z \in 1..Len(r) :
        /\ r[z].do = "sync"
        /\ \A j \in 1..(z - 1) : r[j].do = "copy" => r[j].in = {} /\ r[j].out = {<<"sign", 0>>}
  BY DEF OnlyBakes
<1>4. z \in 1..Len(r \o s) /\ \A j \in 1..(z - 1) : j \in 1..Len(r)
  BY <1>2
<1>5. QED
  BY <1>2, <1>3, <1>4 DEF OnlyBakes

\* What follows the slots of a block, before it is stamped.
LEMMA DecodeReport ==
  ASSUME NEW c, NEW t, NEW q, q = DecodeBlock(c, t) \o Report
  PROVE  /\ IsText(q) /\ Awaited(q) /\ OnlyBakes(q)
         /\ \A n \in 1..Len(q) : DecodeCommand(q[n])
         /\ c.skipTb => \A n \in 1..Len(q) : q[n].op # "descramble"
         /\ ~c.skipTb =>
              \/ Cached(c, t) = c.cell[LockOf(c, t)] /\ Spares(q, <<"sign", 0>>)
              \/ Bakes(q)
<1> DEFINE r == DecodeBlock(c, t)
           s == Report
<1>0. q = r \o s
  OBVIOUS
<1>1. /\ IsText(s) /\ Awaited(s) /\ OnlyBakes(s) /\ Spares(s, <<"sign", 0>>)
      /\ \A n \in 1..Len(s) : DecodeCommand(s[n]) /\ s[n].op # "descramble"
  BY ReportFacts
<1>2. CASE c.skipTb
  <2>1. r = << >>
    BY <1>2 DEF DecodeBlock
  <2> HIDE DEF r, s
  <2>2. IsText(r) /\ Len(r) = 0
    BY <2>1, Singles
  <2>3. IsText(r) /\ IsText(s)
    BY <1>1, <2>2
  <2>4. /\ IsText(q) /\ Len(q) = Len(r) + Len(s) /\ Len(s) \in Nat
        /\ \A j \in 1..Len(s) : q[j + Len(r)] = s[j]
    <3>1. /\ IsText(r \o s) /\ Len(r \o s) = Len(r) + Len(s) /\ Len(s) \in Nat
          /\ \A j \in 1..Len(s) : (r \o s)[j + Len(r)] = s[j]
      BY ONLY <2>3, Joined
    <3>2. QED BY <1>0, <3>1
  <2>5. Len(q) = Len(s) /\ \A j \in 1..Len(s) : q[j] = s[j]
    BY <2>2, <2>4
  <2>6. Awaited(q)
    <3>1. Awaited(r)
      <4>1. \A n \in 1..Len(r) : r[n].do # "launch"
        BY <2>2
      <4>2. QED BY ONLY <4>1, AwaitedCopies
    <3>2. QED BY <1>0, <1>1, <2>3, <3>1, AwaitedJoined
  <2>7. OnlyBakes(q)
    <3>1. PICK z \in 1..Len(s) :
            /\ s[z].do = "sync"
            /\ \A j \in 1..(z - 1) : s[j].do = "copy" => s[j].in = {} /\ s[j].out = {<<"sign", 0>>}
      BY <1>1 DEF OnlyBakes
    <3>2. z \in 1..Len(q) /\ \A j \in 1..(z - 1) : j \in 1..Len(s)
      BY <2>4, <2>5
    <3>3. QED BY <2>5, <3>1, <3>2 DEF OnlyBakes
  <2>8. QED BY <1>1, <1>2, <2>4, <2>5, <2>6, <2>7
<1>3. CASE ~c.skipTb
  <2>1. /\ IsText(r) /\ Awaited(r) /\ OnlyBakes(r)
        /\ \A n \in 1..Len(r) : DecodeCommand(r[n])
        /\ \/ Cached(c, t) = c.cell[LockOf(c, t)] /\ Spares(r, <<"sign", 0>>)
           \/ Bakes(r)
    BY <1>3, DecodeBlockFacts
  <2> HIDE DEF r, s
  <2>2. IsText(r) /\ IsText(s)
    BY <1>1, <2>1
  <2>3. IsText(q)
    BY <1>0, <2>2, Joined
  <2>4. Awaited(q)
    BY <1>0, <1>1, <2>1, <2>2, AwaitedJoined
  <2>5. OnlyBakes(q)
    BY <1>0, <2>1, <2>2, OnlyBakesJoined
  <2>6. ASSUME NEW n \in 1..Len(q)
        PROVE  \/ n \in 1..Len(r) /\ q[n] = r[n]
               \/ q[n].op # "descramble" /\ DecodeCommand(q[n])
    <3> DEFINE i == n
    <3>1. i \in 1..Len(r \o s)
      BY <1>0
    <3> HIDE DEF i
    <3>2. \/ i \in 1..Len(r) /\ (r \o s)[i] = r[i]
          \/ \E j \in 1..Len(s) : i = j + Len(r) /\ (r \o s)[i] = s[j]
      BY <2>2, <3>1, Halves
    <3>3. QED BY <1>0, <1>1, <3>2 DEF i
  <2>7. \A n \in 1..Len(q) : DecodeCommand(q[n])
    BY <2>1, <2>6
  <2>8. Spares(r, <<"sign", 0>>) => Spares(q, <<"sign", 0>>)
    BY <1>0, <1>1, <2>2, SparesJoined
  <2>9. ASSUME Bakes(r) PROVE Bakes(q)
    <3>1. PICK g : Leaves(r, <<"sign", 0>>, g)
                   /\ \A n \in 1..Len(r) : r[n].op = "descramble" => Finds(r, n, <<"sign", 0>>, g)
      BY <2>9 DEF Bakes
    <3>2. Leaves(q, <<"sign", 0>>, g)
      BY <1>0, <1>1, <2>2, <3>1, LeavesJoined
    <3>3. ASSUME NEW n \in 1..Len(q), q[n].op = "descramble" PROVE Finds(q, n, <<"sign", 0>>, g)
      <4>1. n \in 1..Len(r) /\ q[n] = r[n]
        BY <2>6, <3>3
      <4>2. Len(r) \in Nat
        BY <2>2, SequenceIsText DEF IsText
      <4>3. n \in 1..(Len(r) + 1) /\ Finds(r, n, <<"sign", 0>>, g)
        BY <3>1, <3>3, <4>1, <4>2
      <4>4. QED BY <1>0, <2>2, <4>3, FindsInFirst
    <3>4. QED BY <3>2, <3>3 DEF Bakes
  <2>10. QED BY <1>3, <2>1, <2>3, <2>4, <2>5, <2>7, <2>8, <2>9
<1>4. QED
  BY <1>2, <1>3

LEMMA ForOnlyBakes ==
  ASSUME NEW tag, NEW q, Len(q) \in Nat, OnlyBakes(q)
  PROVE  OnlyBakes(For(tag, q))
<1> DEFINE f == For(tag, q)
<1>1. Len(f) = Len(q) /\ \A n \in 1..Len(q) : f[n] = Stamped(q[n], tag)
  BY ForText
<1> HIDE DEF f
<1>2. \A n \in 1..Len(q) : f[n].do = q[n].do /\ f[n].in = q[n].in /\ f[n].out = q[n].out
  BY <1>1, StampedFields
<1>3. PICK z \in 1..Len(q) :
        /\ q[z].do = "sync"
        /\ \A j \in 1..(z - 1) : q[j].do = "copy" => q[j].in = {} /\ q[j].out = {<<"sign", 0>>}
  BY DEF OnlyBakes
<1>4. z \in 1..Len(f) /\ \A j \in 1..(z - 1) : j \in 1..Len(q)
  BY <1>1
<1>5. OnlyBakes(f)
  BY <1>2, <1>3, <1>4 DEF OnlyBakes
<1>6. QED
  BY <1>5 DEF f

\* The same as it is issued, for block t.
LEMMA TailText ==
  ASSUME NEW c, NEW t, NEW f, f = For(Tag(c, t, 0, FALSE), DecodeBlock(c, t) \o Report)
  PROVE  /\ IsText(f) /\ Awaited(f) /\ OnlyBakes(f)
         /\ \A n \in 1..Len(f) : DecodeCommand(f[n])
         /\ \A n \in 1..Len(f) : f[n].tb = t /\ f[n].cell = c.cell[LockOf(c, t)]
         /\ c.skipTb => \A n \in 1..Len(f) : f[n].op # "descramble"
         /\ ~c.skipTb =>
              \/ Cached(c, t) = c.cell[LockOf(c, t)] /\ Spares(f, <<"sign", 0>>)
              \/ Bakes(f)
<1> DEFINE tag  == Tag(c, t, 0, FALSE)
           q    == DecodeBlock(c, t) \o Report
           cell == c.cell[LockOf(c, t)]
<1>1. /\ IsText(q) /\ Awaited(q) /\ OnlyBakes(q)
      /\ \A n \in 1..Len(q) : DecodeCommand(q[n])
      /\ c.skipTb => \A n \in 1..Len(q) : q[n].op # "descramble"
      /\ ~c.skipTb => (Cached(c, t) = cell /\ Spares(q, <<"sign", 0>>)) \/ Bakes(q)
  BY DecodeReport
<1>2. tag.tb = t /\ tag.cell = cell
  BY DEF Tag
<1>3. f = For(tag, q)
  OBVIOUS
<1> HIDE DEF tag, q, cell
<1>4. Len(q) \in Nat
  BY <1>1, SequenceIsText DEF IsText
<1>5. IsText(f) /\ Len(f) = Len(q) /\ \A n \in 1..Len(q) : f[n] = Stamped(q[n], tag)
  BY <1>3, <1>4, ForText
<1>6. ASSUME NEW n \in 1..Len(f)
      PROVE  /\ n \in 1..Len(q) /\ f[n].do = q[n].do /\ f[n].op = q[n].op
             /\ f[n].in = q[n].in /\ f[n].out = q[n].out /\ f[n].tb = t /\ f[n].cell = cell
  <2>1. n \in 1..Len(q) /\ f[n] = Stamped(q[n], tag)
    BY <1>5
  <2>2. /\ Stamped(q[n], tag).do = q[n].do /\ Stamped(q[n], tag).op = q[n].op
        /\ Stamped(q[n], tag).in = q[n].in /\ Stamped(q[n], tag).out = q[n].out
        /\ Stamped(q[n], tag).tb = tag.tb /\ Stamped(q[n], tag).cell = tag.cell
    BY StampedFields
  <2>3. QED BY <1>2, <2>1, <2>2
<1>7. Awaited(f) /\ (Spares(q, <<"sign", 0>>) => Spares(f, <<"sign", 0>>))
  BY <1>1, <1>3, <1>4, ForKeeps
<1>8. OnlyBakes(f)
  BY <1>1, <1>3, <1>4, ForOnlyBakes
<1>9. \A n \in 1..Len(f) : DecodeCommand(f[n])
  BY <1>1, <1>5, <1>6 DEF DecodeCommand, Fits
<1>10. ASSUME Bakes(q) PROVE Bakes(f)
  <2>1. PICK g : Leaves(q, <<"sign", 0>>, g)
                 /\ \A n \in 1..Len(q) : q[n].op = "descramble" => Finds(q, n, <<"sign", 0>>, g)
    BY <1>10 DEF Bakes
  <2>2. Leaves(f, <<"sign", 0>>, Stamped(g, tag))
    BY <1>3, <1>4, <2>1, ForKeeps
  <2>3. ASSUME NEW n \in 1..Len(f), f[n].op = "descramble"
        PROVE  Finds(f, n, <<"sign", 0>>, Stamped(g, tag))
    <3>1. n \in 1..Len(q) /\ q[n].op = "descramble"
      BY <1>6, <2>3
    <3>2. n \in 1..(Len(q) + 1) /\ Finds(q, n, <<"sign", 0>>, g)
      BY <1>4, <2>1, <3>1
    <3>3. QED BY <1>3, <1>4, <3>2, ForKeeps
  <2>4. QED BY <2>2, <2>3 DEF Bakes
<1>11. c.skipTb => \A n \in 1..Len(f) : f[n].op # "descramble"
  BY <1>1, <1>5, <1>6
<1>12. QED
  BY <1>1, <1>5, <1>6, <1>7, <1>8, <1>9, <1>10, <1>11 DEF cell

-----------------------------------------------------------------------------
\* The kernels issued again to be timed.

\* What none of them does.
TimedCommand(c) ==
  /\ Fits(c) /\ c.do # "copy"
  /\ <<"sign", 0>> \notin c.out /\ <<"xref", 0>> \notin c.out

LEMMA TimedCommands ==
  ASSUME NEW op, NEW in \in SUBSET Names, NEW out \in SUBSET Names,
         "sign" \notin out, "xref" \notin out
  PROVE  TimedCommand(Kernel(op, in, out))
  BY CommandFields, DevHas DEF TimedCommand

\* The window is the seventh of them, the tracker the sixteenth.
LEMMA TimedKernelsText ==
  /\ Len(TimedKernels) = 19
  /\ \A i \in 1..19 : TimedCommand(TimedKernels[i])
  /\ <<"rd_ptr", 0>> \in TimedKernels[7].out /\ <<"dt_out", 0>> \in TimedKernels[16].out
<1> DEFINE a == << Decimate, PssCorrelator, PssCfoEstimator, SssCorrelator, SsbFft,
                   PbchDmrsCorrelator >>
           b == SlotKernels(0)
           c == DecodeKernels
           ab == a \o b
<1>1. TimedKernels = ab \o c
  BY DEF TimedKernels
<1>2. IsText(a) /\ Len(a) = 6 /\ \A i \in 1..6 : TimedCommand(a[i])
  <2> DEFINE a1 == Decimate
             a2 == PssCorrelator
             a3 == PssCfoEstimator
             a4 == SssCorrelator
             a5 == SsbFft
             a6 == PbchDmrsCorrelator
  <2>1. /\ TimedCommand(a1) /\ TimedCommand(a2) /\ TimedCommand(a3)
        /\ TimedCommand(a4) /\ TimedCommand(a5) /\ TimedCommand(a6)
    BY TimedCommands DEF Decimate, PssCorrelator, PssCfoEstimator, SssCorrelator, SsbFft,
                         PbchDmrsCorrelator, Names
  <2>2. a = << a1, a2, a3, a4, a5, a6 >>
    OBVIOUS
  <2> HIDE DEF a, a1, a2, a3, a4, a5, a6
  <2>3. /\ a \in Seq({a1, a2, a3, a4, a5, a6}) /\ Len(a) = 6
        /\ a[1] = a1 /\ a[2] = a2 /\ a[3] = a3 /\ a[4] = a4 /\ a[5] = a5 /\ a[6] = a6
    BY <2>2
  <2>4. \A i \in 1..6 : i \in {1, 2, 3, 4, 5, 6}
    OBVIOUS
  <2>5. IsText(a)
    BY <2>3, SequenceIsText
  <2>6. QED BY <2>1, <2>3, <2>4, <2>5
<1>3. /\ IsText(b) /\ Len(b) = 10 /\ \A k \in 1..10 : TimedCommand(b[k])
      /\ <<"rd_ptr", 0>> \in b[1].out /\ <<"dt_out", 0>> \in b[10].out
  <2>1. IsText(b) /\ Len(b) = 10
    BY SlotText
  <2>2. \A k \in 1..10 : SlotKernel(b[k])
    BY SlotNumbers, SlotFacts
  <2>3. b[1].op = "win_slice" /\ b[10].op = "timing_tracker"
    BY SlotNumbers, SlotFacts
  <2> HIDE DEF b
  <2>4. \A k \in 1..10 : TimedCommand(b[k])
    BY <2>2 DEF SlotKernel, TimedCommand
  <2>5. <<"rd_ptr", 0>> \in b[1].out /\ <<"dt_out", 0>> \in b[10].out
    BY <2>2, <2>3 DEF SlotKernel
  <2>6. QED BY <2>1, <2>4, <2>5
<1>4. IsText(c) /\ Len(c) = 3 /\ \A j \in 1..3 : TimedCommand(c[j])
  <2>1. IsText(c) /\ Len(c) = 3 /\ \A j \in 1..3 : c[j] = Decode[j]
    BY DecodeText
  <2>2. \A j \in 1..3 : TimedCommand(Decode[j])
    BY DecodeFacts DEF DecodeCommand, TimedCommand
  <2>3. QED BY <2>1, <2>2
<1> HIDE DEF a, b, c
<1>5. IsText(a) /\ IsText(b)
  BY <1>2, <1>3
<1>6. /\ IsText(ab) /\ Len(ab) = Len(a) + Len(b)
      /\ \A j \in 1..Len(a) : ab[j] = a[j]
      /\ \A j \in 1..Len(b) : ab[j + Len(a)] = b[j]
  BY ONLY <1>5, Joined
<1> HIDE DEF ab
<1>7. IsText(ab) /\ IsText(c)
  BY <1>4, <1>6
<1>8. /\ Len(ab \o c) = Len(ab) + Len(c)
      /\ \A j \in 1..Len(ab) : (ab \o c)[j] = ab[j]
      /\ \A j \in 1..Len(c) : (ab \o c)[j + Len(ab)] = c[j]
  BY ONLY <1>7, Joined
<1>9. Len(ab) = 16 /\ Len(ab \o c) = 19
  BY <1>2, <1>3, <1>4, <1>6, <1>8
<1>10. \A i \in 1..16 : TimedCommand(ab[i])
  <2>1. ASSUME NEW i \in 1..16 PROVE TimedCommand(ab[i])
    <3> DEFINE j == i - 6
    <3>1. i \in 1..6 \/ (j \in 1..10 /\ i = j + 6)
      OBVIOUS
    <3> HIDE DEF j
    <3>2. QED BY <1>2, <1>3, <1>6, <3>1
  <2>2. QED BY <2>1
<1>11. \A i \in 1..19 : TimedCommand((ab \o c)[i])
  <2>1. ASSUME NEW i \in 1..19 PROVE TimedCommand((ab \o c)[i])
    <3> DEFINE j == i - 16
    <3>1. i \in 1..16 \/ (j \in 1..3 /\ i = j + 16)
      OBVIOUS
    <3> HIDE DEF j
    <3>2. CASE i \in 1..16
      <4>1. (ab \o c)[i] = ab[i]
        BY <1>8, <1>9, <3>2
      <4>2. QED BY <1>10, <3>2, <4>1
    <3>3. CASE j \in 1..3 /\ i = j + 16
      <4>1. (ab \o c)[i] = c[j]
        BY <1>4, <1>8, <1>9, <3>3
      <4>2. QED BY <1>4, <3>3, <4>1
    <3>4. QED BY <3>1, <3>2, <3>3
  <2>2. QED BY <2>1
<1>12. (ab \o c)[7] = b[1] /\ (ab \o c)[16] = b[10]
  <2>1. ab[7] = b[1] /\ ab[16] = b[10]
    <3>1. 1 \in 1..Len(b) /\ 10 \in 1..Len(b) /\ 1 + Len(a) = 7 /\ 10 + Len(a) = 16
      BY <1>2, <1>3
    <3>2. QED BY <1>6, <3>1
  <2>2. 7 \in 1..Len(ab) /\ 16 \in 1..Len(ab)
    BY <1>9
  <2>3. QED BY <1>8, <2>1, <2>2
<1>13. QED
  BY <1>1, <1>3, <1>9, <1>11, <1>12

\* Whatever the length of the loops: they end with a synchronisation, copy
\* nothing, and move the pointer and the offset somewhere.
LEMMA TimeKernelsText ==
  /\ IsText(TimeKernels) /\ Awaited(TimeKernels) /\ Len(TimeKernels) \in Nat
  /\ \A n \in 1..Len(TimeKernels) : TimedCommand(TimeKernels[n])
  /\ \E n \in 1..Len(TimeKernels) : <<"rd_ptr", 0>> \in TimeKernels[n].out
  /\ \E n \in 1..Len(TimeKernels) : <<"dt_out", 0>> \in TimeKernels[n].out
<1> DEFINE l == TimedLength
           K == TimedKernels
           f == TimeKernels
           i(n) == ((n - 1) \div l) + 1
           j(n) == ((n - 1) % l) + 1
<1>1. l \in Nat \ {0} /\ l > 1
  <2>1. TimedM \in Nat \ {0} /\ TimedK \in Nat /\ TimedK * (TimedM + 1) \in Nat
    BY ScopeAssumption
  <2>2. QED BY <2>1 DEF TimedLength, WarmUp
<1>2. /\ Len(K) = 19 /\ \A k \in 1..19 : TimedCommand(K[k])
      /\ <<"rd_ptr", 0>> \in K[7].out /\ <<"dt_out", 0>> \in K[16].out
  BY TimedKernelsText
<1>3. f = [n \in 1..(19 * l) |-> TimeKernel(K[i(n)])[j(n)]]
  BY <1>2, Zenon DEF TimeKernels
<1>4. \A k \in 1..19 : /\ \A m \in 1..l : TimedCommand(TimeKernel(K[k])[m])
                       /\ TimeKernel(K[k])[1] = K[k] /\ TimeKernel(K[k])[l].do = "sync"
  <2>1. ASSUME NEW k \in 1..19
        PROVE  /\ \A m \in 1..l : TimedCommand(TimeKernel(K[k])[m])
               /\ TimeKernel(K[k])[1] = K[k] /\ TimeKernel(K[k])[l].do = "sync"
    <3>1. \A m \in 1..l : TimeKernel(K[k])[m] =
            IF m = WarmUp \/ (m > WarmUp /\ (m - WarmUp) % (TimedM + 1) = 0)
            THEN Synchronize ELSE K[k]
      BY DEF TimeKernel
    <3>2. TimedCommand(Synchronize)
      BY SyncFields DEF TimedCommand
    <3>3. \A m \in 1..l : TimedCommand(TimeKernel(K[k])[m])
      BY <1>2, <3>1, <3>2
    <3>4. TimeKernel(K[k])[1] = K[k]
      <4>1. WarmUp \in Nat /\ WarmUp > 1 /\ 1 \in 1..l
        BY <1>1, ScopeAssumption DEF WarmUp
      <4> HIDE DEF l, K
      <4>2. QED BY <3>1, <4>1
    <3>5. TimeKernel(K[k])[l].do = "sync"
      <4> DEFINE d == TimedM + 1
                 x == TimedK * d
      <4>1. d \in Nat \ {0} /\ TimedK \in Nat /\ WarmUp \in Nat
        BY ScopeAssumption DEF WarmUp
      <4>2. x \in Nat /\ x % d = 0
        <5> HIDE DEF d
        <5>1. QED BY <4>1
      <4>3. l = WarmUp + x
        BY DEF TimedLength
      <4> HIDE DEF x, l, K
      <4>4. l = WarmUp \/ (l > WarmUp /\ l - WarmUp = x)
        BY <4>1, <4>2, <4>3
      <4>5. l \in 1..l
        BY <1>1
      <4>6. TimeKernel(K[k])[l] = Synchronize
        BY <3>1, <4>2, <4>4, <4>5
      <4>7. QED BY <4>6, SyncFields
    <3>6. QED BY <3>3, <3>4, <3>5
  <2>2. QED BY <2>1
<1> HIDE DEF K, l, f
<1>5. f = [n \in 1..(19 * l) |-> f[n]] /\ 19 * l \in Nat
  BY <1>1, <1>3
<1>6. IsText(f) /\ Len(f) = 19 * l /\ Len(f) \in Nat
  BY <1>5, FunctionIsText
<1>7. ASSUME NEW n \in 1..(19 * l)
      PROVE  f[n] = TimeKernel(K[i(n)])[j(n)] /\ i(n) \in 1..19 /\ j(n) \in 1..l
  <2>1. n - 1 \in Nat /\ n - 1 < 19 * l
    BY <1>1
  <2>2. i(n) \in 1..19 /\ j(n) \in 1..l
    BY <1>1, <2>1
  <2>3. f[n] = TimeKernel(K[i(n)])[j(n)]
    BY <1>3
  <2>4. QED BY <2>2, <2>3
<1>8. \A n \in 1..Len(f) : TimedCommand(f[n])
  <2> HIDE DEF i, j
  <2>1. QED BY <1>4, <1>6, <1>7
<1>9. f[Len(f)].do = "sync" /\ Len(f) \in 1..Len(f)
  <2> DEFINE n == 19 * l
  <2>1. n \in 1..(19 * l) /\ i(n) = 19 /\ j(n) = l
    BY <1>1
  <2>2. f[n] = TimeKernel(K[19])[l]
    BY <1>7, <2>1
  <2> HIDE DEF n, i, j
  <2>3. f[n].do = "sync" /\ n \in 1..n
    BY <1>4, <2>1, <2>2 DEF n
  <2>4. QED BY <1>6, <2>3 DEF n
<1>10. <<"rd_ptr", 0>> \in f[6 * l + 1].out /\ 6 * l + 1 \in 1..Len(f)
  <2> DEFINE n == 6 * l + 1
  <2>1. n \in 1..(19 * l) /\ i(n) = 7 /\ j(n) = 1
    BY <1>1
  <2>2. f[n] = TimeKernel(K[7])[1]
    BY <1>7, <2>1
  <2> HIDE DEF n, i, j
  <2>3. QED BY <1>2, <1>4, <1>6, <2>1, <2>2 DEF n
<1>11. <<"dt_out", 0>> \in f[15 * l + 1].out /\ 15 * l + 1 \in 1..Len(f)
  <2> DEFINE n == 15 * l + 1
  <2>1. n \in 1..(19 * l) /\ i(n) = 16 /\ j(n) = 1
    BY <1>1
  <2>2. f[n] = TimeKernel(K[16])[1]
    BY <1>7, <2>1
  <2> HIDE DEF n, i, j
  <2>3. QED BY <1>2, <1>4, <1>6, <2>1, <2>2 DEF n
<1>12. Awaited(f)
  <2>1. ASSUME NEW m \in 1..Len(f), f[m].do = "launch"
        PROVE  \E y \in (m + 1)..Len(f) : /\ f[y].do = "sync"
                                          /\ \A n \in (m + 1)..(y - 1) : Harmless(f[m], f[n])
    <3>1. m # Len(f)
      BY <1>9, <2>1
    <3>2. Len(f) \in (m + 1)..Len(f) /\ \A n \in (m + 1)..(Len(f) - 1) : n \in 1..Len(f)
      BY <1>6, <3>1
    <3>3. \A n \in (m + 1)..(Len(f) - 1) : Harmless(f[m], f[n])
      BY <1>8, <3>2 DEF TimedCommand, Harmless
    <3>4. QED BY <1>9, <3>2, <3>3
  <2>2. QED BY <2>1 DEF Awaited
<1>13. QED
  BY <1>6, <1>8, <1>10, <1>11, <1>12 DEF f

\* As issued behind block t, or not at all.
LEMMA TimedText ==
  ASSUME NEW c, NEW t,
         NEW f, f = For(Tag(c, t, 0, TRUE), IF c.timed THEN TimeKernels ELSE << >>)
  PROVE  /\ IsText(f) /\ Awaited(f)
         /\ \A n \in 1..Len(f) : TimedCommand(f[n]) /\ f[n].timed = TRUE
         /\ Spares(f, <<"sign", 0>>) /\ Spares(f, <<"xref", 0>>)
         /\ \/ Spares(f, <<"rd_ptr", 0>>) /\ Spares(f, <<"dt_out", 0>>)
            \/ \E rd, dt : /\ Leaves(f, <<"rd_ptr", 0>>, rd) /\ Leaves(f, <<"dt_out", 0>>, dt)
                           /\ rd.tb = dt.tb /\ rd.slot = dt.slot
<1> DEFINE tag == Tag(c, t, 0, TRUE)
           q   == IF c.timed THEN TimeKernels ELSE << >>
<1>1. /\ Awaited(q) /\ Len(q) \in Nat
      /\ \A n \in 1..Len(q) : TimedCommand(q[n])
      /\ \/ Len(q) = 0
         \/ /\ \E n \in 1..Len(q) : <<"rd_ptr", 0>> \in q[n].out
            /\ \E n \in 1..Len(q) : <<"dt_out", 0>> \in q[n].out
  <2>1. CASE c.timed
    <3>1. q = TimeKernels
      BY <2>1
    <3> HIDE DEF q
    <3>2. QED BY <3>1, TimeKernelsText
  <2>2. CASE ~c.timed
    <3>1. q = << >>
      BY <2>2
    <3> HIDE DEF q
    <3>2. Len(q) = 0
      BY <3>1, Singles
    <3>3. Awaited(q)
      BY <3>2, AwaitedCopies
    <3>4. QED BY <3>2, <3>3
  <2>3. QED BY <2>1, <2>2
<1>2. tag.tb = t /\ tag.slot = 0 /\ tag.timed = TRUE
  BY DEF Tag
<1>3. f = For(tag, q)
  OBVIOUS
<1> HIDE DEF tag, q
<1>4. IsText(f) /\ Len(f) = Len(q) /\ \A n \in 1..Len(q) : f[n] = Stamped(q[n], tag)
  BY <1>1, <1>3, ForText
<1>5. Awaited(f)
  BY <1>1, <1>3, ForKeeps
<1>6. ASSUME NEW n \in 1..Len(f)
      PROVE  /\ n \in 1..Len(q) /\ f[n].out = q[n].out /\ TimedCommand(f[n])
             /\ f[n].timed = TRUE /\ f[n].tb = t /\ f[n].slot = 0
  <2>1. n \in 1..Len(q) /\ f[n] = Stamped(q[n], tag) /\ TimedCommand(q[n])
    BY <1>1, <1>4
  <2>2. /\ Stamped(q[n], tag).do = q[n].do /\ Stamped(q[n], tag).in = q[n].in
        /\ Stamped(q[n], tag).out = q[n].out /\ Stamped(q[n], tag).timed = tag.timed
        /\ Stamped(q[n], tag).tb = tag.tb /\ Stamped(q[n], tag).slot = tag.slot
    BY StampedFields
  <2>3. TimedCommand(f[n])
    BY <2>1, <2>2 DEF TimedCommand, Fits
  <2>4. QED BY <1>2, <2>1, <2>2, <2>3
<1>7. Spares(f, <<"sign", 0>>) /\ Spares(f, <<"xref", 0>>)
  BY <1>6 DEF Spares, TimedCommand
<1>8. CASE Len(q) = 0
  <2>1. Spares(f, <<"rd_ptr", 0>>) /\ Spares(f, <<"dt_out", 0>>)
    <3>1. 1..Len(f) = {}
      <4>1. Len(f) = 0
        BY <1>4, <1>8
      <4>2. QED BY ONLY <4>1
    <3>2. QED BY <3>1 DEF Spares
  <2>2. QED BY <1>4, <1>5, <1>6, <1>7, <2>1
<1>9. ASSUME NEW v \in 1..Len(q), <<"rd_ptr", 0>> \in q[v].out,
             NEW w \in 1..Len(q), <<"dt_out", 0>> \in q[w].out
      PROVE  \E rd, dt : /\ Leaves(f, <<"rd_ptr", 0>>, rd) /\ Leaves(f, <<"dt_out", 0>>, dt)
                         /\ rd.tb = dt.tb /\ rd.slot = dt.slot
  <2>1. /\ v \in 1..Len(f) /\ <<"rd_ptr", 0>> \in f[v].out
        /\ w \in 1..Len(f) /\ <<"dt_out", 0>> \in f[w].out /\ Len(f) \in Nat
    BY <1>1, <1>4, <1>6, <1>9
  <2>2. PICK x \in v..Len(f) : Leaves(f, <<"rd_ptr", 0>>, f[x])
    BY <2>1, WritesLeave
  <2>3. PICK y \in w..Len(f) : Leaves(f, <<"dt_out", 0>>, f[y])
    BY <2>1, WritesLeave
  <2>4. x \in 1..Len(f) /\ y \in 1..Len(f)
    <3>1. x \in v..Len(f) /\ y \in w..Len(f) /\ v \in 1..Len(f) /\ w \in 1..Len(f)
      BY <2>1, <2>2, <2>3
    <3> DEFINE N == Len(f)
    <3>2. N \in Nat /\ x \in v..N /\ y \in w..N /\ v \in 1..N /\ w \in 1..N
      BY <2>1, <3>1
    <3> HIDE DEF N
    <3>3. x \in 1..N /\ y \in 1..N
      BY ONLY <3>2
    <3>4. QED BY <3>3 DEF N
  <2>5. f[x].tb = f[y].tb /\ f[x].slot = f[y].slot
    BY <1>6, <2>4
  <2>6. QED BY <2>2, <2>3, <2>5
<1>10. QED
  BY <1>1, <1>4, <1>5, <1>6, <1>7, <1>8, <1>9

-----------------------------------------------------------------------------
\* One turn.

\* The decode of block t: the LLRs are the block's, the pilots those found at
\* the turn's begin, the sign table too unless this turn uploads its own.
BlockOk(c, t, u, n) ==
  u[n].op = "descramble" /\ ~u[n].timed =>
    /\ ~c.skipTb /\ u[n].tb = t /\ u[n].cell = c.cell[LockOf(c, t)]
    /\ \A s \in Slots : \E l : Finds(u, n, Llr(s), l) /\ l.tb = t
    /\ \A m \in 1..(n - 1) : <<"xref", 0>> \notin u[m].out
    /\ \/ /\ Cached(c, t) = c.cell[LockOf(c, t)]
          /\ \A m \in 1..(n - 1) : <<"sign", 0>> \notin u[m].out
       \/ \E g : Finds(u, n, <<"sign", 0>>, g) /\ g.cell = c.cell[LockOf(c, t)]

\* Both stay true whatever follows.
LEMMA OkInFirst ==
  ASSUME NEW c, NEW t, NEW r, NEW s, IsText(r), IsText(s), NEW n \in 1..Len(r)
  PROVE  /\ WindowOk(c, t, r, n) => WindowOk(c, t, r \o s, n)
         /\ BlockOk(c, t, r, n) => BlockOk(c, t, r \o s, n)
<1> DEFINE u == r \o s
<1>1. IsText(r) /\ IsText(s)
  OBVIOUS
<1>2. Len(r) \in Nat /\ \A j \in 1..Len(r) : u[j] = r[j]
  BY ONLY <1>1, Joined
<1>3. \A b, x : Finds(r, n, b, x) => Finds(u, n, b, x)
  <2>1. IsText(r) /\ IsText(s) /\ n \in 1..(Len(r) + 1)
    BY <1>2
  <2>2. QED BY ONLY <2>1, FindsInFirst
<1> HIDE DEF u
<1>4. u[n] = r[n] /\ \A m \in 1..(n - 1) : u[m] = r[m]
  <2>1. \A m \in 1..(n - 1) : m \in 1..Len(r)
    BY <1>2
  <2>2. QED BY <1>2, <2>1
<1>5. ASSUME WindowOk(c, t, r, n), u[n].op = "win_slice", ~u[n].timed
      PROVE  /\ u[n].tb = t /\ u[n].fresh = (t = 1 \/ c.bad[t - 1])
             /\ \/ /\ u[n].slot = 0
                   /\ \A m \in 1..(n - 1) :
                        <<"rd_ptr", 0>> \notin u[m].out /\ <<"dt_out", 0>> \notin u[m].out
                \/ /\ u[n].slot > 0
                   /\ \E rd, dt :
                        /\ Finds(u, n, <<"rd_ptr", 0>>, rd) /\ Finds(u, n, <<"dt_out", 0>>, dt)
                        /\ rd.op = "win_slice" /\ dt.op = "timing_tracker" /\ rd.timed = FALSE
                        /\ rd.tb = t /\ dt.tb = t
                        /\ rd.slot = u[n].slot - 1 /\ dt.slot = u[n].slot - 1
  <2>1. /\ r[n].tb = t /\ r[n].fresh = (t = 1 \/ c.bad[t - 1])
        /\ \/ /\ r[n].slot = 0
              /\ \A m \in 1..(n - 1) :
                   <<"rd_ptr", 0>> \notin r[m].out /\ <<"dt_out", 0>> \notin r[m].out
           \/ /\ r[n].slot > 0
              /\ \E rd, dt :
                   /\ Finds(r, n, <<"rd_ptr", 0>>, rd) /\ Finds(r, n, <<"dt_out", 0>>, dt)
                   /\ rd.op = "win_slice" /\ dt.op = "timing_tracker" /\ rd.timed = FALSE
                   /\ rd.tb = t /\ dt.tb = t
                   /\ rd.slot = r[n].slot - 1 /\ dt.slot = r[n].slot - 1
    BY <1>4, <1>5 DEF WindowOk
  <2>2. QED BY <1>3, <1>4, <2>1
<1>6. ASSUME BlockOk(c, t, r, n), u[n].op = "descramble", ~u[n].timed
      PROVE  /\ ~c.skipTb /\ u[n].tb = t /\ u[n].cell = c.cell[LockOf(c, t)]
             /\ \A z \in Slots : \E l : Finds(u, n, Llr(z), l) /\ l.tb = t
             /\ \A m \in 1..(n - 1) : <<"xref", 0>> \notin u[m].out
             /\ \/ /\ Cached(c, t) = c.cell[LockOf(c, t)]
                   /\ \A m \in 1..(n - 1) : <<"sign", 0>> \notin u[m].out
                \/ \E g : Finds(u, n, <<"sign", 0>>, g) /\ g.cell = c.cell[LockOf(c, t)]
  <2>1. /\ ~c.skipTb /\ r[n].tb = t /\ r[n].cell = c.cell[LockOf(c, t)]
        /\ \A z \in Slots : \E l : Finds(r, n, Llr(z), l) /\ l.tb = t
        /\ \A m \in 1..(n - 1) : <<"xref", 0>> \notin r[m].out
        /\ \/ /\ Cached(c, t) = c.cell[LockOf(c, t)]
              /\ \A m \in 1..(n - 1) : <<"sign", 0>> \notin r[m].out
           \/ \E g : Finds(r, n, <<"sign", 0>>, g) /\ g.cell = c.cell[LockOf(c, t)]
    BY <1>4, <1>6 DEF BlockOk
  <2>2. QED BY <1>3, <1>4, <2>1
<1>7. WindowOk(c, t, r, n) => WindowOk(c, t, u, n)
  BY <1>5 DEF WindowOk
<1>8. BlockOk(c, t, r, n) => BlockOk(c, t, u, n)
  BY <1>6 DEF BlockOk
<1>9. QED
  BY <1>7, <1>8 DEF u

\* What a turn has to be made of, as far as it goes: all is waited for, windows
\* and decodes are in order.
Sound(c, t, u) ==
  /\ IsText(u) /\ Awaited(u)
  /\ \A n \in 1..Len(u) : Fits(u[n]) /\ WindowOk(c, t, u, n) /\ BlockOk(c, t, u, n)

\* What is appended without windows or decodes does no harm.
LEMMA SoundExtended ==
  ASSUME NEW c, NEW t, NEW r, NEW s, Sound(c, t, r), IsText(s), Awaited(s),
         \A n \in 1..Len(s) : /\ Fits(s[n])
                              /\ s[n].op \notin {"win_slice", "descramble"} \/ s[n].timed = TRUE
  PROVE  Sound(c, t, r \o s)
<1> DEFINE u == r \o s
<1>1. IsText(r) /\ IsText(s) /\ Awaited(r) /\ Awaited(s)
  BY DEF Sound
<1>2. IsText(u)
  BY <1>1, Joined
<1>3. Awaited(u)
  BY ONLY <1>1, AwaitedJoined
<1>4. ASSUME NEW n \in 1..Len(u) PROVE Fits(u[n]) /\ WindowOk(c, t, u, n) /\ BlockOk(c, t, u, n)
  <2>1. IsText(r) /\ IsText(s) /\ n \in 1..Len(r \o s)
    BY <1>1
  <2>2. \/ n \in 1..Len(r) /\ (r \o s)[n] = r[n]
        \/ \E j \in 1..Len(s) : n = j + Len(r) /\ (r \o s)[n] = s[j]
    BY ONLY <2>1, Halves
  <2>3. CASE n \in 1..Len(r) /\ u[n] = r[n]
    <3>1. Fits(r[n]) /\ WindowOk(c, t, r, n) /\ BlockOk(c, t, r, n)
      BY <2>3 DEF Sound
    <3>2. IsText(r) /\ IsText(s) /\ n \in 1..Len(r)
      BY <1>1, <2>3
    <3>3. WindowOk(c, t, u, n) /\ BlockOk(c, t, u, n)
      BY <3>1, <3>2, OkInFirst
    <3>4. QED BY <2>3, <3>1, <3>3
  <2>4. ASSUME NEW j \in 1..Len(s), u[n] = s[j]
        PROVE  Fits(u[n]) /\ WindowOk(c, t, u, n) /\ BlockOk(c, t, u, n)
    <3> HIDE DEF u
    <3>1. QED BY <2>4 DEF WindowOk, BlockOk
  <2>5. QED BY <2>2, <2>3, <2>4
<1>5. QED
  BY <1>2, <1>3, <1>4 DEF Sound

\* What the turn has left so far: pointer and offset of one command or slot, the
\* pilots as they were, the sign table of the cell if a block is decoded.
Kept(c, t, u) ==
  /\ \E rd, dt : /\ Leaves(u, <<"rd_ptr", 0>>, rd) /\ Leaves(u, <<"dt_out", 0>>, dt)
                 /\ rd.tb = dt.tb /\ rd.slot = dt.slot
  /\ Spares(u, <<"xref", 0>>)
  /\ ~c.skipTb => \/ Cached(c, t) = c.cell[LockOf(c, t)] /\ Spares(u, <<"sign", 0>>)
                  \/ \E g : Leaves(u, <<"sign", 0>>, g) /\ g.cell = c.cell[LockOf(c, t)]

\* What follows the loop of a block, by what matters of it.
TailPart(c, t, s) ==
  /\ IsText(s) /\ Awaited(s) /\ OnlyBakes(s)
  /\ \A n \in 1..Len(s) : DecodeCommand(s[n])
  /\ \A n \in 1..Len(s) : s[n].tb = t /\ s[n].cell = c.cell[LockOf(c, t)]
  /\ c.skipTb => \A n \in 1..Len(s) : s[n].op # "descramble"
  /\ ~c.skipTb =>
       \/ Cached(c, t) = c.cell[LockOf(c, t)] /\ Spares(s, <<"sign", 0>>)
       \/ Bakes(s)

LEMMA TailIsPart ==
  ASSUME NEW c, NEW t
  PROVE  TailPart(c, t, For(Tag(c, t, 0, FALSE), DecodeBlock(c, t) \o Report))
  BY TailText, Zenon DEF TailPart

\* The slots of a block and its decode.
LEMMA DecodedBlock ==
  ASSUME NEW c, NEW t, NEW r, LoopPart(c, t, r), NEW s, TailPart(c, t, s)
  PROVE  Sound(c, t, r \o s) /\ Kept(c, t, r \o s)
<1>1. /\ \A n \in 1..Len(r) : SlotKernel(r[n]) /\ r[n].timed = FALSE
      /\ Spares(r, <<"sign", 0>>) /\ Spares(r, <<"xref", 0>>)
      /\ \E rd, dt : /\ Leaves(r, <<"rd_ptr", 0>>, rd) /\ Leaves(r, <<"dt_out", 0>>, dt)
                     /\ rd.tb = t /\ dt.tb = t /\ rd.slot = dt.slot
      /\ \A z \in Slots : \E l : Leaves(r, Llr(z), l) /\ l.tb = t
  BY DEF LoopPart
<1>2. IsText(r) /\ \A n \in 1..Len(r) : WindowOk(c, t, r, n)
  BY DEF LoopPart
<1>3. /\ IsText(s) /\ Awaited(s) /\ OnlyBakes(s)
      /\ \A n \in 1..Len(s) : DecodeCommand(s[n])
      /\ \A n \in 1..Len(s) : s[n].tb = t /\ s[n].cell = c.cell[LockOf(c, t)]
      /\ c.skipTb => \A n \in 1..Len(s) : s[n].op # "descramble"
      /\ ~c.skipTb =>
           \/ Cached(c, t) = c.cell[LockOf(c, t)] /\ Spares(s, <<"sign", 0>>)
           \/ Bakes(s)
  BY DEF TailPart
<1> DEFINE u == r \o s
<1>4. IsText(r) /\ IsText(s)
  BY <1>2, <1>3
<1>5. /\ IsText(u) /\ Len(r) \in Nat /\ Len(s) \in Nat /\ Len(u) = Len(r) + Len(s)
      /\ \A j \in 1..Len(r) : u[j] = r[j]
      /\ \A j \in 1..Len(s) : u[j + Len(r)] = s[j]
  BY ONLY <1>4, Joined
<1>6. Awaited(u)
  <2>1. \A m \in 1..Len(r) : r[m].do # "copy"
    BY <1>1 DEF SlotKernel
  <2>2. PICK z \in 1..Len(s) :
          /\ s[z].do = "sync"
          /\ \A j \in 1..(z - 1) : s[j].do = "copy" => s[j].in = {} /\ s[j].out = {<<"sign", 0>>}
    BY <1>3 DEF OnlyBakes
  <2>3. ASSUME NEW j \in 1..(z - 1), NEW m \in 1..Len(r) PROVE Harmless(r[m], s[j])
    <3>1. Settled \cap {<<"sign", 0>>} = {}
      BY DEF Settled, LlrAll, Llr
    <3>2. r[m].op # "descramble" /\ <<"sign", 0>> \notin r[m].in \union r[m].out
      BY <1>1 DEF SlotKernel
    <3>3. s[j].do = "copy" => s[j].in = {} /\ s[j].out = {<<"sign", 0>>}
      BY <2>2
    <3>4. QED BY <3>1, <3>2, <3>3 DEF Harmless
  <2>4. \E y \in 1..Len(s) : /\ s[y].do = "sync"
                             /\ \A j \in 1..(y - 1), m \in 1..Len(r) : Harmless(r[m], s[j])
    BY <2>2, <2>3
  <2>5. IsText(r) /\ IsText(s) /\ Awaited(s)
    BY <1>3, <1>4
  <2>6. QED BY ONLY <2>1, <2>4, <2>5, AwaitedJoined
<1>7. ASSUME NEW j \in 1..Len(s), NEW n, n = j + Len(r)
      PROVE  WindowOk(c, t, u, n) /\ BlockOk(c, t, u, n)
  <2>1. u[n] = s[j] /\ j \in 1..(Len(s) + 1)
    BY <1>5, <1>7
  <2>2. u[n].op # "win_slice" /\ u[n].tb = t /\ u[n].cell = c.cell[LockOf(c, t)]
    BY <1>3, <2>1 DEF DecodeCommand
  <2>3. ASSUME NEW b, NEW x, Leaves(r, b, x), Spares(s, b) PROVE Finds(u, n, b, x)
    <3>1. \A m \in 1..(j - 1) : b \notin s[m].out
      <4>1. \A m \in 1..(j - 1) : m \in 1..Len(s)
        BY <1>5
      <4>2. QED BY <2>3, <4>1 DEF Spares
    <3>2. Finds(r \o s, j + Len(r), b, x)
      BY <1>4, <2>1, <2>3, <3>1, FindsAcross
    <3>3. QED BY <1>7, <3>2
  <2>4. ASSUME NEW b, Spares(r, b), Spares(s, b) PROVE \A m \in 1..(n - 1) : b \notin u[m].out
    <3>1. Spares(u, b)
      BY <1>4, <2>4, SparesJoined
    <3>2. \A m \in 1..(n - 1) : m \in 1..Len(u)
      BY <1>5, <1>7
    <3> HIDE DEF u
    <3>3. QED BY <3>1, <3>2 DEF Spares
  <2>5. \A z \in Slots : \E l : Finds(u, n, Llr(z), l) /\ l.tb = t
    <3>1. ASSUME NEW z \in Slots PROVE \E l : Finds(u, n, Llr(z), l) /\ l.tb = t
      <4>1. PICK l : Leaves(r, Llr(z), l) /\ l.tb = t
        BY <1>1
      <4>2. Spares(s, Llr(z))
        BY <1>3 DEF DecodeCommand, Spares
      <4>3. Finds(u, n, Llr(z), l)
        BY <2>3, <4>1, <4>2
      <4> HIDE DEF u
      <4>4. QED BY <4>1, <4>3
    <3>2. QED BY <3>1
  <2>6. \A m \in 1..(n - 1) : <<"xref", 0>> \notin u[m].out
    <3>1. Spares(s, <<"xref", 0>>)
      BY <1>3 DEF DecodeCommand, Spares
    <3>2. QED BY <1>1, <2>4, <3>1
  <2>7. ASSUME u[n].op = "descramble", ~c.skipTb
        PROVE  \/ /\ Cached(c, t) = c.cell[LockOf(c, t)]
                  /\ \A m \in 1..(n - 1) : <<"sign", 0>> \notin u[m].out
               \/ \E g : Finds(u, n, <<"sign", 0>>, g) /\ g.cell = c.cell[LockOf(c, t)]
    <3>1. CASE Cached(c, t) = c.cell[LockOf(c, t)] /\ Spares(s, <<"sign", 0>>)
      <4>1. \A m \in 1..(n - 1) : <<"sign", 0>> \notin u[m].out
        BY <1>1, <2>4, <3>1
      <4> HIDE DEF u
      <4>2. QED BY <3>1, <4>1
    <3>2. CASE Bakes(s)
      <4>1. PICK g : Leaves(s, <<"sign", 0>>, g)
                     /\ \A m \in 1..Len(s) : s[m].op = "descramble" => Finds(s, m, <<"sign", 0>>, g)
        BY <3>2 DEF Bakes
      <4>2. Finds(s, j, <<"sign", 0>>, g)
        BY <2>1, <2>7, <4>1
      <4>3. Finds(r \o s, j + Len(r), <<"sign", 0>>, g)
        BY <1>4, <2>1, <4>2, FindsInSecond
      <4>4. PICK w \in 1..(j - 1) : g = s[w]
        BY <4>2 DEF Finds
      <4>5. w \in 1..Len(s)
        BY <1>5, <4>4
      <4>6. g.cell = c.cell[LockOf(c, t)]
        BY <1>3, <4>4, <4>5
      <4>7. Finds(u, n, <<"sign", 0>>, g)
        BY <1>7, <4>3
      <4> HIDE DEF u
      <4>8. QED BY <4>6, <4>7
    <3>3. QED BY <1>3, <2>7, <3>1, <3>2
  <2>8. c.skipTb => u[n].op # "descramble"
    BY <1>3, <2>1
  <2> HIDE DEF u
  <2>9. BlockOk(c, t, u, n)
    BY <2>2, <2>5, <2>6, <2>7, <2>8 DEF BlockOk
  <2>10. QED BY <2>2, <2>9 DEF WindowOk
<1>8. ASSUME NEW n \in 1..Len(r) PROVE WindowOk(c, t, u, n) /\ BlockOk(c, t, u, n)
  <2>1. WindowOk(c, t, r, n) /\ BlockOk(c, t, r, n)
    BY <1>1, <1>2 DEF BlockOk, SlotKernel
  <2>2. QED BY <1>4, <2>1, OkInFirst
<1>9. ASSUME NEW n \in 1..Len(u) PROVE Fits(u[n]) /\ WindowOk(c, t, u, n) /\ BlockOk(c, t, u, n)
  <2>1. IsText(r) /\ IsText(s) /\ n \in 1..Len(r \o s)
    BY <1>4
  <2>2. \/ n \in 1..Len(r) /\ (r \o s)[n] = r[n]
        \/ \E j \in 1..Len(s) : n = j + Len(r) /\ (r \o s)[n] = s[j]
    BY ONLY <2>1, Halves
  <2>3. Fits(u[n])
    BY <1>1, <1>3, <2>2 DEF SlotKernel, DecodeCommand
  <2> HIDE DEF u
  <2>4. QED BY <1>7, <1>8, <2>2, <2>3
<1>10. Sound(c, t, u)
  <2> HIDE DEF u
  <2>1. QED BY <1>5, <1>6, <1>9 DEF Sound
<1>11. \A b, x : Leaves(r, b, x) /\ Spares(s, b) => Leaves(u, b, x)
  BY <1>4, LeavesJoined
<1>12. \E rd, dt : /\ Leaves(u, <<"rd_ptr", 0>>, rd) /\ Leaves(u, <<"dt_out", 0>>, dt)
                   /\ rd.tb = dt.tb /\ rd.slot = dt.slot
  <2>1. Spares(s, <<"rd_ptr", 0>>) /\ Spares(s, <<"dt_out", 0>>)
    BY <1>3 DEF DecodeCommand, Spares
  <2>2. PICK rd, dt : /\ Leaves(r, <<"rd_ptr", 0>>, rd) /\ Leaves(r, <<"dt_out", 0>>, dt)
                      /\ rd.tb = t /\ dt.tb = t /\ rd.slot = dt.slot
    BY <1>1
  <2> HIDE DEF u
  <2>3. QED BY <1>11, <2>1, <2>2
<1>13. Spares(u, <<"xref", 0>>)
  <2>1. Spares(s, <<"xref", 0>>)
    BY <1>3 DEF DecodeCommand, Spares
  <2>2. QED BY <1>1, <1>4, <2>1, SparesJoined
<1>14. ASSUME ~c.skipTb
       PROVE  \/ Cached(c, t) = c.cell[LockOf(c, t)] /\ Spares(u, <<"sign", 0>>)
              \/ \E g : Leaves(u, <<"sign", 0>>, g) /\ g.cell = c.cell[LockOf(c, t)]
  <2>1. CASE Cached(c, t) = c.cell[LockOf(c, t)] /\ Spares(s, <<"sign", 0>>)
    <3>1. Spares(u, <<"sign", 0>>)
      BY <1>1, <1>4, <2>1, SparesJoined
    <3>2. QED BY <2>1, <3>1
  <2>2. CASE Bakes(s)
    <3>1. PICK g : Leaves(s, <<"sign", 0>>, g)
      BY <2>2 DEF Bakes
    <3>2. PICK w \in 1..(Len(s) + 1 - 1) : g = s[w]
      BY <3>1 DEF Leaves, Finds
    <3>3. w \in 1..Len(s)
      BY <1>5, <3>2
    <3>4. g.cell = c.cell[LockOf(c, t)]
      BY <1>3, <3>2, <3>3
    <3>5. Leaves(u, <<"sign", 0>>, g)
      BY <1>4, <3>1, LeavesJoined
    <3> HIDE DEF u
    <3>6. QED BY <3>4, <3>5
  <2>3. QED BY <1>3, <1>14, <2>1, <2>2
<1>15. Kept(c, t, u)
  <2> HIDE DEF u
  <2>1. QED BY <1>12, <1>13, <1>14 DEF Kept
<1>16. QED
  BY <1>10, <1>15

\* With the kernels issued again to be timed.
LEMMA WholeBlock ==
  ASSUME NEW c, NEW t, NEW u, u = Block(c, t)
  PROVE  Sound(c, t, u) /\ Kept(c, t, u)
<1> DEFINE a == SlotLoop(c, t)
           b == For(Tag(c, t, 0, FALSE), DecodeBlock(c, t) \o Report)
           r == a \o b
           s == For(Tag(c, t, 0, TRUE), IF c.timed THEN TimeKernels ELSE << >>)
<1>1. u = r \o s
  BY DEF Block
<1>2. Sound(c, t, r) /\ Kept(c, t, r)
  <2>1. LoopPart(c, t, a)
    BY LoopIsPart
  <2>2. TailPart(c, t, b)
    BY TailIsPart
  <2> HIDE DEF a, b
  <2>3. QED BY <2>1, <2>2, DecodedBlock
<1>3. /\ IsText(s) /\ Awaited(s)
      /\ \A n \in 1..Len(s) : TimedCommand(s[n]) /\ s[n].timed = TRUE
      /\ Spares(s, <<"sign", 0>>) /\ Spares(s, <<"xref", 0>>)
      /\ \/ Spares(s, <<"rd_ptr", 0>>) /\ Spares(s, <<"dt_out", 0>>)
         \/ \E rd, dt : /\ Leaves(s, <<"rd_ptr", 0>>, rd) /\ Leaves(s, <<"dt_out", 0>>, dt)
                        /\ rd.tb = dt.tb /\ rd.slot = dt.slot
  BY TimedText
<1> HIDE DEF r, s
<1>4. IsText(r) /\ IsText(s)
  BY <1>2, <1>3 DEF Sound
<1>5. Sound(c, t, u)
  <2>1. \A n \in 1..Len(s) : Fits(s[n]) /\ s[n].timed = TRUE
    BY <1>3 DEF TimedCommand
  <2>2. QED BY <1>1, <1>2, <1>3, <2>1, SoundExtended
<1>6. \A e, x : /\ Leaves(s, e, x) => Leaves(u, e, x)
                /\ Leaves(r, e, x) /\ Spares(s, e) => Leaves(u, e, x)
  BY <1>1, <1>4, LeavesJoined
<1>7. \A e : Spares(r, e) /\ Spares(s, e) => Spares(u, e)
  BY <1>1, <1>4, SparesJoined
<1>8. \E rd, dt : /\ Leaves(u, <<"rd_ptr", 0>>, rd) /\ Leaves(u, <<"dt_out", 0>>, dt)
                  /\ rd.tb = dt.tb /\ rd.slot = dt.slot
  <2>1. CASE Spares(s, <<"rd_ptr", 0>>) /\ Spares(s, <<"dt_out", 0>>)
    <3>1. PICK rd, dt : /\ Leaves(r, <<"rd_ptr", 0>>, rd) /\ Leaves(r, <<"dt_out", 0>>, dt)
                        /\ rd.tb = dt.tb /\ rd.slot = dt.slot
      BY <1>2 DEF Kept
    <3>2. QED BY <1>6, <2>1, <3>1
  <2>2. CASE \E rd, dt : /\ Leaves(s, <<"rd_ptr", 0>>, rd) /\ Leaves(s, <<"dt_out", 0>>, dt)
                         /\ rd.tb = dt.tb /\ rd.slot = dt.slot
    BY <1>6, <2>2
  <2>3. QED BY <1>3, <2>1, <2>2
<1>9. Spares(u, <<"xref", 0>>)
  BY <1>2, <1>3, <1>7 DEF Kept
<1>10. ~c.skipTb =>
         \/ Cached(c, t) = c.cell[LockOf(c, t)] /\ Spares(u, <<"sign", 0>>)
         \/ \E g : Leaves(u, <<"sign", 0>>, g) /\ g.cell = c.cell[LockOf(c, t)]
  BY <1>2, <1>3, <1>6, <1>7 DEF Kept
<1>11. QED
  BY <1>5, <1>8, <1>9, <1>10 DEF Kept

\* What a turn leaves: after a bad block the pointer, the offset and the pilots
\* of a new acquisition, otherwise those of the turn.
TurnLeaves(c, t, u) ==
  /\ \E rd, dt : /\ Leaves(u, <<"rd_ptr", 0>>, rd) /\ Leaves(u, <<"dt_out", 0>>, dt)
                 /\ rd.tb = dt.tb /\ rd.slot = dt.slot
                 /\ c.bad[t] => rd.op = "set_rd_ptr" /\ rd.tb = t + 1
  /\ c.bad[t] => \E x : Leaves(u, <<"xref", 0>>, x) /\ x.cell = c.cell[LockOf(c, t + 1)]
  /\ ~c.bad[t] => Spares(u, <<"xref", 0>>)
  /\ ~c.skipTb => \/ Cached(c, t) = c.cell[LockOf(c, t)] /\ Spares(u, <<"sign", 0>>)
                  \/ \E g : Leaves(u, <<"sign", 0>>, g) /\ g.cell = c.cell[LockOf(c, t)]

LEMMA WholeTurn ==
  ASSUME NEW c, NEW t, NEW u, u = Turn(c, t)
  PROVE  Sound(c, t, u) /\ TurnLeaves(c, t, u)
<1> DEFINE r == Block(c, t)
           s == IF c.bad[t] THEN Locked(c, t + 1) ELSE << >>
<1>1. u = r \o s
  BY DEF Turn
<1>2. Sound(c, t, r) /\ Kept(c, t, r)
  BY WholeBlock
<1>3. /\ IsText(s) /\ Awaited(s) /\ \A n \in 1..Len(s) : Neutral(s[n])
      /\ c.bad[t] => \E rd, x : /\ Leaves(s, <<"rd_ptr", 0>>, rd) /\ Leaves(s, <<"dt_out", 0>>, rd)
                                /\ Leaves(s, <<"xref", 0>>, x)
                                /\ rd.op = "set_rd_ptr" /\ rd.tb = t + 1 /\ rd.slot = 0
                                /\ x.cell = c.cell[LockOf(c, t + 1)]
      /\ ~c.bad[t] => \A b : Spares(s, b)
  <2>1. CASE c.bad[t]
    <3>1. s = Locked(c, t + 1)
      BY <2>1
    <3> HIDE DEF s
    <3>2. /\ Part(s)
          /\ \E rd, x : /\ Leaves(s, <<"rd_ptr", 0>>, rd) /\ Leaves(s, <<"dt_out", 0>>, rd)
                        /\ Leaves(s, <<"xref", 0>>, x)
                        /\ rd.op = "set_rd_ptr" /\ rd.tb = t + 1 /\ rd.slot = 0
                        /\ x.cell = c.cell[LockOf(c, t + 1)]
      BY <3>1, LockedText
    <3>3. QED BY <2>1, <3>2 DEF Part
  <2>2. CASE ~c.bad[t]
    <3>1. s = << >>
      BY <2>2
    <3> HIDE DEF s
    <3>2. IsText(s) /\ Len(s) = 0
      BY <3>1, Singles
    <3>3. \A n \in 1..Len(s) : FALSE
      BY <3>2
    <3>4. Awaited(s)
      BY <3>3, AwaitedCopies
    <3>5. QED BY <2>2, <3>2, <3>3, <3>4 DEF Spares
  <2>3. QED BY <2>1, <2>2
<1> HIDE DEF r, s
<1>4. IsText(r) /\ IsText(s)
  BY <1>2, <1>3 DEF Sound
<1>5. Sound(c, t, u)
  <2>1. \A n \in 1..Len(s) : Fits(s[n]) /\ s[n].op \notin {"win_slice", "descramble"}
    BY <1>3 DEF Neutral
  <2>2. QED BY <1>1, <1>2, <1>3, <2>1, SoundExtended
<1>6. \A e, x : /\ Leaves(s, e, x) => Leaves(u, e, x)
                /\ Leaves(r, e, x) /\ Spares(s, e) => Leaves(u, e, x)
  BY <1>1, <1>4, LeavesJoined
<1>7. \A e : Spares(r, e) /\ Spares(s, e) => Spares(u, e)
  BY <1>1, <1>4, SparesJoined
<1>8. Spares(s, <<"sign", 0>>)
  BY <1>3 DEF Neutral, Spares
<1>9. \E rd, dt : /\ Leaves(u, <<"rd_ptr", 0>>, rd) /\ Leaves(u, <<"dt_out", 0>>, dt)
                  /\ rd.tb = dt.tb /\ rd.slot = dt.slot
                  /\ c.bad[t] => rd.op = "set_rd_ptr" /\ rd.tb = t + 1
  <2>1. CASE c.bad[t]
    BY <1>3, <1>6, <2>1
  <2>2. CASE ~c.bad[t]
    <3>1. PICK rd, dt : /\ Leaves(r, <<"rd_ptr", 0>>, rd) /\ Leaves(r, <<"dt_out", 0>>, dt)
                        /\ rd.tb = dt.tb /\ rd.slot = dt.slot
      BY <1>2 DEF Kept
    <3>2. QED BY <1>3, <1>6, <2>2, <3>1
  <2>3. QED BY <2>1, <2>2
<1>10. c.bad[t] => \E x : Leaves(u, <<"xref", 0>>, x) /\ x.cell = c.cell[LockOf(c, t + 1)]
  BY <1>3, <1>6
<1>11. ~c.bad[t] => Spares(u, <<"xref", 0>>)
  BY <1>2, <1>3, <1>7 DEF Kept
<1>12. ~c.skipTb => \/ Cached(c, t) = c.cell[LockOf(c, t)] /\ Spares(u, <<"sign", 0>>)
                    \/ \E g : Leaves(u, <<"sign", 0>>, g) /\ g.cell = c.cell[LockOf(c, t)]
  BY <1>2, <1>6, <1>7, <1>8 DEF Kept
<1>13. QED
  BY <1>5, <1>9, <1>10, <1>11, <1>12 DEF TurnLeaves

-----------------------------------------------------------------------------
\* All turns.

\* A window starts from a pointer and an offset of one slot: in a block, the one
\* before; after an acquisition, those it set.
WindowGood(q, n) ==
  q[n].op = "win_slice" /\ ~q[n].timed =>
    \E rd, dt :
      /\ Finds(q, n, <<"rd_ptr", 0>>, rd) /\ Finds(q, n, <<"dt_out", 0>>, dt)
      /\ rd.tb = dt.tb /\ rd.slot = dt.slot
      /\ q[n].slot > 0 => /\ rd.op = "win_slice" /\ dt.op = "timing_tracker" /\ ~rd.timed
                          /\ rd.tb = q[n].tb /\ rd.slot = q[n].slot - 1
      /\ q[n].slot = 0 /\ q[n].fresh => rd.op = "set_rd_ptr" /\ rd.tb = q[n].tb

\* A block is decoded from its own LLRs, under one cell.
BlockGood(q, n) ==
  q[n].op = "descramble" /\ ~q[n].timed =>
    /\ \A s \in Slots : \E l : Finds(q, n, Llr(s), l) /\ l.tb = q[n].tb
    /\ \E g : Finds(q, n, <<"sign", 0>>, g) /\ g.cell = q[n].cell
    /\ \E x : Finds(q, n, <<"xref", 0>>, x) /\ x.cell = q[n].cell

\* What is issued, at any turn ...
Good(q) ==
  /\ IsText(q) /\ Awaited(q)
  /\ \A n \in 1..Len(q) : Fits(q[n]) /\ WindowGood(q, n) /\ BlockGood(q, n)

\* ... and what it leaves for turn t: pointer and offset of one slot, of the
\* acquisition if there was one; the pilots of the cell; the sign table of the
\* cell of the turn before.
Ready(c, t, q) ==
  /\ \E rd, dt : /\ Leaves(q, <<"rd_ptr", 0>>, rd) /\ Leaves(q, <<"dt_out", 0>>, dt)
                 /\ rd.tb = dt.tb /\ rd.slot = dt.slot
                 /\ t = 1 \/ c.bad[t - 1] => rd.op = "set_rd_ptr" /\ rd.tb = t
  /\ \E x : Leaves(q, <<"xref", 0>>, x) /\ x.cell = c.cell[LockOf(c, t)]
  /\ ~c.skipTb => t = 1 \/ \E g : Leaves(q, <<"sign", 0>>, g) /\ g.cell = Cached(c, t)

LEMMA GoodInFirst ==
  ASSUME NEW r, NEW s, IsText(r), IsText(s), NEW n \in 1..Len(r)
  PROVE  /\ WindowGood(r, n) => WindowGood(r \o s, n)
         /\ BlockGood(r, n) => BlockGood(r \o s, n)
<1> DEFINE u == r \o s
<1>1. IsText(r) /\ IsText(s)
  OBVIOUS
<1>2. Len(r) \in Nat /\ \A j \in 1..Len(r) : u[j] = r[j]
  BY ONLY <1>1, Joined
<1>3. \A b, x : Finds(r, n, b, x) => Finds(u, n, b, x)
  <2>1. IsText(r) /\ IsText(s) /\ n \in 1..(Len(r) + 1)
    BY <1>2
  <2>2. QED BY ONLY <2>1, FindsInFirst
<1> HIDE DEF u
<1>4. u[n] = r[n]
  BY <1>2
<1>5. WindowGood(r, n) => WindowGood(u, n)
  BY <1>3, <1>4 DEF WindowGood
<1>6. BlockGood(r, n) => BlockGood(u, n)
  BY <1>3, <1>4 DEF BlockGood
<1>7. QED
  BY <1>5, <1>6 DEF u

\* A lock lasts until a block is bad, and the first is the first cell's.
LEMMA LockStays ==
  ASSUME NEW c, NEW t \in 1..MaxTb, ~c.bad[t]
  PROVE  LockOf(c, t + 1) = LockOf(c, t)
<1> DEFINE T == {u \in 1..((t + 1) - 1) : c.bad[u]}
           U == {u \in 1..(t - 1) : c.bad[u]}
<1>1. T = U
  OBVIOUS
<1>2. LockOf(c, t + 1) = 1 + Cardinality(T) /\ LockOf(c, t) = 1 + Cardinality(U)
  BY DEF LockOf
<1> HIDE DEF T, U
<1>3. QED
  BY <1>1, <1>2

LEMMA FirstLock ==
  ASSUME NEW c \in Environments
  PROVE  Cached(c, 1) # c.cell[LockOf(c, 1)]
<1>1. {u \in 1..(1 - 1) : c.bad[u]} = {}
  OBVIOUS
<1>2. LockOf(c, 1) = 1
  BY <1>1, FS_EmptySet DEF LockOf
<1>3. c.cell \in [1..(MaxTb + 1) -> Cells] /\ 1 \in 1..(MaxTb + 1)
  BY ScopeAssumption DEF Environments
<1>4. QED
  BY <1>2, <1>3, ScopeAssumption DEF Cached

\* One more turn: what it needs, the turns before have left.
LEMMA TurnFollows ==
  ASSUME NEW c \in Environments, NEW t \in 1..MaxTb,
         NEW q, Good(q), Ready(c, t, q),
         NEW u, Sound(c, t, u), TurnLeaves(c, t, u)
  PROVE  Good(q \o u) /\ Ready(c, t + 1, q \o u)
<1> DEFINE p == q \o u
<1>1. IsText(q) /\ IsText(u) /\ Awaited(q) /\ Awaited(u)
  BY DEF Good, Sound
<1>2. /\ IsText(p) /\ Len(q) \in Nat /\ Len(u) \in Nat /\ Len(p) = Len(q) + Len(u)
      /\ \A j \in 1..Len(q) : p[j] = q[j]
      /\ \A j \in 1..Len(u) : p[j + Len(q)] = u[j]
  <2>1. IsText(q) /\ IsText(u)
    BY <1>1
  <2>2. QED BY ONLY <2>1, Joined
<1>3. Awaited(p)
  BY ONLY <1>1, AwaitedJoined
<1>4. Cached(c, t) = c.cell[LockOf(c, t)] => t # 1
  BY FirstLock
<1>5. ASSUME NEW j \in 1..Len(u), NEW n, n = j + Len(q)
      PROVE  Fits(p[n]) /\ WindowGood(p, n) /\ BlockGood(p, n)
  <2>1. p[n] = u[j] /\ j \in 1..(Len(u) + 1)
    BY <1>2, <1>5
  <2>2. Fits(u[j]) /\ WindowOk(c, t, u, j) /\ BlockOk(c, t, u, j)
    BY DEF Sound
  <2>3. \A b, x : Finds(u, j, b, x) => Finds(p, n, b, x)
    <3>1. IsText(q) /\ IsText(u) /\ j \in 1..(Len(u) + 1)
      BY <1>1, <2>1
    <3>2. \A b, x : Finds(u, j, b, x) => Finds(q \o u, j + Len(q), b, x)
      BY ONLY <3>1, FindsInSecond
    <3>3. QED BY <1>5, <3>2
  <2>4. \A b, x : Leaves(q, b, x) /\ (\A m \in 1..(j - 1) : b \notin u[m].out) => Finds(p, n, b, x)
    <3>1. IsText(q) /\ IsText(u) /\ j \in 1..(Len(u) + 1)
      BY <1>1, <2>1
    <3>2. \A b, x : Leaves(q, b, x) /\ (\A m \in 1..(j - 1) : b \notin u[m].out)
                      => Finds(q \o u, j + Len(q), b, x)
      BY ONLY <3>1, FindsAcross
    <3>3. QED BY <1>5, <3>2
  <2> HIDE DEF p
  <2>5. WindowGood(p, n)
    <3>1. SUFFICES ASSUME p[n].op = "win_slice", ~p[n].timed
                   PROVE  \E rd, dt :
                            /\ Finds(p, n, <<"rd_ptr", 0>>, rd) /\ Finds(p, n, <<"dt_out", 0>>, dt)
                            /\ rd.tb = dt.tb /\ rd.slot = dt.slot
                            /\ p[n].slot > 0 =>
                                 /\ rd.op = "win_slice" /\ dt.op = "timing_tracker" /\ ~rd.timed
                                 /\ rd.tb = p[n].tb /\ rd.slot = p[n].slot - 1
                            /\ p[n].slot = 0 /\ p[n].fresh =>
                                 rd.op = "set_rd_ptr" /\ rd.tb = p[n].tb
      BY DEF WindowGood
    <3>2. /\ p[n].tb = t /\ p[n].fresh = (t = 1 \/ c.bad[t - 1])
          /\ \/ /\ p[n].slot = 0
                /\ \A m \in 1..(j - 1) :
                     <<"rd_ptr", 0>> \notin u[m].out /\ <<"dt_out", 0>> \notin u[m].out
             \/ /\ p[n].slot > 0
                /\ \E rd, dt :
                     /\ Finds(u, j, <<"rd_ptr", 0>>, rd) /\ Finds(u, j, <<"dt_out", 0>>, dt)
                     /\ rd.op = "win_slice" /\ dt.op = "timing_tracker" /\ rd.timed = FALSE
                     /\ rd.tb = t /\ dt.tb = t
                     /\ rd.slot = p[n].slot - 1 /\ dt.slot = p[n].slot - 1
      BY <2>1, <2>2, <3>1 DEF WindowOk
    <3>3. CASE p[n].slot = 0 /\ \A m \in 1..(j - 1) :
                     <<"rd_ptr", 0>> \notin u[m].out /\ <<"dt_out", 0>> \notin u[m].out
      <4>1. PICK rd, dt : /\ Leaves(q, <<"rd_ptr", 0>>, rd) /\ Leaves(q, <<"dt_out", 0>>, dt)
                          /\ rd.tb = dt.tb /\ rd.slot = dt.slot
                          /\ t = 1 \/ c.bad[t - 1] => rd.op = "set_rd_ptr" /\ rd.tb = t
        BY DEF Ready
      <4>2. Finds(p, n, <<"rd_ptr", 0>>, rd) /\ Finds(p, n, <<"dt_out", 0>>, dt)
        BY <2>4, <3>3, <4>1
      <4>3. ~(p[n].slot > 0)
        BY <3>3
      <4>4. QED BY <3>2, <4>1, <4>2, <4>3
    <3>4. CASE p[n].slot > 0 /\ \E rd, dt :
                     /\ Finds(u, j, <<"rd_ptr", 0>>, rd) /\ Finds(u, j, <<"dt_out", 0>>, dt)
                     /\ rd.op = "win_slice" /\ dt.op = "timing_tracker" /\ rd.timed = FALSE
                     /\ rd.tb = t /\ dt.tb = t
                     /\ rd.slot = p[n].slot - 1 /\ dt.slot = p[n].slot - 1
      <4>1. p[n].slot # 0
        BY <3>4
      <4>2. QED BY <2>3, <3>2, <3>4, <4>1
    <3>5. QED BY <3>2, <3>3, <3>4
  <2>6. BlockGood(p, n)
    <3>1. SUFFICES ASSUME p[n].op = "descramble", ~p[n].timed
                   PROVE  /\ \A s \in Slots : \E l : Finds(p, n, Llr(s), l) /\ l.tb = p[n].tb
                          /\ \E g : Finds(p, n, <<"sign", 0>>, g) /\ g.cell = p[n].cell
                          /\ \E x : Finds(p, n, <<"xref", 0>>, x) /\ x.cell = p[n].cell
      BY DEF BlockGood
    <3>2. /\ ~c.skipTb /\ p[n].tb = t /\ p[n].cell = c.cell[LockOf(c, t)]
          /\ \A s \in Slots : \E l : Finds(u, j, Llr(s), l) /\ l.tb = t
          /\ \A m \in 1..(j - 1) : <<"xref", 0>> \notin u[m].out
          /\ \/ /\ Cached(c, t) = c.cell[LockOf(c, t)]
                /\ \A m \in 1..(j - 1) : <<"sign", 0>> \notin u[m].out
             \/ \E g : Finds(u, j, <<"sign", 0>>, g) /\ g.cell = c.cell[LockOf(c, t)]
      BY <2>1, <2>2, <3>1 DEF BlockOk
    <3>3. \A s \in Slots : \E l : Finds(p, n, Llr(s), l) /\ l.tb = p[n].tb
      BY <2>3, <3>2
    <3>4. \E x : Finds(p, n, <<"xref", 0>>, x) /\ x.cell = p[n].cell
      BY <2>4, <3>2 DEF Ready
    <3>5. \E g : Finds(p, n, <<"sign", 0>>, g) /\ g.cell = p[n].cell
      <4>1. CASE /\ Cached(c, t) = c.cell[LockOf(c, t)]
                 /\ \A m \in 1..(j - 1) : <<"sign", 0>> \notin u[m].out
        <5>1. PICK g : Leaves(q, <<"sign", 0>>, g) /\ g.cell = Cached(c, t)
          BY <1>4, <3>2, <4>1 DEF Ready
        <5>2. QED BY <2>4, <3>2, <4>1, <5>1
      <4>2. CASE \E g : Finds(u, j, <<"sign", 0>>, g) /\ g.cell = c.cell[LockOf(c, t)]
        BY <2>3, <3>2, <4>2
      <4>3. QED BY <3>2, <4>1, <4>2
    <3>6. QED BY <3>3, <3>4, <3>5
  <2>7. QED BY <2>1, <2>2, <2>5, <2>6
<1>6. ASSUME NEW n \in 1..Len(p) PROVE Fits(p[n]) /\ WindowGood(p, n) /\ BlockGood(p, n)
  <2>1. IsText(q) /\ IsText(u) /\ n \in 1..Len(q \o u)
    BY <1>1
  <2>2. \/ n \in 1..Len(q) /\ (q \o u)[n] = q[n]
        \/ \E j \in 1..Len(u) : n = j + Len(q) /\ (q \o u)[n] = u[j]
    BY ONLY <2>1, Halves
  <2>3. CASE n \in 1..Len(q) /\ p[n] = q[n]
    <3>1. Fits(q[n]) /\ WindowGood(q, n) /\ BlockGood(q, n)
      BY <2>3 DEF Good
    <3>2. IsText(q) /\ IsText(u) /\ n \in 1..Len(q)
      BY <1>1, <2>3
    <3>3. WindowGood(p, n) /\ BlockGood(p, n)
      BY <3>1, <3>2, GoodInFirst
    <3>4. QED BY <2>3, <3>1, <3>3
  <2> HIDE DEF p
  <2>4. QED BY <1>5, <2>2, <2>3 DEF p
<1>7. Good(p)
  <2> HIDE DEF p
  <2>1. QED BY <1>2, <1>3, <1>6 DEF Good
<1>8. \A b, x : /\ Leaves(u, b, x) => Leaves(p, b, x)
                /\ Leaves(q, b, x) /\ Spares(u, b) => Leaves(p, b, x)
  BY <1>1, LeavesJoined
<1> HIDE DEF p
<1>9. t + 1 # 1 /\ t + 1 - 1 = t
  OBVIOUS
<1>10. \E rd, dt : /\ Leaves(p, <<"rd_ptr", 0>>, rd) /\ Leaves(p, <<"dt_out", 0>>, dt)
                   /\ rd.tb = dt.tb /\ rd.slot = dt.slot
                   /\ t + 1 = 1 \/ c.bad[t + 1 - 1] => rd.op = "set_rd_ptr" /\ rd.tb = t + 1
  <2>1. PICK rd, dt : /\ Leaves(u, <<"rd_ptr", 0>>, rd) /\ Leaves(u, <<"dt_out", 0>>, dt)
                      /\ rd.tb = dt.tb /\ rd.slot = dt.slot
                      /\ c.bad[t] => rd.op = "set_rd_ptr" /\ rd.tb = t + 1
    BY DEF TurnLeaves
  <2>2. QED BY <1>8, <1>9, <2>1
<1>11. \E x : Leaves(p, <<"xref", 0>>, x) /\ x.cell = c.cell[LockOf(c, t + 1)]
  <2>1. CASE c.bad[t]
    BY <1>8, <2>1 DEF TurnLeaves
  <2>2. CASE ~c.bad[t]
    <3>1. LockOf(c, t + 1) = LockOf(c, t)
      BY <2>2, LockStays
    <3>2. QED BY <1>8, <2>2, <3>1 DEF TurnLeaves, Ready
  <2>3. QED BY <2>1, <2>2
<1>12. ~c.skipTb => \E g : Leaves(p, <<"sign", 0>>, g) /\ g.cell = Cached(c, t + 1)
  <2>1. Cached(c, t + 1) = c.cell[LockOf(c, t)]
    BY <1>9 DEF Cached
  <2>2. SUFFICES ASSUME ~c.skipTb PROVE \E g : Leaves(p, <<"sign", 0>>, g) /\ g.cell = Cached(c, t + 1)
    OBVIOUS
  <2>3. CASE Cached(c, t) = c.cell[LockOf(c, t)] /\ Spares(u, <<"sign", 0>>)
    <3>1. PICK g : Leaves(q, <<"sign", 0>>, g) /\ g.cell = Cached(c, t)
      BY <1>4, <2>2, <2>3 DEF Ready
    <3>2. QED BY <1>8, <2>1, <2>3, <3>1
  <2>4. CASE \E g : Leaves(u, <<"sign", 0>>, g) /\ g.cell = c.cell[LockOf(c, t)]
    BY <1>8, <2>1, <2>4
  <2>5. QED BY <2>2, <2>3, <2>4 DEF TurnLeaves
<1>13. QED
  BY <1>7, <1>10, <1>11, <1>12 DEF Ready, p

\* Before the first turn: an acquisition, and the capture perhaps overwritten.
LEMMA StartText ==
  ASSUME NEW c, NEW q, q = Start(c)
  PROVE  Good(q) /\ Ready(c, 1, q)
<1> DEFINE r   == Locked(c, 1)
           tag == Tag(c, 1, 0, FALSE)
           o   == Memcpy("data_iq", {}, {"capture"})
           d   == IF c.dataIq THEN << o >> ELSE << >>
           s   == For(tag, d)
<1>1. q = r \o s
  BY DEF Start
<1>2. /\ Part(r)
      /\ \E rd, x : /\ Leaves(r, <<"rd_ptr", 0>>, rd) /\ Leaves(r, <<"dt_out", 0>>, rd)
                    /\ Leaves(r, <<"xref", 0>>, x)
                    /\ rd.op = "set_rd_ptr" /\ rd.tb = 1 /\ rd.slot = 0
                    /\ x.cell = c.cell[LockOf(c, 1)]
  BY LockedText
<1>3. /\ o.do = "copy" /\ Neutral(o)
      /\ <<"rd_ptr", 0>> \notin o.out /\ <<"dt_out", 0>> \notin o.out /\ <<"xref", 0>> \notin o.out
  <2>1. {} \in SUBSET Names /\ {"capture"} \in SUBSET Names
    BY DEF Names
  <2>2. QED BY <2>1, NeutralCommand, CommandFields, DevHas
<1> HIDE DEF r, tag, o
<1>4. /\ Len(d) \in Nat
      /\ \A n \in 1..Len(d) : d[n] = o
  <2>1. CASE c.dataIq
    <3>1. d = << o >>
      BY <2>1
    <3> HIDE DEF d
    <3>2. QED BY <3>1, Singles
  <2>2. CASE ~c.dataIq
    <3>1. d = << >>
      BY <2>2
    <3> HIDE DEF d
    <3>2. QED BY <3>1, Singles
  <2>3. QED BY <2>1, <2>2
<1> HIDE DEF d
<1>5. IsText(s) /\ Len(s) = Len(d) /\ \A n \in 1..Len(d) : s[n] = Stamped(d[n], tag)
  BY <1>4, ForText
<1> HIDE DEF s
<1>6. \A n \in 1..Len(s) : s[n].do = o.do /\ s[n].op = o.op /\ s[n].in = o.in /\ s[n].out = o.out
  BY <1>4, <1>5, StampedFields
<1>7. Part(s)
  <2>1. \A n \in 1..Len(s) : Neutral(s[n])
    BY <1>3, <1>6 DEF Neutral, Fits
  <2>2. Awaited(s)
    BY <1>3, <1>6, AwaitedCopies
  <2>3. QED BY <1>5, <2>1, <2>2 DEF Part
<1>8. Spares(s, <<"rd_ptr", 0>>) /\ Spares(s, <<"dt_out", 0>>) /\ Spares(s, <<"xref", 0>>)
  BY <1>3, <1>6 DEF Spares
<1>9. Part(q)
  BY <1>1, <1>2, <1>7, PartsJoin
<1>10. Good(q)
  BY <1>9 DEF Good, Part, Neutral, WindowGood, BlockGood
<1>11. IsText(r) /\ IsText(s)
  BY <1>2, <1>7 DEF Part
<1>12. \A b, x : Leaves(r, b, x) /\ Spares(s, b) => Leaves(q, b, x)
  BY <1>1, <1>11, LeavesJoined
<1>13. QED
  BY <1>2, <1>8, <1>10, <1>12 DEF Ready

\* The turns so far, for any number of them.  The recursion of Issued has a
\* solution because each turn extends the one before.
IssuedBy(c, n, f) ==
  f = [t \in 0..n |-> IF t = 0 THEN Start(c) ELSE f[t - 1] \o Turn(c, t)]

LEMMA IssuedExists ==
  ASSUME NEW c, NEW m \in Nat
  PROVE  \E f : IssuedBy(c, m, f)
<1> DEFINE T == {n \in 0..m : \E f : IssuedBy(c, n, f)}
<1>1. 0 \in T
  <2> DEFINE f == [t \in 0..0 |-> Start(c)]
  <2>1. f = [t \in 0..0 |-> IF t = 0 THEN Start(c) ELSE f[t - 1] \o Turn(c, t)]
    <3>1. \A t \in 0..0 : t = 0
      OBVIOUS
    <3>2. QED BY <3>1
  <2> HIDE DEF f
  <2>2. IssuedBy(c, 0, f)
    BY <2>1 DEF IssuedBy
  <2>3. QED BY <2>2
<1>2. ASSUME NEW n \in 1..m, n - 1 \in T PROVE n \in T
  <2>1. PICK f : IssuedBy(c, n - 1, f)
    BY <1>2
  <2>2. \A t \in 0..(n - 1) : f[t] = IF t = 0 THEN Start(c) ELSE f[t - 1] \o Turn(c, t)
    <3>1. f = [t \in 0..(n - 1) |-> IF t = 0 THEN Start(c) ELSE f[t - 1] \o Turn(c, t)]
      BY <2>1 DEF IssuedBy
    <3>2. QED BY ONLY <3>1
  <2> DEFINE g == [t \in 0..n |-> IF t = n THEN f[n - 1] \o Turn(c, n) ELSE f[t]]
  <2>3. ASSUME NEW t \in 0..n
        PROVE  g[t] = IF t = 0 THEN Start(c) ELSE g[t - 1] \o Turn(c, t)
    <3>1. CASE t = n
      <4>1. t # 0 /\ t - 1 \in 0..n /\ t - 1 # n
        BY <3>1
      <4>2. g[t - 1] = f[n - 1]
        BY <3>1, <4>1
      <4>3. g[t] = f[n - 1] \o Turn(c, n)
        BY <3>1
      <4> HIDE DEF g
      <4>4. QED BY <3>1, <4>1, <4>2, <4>3
    <3>2. CASE t # n
      <4>1. t \in 0..(n - 1) /\ (t # 0 => t - 1 \in 0..n /\ t - 1 # n)
        BY <3>2
      <4>2. g[t] = f[t] /\ (t # 0 => g[t - 1] = f[t - 1])
        BY <3>2, <4>1
      <4> HIDE DEF g
      <4>3. QED BY <2>2, <4>1, <4>2
    <3>3. QED BY <3>1, <3>2
  <2>4. g = [t \in 0..n |-> g[t]]
    OBVIOUS
  <2> HIDE DEF g
  <2>5. IssuedBy(c, n, g)
    BY <2>3, <2>4 DEF IssuedBy
  <2>6. QED BY <1>2, <2>5
<1> HIDE DEF T
<1>3. 0..m \subseteq T
  BY <1>1, <1>2, Reaches
<1>4. m \in T
  BY <1>3
<1>5. QED
  BY <1>4 DEF T

LEMMA IssuedText ==
  ASSUME NEW c
  PROVE  /\ Issued(c)[0] = Start(c)
         /\ \A t \in 1..MaxTb : Issued(c)[t] = Issued(c)[t - 1] \o Turn(c, t)
<1> DEFINE h == CHOOSE f : f = [t \in 0..MaxTb |-> IF t = 0 THEN Start(c) ELSE f[t - 1] \o Turn(c, t)]
<1>1. PICK g : g = [t \in 0..MaxTb |-> IF t = 0 THEN Start(c) ELSE g[t - 1] \o Turn(c, t)]
  BY ScopeAssumption, IssuedExists DEF IssuedBy
<1>2. h = [t \in 0..MaxTb |-> IF t = 0 THEN Start(c) ELSE h[t - 1] \o Turn(c, t)]
  BY <1>1
<1>3. Issued(c) = h
  BY DEF Issued
<1> HIDE DEF h
<1>4. \A t \in 0..MaxTb : h[t] = IF t = 0 THEN Start(c) ELSE h[t - 1] \o Turn(c, t)
  BY <1>2
<1>5. 0 \in 0..MaxTb /\ \A t \in 1..MaxTb : t \in 0..MaxTb /\ t # 0
  BY ScopeAssumption
<1>6. h[0] = Start(c) /\ \A t \in 1..MaxTb : h[t] = h[t - 1] \o Turn(c, t)
  BY <1>4, <1>5
<1>7. QED
  BY <1>3, <1>6

\* After every turn, what has been issued is in order.
LEMMA IssuedIsGood ==
  ASSUME NEW c \in Environments
  PROVE  \A t \in 0..MaxTb : Good(Issued(c)[t])
<1> DEFINE T == {t \in 0..MaxTb : Good(Issued(c)[t]) /\ Ready(c, t + 1, Issued(c)[t])}
<1>1. 0 \in T
  <2>1. Good(Start(c)) /\ Ready(c, 1, Start(c))
    BY StartText
  <2>2. Issued(c)[0] = Start(c) /\ 0 + 1 = 1 /\ 0 \in 0..MaxTb
    BY IssuedText, ScopeAssumption
  <2>3. QED BY <2>1, <2>2
<1>2. ASSUME NEW t \in 1..MaxTb, t - 1 \in T PROVE t \in T
  <2> DEFINE q == Issued(c)[t - 1]
             u == Turn(c, t)
  <2>1. Good(q) /\ Ready(c, t - 1 + 1, q) /\ t - 1 + 1 = t
    BY <1>2
  <2>2. Sound(c, t, u) /\ TurnLeaves(c, t, u)
    BY WholeTurn
  <2>3. Issued(c)[t] = q \o u
    BY IssuedText
  <2> HIDE DEF q, u
  <2>4. Ready(c, t, q)
    BY <2>1
  <2>5. Good(q \o u) /\ Ready(c, t + 1, q \o u)
    BY <2>1, <2>2, <2>4, TurnFollows
  <2>6. Good(Issued(c)[t]) /\ Ready(c, t + 1, Issued(c)[t])
    BY <2>3, <2>5
  <2>7. t \in 0..MaxTb
    BY ScopeAssumption
  <2>8. QED BY <2>6, <2>7
<1> HIDE DEF T
<1>3. MaxTb \in Nat
  BY ScopeAssumption
<1>4. 0..MaxTb \subseteq T
  BY <1>1, <1>2, <1>3, Reaches
<1>5. QED
  BY <1>4 DEF T

LEMMA ProgramIsGood ==
  ASSUME NEW e \in DOMAIN Programs
  PROVE  Good(Programs[e])
<1>1. e \in Environments /\ Programs[e] = Program(e)
  BY DEF Programs
<1>2. Program(e) = Issued(e)[Turns(e)]
  BY DEF Program
<1>3. Turns(e) \in 0..MaxTb
  BY ScopeAssumption DEF Turns
<1>4. QED
  BY <1>1, <1>2, <1>3, IssuedIsGood

-----------------------------------------------------------------------------
\* What DeviceStreamProofs asks of the programs.

LEMMA ProgramsWellFormed == Ds!ProgramsAssumption
<1>1. ASSUME NEW e \in DOMAIN Programs
      PROVE  /\ Len(Programs[e]) \in Nat
             /\ \A n \in 1..Len(Programs[e]) : Fits(Programs[e][n])
  BY ProgramIsGood, SequenceIsText DEF Good, IsText
<1>2. QED
  BY <1>1 DEF Ds!ProgramsAssumption, Ds!Kinds, Kinds, Fits

\* Until a launch is waited for, no copy disturbs it.
LEMMA CopiesAreHarmless ==
  ASSUME NEW e \in DOMAIN Programs,
         NEW m \in 1..Len(Programs[e]), NEW n \in 1..Len(Programs[e]), m < n,
         Programs[e][m].do = "launch"
  PROVE  \/ Harmless(Programs[e][m], Programs[e][n])
         \/ \E s \in (m + 1)..(n - 1) : Programs[e][s].do = "sync"
<1> DEFINE p == Programs[e]
<1>1. Awaited(p) /\ Len(p) \in Nat
  BY ProgramIsGood, SequenceIsText DEF Good, IsText
<1>2. m \in 1..Len(p) /\ n \in 1..Len(p) /\ m < n /\ p[m].do = "launch"
  OBVIOUS
<1> HIDE DEF p
<1>3. PICK y \in (m + 1)..Len(p) : /\ p[y].do = "sync"
                                   /\ \A k \in (m + 1)..(y - 1) : Harmless(p[m], p[k])
  BY <1>1, <1>2 DEF Awaited
<1>4. CASE n < y
  <2>1. n \in (m + 1)..(y - 1)
    BY <1>1, <1>2, <1>4
  <2>2. QED BY <1>3, <2>1 DEF p
<1>5. CASE n = y
  <2>1. p[n].do # "copy"
    BY <1>3, <1>5
  <2>2. QED BY <2>1 DEF p, Harmless
<1>6. CASE y < n
  <2>1. y \in (m + 1)..(n - 1)
    BY <1>1, <1>2, <1>6
  <2>2. QED BY <1>3, <2>1 DEF p
<1>7. n < y \/ n = y \/ y < n
  BY <1>1, <1>2
<1>8. QED
  BY <1>4, <1>5, <1>6, <1>7

LEMMA ProgramsDisciplined == \A e \in DOMAIN Programs : Ds!Disciplined(Programs[e])
  BY CopiesAreHarmless DEF Ds!Disciplined, Harmless

-----------------------------------------------------------------------------
\* The state.  The inductive invariant is the one of DeviceStreamProofs.

IInv == Ds!IInv

\* When a kernel is about to run, a settled buffer, and the sign table of a
\* descrambler, holds what the text of the program says.
LEMMA HeadFinds ==
  ASSUME IInv, stream # << >>, NEW b \in Buffers, NEW c,
         b \in Settled \/ (b = <<"sign", 0>> /\ Executing("descramble")),
         Finds(Code, Head(stream), b, c)
  PROVE  Wrote(b) = c
<1> DEFINE h == Head(stream)
           v == mem[b]
<1>1. program \in DOMAIN Programs /\ mem \in [Buffers -> Nat]
  BY DEF IInv, Ds!IInv, Ds!TypeOK
<1>2. h \in Ds!Queued
  BY ProgramsWellFormed, Ds!OldestQueued DEF IInv, Ds!IInv
<1>3. h \in 1..Len(Code) /\ h \in Nat /\ Code[h].do = "launch"
  BY <1>2, ProgramsWellFormed, Ds!QueuedRange DEF IInv, Ds!Code, Code
<1>4. b \in Ds!OrderedBuffers
  BY <1>1, ProgramsWellFormed, ProgramsDisciplined, Ds!DisciplineOrders
<1>5. \A n \in (h + 1)..(pc - 1) : b \in Code[n].out => Code[n].do # "copy"
  <2>1. SUFFICES ASSUME NEW n \in (h + 1)..(pc - 1), b \in Code[n].out, Code[n].do = "copy"
                 PROVE  FALSE
    OBVIOUS
  <2>2. Len(Code) \in Nat /\ pc \in 1..(Len(Code) + 1)
    <3>1. pc \in 1..(Len(Code) + 1)
      BY DEF IInv, Ds!IInv, Ds!TypeOK, Ds!Code, Code
    <3>2. Len(Code) \in Nat
      BY <1>1, ProgramIsGood, SequenceIsText DEF Good, IsText, Code
    <3>3. QED BY <3>1, <3>2
  <2>3. n \in 1..Len(Code) /\ h < n /\ \A s \in (h + 1)..(n - 1) : s \in (h + 1)..(pc - 1)
    <3> HIDE DEF h
    <3>1. QED BY <1>3, <2>2
  <2>4. ~ Harmless(Code[h], Code[n])
    BY <2>1 DEF Harmless, Executing
  <2>5. PICK s \in (h + 1)..(n - 1) : Code[s].do = "sync"
    <3>1. program \in DOMAIN Programs /\ h \in 1..Len(Code) /\ n \in 1..Len(Code) /\ h < n
      BY <1>1, <1>3, <2>3
    <3> HIDE DEF h
    <3>2. QED BY <1>3, <2>4, <3>1, CopiesAreHarmless DEF Code
  <2>6. QED BY <1>2, <2>3, <2>5 DEF IInv, Ds!IInv, Ds!NothingOvertakes, Ds!Code, Code
<1>6. Ds!LastWriter(b, h, v)
  <2>1. \A n \in (h + 1)..(pc - 1) : b \in Ds!Code[n].out => Ds!Code[n].do # "copy"
    BY <1>5 DEF Ds!Code, Code
  <2>2. QED BY <1>4, <2>1, ProgramsWellFormed, Ds!HeadFindsInOrder DEF IInv
<1>7. /\ v = 0 \/ (v \in 1..(h - 1) /\ b \in Code[v].out)
      /\ \A m \in (v + 1)..(h - 1) : b \notin Code[m].out
  <2> HIDE DEF h, v
  <2>1. QED BY <1>6 DEF Ds!LastWriter, Ds!Code, Code
<1>8. PICK w \in 1..(h - 1) : /\ b \in Code[w].out /\ c = Code[w]
                              /\ \A m \in (w + 1)..(h - 1) : b \notin Code[m].out
  BY DEF Finds
<1>9. v \in Nat
  BY <1>1
<1>10. Wrote(b) = Code[v]
  BY DEF Wrote
<1> HIDE DEF h, v
<1>11. ~(w \in (v + 1)..(h - 1)) /\ w \in 1..(h - 1)
  BY <1>7, <1>8
<1>12. v # 0 /\ v \in 1..(h - 1)
  BY <1>3, <1>7, <1>9, <1>11
<1>13. ~(v \in (w + 1)..(h - 1))
  BY <1>7, <1>8, <1>12
<1>14. v = w
  BY <1>3, <1>9, <1>11, <1>12, <1>13
<1>15. QED
  BY <1>8, <1>10, <1>14

LEMMA CodeIsGood ==
  ASSUME IInv, stream # << >>
  PROVE  WindowGood(Code, Head(stream)) /\ BlockGood(Code, Head(stream))
<1> DEFINE h == Head(stream)
<1>1. h \in Ds!Queued
  BY ProgramsWellFormed, Ds!OldestQueued DEF IInv, Ds!IInv
<1>2. h \in 1..Len(Code)
  BY <1>1, ProgramsWellFormed, Ds!QueuedRange DEF IInv, Ds!Code, Code
<1>3. Good(Code)
  BY ProgramIsGood DEF IInv, Ds!IInv, Ds!TypeOK, Code
<1>4. QED
  BY <1>2, <1>3 DEF Good

LEMMA SettledBuffers ==
  /\ <<"rd_ptr", 0>> \in Buffers /\ <<"rd_ptr", 0>> \in Settled
  /\ <<"dt_out", 0>> \in Buffers /\ <<"dt_out", 0>> \in Settled
  /\ <<"xref", 0>> \in Buffers /\ <<"xref", 0>> \in Settled
  /\ <<"sign", 0>> \in Buffers
  /\ \A s \in Slots : Llr(s) \in Buffers /\ Llr(s) \in Settled
  BY DEF Settled, Buffers, Dev, LlrAll

LEMMA InvariantBlock == IInv => BlockUnderOneCell
<1>1. SUFFICES ASSUME IInv, Executing("descramble"), ~Now.timed
               PROVE  /\ \A s \in Slots : Wrote(Llr(s)).tb = Now.tb
                      /\ Wrote(<<"sign", 0>>).cell = Now.cell
                      /\ Wrote(<<"xref", 0>>).cell = Now.cell
  BY DEF BlockUnderOneCell
<1> DEFINE h == Head(stream)
<1>2. stream # << >> /\ Code[h].op = "descramble" /\ ~Code[h].timed /\ Now = Code[h]
  BY <1>1 DEF Executing, Now
<1>3. /\ \A s \in Slots : \E l : Finds(Code, h, Llr(s), l) /\ l.tb = Now.tb
      /\ \E g : Finds(Code, h, <<"sign", 0>>, g) /\ g.cell = Now.cell
      /\ \E x : Finds(Code, h, <<"xref", 0>>, x) /\ x.cell = Now.cell
  BY <1>1, <1>2, CodeIsGood DEF BlockGood
<1>4. ASSUME NEW s \in Slots PROVE Wrote(Llr(s)).tb = Now.tb
  <2>1. PICK l : Finds(Code, h, Llr(s), l) /\ l.tb = Now.tb
    BY <1>3
  <2>2. Wrote(Llr(s)) = l
    BY <1>1, <1>2, <2>1, SettledBuffers, HeadFinds
  <2>3. QED BY <2>1, <2>2
<1>5. Wrote(<<"sign", 0>>).cell = Now.cell
  <2>1. PICK g : Finds(Code, h, <<"sign", 0>>, g) /\ g.cell = Now.cell
    BY <1>3
  <2>2. Wrote(<<"sign", 0>>) = g
    BY <1>1, <1>2, <2>1, SettledBuffers, HeadFinds
  <2>3. QED BY <2>1, <2>2
<1>6. Wrote(<<"xref", 0>>).cell = Now.cell
  <2>1. PICK x : Finds(Code, h, <<"xref", 0>>, x) /\ x.cell = Now.cell
    BY <1>3
  <2>2. Wrote(<<"xref", 0>>) = x
    BY <1>1, <1>2, <2>1, SettledBuffers, HeadFinds
  <2>3. QED BY <2>1, <2>2
<1>7. QED
  BY <1>4, <1>5, <1>6

LEMMA InvariantFeedback == IInv => FeedbackFromPreviousSlot
<1>1. SUFFICES ASSUME IInv, Executing("win_slice"), ~Now.timed
               PROVE  LET rd == Wrote(<<"rd_ptr", 0>>)
                          dt == Wrote(<<"dt_out", 0>>)
                      IN /\ rd.tb = dt.tb /\ rd.slot = dt.slot
                         /\ Now.slot > 0 =>
                              /\ rd.op = "win_slice" /\ dt.op = "timing_tracker" /\ ~rd.timed
                              /\ rd.tb = Now.tb /\ rd.slot = Now.slot - 1
                         /\ Now.slot = 0 /\ Now.fresh => rd.op = "set_rd_ptr" /\ rd.tb = Now.tb
  BY DEF FeedbackFromPreviousSlot
<1> DEFINE h == Head(stream)
<1>2. stream # << >> /\ Code[h].op = "win_slice" /\ ~Code[h].timed /\ Now = Code[h]
  BY <1>1 DEF Executing, Now
<1>3. PICK rd, dt :
        /\ Finds(Code, h, <<"rd_ptr", 0>>, rd) /\ Finds(Code, h, <<"dt_out", 0>>, dt)
        /\ rd.tb = dt.tb /\ rd.slot = dt.slot
        /\ Now.slot > 0 => /\ rd.op = "win_slice" /\ dt.op = "timing_tracker" /\ ~rd.timed
                           /\ rd.tb = Now.tb /\ rd.slot = Now.slot - 1
        /\ Now.slot = 0 /\ Now.fresh => rd.op = "set_rd_ptr" /\ rd.tb = Now.tb
  BY <1>1, <1>2, CodeIsGood DEF WindowGood
<1>4. Wrote(<<"rd_ptr", 0>>) = rd
  BY <1>1, <1>2, <1>3, SettledBuffers, HeadFinds
<1>5. Wrote(<<"dt_out", 0>>) = dt
  BY <1>1, <1>2, <1>3, SettledBuffers, HeadFinds
<1>6. QED
  BY <1>3, <1>4, <1>5

LEMMA InvariantRace == IInv => CopiesDoNotRace
<1>1. SUFFICES ASSUME IInv, AtHost("copy"), NEW k \in 1..Len(stream)
               PROVE  ~Conflict(stream[k], pc)
  BY DEF CopiesDoNotRace
<1>2. Ds!AtHost("copy")
  BY <1>1 DEF AtHost, Ds!AtHost, Code, Ds!Code
<1>3. stream[k] \in Ds!Queued
  BY DEF Ds!Queued
<1>4. ~Ds!Conflict(stream[k], pc)
  BY <1>1, <1>2, <1>3, ProgramsWellFormed, ProgramsDisciplined, Ds!CopyMeetsNoConflict DEF IInv
<1>5. QED
  BY <1>4 DEF Conflict, Ds!Conflict, Code, Ds!Code

LEMMA InitIInv == Init => IInv
<1>1. Init => Ds!Init
  BY DEF Init, Ds!Init
<1>2. QED
  BY <1>1, ProgramsWellFormed, Ds!InitIInv DEF IInv

LEMMA NextIInv == ASSUME IInv, [Next]_vars PROVE IInv'
<1>1. [Ds!Next]_(Ds!vars)
  BY DEF Next, Ds!Next, vars, Ds!vars, Launch, Ds!Launch, Copy, Ds!Copy, Sync, Ds!Sync,
         Execute, Ds!Execute, AtHost, Ds!AtHost, Perform, Ds!Perform, Code, Ds!Code
<1>2. QED
  BY <1>1, ProgramsWellFormed, Ds!NextIInv DEF IInv

-----------------------------------------------------------------------------
\* Between the results of an acquisition or of a decode and the host that reads
\* them there is always a wait, and no upload overtakes a queued kernel: the sign
\* table is uploaded behind the queued slots, which do not use it.  For any
\* number of slots and of blocks, whatever is found, decoded, skipped or timed.
THEOREM ReceiverDoesNotRace == Spec => []CopiesDoNotRace
<1>1. Init => IInv
  BY InitIInv
<1>2. IInv /\ [Next]_vars => IInv'
  BY NextIInv
<1>3. IInv => CopiesDoNotRace
  BY InvariantRace
<1>4. QED
  BY <1>1, <1>2, <1>3, PTL DEF Spec

\* However often the cell is lost and another one found, a block is descrambled
\* from its own LLRs with the sign table of the very cell whose pilots its
\* channel was estimated with, although the table is only uploaded when the cell
\* changes.
THEOREM BlocksKeepToOneCell == Spec => []BlockUnderOneCell
<1>1. Init => IInv
  BY InitIInv
<1>2. IInv /\ [Next]_vars => IInv'
  BY NextIInv
<1>3. IInv => BlockUnderOneCell
  BY InvariantBlock
<1>4. QED
  BY <1>1, <1>2, <1>3, PTL DEF Spec

\* No host sees the offset of the tracker, and still every window follows the
\* pointer and the offset of the slot before it, or, the first under a lock, the
\* pointer of this lock.
THEOREM WindowsFollowTheTracker == Spec => []FeedbackFromPreviousSlot
<1>1. Init => IInv
  BY InitIInv
<1>2. IInv /\ [Next]_vars => IInv'
  BY NextIInv
<1>3. IInv => FeedbackFromPreviousSlot
  BY InvariantFeedback
<1>4. QED
  BY <1>1, <1>2, <1>3, PTL DEF Spec
===============================================================================
