--------------------------- MODULE SisoTxChainProofs ---------------------------
(***************************************************************************)
(* The SISO transmitter for any number of slots and any length of its timing *)
(* loops.  The chain is not disciplined: it uploads the seeds of a slot while *)
(* the generator of the slot before may be queued, and downloads samples      *)
(* behind queued kernels.  But no host copy touches the grids or the scrambled *)
(* bits, so these are ordered buffers of DeviceStreamProofs, and what a slot  *)
(* is modulated from follows from the text of the program.                  *)
(***************************************************************************)
EXTENDS SisoTxChain, SequenceTheorems, TLAPS

Ds == INSTANCE DeviceStreamProofs

-----------------------------------------------------------------------------
\* Sequences.

\* A concatenation by its halves.
LEMMA Joined ==
  ASSUME NEW S, NEW r \in Seq(S), NEW s \in Seq(S)
  PROVE  /\ (r \o s) \in Seq(S) /\ Len(r \o s) = Len(r) + Len(s)
         /\ \A j \in 1..Len(r) : (r \o s)[j] = r[j]
         /\ \A j \in 1..Len(s) : (r \o s)[j + Len(r)] = s[j]
<1>1. /\ (r \o s) \in Seq(S) /\ Len(r \o s) = Len(r) + Len(s)
      /\ \A j \in 1..(Len(r) + Len(s)) : (r \o s)[j] = IF j <= Len(r) THEN r[j] ELSE s[j - Len(r)]
  BY ConcatProperties, Zenon
<1>2. Len(r) \in Nat /\ Len(s) \in Nat
  BY LenProperties
<1>3. ASSUME NEW j \in 1..Len(s) PROVE (r \o s)[j + Len(r)] = s[j]
  <2>1. j + Len(r) \in 1..(Len(r) + Len(s)) /\ ~(j + Len(r) <= Len(r)) /\ j + Len(r) - Len(r) = j
    BY <1>2
  <2>2. QED BY <1>1, <2>1
<1>4. QED
  BY <1>1, <1>2, <1>3

\* A function on 1..N is a sequence.
LEMMA OfFunction ==
  ASSUME NEW S, NEW N \in Nat, NEW f, f = [i \in 1..N |-> f[i]], \A i \in 1..N : f[i] \in S
  PROVE  f \in Seq(S) /\ Len(f) = N
  OBVIOUS

-----------------------------------------------------------------------------
\* The text of a program.

WriteFile == Memcpy("WriteFile", {"iq"}, {"tx_iq.bin"})

\* Every command the chain issues, and those it issues to be timed.
BlockCommands == {Memcpy("bake_tx_gold", {}, {"gold"}), Memcpy("tx_bits", {}, {"seg_bits"}),
                  Kernel("ldpc_encode", {"seg_bits"}, {"enc"}),
                  Kernel("rate_match", {"enc"}, {"layout"}),
                  Kernel("scramble", {"layout", "gold"}, {"scr"})}
SlotCommands == {QamMod, CinitCopy, DmrsGen, Merge, ReMap, OfdmMod, Download}
TimedCommands == {Kernel("ldpc_encode", {"seg_bits"}, {"enc"}),
                  Kernel("rate_match", {"enc"}, {"layout"}),
                  Kernel("scramble", {"layout", "gold"}, {"scr"}),
                  QamMod, DmrsGen, ReMap, OfdmMod, CinitCopy, Synchronize}
Commands == BlockCommands \union SlotCommands \union TimedCommands \union {WriteFile}

\* What is true of each of them.
LEMMA CommandFacts ==
  ASSUME NEW c \in Commands
  PROVE  /\ c.do \in Kinds /\ c.in \subseteq Buffers /\ c.out \subseteq Buffers
         /\ c.do = "sync" => c.out = {}
         /\ c.do = "copy" => \A b \in {"scr", "gu", "dmrs", "gf"} : b \notin c.in \union c.out
         /\ "scr" \in c.out => c.op = "scramble"
         /\ "gf" \in c.out => c.op = "re_map"
  BY DEF Commands, BlockCommands, SlotCommands, TimedCommands, WriteFile, Memcpy, Kernel, Command,
         QamMod, CinitCopy, DmrsGen, Merge, ReMap, OfdmMod, Download, Synchronize, Kinds, Buffers

LEMMA BlockText ==
  /\ TxTb \in Seq(Commands) /\ Len(TxTb) = 5 /\ "scr" \in TxTb[5].out
  /\ \A i \in 1..5 : TxTb[i] \in BlockCommands
<1> DEFINE a == << Memcpy("bake_tx_gold", {}, {"gold"}), Memcpy("tx_bits", {}, {"seg_bits"}) >>
<1>1. /\ TbKernels \in Seq(BlockCommands) /\ Len(TbKernels) = 3
      /\ TbKernels[3] = Kernel("scramble", {"layout", "gold"}, {"scr"})
  BY DEF TbKernels, BlockCommands
<1>2. a \in Seq(BlockCommands) /\ Len(a) = 2
  BY DEF BlockCommands
<1>3. TxTb = a \o TbKernels
  BY DEF TxTb
<1> HIDE DEF a
<1>4. /\ TxTb \in Seq(BlockCommands) /\ Len(TxTb) = 5
      /\ \A j \in 1..Len(TbKernels) : TxTb[j + Len(a)] = TbKernels[j]
  <2>1. /\ a \o TbKernels \in Seq(BlockCommands) /\ Len(a \o TbKernels) = Len(a) + Len(TbKernels)
        /\ \A j \in 1..Len(TbKernels) : (a \o TbKernels)[j + Len(a)] = TbKernels[j]
    <3>1. a \in Seq(BlockCommands) /\ TbKernels \in Seq(BlockCommands)
      BY <1>1, <1>2
    <3>2. QED BY ONLY <3>1, Joined
  <2>2. QED BY <1>1, <1>2, <1>3, <2>1
<1>5. TxTb[5] = Kernel("scramble", {"layout", "gold"}, {"scr"})
  <2>1. 3 \in 1..Len(TbKernels) /\ 3 + Len(a) = 5
    BY <1>1, <1>2
  <2>2. QED BY <1>1, <1>4, <2>1
<1>6. TxTb \in Seq(Commands)
  <2>1. BlockCommands \subseteq Commands
    BY DEF Commands
  <2>2. QED BY <1>4, <2>1, SeqMonotonic
<1>7. \A i \in 1..5 : TxTb[i] \in BlockCommands
  <2>1. TxTb \in Seq(BlockCommands) /\ Len(TxTb) = 5
    BY <1>4
  <2>2. QED BY <2>1, ElementOfSeq
<1>8. QED
  BY <1>4, <1>5, <1>6, <1>7 DEF Kernel, Command

LEMMA SlotText ==
  /\ TxSlot \in Seq(SlotCommands) /\ Len(TxSlot) = 7
  /\ TxSlot[1] = QamMod /\ TxSlot[2] = CinitCopy /\ TxSlot[3] = DmrsGen /\ TxSlot[4] = Merge
  /\ TxSlot[5] = ReMap /\ TxSlot[6] = OfdmMod /\ TxSlot[7] = Download
<1> DEFINE a1 == QamMod  a2 == CinitCopy  a3 == DmrsGen  a4 == Merge  a5 == ReMap  a6 == OfdmMod
           a7 == Download
<1>1. TxSlot = << a1, a2, a3, a4, a5, a6, a7 >> /\ SlotCommands = {a1, a2, a3, a4, a5, a6, a7}
  BY DEF TxSlot, SlotCommands
<1> HIDE DEF a1, a2, a3, a4, a5, a6, a7
<1>2. /\ TxSlot \in Seq(SlotCommands) /\ Len(TxSlot) = 7
      /\ TxSlot[1] = a1 /\ TxSlot[2] = a2 /\ TxSlot[3] = a3 /\ TxSlot[4] = a4
      /\ TxSlot[5] = a5 /\ TxSlot[6] = a6 /\ TxSlot[7] = a7
  BY <1>1
<1>3. QED
  BY <1>2 DEF a1, a2, a3, a4, a5, a6, a7

\* What stamping does to a sequence of commands.
LEMMA ForText ==
  ASSUME NEW s, NEW timed, NEW c, Len(c) \in Nat
  PROVE  /\ Len(For(s, timed, c)) = Len(c)
         /\ For(s, timed, c) \in Seq({For(s, timed, c)[i] : i \in 1..Len(c)})
         /\ \A n \in 1..Len(c) : For(s, timed, c)[n] = Stamped(c[n], s, timed)
<1> DEFINE f == For(s, timed, c)
           S == {f[i] : i \in 1..Len(c)}
<1>1. f = [n \in 1..Len(c) |-> Stamped(c[n], s, timed)]
  BY DEF For
<1> HIDE DEF f
<1>2. \A n \in 1..Len(c) : f[n] = Stamped(c[n], s, timed)
  BY <1>1
<1>3. f = [i \in 1..Len(c) |-> f[i]] /\ \A i \in 1..Len(c) : f[i] \in S
  BY <1>1
<1> HIDE DEF S
<1>4. f \in Seq(S) /\ Len(f) = Len(c)
  BY <1>3, OfFunction
<1>5. QED
  BY <1>2, <1>4 DEF f, S

\* The loop holds seven commands for every slot.
LEMMA LoopText ==
  /\ Len(SlotLoop) = 7 * SlotsPerTb
  /\ SlotLoop \in Seq({SlotLoop[i] : i \in 1..(7 * SlotsPerTb)})
  /\ \A s \in Slots, k \in 1..7 : SlotLoop[7 * s + k] = Stamped(TxSlot[k], s, FALSE)
<1> DEFINE f == SlotLoop
           S == {f[i] : i \in 1..(7 * SlotsPerTb)}
<1>1. SlotsPerTb \in Nat /\ 7 * SlotsPerTb \in Nat /\ SlotsPerTb * 7 = 7 * SlotsPerTb
  BY ScopeAssumption
<1>2. f = [n \in 1..(7 * SlotsPerTb) |->
             Stamped(TxSlot[((n - 1) % 7) + 1], (n - 1) \div 7, FALSE)]
  BY <1>1, SlotText, Zenon DEF SlotLoop
<1> HIDE DEF f
<1>3. ASSUME NEW s \in Slots, NEW k \in 1..7
      PROVE  f[7 * s + k] = Stamped(TxSlot[k], s, FALSE)
  <2> DEFINE n == 7 * s + k
             d == (n - 1) \div 7
             m == ((n - 1) % 7) + 1
  <2>1. n \in 1..(7 * SlotsPerTb) /\ d = s /\ m = k
    BY <1>1 DEF Slots
  <2>2. f[n] = Stamped(TxSlot[m], d, FALSE)
    <3> HIDE DEF n
    <3>1. QED BY <1>2, <2>1
  <2> HIDE DEF d, m
  <2>3. QED BY <2>1, <2>2, Zenon
<1>4. f = [i \in 1..(7 * SlotsPerTb) |-> f[i]] /\ \A i \in 1..(7 * SlotsPerTb) : f[i] \in S
  BY <1>2
<1> HIDE DEF S
<1>5. f \in Seq(S) /\ Len(f) = 7 * SlotsPerTb
  BY <1>1, <1>4, OfFunction
<1>6. QED
  BY <1>3, <1>5, Zenon DEF f, S

\* What tx_profile_kernels adds, whatever the length of its loops, is made of
\* the commands it times.
LEMMA TimedText ==
  /\ Len(TxProfileKernels) \in Nat
  /\ \A n \in 1..Len(TxProfileKernels) : TxProfileKernels[n] \in TimedCommands
<1> DEFINE l == TimedLength
           K == TimedKernels
           f == [n \in 1..(7 * l) |-> TimeKernel(K[((n - 1) \div l) + 1])[((n - 1) % l) + 1]]
           a == << CinitCopy >>
<1>1. l \in Nat \ {0}
  <2>1. TimedM \in Nat /\ TimedK \in Nat /\ TimedK * (TimedM + 1) \in Nat
    BY ScopeAssumption
  <2>2. QED BY <2>1 DEF TimedLength, WarmUp
<1>2. Len(K) = 7 /\ \A i \in 1..7 : K[i] \in TimedCommands
  <2>1. /\ TbKernels \in Seq(TimedCommands) /\ Len(TbKernels) = 3
    BY DEF TbKernels, TimedCommands
  <2> DEFINE q == << QamMod, DmrsGen, ReMap, OfdmMod >>
  <2>2. q \in Seq(TimedCommands) /\ Len(q) = 4
    <3> DEFINE a1 == QamMod  a2 == DmrsGen  a3 == ReMap  a4 == OfdmMod
    <3>1. a1 \in TimedCommands /\ a2 \in TimedCommands /\ a3 \in TimedCommands /\ a4 \in TimedCommands
      BY DEF TimedCommands
    <3>2. q = << a1, a2, a3, a4 >>
      OBVIOUS
    <3> HIDE DEF a1, a2, a3, a4, q
    <3>3. << a1, a2, a3, a4 >> \in Seq(TimedCommands) /\ Len(<< a1, a2, a3, a4 >>) = 4
      BY <3>1
    <3>4. QED BY <3>2, <3>3, Zenon
  <2>3. K = TbKernels \o q
    BY DEF TimedKernels
  <2> HIDE DEF K, q
  <2>4. K \in Seq(TimedCommands) /\ Len(K) = 7
    <3>1. TbKernels \in Seq(TimedCommands) /\ q \in Seq(TimedCommands)
      BY <2>1, <2>2
    <3>2. TbKernels \o q \in Seq(TimedCommands) /\ Len(TbKernels \o q) = Len(TbKernels) + Len(q)
      BY ONLY <3>1, Joined
    <3>3. QED BY <2>1, <2>2, <2>3, <3>2
  <2>5. QED BY <2>4, ElementOfSeq
<1> HIDE DEF K, l
<1>3. \A i \in 1..7, j \in 1..l : TimeKernel(K[i])[j] \in TimedCommands
  <2>1. Synchronize \in TimedCommands
    BY DEF TimedCommands
  <2>2. QED BY <1>2, <2>1 DEF TimeKernel, l
<1>4. ASSUME NEW n \in 1..(7 * l) PROVE f[n] \in TimedCommands
  <2> DEFINE i == ((n - 1) \div l) + 1
             j == ((n - 1) % l) + 1
  <2>1. n - 1 \in Nat /\ n - 1 < 7 * l
    BY <1>1
  <2>2. i \in 1..7 /\ j \in 1..l
    BY <1>1, <2>1
  <2>3. f[n] = TimeKernel(K[i])[j]
    OBVIOUS
  <2> HIDE DEF i, j, f
  <2>4. QED BY <1>3, <2>2, <2>3
<1>5. f \in Seq(TimedCommands) /\ Len(f) = 7 * l
  <2>1. f = [n \in 1..(7 * l) |-> f[n]] /\ 7 * l \in Nat
    BY <1>1
  <2> HIDE DEF f
  <2>2. QED BY <1>4, <2>1, OfFunction
<1>6. TxProfileKernels = a \o f
  BY <1>2, Zenon DEF TxProfileKernels, K, l
<1>7. a \in Seq(TimedCommands)
  <2>1. CinitCopy \in TimedCommands
    BY DEF TimedCommands
  <2> DEFINE x == CinitCopy
  <2> HIDE DEF x
  <2>2. << x >> \in Seq(TimedCommands)
    BY <2>1 DEF x
  <2>3. QED BY <2>2 DEF x
<1> HIDE DEF f, a
<1>8. TxProfileKernels \in Seq(TimedCommands)
  <2>1. a \in Seq(TimedCommands) /\ f \in Seq(TimedCommands)
    BY <1>5, <1>7
  <2>2. a \o f \in Seq(TimedCommands)
    BY ONLY <2>1, Joined
  <2>3. QED BY <1>6, <2>2
<1>9. QED
  BY <1>8, ElementOfSeq, LenProperties

\* Where command k of slot s stands, and where the file is written.
At(s, k) == 5 + 7 * s + k
FileAt   == 6 + 7 * SlotsPerTb

\* The commands of main by block, slot and number.
LEMMA ProgramText ==
  ASSUME NEW profile \in BOOLEAN
  PROVE  LET p == Program(profile) IN
         /\ Len(p) \in Nat /\ FileAt <= Len(p)
         /\ \A i \in 1..5 : p[i] = Stamped(TxTb[i], 0, FALSE)
         /\ \A s \in Slots, k \in 1..7 : p[At(s, k)] = Stamped(TxSlot[k], s, FALSE)
         /\ p[FileAt] = Stamped(WriteFile, 0, FALSE)
         /\ \A n \in (FileAt + 1)..Len(p) : \E c \in TimedCommands : p[n] = Stamped(c, 0, TRUE)
<1> DEFINE N == SlotsPerTb
           no == FALSE
           yes == TRUE
           x == IF profile THEN TxProfileKernels ELSE << >>
           b == TxTb
           w == << WriteFile >>
           a == For(0, no, b)
           l == SlotLoop
           f == For(0, no, w)
           z == For(0, yes, x)
           p == Program(profile)
<1>1. N \in Nat \ {0} /\ 7 * N \in Nat
  BY ScopeAssumption
<1>2. Len(x) \in Nat /\ \A i \in 1..Len(x) : x[i] \in TimedCommands
  BY TimedText
<1>3. Len(w) = 1 /\ w[1] = WriteFile
  <2> DEFINE c == WriteFile
  <2> HIDE DEF c
  <2>1. Len(<< c >>) = 1 /\ << c >>[1] = c
    OBVIOUS
  <2>2. QED BY <2>1 DEF c
<1>4. p = ((a \o l) \o f) \o z
  BY Zenon DEF Program, WriteFile
<1>5. Len(l) = 7 * N /\ \A s \in Slots, k \in 1..7 : l[7 * s + k] = Stamped(TxSlot[k], s, no)
  BY LoopText, Zenon
<1>6. Len(b) = 5
  BY BlockText
<1> HIDE DEF b, x, w, p, no, yes
<1>7. /\ Len(a) = 5 /\ a \in Seq({a[i] : i \in 1..5})
      /\ \A n \in 1..5 : a[n] = Stamped(b[n], 0, no)
  <2>1. Len(b) \in Nat
    BY <1>6
  <2>2. Len(a) = Len(b) /\ a \in Seq({a[i] : i \in 1..Len(b)})
    BY <2>1, ForText
  <2>3. \A n \in 1..Len(b) : a[n] = Stamped(b[n], 0, no)
    BY <2>1, ForText
  <2> HIDE DEF a
  <2>4. QED BY <1>6, <2>2, <2>3
<1>8. /\ Len(f) = 1 /\ f \in Seq({f[i] : i \in 1..1}) /\ f[1] = Stamped(WriteFile, 0, no)
  <2>1. Len(w) \in Nat
    BY <1>3
  <2>2. Len(f) = Len(w) /\ f \in Seq({f[i] : i \in 1..Len(w)})
    BY <2>1, ForText
  <2>3. \A n \in 1..Len(w) : f[n] = Stamped(w[n], 0, no)
    BY <2>1, ForText
  <2> HIDE DEF f
  <2>4. 1 \in 1..Len(w) /\ Len(w) = 1
    BY <1>3
  <2>5. QED BY <1>3, <2>2, <2>3, <2>4
<1>9. /\ Len(z) = Len(x) /\ z \in Seq({z[i] : i \in 1..Len(x)})
      /\ \A n \in 1..Len(x) : z[n] = Stamped(x[n], 0, yes)
  <2>1. Len(x) \in Nat
    BY <1>2
  <2>2. Len(z) = Len(x) /\ z \in Seq({z[i] : i \in 1..Len(x)})
    BY <2>1, ForText
  <2>3. \A n \in 1..Len(x) : z[n] = Stamped(x[n], 0, yes)
    BY <2>1, ForText
  <2>4. QED BY <2>2, <2>3
<1>10. Len(l) = 7 * N /\ l \in Seq({l[i] : i \in 1..(7 * N)})
  BY LoopText, Zenon
<1> DEFINE S == {a[i] : i \in 1..5} \union {l[i] : i \in 1..(7 * N)} \union {f[i] : i \in 1..1}
                \union {z[i] : i \in 1..Len(x)}
<1> HIDE DEF a, l, f, z
<1>11. a \in Seq(S) /\ l \in Seq(S) /\ f \in Seq(S) /\ z \in Seq(S)
  <2>1. /\ {a[i] : i \in 1..5} \subseteq S /\ {l[i] : i \in 1..(7 * N)} \subseteq S
        /\ {f[i] : i \in 1..1} \subseteq S /\ {z[i] : i \in 1..Len(x)} \subseteq S
    OBVIOUS
  <2> HIDE DEF S
  <2>2. QED BY <1>7, <1>8, <1>9, <1>10, <2>1, SeqMonotonic
<1> HIDE DEF S
<1> DEFINE al  == a \o l
           alf == al \o f
<1>12. /\ al \in Seq(S) /\ Len(al) = Len(a) + Len(l)
       /\ \A j \in 1..Len(a) : al[j] = a[j]
       /\ \A j \in 1..Len(l) : al[j + Len(a)] = l[j]
  <2>1. a \in Seq(S) /\ l \in Seq(S)
    BY <1>11
  <2>2. QED BY ONLY <2>1, Joined
<1>13. alf = (a \o l) \o f
  OBVIOUS
<1> HIDE DEF al
<1>14. /\ alf \in Seq(S) /\ Len(alf) = Len(al) + Len(f)
       /\ \A j \in 1..Len(al) : alf[j] = al[j]
       /\ \A j \in 1..Len(f) : alf[j + Len(al)] = f[j]
  <2>1. al \in Seq(S) /\ f \in Seq(S)
    BY <1>11, <1>12
  <2>2. QED BY ONLY <2>1, Joined
<1> HIDE DEF alf
<1>15. /\ p \in Seq(S) /\ Len(p) = Len(alf) + Len(z)
       /\ \A j \in 1..Len(alf) : p[j] = alf[j]
       /\ \A j \in 1..Len(z) : p[j + Len(alf)] = z[j]
  <2>1. alf \in Seq(S) /\ z \in Seq(S) /\ p = alf \o z
    BY <1>4, <1>11, <1>13, <1>14
  <2>2. QED BY ONLY <2>1, Joined
<1>16. Len(al) = 5 + 7 * N /\ Len(alf) = FileAt /\ Len(p) = FileAt + Len(x)
  BY <1>1, <1>7, <1>8, <1>9, <1>10, <1>12, <1>14, <1>15 DEF FileAt
<1>17. ASSUME NEW j \in 1..(5 + 7 * N) PROVE p[j] = al[j]
  <2>1. j \in 1..Len(al) /\ j \in 1..Len(alf)
    BY <1>1, <1>16 DEF FileAt
  <2>2. QED BY <1>14, <1>15, <2>1
<1>18. ASSUME NEW i \in 1..5 PROVE p[i] = Stamped(b[i], 0, no)
  <2>1. i \in 1..Len(a) /\ i \in 1..(5 + 7 * N)
    BY <1>1, <1>7
  <2>2. QED BY <1>7, <1>12, <1>17, <2>1
<1>19. ASSUME NEW s \in Slots, NEW k \in 1..7 PROVE p[At(s, k)] = Stamped(TxSlot[k], s, no)
  <2>1. /\ 7 * s + k \in 1..Len(l) /\ (7 * s + k) + Len(a) = At(s, k)
        /\ At(s, k) \in 1..(5 + 7 * N)
    BY <1>1, <1>7, <1>10 DEF At, Slots
  <2>2. al[(7 * s + k) + Len(a)] = l[7 * s + k]
    BY <1>12, <2>1
  <2>3. p[At(s, k)] = al[At(s, k)]
    BY <1>17, <2>1
  <2>4. QED BY <1>5, <2>1, <2>2, <2>3
<1>20. p[FileAt] = Stamped(WriteFile, 0, no)
  <2>1. 1 \in 1..Len(f) /\ 1 + Len(al) = FileAt /\ FileAt \in 1..Len(alf)
    BY <1>1, <1>8, <1>16 DEF FileAt
  <2>2. alf[1 + Len(al)] = f[1]
    BY <1>14, <2>1
  <2>3. p[FileAt] = alf[FileAt]
    BY <1>15, <2>1
  <2>4. QED BY <1>8, <2>1, <2>2, <2>3
<1>21. ASSUME NEW n \in (FileAt + 1)..Len(p)
       PROVE  \E c \in TimedCommands : p[n] = Stamped(c, 0, yes)
  <2> DEFINE j == n - FileAt
  <2>1. FileAt \in Nat
    BY <1>1 DEF FileAt
  <2>2. j \in 1..Len(x) /\ j + Len(alf) = n /\ j \in 1..Len(z)
    BY <1>2, <1>9, <1>16, <2>1
  <2> HIDE DEF j
  <2>3. p[j + Len(alf)] = z[j]
    BY <1>15, <2>2
  <2>4. p[n] = Stamped(x[j], 0, yes)
    BY <1>9, <2>2, <2>3
  <2>5. QED BY <1>2, <2>2, <2>4
<1>22. Len(p) \in Nat /\ FileAt <= Len(p)
  BY <1>1, <1>2, <1>16 DEF FileAt
<1>23. QED
  BY <1>18, <1>19, <1>20, <1>21, <1>22, Zenon DEF p, b, no, yes

LEMMA SlotNumbers ==
  /\ SlotsPerTb \in Nat \ {0} /\ FileAt \in Nat
  /\ \A s \in Slots : s \in Nat /\ s < SlotsPerTb
  BY ScopeAssumption DEF Slots, FileAt

\* A slot's commands by number: their fields ...
LEMMA SlotKinds ==
  /\ TxSlot[1].op = "qam256_mod" /\ TxSlot[2].op = "upload_dmrs_cinit" /\ TxSlot[3].op = "dmrs_gen"
  /\ TxSlot[4].op = "merge_dmrs_device" /\ TxSlot[5].op = "re_map" /\ TxSlot[6].op = "ofdm_mod"
  /\ TxSlot[7].op = "download"
  /\ TxSlot[1].out = {"gu"} /\ TxSlot[2].out = {"cinit"} /\ TxSlot[3].out = {"dmrs"}
  /\ TxSlot[4].out = {"gu"} /\ TxSlot[5].out = {"gf"} /\ TxSlot[6].out = {"ofdm_iq"}
  /\ TxSlot[7].out = {"iq"}
  BY SlotText DEF QamMod, CinitCopy, DmrsGen, Merge, ReMap, OfdmMod, Download, Kernel, Memcpy, Command

\* ... and who writes the grids and the pilots.
LEMMA SlotWriters ==
  ASSUME NEW k \in 1..7
  PROVE  /\ TxSlot[k] \in SlotCommands
         /\ "gu" \in TxSlot[k].out <=> k \in {1, 4}
         /\ "dmrs" \in TxSlot[k].out <=> k = 3
         /\ "gf" \in TxSlot[k].out <=> k = 5
         /\ TxSlot[k].op = "merge_dmrs_device" <=> k = 4
         /\ TxSlot[k].op = "ofdm_mod" <=> k = 6
<1>1. k \in {1, 2, 3, 4, 5, 6, 7}
  OBVIOUS
<1>2. TxSlot[k] \in SlotCommands
  BY SlotText, ElementOfSeq
<1>3. QED
  BY <1>1, <1>2, SlotKinds

\* What the rest of a program does not do.
LEMMA OtherCommands ==
  /\ \A c \in BlockCommands : c.op \notin {"qam256_mod", "merge_dmrs_device", "ofdm_mod"}
  /\ WriteFile.op \notin {"qam256_mod", "merge_dmrs_device", "ofdm_mod"}
  /\ \A c \in TimedCommands : c.op # "merge_dmrs_device"
  BY DEF BlockCommands, TimedCommands, WriteFile, QamMod, CinitCopy, DmrsGen, ReMap, OfdmMod,
         Synchronize, Kernel, Memcpy, Command

\* The places of a program.
LEMMA Places ==
  ASSUME NEW e \in DOMAIN Programs, NEW n \in 1..Len(Programs[e])
  PROVE  \/ n \in 1..5
         \/ \E s \in Slots, k \in 1..7 : n = At(s, k)
         \/ n = FileAt
         \/ n \in (FileAt + 1)..Len(Programs[e])
<1> DEFINE l == Len(Programs[e])
<1>1. l \in Nat
  BY ProgramText DEF Programs
<1> HIDE DEF l
<1>2. n \in 1..l
  BY DEF l
<1>3. CASE n \in 6..(FileAt - 1)
  <2> DEFINE s == (n - 6) \div 7
             k == ((n - 6) % 7) + 1
  <2>1. s \in 0..(SlotsPerTb - 1) /\ k \in 1..7 /\ n = 5 + 7 * s + k
    BY <1>3, SlotNumbers DEF FileAt
  <2> HIDE DEF s, k
  <2>2. QED BY <2>1 DEF At, Slots
<1>4. n \in 1..5 \/ n \in 6..(FileAt - 1) \/ n = FileAt \/ n \in (FileAt + 1)..l
  BY <1>1, <1>2, SlotNumbers
<1>5. QED
  BY <1>3, <1>4 DEF l

\* Every command of a program is one of the chain's.
LEMMA EveryCommand ==
  ASSUME NEW e \in DOMAIN Programs
  PROVE  /\ Len(Programs[e]) \in Nat
         /\ \A n \in 1..Len(Programs[e]) : \E c \in Commands :
              /\ Programs[e][n].do = c.do /\ Programs[e][n].op = c.op
              /\ Programs[e][n].in = c.in /\ Programs[e][n].out = c.out
<1> DEFINE p == Programs[e]
<1>1. /\ Len(p) \in Nat
      /\ \A i \in 1..5 : p[i] = Stamped(TxTb[i], 0, FALSE)
      /\ \A s \in Slots, k \in 1..7 : p[At(s, k)] = Stamped(TxSlot[k], s, FALSE)
      /\ p[FileAt] = Stamped(WriteFile, 0, FALSE)
      /\ \A n \in (FileAt + 1)..Len(p) : \E c \in TimedCommands : p[n] = Stamped(c, 0, TRUE)
  BY ProgramText DEF Programs
<1> HIDE DEF p
<1>2. ASSUME NEW n \in 1..Len(p), NEW c \in Commands, NEW s, NEW timed, p[n] = Stamped(c, s, timed)
      PROVE  \E d \in Commands : p[n].do = d.do /\ p[n].op = d.op /\ p[n].in = d.in /\ p[n].out = d.out
  BY <1>2 DEF Stamped
<1>3. /\ \A i \in 1..5 : TxTb[i] \in Commands
      /\ \A k \in 1..7 : TxSlot[k] \in Commands
      /\ WriteFile \in Commands /\ TimedCommands \subseteq Commands
  BY BlockText, SlotWriters DEF Commands
<1>4. ASSUME NEW n \in 1..Len(p) PROVE \E c \in Commands : \E s, timed : p[n] = Stamped(c, s, timed)
  <2>1. \/ n \in 1..5
        \/ \E s \in Slots, k \in 1..7 : n = At(s, k)
        \/ n = FileAt
        \/ n \in (FileAt + 1)..Len(p)
    BY Places DEF p
  <2>2. CASE n \in 1..5
    <3>1. p[n] = Stamped(TxTb[n], 0, FALSE) /\ TxTb[n] \in Commands
      BY ONLY <1>1, <1>3, <2>2
    <3>2. QED BY ONLY <3>1, Zenon
  <2>3. CASE \E s \in Slots, k \in 1..7 : n = At(s, k)
    <3>1. PICK s \in Slots, k \in 1..7 : n = At(s, k)
      BY <2>3
    <3>2. p[n] = Stamped(TxSlot[k], s, FALSE)
      BY <1>1, <3>1
    <3>3. TxSlot[k] \in Commands
      BY <1>3
    <3>4. QED BY <3>2, <3>3, Zenon
  <2>4. CASE n = FileAt
    BY <1>1, <1>3, <2>4, Zenon
  <2>5. CASE n \in (FileAt + 1)..Len(p)
    <3>1. PICK c \in TimedCommands : p[n] = Stamped(c, 0, TRUE)
      BY <1>1, <2>5
    <3>2. c \in Commands
      BY <1>3, <3>1
    <3>3. QED BY <3>1, <3>2, Zenon
  <2>6. QED BY <2>1, <2>2, <2>3, <2>4, <2>5
<1>5. ASSUME NEW n \in 1..Len(p)
      PROVE  \E d \in Commands : p[n].do = d.do /\ p[n].op = d.op /\ p[n].in = d.in /\ p[n].out = d.out
  <2>1. PICK c \in Commands : \E s, timed : p[n] = Stamped(c, s, timed)
    BY <1>4
  <2>2. QED BY <1>2, <2>1
<1>6. QED
  BY <1>1, <1>5, Zenon DEF p

\* The assumption of DeviceStream on its programs.
LEMMA ProgramsWellFormed == Ds!ProgramsAssumption
<1>1. ASSUME NEW e \in DOMAIN Programs, NEW n \in 1..Len(Programs[e])
      PROVE  LET c == Programs[e][n]
             IN /\ c.do \in Kinds /\ c.in \subseteq Buffers /\ c.out \subseteq Buffers
                /\ c.do = "sync" => c.out = {}
  BY EveryCommand, CommandFacts
<1>2. QED
  BY <1>1, EveryCommand DEF Ds!ProgramsAssumption, Ds!Kinds, Kinds

\* No host copy touches the scrambled bits, the grids or the pilots.
Grids == {"scr", "gu", "dmrs", "gf"}

LEMMA CopiesAvoidGrids ==
  ASSUME NEW e \in DOMAIN Programs, NEW n \in 1..Len(Programs[e]), Programs[e][n].do = "copy",
         NEW b \in Grids
  PROVE  b \notin Programs[e][n].in \union Programs[e][n].out
  BY EveryCommand, CommandFacts DEF Grids

LEMMA GridsAreOrdered ==
  ASSUME program \in DOMAIN Programs
  PROVE  Grids \subseteq Ds!OrderedBuffers
<1>1. ASSUME NEW b \in Grids, NEW m \in 1..Len(Ds!Code), NEW n \in 1..Len(Ds!Code),
             Ds!Code[n].do = "copy"
      PROVE  ~Ds!Share(Ds!Code[m], Ds!Code[n], b)
  BY <1>1, CopiesAvoidGrids DEF Ds!Share, Ds!Code
<1>2. Grids \subseteq Buffers
  BY DEF Grids, Buffers
<1>3. QED
  BY <1>1, <1>2 DEF Ds!OrderedBuffers, Ds!Ordered

-----------------------------------------------------------------------------
\* The state.  The inductive invariant is the one of DeviceStreamProofs.

IInv == Ds!IInv

\* The commands of the program at hand.
LEMMA CodeText ==
  ASSUME program \in DOMAIN Programs
  PROVE  /\ Len(Code) \in Nat /\ FileAt <= Len(Code)
         /\ \A i \in 1..5 : Code[i] = Stamped(TxTb[i], 0, FALSE)
         /\ \A s \in Slots, k \in 1..7 : Code[At(s, k)] = Stamped(TxSlot[k], s, FALSE)
         /\ Code[FileAt] = Stamped(WriteFile, 0, FALSE)
         /\ \A n \in (FileAt + 1)..Len(Code) : \E c \in TimedCommands : Code[n] = Stamped(c, 0, TRUE)
  BY ProgramText DEF Programs, Code

LEMMA CodeOfSlot ==
  ASSUME program \in DOMAIN Programs, NEW s \in Slots, NEW k \in 1..7
  PROVE  /\ Code[At(s, k)].op = TxSlot[k].op /\ Code[At(s, k)].out = TxSlot[k].out
         /\ Code[At(s, k)].slot = s /\ Code[At(s, k)].timed = FALSE
<1>1. Code[At(s, k)] = Stamped(TxSlot[k], s, FALSE)
  BY CodeText
<1>2. QED
  BY <1>1 DEF Stamped

\* The device reads the grids, the pilots and the scrambled bits as they stand
\* in program order, however far the host is ahead of it.
LEMMA InOrder ==
  ASSUME IInv, stream # << >>, NEW b \in Grids
  PROVE  /\ program \in DOMAIN Programs /\ Head(stream) \in 1..Len(Code)
         /\ mem[b] \in Nat /\ LastWriter(b, Head(stream), mem[b])
<1>1. program \in DOMAIN Programs /\ mem \in [Buffers -> Nat]
  BY DEF IInv, Ds!IInv, Ds!TypeOK
<1>2. Head(stream) \in Ds!Queued
  BY ProgramsWellFormed, Ds!OldestQueued DEF IInv, Ds!IInv
<1>3. Head(stream) \in 1..Len(Code)
  BY <1>2, ProgramsWellFormed, Ds!QueuedRange DEF IInv, Ds!Code, Code
<1>4. b \in Ds!OrderedBuffers /\ b \in Buffers
  BY <1>1, GridsAreOrdered DEF Grids, Buffers
<1>5. \A n \in (Head(stream) + 1)..(pc - 1) : b \in Ds!Code[n].out => Ds!Code[n].do # "copy"
  <2>1. \A n \in 1..Len(Ds!Code) : b \in Ds!Code[n].out => Ds!Code[n].do # "copy"
    BY <1>1, CopiesAvoidGrids DEF Ds!Code
  <2>2. Len(Code) \in Nat /\ pc \in 1..(Len(Code) + 1)
    BY <1>1, CodeText DEF IInv, Ds!IInv, Ds!TypeOK, Ds!Code, Code
  <2>3. \A n \in (Head(stream) + 1)..(pc - 1) : n \in 1..Len(Code)
    BY <1>3, <2>2
  <2>4. QED BY <2>1, <2>3 DEF Ds!Code, Code
<1>6. Ds!LastWriter(b, Head(stream), mem[b])
  BY <1>4, <1>5, ProgramsWellFormed, Ds!HeadFindsInOrder DEF IInv
<1>7. LastWriter(b, Head(stream), mem[b])
  BY <1>6 DEF Ds!LastWriter, LastWriter, Ds!Code, Code
<1>8. QED
  BY <1>1, <1>3, <1>4, <1>7

\* The last writer is no earlier than any writer before the read.
LEMMA LastWrite ==
  ASSUME NEW b, NEW h \in Nat, NEW w \in Nat, LastWriter(b, h, w),
         NEW n \in 1..(h - 1), b \in Code[n].out
  PROVE  w \in n..(h - 1) /\ w # 0 /\ b \in Code[w].out
<1>1. ~(n \in (w + 1)..(h - 1))
  BY DEF LastWriter
<1>2. n <= w
  BY <1>1
<1>3. w \in 1..(h - 1) /\ b \in Code[w].out
  BY <1>2 DEF LastWriter
<1>4. QED
  BY <1>2, <1>3

\* What a slot reads of a buffer that an earlier command of the slot wrote: the
\* write of this command, or of a later one of the same slot.
LEMMA ReadInSlot ==
  ASSUME IInv, stream # << >>, NEW b \in Grids,
         NEW s \in Slots, NEW j \in 1..7, NEW k \in 1..7, j < k,
         Head(stream) = At(s, k), b \in TxSlot[j].out
  PROVE  \E i \in 1..7 : /\ i \in j..(k - 1) /\ mem[b] = At(s, i) /\ b \in TxSlot[i].out
                         /\ Wrote(b).op = TxSlot[i].op /\ Wrote(b).slot = s
<1>1. /\ program \in DOMAIN Programs /\ mem[b] \in Nat /\ LastWriter(b, At(s, k), mem[b])
  BY InOrder
<1>2. s \in Nat
  BY SlotNumbers
<1>3. At(s, k) \in Nat /\ At(s, j) \in 1..(At(s, k) - 1)
  BY <1>2 DEF At
<1>4. b \in Code[At(s, j)].out
  BY <1>1, CodeOfSlot
<1> DEFINE w == mem[b]
<1>5. w \in Nat /\ LastWriter(b, At(s, k), w)
  BY <1>1
<1> HIDE DEF w
<1>6. w \in At(s, j)..(At(s, k) - 1) /\ b \in Code[w].out
  BY <1>3, <1>4, <1>5, LastWrite
<1> DEFINE i == w - (5 + 7 * s)
<1>7. i \in 1..7 /\ i \in j..(k - 1) /\ w = At(s, i)
  <2>1. i \in j..(k - 1) /\ w = 5 + 7 * s + i
    BY <1>2, <1>5, <1>6 DEF At
  <2> HIDE DEF i
  <2>2. QED BY <2>1 DEF At
<1> HIDE DEF i
<1>8. /\ Code[At(s, i)].op = TxSlot[i].op /\ Code[At(s, i)].out = TxSlot[i].out
      /\ Code[At(s, i)].slot = s
  BY <1>1, <1>7, CodeOfSlot
<1>9. Wrote(b) = Code[At(s, i)] /\ mem[b] = At(s, i)
  BY <1>7 DEF Wrote, w
<1>10. QED
  BY <1>6, <1>7, <1>8, <1>9

\* Only the slots merge, and modulate other than to be timed, and the block
\* maps no bits.
LEMMA OperationOfSlot ==
  ASSUME program \in DOMAIN Programs, NEW h \in 1..Len(Code)
  PROVE  /\ Code[h].op = "merge_dmrs_device" => \E s \in Slots : h = At(s, 4)
         /\ Code[h].op = "ofdm_mod" /\ ~Code[h].timed => \E s \in Slots : h = At(s, 6)
         /\ Code[h].op = "qam256_mod" => h \notin 1..5
<1>1. ASSUME h \in 1..5
      PROVE  Code[h].op \notin {"qam256_mod", "merge_dmrs_device", "ofdm_mod"}
  <2>1. Code[h] = Stamped(TxTb[h], 0, FALSE) /\ TxTb[h] \in BlockCommands
    BY <1>1, CodeText, BlockText
  <2>2. Code[h].op = TxTb[h].op
    BY <2>1 DEF Stamped
  <2>3. QED BY <2>1, <2>2, OtherCommands
<1>2. ASSUME NEW s \in Slots, NEW k \in 1..7, h = At(s, k)
      PROVE  /\ Code[h].op = "merge_dmrs_device" => k = 4
             /\ Code[h].op = "ofdm_mod" => k = 6
  <2>1. Code[h].op = TxSlot[k].op
    BY <1>2, CodeOfSlot
  <2>2. QED BY <2>1, SlotWriters
<1>3. ASSUME h = FileAt
      PROVE  Code[h].op \notin {"qam256_mod", "merge_dmrs_device", "ofdm_mod"}
  <2>1. Code[h] = Stamped(WriteFile, 0, FALSE)
    BY <1>3, CodeText
  <2>2. Code[h].op = WriteFile.op
    BY <2>1 DEF Stamped
  <2>3. QED BY <2>2, OtherCommands
<1>4. ASSUME h \in (FileAt + 1)..Len(Code)
      PROVE  Code[h].op # "merge_dmrs_device" /\ Code[h].timed
  <2>1. PICK c \in TimedCommands : Code[h] = Stamped(c, 0, TRUE)
    BY <1>4, CodeText
  <2>2. Code[h].op = c.op /\ Code[h].timed = TRUE
    BY <2>1 DEF Stamped
  <2>3. QED BY <2>2, OtherCommands
<1>5. \/ h \in 1..5
      \/ \E s \in Slots, k \in 1..7 : h = At(s, k)
      \/ h = FileAt
      \/ h \in (FileAt + 1)..Len(Code)
  BY Places DEF Code
<1>6. CASE \E s \in Slots, k \in 1..7 : h = At(s, k)
  <2>1. PICK s \in Slots, k \in 1..7 : h = At(s, k)
    BY <1>6
  <2>2. /\ Code[h].op = "merge_dmrs_device" => h = At(s, 4)
        /\ Code[h].op = "ofdm_mod" => h = At(s, 6)
    BY <1>2, <2>1
  <2>3. QED BY <1>1, <2>2
<1>7. QED
  BY <1>1, <1>3, <1>4, <1>5, <1>6

\* The bits of a slot are the scrambled ones of the block.
LEMMA BitsOfTheBlock ==
  ASSUME IInv, Executing("qam256_mod")
  PROVE  mem["scr"] # 0 /\ Wrote("scr").op = "scramble"
<1> DEFINE h == Head(stream)
           w == mem["scr"]
<1>1. stream # << >> /\ Code[h].op = "qam256_mod" /\ "scr" \in Grids
  BY DEF Executing, Grids
<1>2. program \in DOMAIN Programs /\ h \in 1..Len(Code) /\ w \in Nat /\ LastWriter("scr", h, w)
  BY <1>1, InOrder
<1>3. h \notin 1..5
  BY <1>1, <1>2, OperationOfSlot
<1>4. "scr" \in Code[5].out
  <2>1. Code[5] = Stamped(TxTb[5], 0, FALSE)
    <3>1. program \in DOMAIN Programs /\ 5 \in 1..5
      BY <1>2
    <3>2. QED BY ONLY <3>1, CodeText
  <2>2. QED BY <2>1, BlockText DEF Stamped
<1>5. Len(Code) \in Nat
  BY <1>2, CodeText
<1> HIDE DEF h, w
<1>6. h \in Nat /\ 5 \in 1..(h - 1)
  BY <1>2, <1>3, <1>5
<1>7. w \in 5..(h - 1) /\ w # 0 /\ "scr" \in Code[w].out
  BY <1>2, <1>4, <1>6, LastWrite
<1>8. w \in 1..Len(Code)
  BY <1>2, <1>5, <1>6, <1>7
<1>9. Code[w].op = "scramble"
  BY <1>2, <1>7, <1>8, EveryCommand, CommandFacts DEF Code
<1>10. QED
  BY <1>7, <1>9 DEF Wrote, w

\* The pilots of a slot are merged into the grid the slot has filled.
LEMMA MergesItsOwn ==
  ASSUME IInv, Executing("merge_dmrs_device")
  PROVE  /\ Wrote("gu").op = "qam256_mod" /\ Wrote("gu").slot = Now.slot
         /\ Wrote("dmrs").op = "dmrs_gen" /\ Wrote("dmrs").slot = Now.slot
<1>1. stream # << >> /\ Code[Head(stream)].op = "merge_dmrs_device"
  BY DEF Executing
<1>2. program \in DOMAIN Programs /\ Head(stream) \in 1..Len(Code)
  BY <1>1, InOrder DEF Grids
<1>3. PICK s \in Slots : Head(stream) = At(s, 4)
  BY <1>1, <1>2, OperationOfSlot
<1>4. Now.slot = s
  <2>1. Code[At(s, 4)].slot = s
    <3>1. program \in DOMAIN Programs /\ s \in Slots /\ 4 \in 1..7
      BY <1>2, <1>3
    <3>2. QED BY ONLY <3>1, CodeOfSlot
  <2>2. QED BY <1>3, <2>1 DEF Now
<1>5. PICK i \in 1..7 : /\ i \in 1..(4 - 1) /\ "gu" \in TxSlot[i].out
                        /\ Wrote("gu").op = TxSlot[i].op /\ Wrote("gu").slot = s
  <2>1. "gu" \in TxSlot[1].out /\ "gu" \in Grids
    BY SlotKinds DEF Grids
  <2>2. QED BY <1>1, <1>3, <2>1, ReadInSlot
<1>6. i = 1
  BY <1>5, SlotWriters
<1>7. PICK j \in 1..7 : /\ j \in 3..(4 - 1)
                        /\ Wrote("dmrs").op = TxSlot[j].op /\ Wrote("dmrs").slot = s
  <2>1. "dmrs" \in TxSlot[3].out /\ "dmrs" \in Grids
    BY SlotKinds DEF Grids
  <2>2. QED BY <1>1, <1>3, <2>1, ReadInSlot
<1>8. j = 3
  BY <1>7
<1>9. QED
  BY <1>4, <1>5, <1>6, <1>7, <1>8, SlotKinds

\* The grid that is modulated was mapped by the slot, and merged before.
LEMMA ModulatesItsOwn ==
  ASSUME IInv, Executing("ofdm_mod"), ~Now.timed
  PROVE  /\ Wrote("gf").op = "re_map" /\ Wrote("gf").slot = Now.slot
         /\ Wrote("gu").op = "merge_dmrs_device" /\ Wrote("gu").slot = Now.slot
         /\ mem["gu"] < mem["gf"]
<1>1. stream # << >> /\ Code[Head(stream)].op = "ofdm_mod" /\ ~Code[Head(stream)].timed
  BY DEF Executing, Now
<1>2. program \in DOMAIN Programs /\ Head(stream) \in 1..Len(Code)
  BY <1>1, InOrder DEF Grids
<1>3. PICK s \in Slots : Head(stream) = At(s, 6)
  BY <1>1, <1>2, OperationOfSlot
<1>4. Now.slot = s
  <2>1. Code[At(s, 6)].slot = s
    <3>1. program \in DOMAIN Programs /\ s \in Slots /\ 6 \in 1..7
      BY <1>2, <1>3
    <3>2. QED BY ONLY <3>1, CodeOfSlot
  <2>2. QED BY <1>3, <2>1 DEF Now
<1>5. PICK i \in 1..7 : /\ i \in 4..(6 - 1) /\ mem["gu"] = At(s, i) /\ "gu" \in TxSlot[i].out
                        /\ Wrote("gu").op = TxSlot[i].op /\ Wrote("gu").slot = s
  <2>1. "gu" \in TxSlot[4].out /\ "gu" \in Grids
    BY SlotKinds DEF Grids
  <2>2. QED BY <1>1, <1>3, <2>1, ReadInSlot
<1>6. i = 4
  BY <1>5, SlotWriters
<1>7. PICK j \in 1..7 : /\ j \in 5..(6 - 1) /\ mem["gf"] = At(s, j)
                        /\ Wrote("gf").op = TxSlot[j].op /\ Wrote("gf").slot = s
  <2>1. "gf" \in TxSlot[5].out /\ "gf" \in Grids
    BY SlotKinds DEF Grids
  <2>2. QED BY <1>1, <1>3, <2>1, ReadInSlot
<1>8. j = 5
  BY <1>7
<1>9. At(s, 4) < At(s, 5)
  BY SlotNumbers DEF At
<1>10. QED
  BY <1>4, <1>5, <1>6, <1>7, <1>8, <1>9, SlotKinds

LEMMA InvariantGrid == IInv => SlotFromItsOwnGrid
  BY BitsOfTheBlock, MergesItsOwn, ModulatesItsOwn DEF SlotFromItsOwnGrid

LEMMA InitIInv == Init => IInv
<1>1. Init => Ds!Init
  BY DEF Init, Ds!Init
<1>2. QED
  BY <1>1, ProgramsWellFormed, Ds!InitIInv DEF IInv

LEMMA NextIInv == ASSUME IInv, [Next]_vars PROVE IInv'
<1>1. [Ds!Next]_(Ds!vars)
  BY DEF Next, Ds!Next, vars, Ds!vars, Launch, Ds!Launch, Copy, Ds!Copy, Sync, Ds!Sync,
         Execute, Ds!Execute, AtHost, Ds!AtHost, Perform, Ds!Perform, Code, Ds!Code
<1>2. QED
  BY <1>1, ProgramsWellFormed, Ds!NextIInv DEF IInv

\* Although nothing synchronises the transmitter between its slots and the host
\* uploads and downloads behind queued kernels, every slot is modulated from a
\* grid its own kernels filled, merged and mapped in this order, out of the
\* scrambled bits of the block: for any number of slots, timed or not.
THEOREM SlotsModulateTheirOwnGrid == Spec => []SlotFromItsOwnGrid
<1>1. Init => IInv
  BY InitIInv
<1>2. IInv /\ [Next]_vars => IInv'
  BY NextIInv
<1>3. IInv => SlotFromItsOwnGrid
  BY InvariantGrid
<1>4. QED
  BY <1>1, <1>2, <1>3, PTL DEF Spec
===============================================================================
