---------------------------- MODULE KernelEvents ----------------------------
(***************************************************************************)
(* What a kernel's text alone says of the order of its instructions: events *)
(* and PIPE_ALL are its only means, and a conflict they do not order is a   *)
(* race on some device.  KernelPipesProofs shows the converse: conflicts    *)
(* they order never race.                                                   *)
(***************************************************************************)
EXTENDS KernelPipes, FiniteSets

\* The unit's last instruction before the n-th, if there is one.
Preceding(p, u, n) ==
  {j \in 1..(n - 1) : p[j].unit = u /\ \A i \in (j + 1)..(n - 1) : p[i].unit # u}

\* How often the text sets, or waits for, an event up to its n-th instruction.
Sets(p, f, n)  == {m \in 1..n : p[m].do = "set" /\ p[m].flag = f}
Waits(p, f, n) == {m \in 1..n : p[m].do = "wait" /\ p[m].flag = f}

\* The units of one core, by its scalar unit.
UnitsOf(p, s) == {u \in {p[n].unit : n \in 1..Len(p)} : Scalar(u) = s}

\* The earlier signal that the wait at n is for.
Announcing(p, n) ==
  {s \in 1..(n - 1) :
     /\ p[n].do = "wait" /\ p[s].do = "set" /\ p[s].flag = p[n].flag
     /\ Cardinality(Sets(p, p[n].flag, s)) = Cardinality(Waits(p, p[n].flag, n))}

\* What is done when the n-th instruction is under way, for one reason: the
\* previous one of its unit, the last of the scalar unit, which has issued it,
\* the signal it waits for, or what PIPE_ALL stops for.
Causes(p, n) ==
  Announcing(p, n) \union
  UNION {Preceding(p, u, n) :
           u \in {p[n].unit, Scalar(p[n].unit)}
                   \union IF p[n].do = "barrier" THEN UnitsOf(p, p[n].unit) ELSE {}}

\* before[n] has nothing in it but causes of n and what is before them.
Justified(p, before) ==
  \A n \in 1..Len(p) :
    before[n] \subseteq UNION {{j} \union before[j] : j \in Causes(p, n)}

\* Every conflict that a property of KernelPipes forbids is an ordered one.
ConflictsOrdered(k, before) ==
  \A n \in 1..Len(Programs[k]) : \A m \in 1..(n - 1) :
    LET early == Programs[k][m]
        late  == Programs[k][n]
    IN  (early.unit # late.unit /\ m \notin before[n]) =>
          /\ \A b \in (early.in \union early.out) \intersect late.out :
               Excepted("TilesNotOverwritten", k, b)
          /\ \A b \in early.out \intersect late.in :
               Excepted(IF late.unit[2] = "S" THEN "ScalarReadsArrive" ELSE "OperandsArrive", k, b)

OrderedByEvents(k, before) ==
  Justified(Programs[k], before) /\ ConflictsOrdered(k, before)

\* As many waits as signals, event by event.
Balanced(k) ==
  \A f \in Flags(k) :
    Cardinality(Sets(Programs[k], f, Len(Programs[k])))
      = Cardinality(Waits(Programs[k], f, Len(Programs[k])))
=============================================================================
