----------------------------- MODULE QueryProofs -----------------------------
(***************************************************************************)
(* Proofs about the program: that whatever it is started with, parse_cli   *)
(* lets pass only options that run_query can work with, and that the       *)
(* answer of a query is the one its options ask for.                       *)
(***************************************************************************)
EXTENDS Program, ExternalSortProofs, FiniteSetTheorems, WellFoundedInduction

-----------------------------------------------------------------------------
(* Induction, and what FlattenSeq makes of sequences. *)

\* A set of natural numbers has a least one.
LEMMA Least == ASSUME NEW S \in SUBSET Nat, S # {} PROVE \E n \in S : \A m \in S : n <= m
<1> DEFINE R == OpToRel(<, Nat)
<1>1. IsWellFoundedOn(R, Nat)
  BY NatLessThanWellFounded
<1>2. \A m, n \in Nat : m < n => <<m, n>> \in R
  BY DEF OpToRel
<1> HIDE DEF R
<1>3. PICK n \in S : \A m \in S : <<m, n>> \notin R
  BY <1>1, WFMin
<1>4. ASSUME NEW m \in S PROVE n <= m
  <2>1. ~(m < n)
    BY <1>2, <1>3
  <2> QED BY <2>1
<1> QED BY <1>4

\* Induction, for a set of natural numbers.
LEMMA NatSetInduction ==
  ASSUME NEW P \in SUBSET Nat, 0 \in P, \A n \in P : n + 1 \in P
  PROVE  P = Nat
<1> SUFFICES ASSUME Nat \ P # {} PROVE FALSE
  OBVIOUS
<1>1. PICK n \in Nat \ P : \A m \in Nat \ P : n <= m
  BY Least
<1>2. n # 0 /\ n - 1 \in Nat
  BY <1>1
<1>3. n - 1 \in P
  BY <1>1, <1>2
<1> QED
  BY <1>1, <1>2, <1>3


\* A function on 0 .. N that is computed from its value before.
Computed(V, a, step, N, f) ==
  /\ f \in [0 .. N -> V]
  /\ f[0] = a
  /\ \A n \in 1 .. N : f[n] = step[n][f[n - 1]]

\* A function that is computed from its value before exists.
LEMMA Recursion ==
  ASSUME NEW V, NEW a \in V, NEW step \in [Nat -> [V -> V]], NEW N \in Nat
  PROVE  \E f : Computed(V, a, step, N, f)
<1> DEFINE Upto(f, m) == f[0] = a /\ \A n \in 1 .. m : f[n] = step[n][f[n - 1]]
           P == {m \in Nat : \E f \in [0 .. m -> V] : Upto(f, m)}
<1>1. 0 \in P
  <2>1. [n \in 0 .. 0 |-> a] \in [0 .. 0 -> V] /\ Upto([n \in 0 .. 0 |-> a], 0)
    OBVIOUS
  <2> QED
    BY <2>1
<1>2. ASSUME NEW m \in P PROVE m + 1 \in P
  <2>1. PICK f \in [0 .. m -> V] : Upto(f, m)
    OBVIOUS
  <2> DEFINE g == [n \in 0 .. m + 1 |-> IF n = m + 1 THEN step[n][f[m]] ELSE f[n]]
  <2>2. g \in [0 .. m + 1 -> V]
    BY <2>1
  <2>3. /\ \A n \in 0 .. m : g[n] = f[n]
        /\ g[m + 1] = step[m + 1][f[m]]
    BY <2>1
  <2>4. \A n \in 1 .. m + 1 : n - 1 \in 0 .. m /\ (n = m + 1 => n - 1 = m) /\ (n # m + 1 => n \in 1 .. m)
    OBVIOUS
  <2> HIDE DEF g
  <2>5. Upto(g, m + 1)
    <3>1. g[0] = a
      BY <2>1, <2>3
    <3>2. ASSUME NEW n \in 1 .. m + 1 PROVE g[n] = step[n][g[n - 1]]
      <4>1. CASE n = m + 1
        BY <2>3, <2>4, <4>1
      <4>2. CASE n # m + 1
        <5>1. n \in 1 .. m /\ n \in 0 .. m /\ n - 1 \in 0 .. m
          BY <4>2
        <5>2. g[n] = f[n] /\ g[n - 1] = f[n - 1] /\ f[n] = step[n][f[n - 1]]
          BY <2>1, <2>3, <5>1
        <5> QED
          BY <5>2
      <4> QED
        BY <4>1, <4>2
    <3> QED
      BY <3>1, <3>2
  <2>6. m + 1 \in Nat
    OBVIOUS
  <2> HIDE DEF Upto
  <2> QED
    BY <2>2, <2>5, <2>6
<1>3. P = Nat
  <2>1. P \in SUBSET Nat
    OBVIOUS
  <2> HIDE DEF P
  <2> QED
    BY <1>1, <1>2, <2>1, NatSetInduction
<1> QED
  BY <1>3 DEF Computed

\* The recursive function inside FlattenSeq, of which tlapm knows no more than
\* that it is a chosen one, is what it is defined to be.
LEMMA FlattenIs ==
  ASSUME NEW T, NEW ss \in Seq(Seq(T)), ss # <<>>
  PROVE  \E f \in [1 .. Len(ss) -> Seq(T)] :
           /\ f[1] = ss[1]
           /\ \A i \in 2 .. Len(ss) : f[i] = f[i - 1] \o ss[i]
           /\ FlattenSeq(ss) = f[Len(ss)]
<1> DEFINE Eq(f) == f = [i \in 1 .. Len(ss) |-> IF i = 1 THEN ss[i] ELSE f[i - 1] \o ss[i]]
           flatten == CHOOSE f : Eq(f)
           N == Len(ss) - 1
           h == [n \in Nat |-> [s \in Seq(T) |-> IF n + 1 \in 1 .. Len(ss) THEN s \o ss[n + 1] ELSE s]]
<1>1. ss[1] \in Seq(T) /\ N \in Nat /\ N + 1 = Len(ss)
  OBVIOUS
<1>2. h \in [Nat -> [Seq(T) -> Seq(T)]]
  <2>1. ASSUME NEW n \in Nat, NEW s \in Seq(T)
        PROVE  (IF n + 1 \in 1 .. Len(ss) THEN s \o ss[n + 1] ELSE s) \in Seq(T)
    OBVIOUS
  <2> QED
    BY <2>1
<1> HIDE DEF N, h
<1>3. PICK g \in [0 .. N -> Seq(T)] :
        g[0] = ss[1] /\ \A n \in 1 .. N : g[n] = h[n][g[n - 1]]
  <2> DEFINE a == ss[1]
             V == Seq(T)
  <2>1. a \in V /\ N \in Nat /\ h \in [Nat -> [V -> V]]
    BY <1>1, <1>2
  <2> HIDE DEF a, V
  <2>2. \E f : Computed(V, a, h, N, f)
    BY <2>1, Recursion
  <2> QED
    BY <2>2 DEF a, V, Computed
<1> USE DEF h
<1>4. \A n \in 1 .. N : g[n] = g[n - 1] \o ss[n + 1]
  <2>1. ASSUME NEW n \in 1 .. N PROVE g[n] = g[n - 1] \o ss[n + 1]
    <3>1. n \in Nat /\ n - 1 \in 0 .. N /\ n + 1 \in 1 .. Len(ss)
      BY <1>1
    <3>2. g[n - 1] \in Seq(T)
      BY <1>3, <3>1
    <3> QED
      BY <1>3, <3>1, <3>2
  <2> QED BY <2>1
<1> HIDE DEF h
<1> DEFINE f == [i \in 1 .. Len(ss) |-> g[i - 1]]
<1>5. Eq(f)
  <2>1. ASSUME NEW i \in 1 .. Len(ss)
        PROVE  f[i] = IF i = 1 THEN ss[i] ELSE f[i - 1] \o ss[i]
    <3>1. CASE i = 1
      BY <1>3, <3>1
    <3>2. CASE i # 1
      <4>1. i - 1 \in 1 .. N /\ i - 1 \in 1 .. Len(ss) /\ (i - 1) + 1 = i
        BY <1>1, <3>2
      <4>2. f[i] = g[i - 1] /\ f[i - 1] = g[(i - 1) - 1]
        BY <4>1
      <4> HIDE DEF f
      <4> QED
        BY <1>4, <3>2, <4>1, <4>2
    <3> QED BY <3>1, <3>2
  <2>2. f = [i \in 1 .. Len(ss) |-> f[i]]
    OBVIOUS
  <2> HIDE DEF f
  <2> QED
    BY <2>1, <2>2
<1>6. Eq(flatten)
  <2> HIDE DEF f
  <2> QED
  BY <1>5
<1>7. FlattenSeq(ss) = flatten[Len(ss)]
  BY DEF FlattenSeq
<1> HIDE DEF flatten
<1>8. \A i \in 1 .. Len(ss) : flatten[i] = IF i = 1 THEN ss[i] ELSE flatten[i - 1] \o ss[i]
  BY <1>6
<1>9. \A i \in 1 .. Len(ss) : flatten[i] \in Seq(T)
  <2> DEFINE P == {n \in Nat : n + 1 \in 1 .. Len(ss) => flatten[n + 1] \in Seq(T)}
  <2>1. 0 \in P
    BY <1>8
  <2>2. ASSUME NEW n \in P PROVE n + 1 \in P
    <3> SUFFICES ASSUME n + 2 \in 1 .. Len(ss) PROVE flatten[n + 2] \in Seq(T)
      OBVIOUS
    <3>1. /\ n + 2 \in 1 .. Len(ss) /\ n + 1 \in 1 .. Len(ss) /\ n + 2 # 1 /\ (n + 2) - 1 = n + 1
          /\ (n + 1) + 1 = n + 2
      OBVIOUS
    <3>2. flatten[n + 1] \in Seq(T) /\ ss[n + 2] \in Seq(T)
      BY <3>1
    <3> HIDE DEF P
    <3>3. flatten[n + 2] = flatten[(n + 2) - 1] \o ss[n + 2]
      BY <1>8, <3>1
    <3> QED
      BY <3>1, <3>2, <3>3
  <2>3. P \in SUBSET Nat
    OBVIOUS
  <2> HIDE DEF P
  <2>4. P = Nat
    BY <2>1, <2>2, <2>3, NatSetInduction
  <2> USE DEF P
  <2>5. ASSUME NEW i \in 1 .. Len(ss) PROVE flatten[i] \in Seq(T)
    <3>1. i - 1 \in Nat /\ (i - 1) + 1 = i
      OBVIOUS
    <3> QED BY <2>4, <3>1
  <2> QED
    BY <2>5
<1>10. flatten \in [1 .. Len(ss) -> Seq(T)]
  <2>1. flatten = [i \in 1 .. Len(ss) |-> flatten[i]]
    BY <1>6, Zenon
  <2> QED
  BY <1>9, <2>1
<1>11. flatten[1] = ss[1] /\ \A i \in 2 .. Len(ss) : flatten[i] = flatten[i - 1] \o ss[i]
  <2>1. 1 \in 1 .. Len(ss) /\ \A i \in 2 .. Len(ss) : i \in 1 .. Len(ss) /\ i # 1
    OBVIOUS
  <2> QED
    BY <1>8, <2>1
<1> QED
  BY <1>7, <1>10, <1>11

\* Where each element of a flattened sequence comes from: part and place.
PlacedUpto(ss, n, flat, at) ==
  /\ at \in [1 .. Len(flat) -> Nat \X Nat]
  /\ \A p \in 1 .. Len(flat) :
       /\ at[p][1] \in 1 .. n
       /\ at[p][2] \in 1 .. Len(ss[at[p][1]])
       /\ flat[p] = ss[at[p][1]][at[p][2]]
  /\ \A p, q \in 1 .. Len(flat) : at[p] = at[q] => p = q

\* All elements of the parts are there, and in their order.
OrderedUpto(ss, n, flat, at) ==
  /\ PlacedUpto(ss, n, flat, at)
  /\ \A g \in 1 .. n : \A i \in 1 .. Len(ss[g]) :
       \E p \in 1 .. Len(flat) : at[p][1] = g /\ at[p][2] = i
  /\ \A p, q \in 1 .. Len(flat) :
       p < q => at[p][1] < at[q][1] \/ (at[p][1] = at[q][1] /\ at[p][2] < at[q][2])

\* The first sequence alone is in its places.
LEMMA PlaceFirst ==
  ASSUME NEW T, NEW ss \in Seq(Seq(T)), ss # <<>>
  PROVE  \E at : OrderedUpto(ss, 1, ss[1], at)
<1> DEFINE at == [p \in 1 .. Len(ss[1]) |-> <<1, p>>]
<1>1. Len(ss[1]) \in Nat /\ at \in [1 .. Len(ss[1]) -> Nat \X Nat]
  OBVIOUS
<1>2. \A p \in 1 .. Len(ss[1]) : at[p][1] = 1 /\ at[p][2] = p
  OBVIOUS
<1> HIDE DEF at
<1>3. PlacedUpto(ss, 1, ss[1], at)
  BY <1>1, <1>2 DEF PlacedUpto
<1>4. OrderedUpto(ss, 1, ss[1], at)
  <2>1. \A g \in 1 .. 1 : \A i \in 1 .. Len(ss[g]) :
          \E p \in 1 .. Len(ss[1]) : at[p][1] = g /\ at[p][2] = i
    BY <1>2
  <2>2. \A p, q \in 1 .. Len(ss[1]) :
          p < q => at[p][1] < at[q][1] \/ (at[p][1] = at[q][1] /\ at[p][2] < at[q][2])
    BY <1>2
  <2> QED
    BY <1>3, <2>1, <2>2 DEF OrderedUpto
<1> QED
  BY <1>4

\* One more sequence, appended, keeps the places and the order.
LEMMA PlaceMore ==
  ASSUME NEW T, NEW ss \in Seq(Seq(T)), NEW n \in Nat, n + 1 \in 1 .. Len(ss),
         NEW flat \in Seq(T), NEW at, OrderedUpto(ss, n, flat, at)
  PROVE  \E new : OrderedUpto(ss, n + 1, flat \o ss[n + 1], new)
<1> DEFINE part == ss[n + 1]
           both == flat \o part
           new == [p \in 1 .. Len(both) |-> IF p <= Len(flat) THEN at[p] ELSE <<n + 1, p - Len(flat)>>]
<1>1. part \in Seq(T)
  OBVIOUS
<1> HIDE DEF part
<1>2. /\ both \in Seq(T) /\ Len(both) = Len(flat) + Len(part) /\ Len(flat) \in Nat /\ Len(part) \in Nat
      /\ \A p \in 1 .. Len(both) : both[p] = IF p <= Len(flat) THEN flat[p] ELSE part[p - Len(flat)]
  BY <1>1
<1> HIDE DEF both
<1>3. ASSUME NEW p \in 1 .. Len(both), p <= Len(flat)
      PROVE  /\ p \in 1 .. Len(flat)
             /\ new[p] = at[p] /\ both[p] = flat[p]
             /\ new[p] \in Nat \X Nat
             /\ new[p][1] \in 1 .. n
             /\ new[p][2] \in 1 .. Len(ss[new[p][1]])
             /\ both[p] = ss[new[p][1]][new[p][2]]
  <2>1. p \in 1 .. Len(flat)
    BY <1>2, <1>3
  <2>2. new[p] = at[p] /\ both[p] = flat[p]
    BY <1>2, <1>3
  <2> HIDE DEF new
  <2> QED
    BY <2>1, <2>2 DEF PlacedUpto, OrderedUpto
<1>4. ASSUME NEW p \in 1 .. Len(both), ~(p <= Len(flat))
      PROVE  /\ new[p] = <<n + 1, p - Len(flat)>>
             /\ new[p] \in Nat \X Nat
             /\ new[p][1] = n + 1
             /\ new[p][2] = p - Len(flat)
             /\ new[p][2] \in 1 .. Len(ss[new[p][1]])
             /\ both[p] = ss[new[p][1]][new[p][2]]
  <2>1. new[p] = <<n + 1, p - Len(flat)>>
    BY <1>4
  <2>2. p - Len(flat) \in 1 .. Len(part) /\ n + 1 \in Nat /\ p - Len(flat) \in Nat
    BY <1>2, <1>4
  <2>3. both[p] = part[p - Len(flat)]
    BY <1>2, <1>4
  <2> HIDE DEF new
  <2>4. new[p][1] = n + 1 /\ new[p][2] = p - Len(flat) /\ new[p] \in Nat \X Nat
    BY <2>1, <2>2
  <2> QED
    BY <2>1, <2>2, <2>3, <2>4 DEF part
<1>5. new \in [1 .. Len(both) -> Nat \X Nat]
  BY <1>3, <1>4
<1> HIDE DEF new
<1>6. \A p \in 1 .. Len(both) : /\ new[p][1] \in 1 .. n + 1
                                /\ new[p][2] \in 1 .. Len(ss[new[p][1]])
                                /\ both[p] = ss[new[p][1]][new[p][2]]
  <2>1. \A i \in 1 .. n : i \in 1 .. n + 1
    OBVIOUS
  <2> QED
    BY <1>3, <1>4, <2>1
<1>7. ASSUME NEW p \in 1 .. Len(both), NEW q \in 1 .. Len(both), new[p] = new[q]
      PROVE  p = q
  <2>1. CASE p <= Len(flat) /\ q <= Len(flat)
    BY <1>3, <1>7, <2>1 DEF PlacedUpto, OrderedUpto
  <2>2. CASE p <= Len(flat) /\ ~(q <= Len(flat))
    <3>1. new[p][1] \in 1 .. n /\ new[q][1] = n + 1
      BY <1>3, <1>4, <2>2
    <3> QED
      BY <1>7, <3>1
  <2>3. CASE ~(p <= Len(flat)) /\ q <= Len(flat)
    <3>1. new[q][1] \in 1 .. n /\ new[p][1] = n + 1
      BY <1>3, <1>4, <2>3
    <3> QED
      BY <1>7, <3>1
  <2>4. CASE ~(p <= Len(flat)) /\ ~(q <= Len(flat))
    <3>1. p - Len(flat) = q - Len(flat)
      BY <1>4, <1>7, <2>4
    <3> QED
      BY <1>2, <3>1
  <2> QED
    BY <2>1, <2>2, <2>3, <2>4
<1>8. ASSUME NEW g \in 1 .. n + 1, NEW i \in 1 .. Len(ss[g])
      PROVE  \E p \in 1 .. Len(both) : new[p][1] = g /\ new[p][2] = i
  <2>1. CASE g = n + 1
    <3>1. i \in 1 .. Len(part)
      BY <1>8, <2>1 DEF part
    <3>2. Len(flat) + i \in 1 .. Len(both) /\ ~(Len(flat) + i <= Len(flat))
          /\ (Len(flat) + i) - Len(flat) = i
      BY <1>2, <3>1
    <3>3. new[Len(flat) + i][1] = g /\ new[Len(flat) + i][2] = i
      BY <1>4, <2>1, <3>2
    <3> QED
      BY <3>2, <3>3
  <2>2. CASE g # n + 1
    <3>1. g \in 1 .. n
      BY <2>2
    <3>2. PICK p \in 1 .. Len(flat) : at[p][1] = g /\ at[p][2] = i
      BY <1>8, <3>1 DEF OrderedUpto
    <3>3. p \in 1 .. Len(both) /\ p <= Len(flat)
      BY <1>2, <3>2
    <3>4. new[p] = at[p]
      BY <1>3, <3>3
    <3> QED
      BY <3>2, <3>3, <3>4
  <2> QED
    BY <2>1, <2>2
<1>9. ASSUME NEW p \in 1 .. Len(both), NEW q \in 1 .. Len(both), p < q
      PROVE  new[p][1] < new[q][1] \/ (new[p][1] = new[q][1] /\ new[p][2] < new[q][2])
  <2>1. CASE q <= Len(flat)
    <3>1. p <= Len(flat)
      BY <1>2, <1>9, <2>1
    <3>2. p \in 1 .. Len(flat) /\ q \in 1 .. Len(flat) /\ new[p] = at[p] /\ new[q] = at[q]
      BY <1>3, <2>1, <3>1
    <3>3. at[p][1] < at[q][1] \/ (at[p][1] = at[q][1] /\ at[p][2] < at[q][2])
      BY <1>9, <3>2 DEF OrderedUpto
    <3> QED
      BY <3>2, <3>3, Zenon
  <2>2. CASE ~(q <= Len(flat)) /\ p <= Len(flat)
    <3>1. new[p][1] \in 1 .. n /\ new[q][1] = n + 1
      BY <1>3, <1>4, <2>2
    <3> QED
      BY <3>1
  <2>3. CASE ~(q <= Len(flat)) /\ ~(p <= Len(flat))
    <3>1. /\ new[p][1] = n + 1 /\ new[q][1] = n + 1
          /\ new[p][2] = p - Len(flat) /\ new[q][2] = q - Len(flat)
      BY <1>4, <2>3
    <3>2. p - Len(flat) < q - Len(flat)
      BY <1>2, <1>9
    <3> QED
      BY <3>1, <3>2
  <2> QED
    BY <2>1, <2>2, <2>3
<1>10. PlacedUpto(ss, n + 1, both, new)
  BY <1>5, <1>6, <1>7 DEF PlacedUpto
<1>11. OrderedUpto(ss, n + 1, both, new)
  BY <1>8, <1>9, <1>10 DEF OrderedUpto
<1> QED
  BY <1>11 DEF both, part

\* A flattened sequence holds the elements of the parts, each from a place of its own.
LEMMA FlattenOrdered ==
  ASSUME NEW T, NEW ss \in Seq(Seq(T))
  PROVE  FlattenSeq(ss) \in Seq(T) /\ \E at : OrderedUpto(ss, Len(ss), FlattenSeq(ss), at)
<1>1. CASE ss = <<>>
  <2>1. FlattenSeq(ss) = <<>>
    BY <1>1 DEF FlattenSeq
  <2>2. OrderedUpto(ss, Len(ss), <<>>, <<>>)
    BY <1>1 DEF OrderedUpto, PlacedUpto
  <2> QED
    BY <2>1, <2>2
<1>2. CASE ss # <<>>
  <2>1. PICK f \in [1 .. Len(ss) -> Seq(T)] :
          /\ f[1] = ss[1]
          /\ \A i \in 2 .. Len(ss) : f[i] = f[i - 1] \o ss[i]
          /\ FlattenSeq(ss) = f[Len(ss)]
    BY <1>2, FlattenIs
  <2> DEFINE P == {n \in Nat : n + 1 \in 1 .. Len(ss) => \E at : OrderedUpto(ss, n + 1, f[n + 1], at)}
  <2>2. 0 \in P
    BY <1>2, <2>1, PlaceFirst
  <2>3. ASSUME NEW n \in P PROVE n + 1 \in P
    <3> SUFFICES ASSUME n + 2 \in 1 .. Len(ss)
                 PROVE  \E at : OrderedUpto(ss, n + 2, f[n + 2], at)
      <4>1. (n + 1) + 1 = n + 2 /\ n + 1 \in Nat
        OBVIOUS
      <4> QED
        BY <4>1, Zenon
    <3>1. /\ n + 1 \in 1 .. Len(ss) /\ n + 2 \in 2 .. Len(ss) /\ (n + 2) - 1 = n + 1
          /\ (n + 1) + 1 = n + 2 /\ n + 1 \in Nat
      OBVIOUS
    <3>2. PICK at : OrderedUpto(ss, n + 1, f[n + 1], at)
      BY <3>1
    <3> HIDE DEF P
    <3>3. f[n + 1] \in Seq(T) /\ f[n + 2] = f[n + 1] \o ss[n + 2]
      BY <2>1, <3>1
    <3>4. \E new : OrderedUpto(ss, (n + 1) + 1, f[n + 1] \o ss[(n + 1) + 1], new)
      BY <3>1, <3>2, <3>3, PlaceMore
    <3> QED
      BY <3>1, <3>3, <3>4
  <2>4. P = Nat
    <3>1. P \in SUBSET Nat
      OBVIOUS
    <3> HIDE DEF P
    <3> QED
      BY <2>2, <2>3, <3>1, NatSetInduction
  <2>5. Len(ss) - 1 \in Nat /\ (Len(ss) - 1) + 1 = Len(ss) /\ Len(ss) \in 1 .. Len(ss)
    BY <1>2
  <2>6. \E at : OrderedUpto(ss, Len(ss), f[Len(ss)], at)
    BY <2>4, <2>5
  <2> QED
    BY <2>1, <2>5, <2>6
<1> QED
  BY <1>1, <1>2

\* FlattenSeq holds every item of every sequence at a place of its own.
LEMMA FlattenPlaces ==
  ASSUME NEW T, NEW ss \in Seq(Seq(T))
  PROVE  FlattenSeq(ss) \in Seq(T) /\ \E at : PlacedUpto(ss, Len(ss), FlattenSeq(ss), at)
BY FlattenOrdered DEF OrderedUpto

-----------------------------------------------------------------------------
(* parse_time, in words of any width and with any units. *)

USE WidthAssumption

\* What division and remainder are.
LEMMA DivMod ==
  ASSUME NEW a \in Nat, NEW b \in Nat \ {0}
  PROVE  /\ a \div b \in Nat /\ a % b \in 0..(b - 1)
         /\ a = b * (a \div b) + (a % b)
BY SMT

\* A number that fits a word is its own remainder.
LEMMA WordOfSmall == \A n \in 0..MaxU64 : Word(n) = n
BY SMT DEF Word

\* A product does not shrink with its second factor.
LEMMA TimesMonotonic ==
  ASSUME NEW a \in Nat, NEW b \in Nat, NEW c \in Nat, a <= b
  PROVE  c * a <= c * b
BY SMT

\* checked_multiply admits a product just when a word holds it.
LEMMA FitsIsExact ==
  ASSUME NEW l \in Nat, NEW r \in Nat
  PROVE  Fits(l, r) <=> l * r <= MaxU64
<1>1. CASE l = 0
  BY <1>1, SMT DEF Fits
<1>2. CASE l # 0
  <2> DEFINE q == MaxU64 \div l
  <2>1. q \in Nat /\ MaxU64 = l * q + (MaxU64 % l) /\ MaxU64 % l \in 0..(l - 1)
    BY <1>2, DivMod
  <2>2. ASSUME r <= q PROVE l * r <= MaxU64
    <3>1. l * r <= l * q
      BY <2>1, <2>2, TimesMonotonic
    <3> HIDE DEF q
    <3> QED
      BY <2>1, <3>1, SMT
  <2>3. ASSUME ~(r <= q) PROVE ~(l * r <= MaxU64)
    <3>1. l * (q + 1) <= l * r
      BY <2>1, <2>3, TimesMonotonic
    <3> HIDE DEF q
    <3>2. l * (q + 1) = l * q + l
      BY <2>1, SMT
    <3> QED
      BY <2>1, <3>1, <3>2, SMT
  <2> QED
    BY <1>2, <2>2, <2>3 DEF Fits
<1> QED
  BY <1>1, <1>2

\* A product that checked_multiply admits does not wrap.
LEMMA MultipliedIsExact ==
  ASSUME NEW l \in Nat, NEW r \in Nat, Fits(l, r)
  PROVE  Multiplied(l, r) = l * r
BY FitsIsExact, WordOfSmall, SMT DEF Multiplied

\* parse_time accepts a number only for the instant it names.
THEOREM TimesAreExact == \A n \in Decimals : TimeIsExact(n)
<1> SUFFICES ASSUME NEW n \in Decimals
             PROVE  TimeIsExact(n)
  OBVIOUS
<1> DEFINE mult == Multiplier[n.unit]
<1>1. /\ n.whole \in Nat /\ n.fraction \in Nat /\ n.scale \in Nat \ {0}
      /\ n.fraction < n.scale /\ mult \in 1..MaxI64
      /\ MaxI64 \in 1..MaxU64 /\ MaxU64 \in Nat
  BY DEF Decimals
<1> HIDE DEF mult
<1>2. mult \in Nat
  BY <1>1
<1>3. Fits(n.whole, mult) => WholeNs(n) = n.whole * mult /\ WholeNs(n) \in 0..MaxU64
  <2> SUFFICES ASSUME Fits(n.whole, mult)
               PROVE  WholeNs(n) = n.whole * mult /\ WholeNs(n) \in 0..MaxU64
    OBVIOUS
  <2>1. WholeNs(n) = n.whole * mult
    BY <1>1, <1>2, MultipliedIsExact DEF WholeNs, mult
  <2>2. n.whole * mult <= MaxU64
    BY <1>1, <1>2, FitsIsExact
  <2>3. n.whole * mult \in Nat
    BY <1>1, <1>2, SMT
  <2> QED
    BY <1>1, <2>1, <2>2, <2>3
<1>4. ASSUME TimeAccepted(n), n.scale = 1
      PROVE  Nanoseconds(n) \in 0..MaxI64 /\ Nanoseconds(n) = n.whole * mult
  <2>1. Fits(n.whole, mult) /\ Nanoseconds(n) <= MaxI64
    BY <1>4 DEF TimeAccepted, mult
  <2>2. WholeNs(n) = n.whole * mult /\ WholeNs(n) \in 0..MaxU64
    BY <1>3, <2>1
  <2>3. Nanoseconds(n) = Word(WholeNs(n))
    BY <1>4, <2>2, SMT DEF Nanoseconds
  <2> QED
    BY <1>1, <2>1, <2>2, <2>3, WordOfSmall
<1>5. ASSUME TimeAccepted(n), n.scale # 1
      PROVE  /\ Nanoseconds(n) \in 0..MaxI64
             /\ Nanoseconds(n) = n.whole * mult + FractionNs(n)
             /\ FractionNs(n) \in Nat
             /\ n.scale * FractionNs(n) = n.fraction * mult
  <2>1. /\ Fits(n.whole, mult) /\ Fits(n.fraction, mult)
        /\ ScaledFraction(n) % n.scale = 0
        /\ WholeNs(n) <= Word(MaxI64 - FractionNs(n))
    BY <1>5 DEF TimeAccepted, FractionAccepted, mult
  <2>2. WholeNs(n) = n.whole * mult /\ WholeNs(n) \in 0..MaxU64
    BY <1>3, <2>1
  <2>3. ScaledFraction(n) = n.fraction * mult /\ n.fraction * mult \in Nat
    <3>1. n.fraction * mult \in Nat
      BY <1>1, <1>2, SMT
    <3> QED
      BY <1>1, <1>2, <2>1, <3>1, MultipliedIsExact DEF ScaledFraction, mult
  <2>4. FractionNs(n) \in Nat /\ n.scale * FractionNs(n) = n.fraction * mult
    <3>1. /\ ScaledFraction(n) \div n.scale \in Nat
          /\ ScaledFraction(n) = n.scale * (ScaledFraction(n) \div n.scale)
                                 + (ScaledFraction(n) % n.scale)
      BY <1>1, <2>3, DivMod
    <3>2. n.scale * (ScaledFraction(n) \div n.scale) \in Nat
      BY <1>1, <3>1, SMT
    <3> QED
      BY <2>1, <2>3, <3>1, <3>2 DEF FractionNs
  <2>5. FractionNs(n) <= mult
    <3> SUFFICES ASSUME ~(FractionNs(n) <= mult) PROVE FALSE
      OBVIOUS
    <3>1. n.scale * (mult + 1) <= n.scale * FractionNs(n)
      BY <1>1, <1>2, <2>4, TimesMonotonic
    <3>2. n.fraction * mult <= n.scale * mult
      <4>1. mult * n.fraction <= mult * n.scale
        BY <1>1, <1>2, TimesMonotonic
      <4> QED
        BY <1>1, <1>2, <4>1, SMT
    <3>3. n.scale * (mult + 1) = n.scale * mult + n.scale
      BY <1>1, <1>2, SMT
    <3>4. n.scale * mult \in Nat /\ n.fraction * mult \in Nat
      BY <1>1, <1>2, SMT
    <3> QED
      BY <1>1, <2>4, <3>1, <3>2, <3>3, <3>4
  <2>6. WholeNs(n) + FractionNs(n) \in 0..MaxI64
    <3>1. MaxI64 - FractionNs(n) \in 0..MaxU64
      BY <1>1, <2>4, <2>5
    <3> QED
      BY <1>1, <2>1, <2>2, <2>4, <3>1, WordOfSmall
  <2>7. Nanoseconds(n) = WholeNs(n) + FractionNs(n)
    BY <1>1, <1>5, <2>6, WordOfSmall DEF Nanoseconds
  <2> QED
    BY <2>2, <2>4, <2>6, <2>7
<1>6. TimeAccepted(n) =>
        /\ Nanoseconds(n) \in 0..MaxI64
        /\ Nanoseconds(n) * n.scale = (n.whole * n.scale + n.fraction) * mult
  <2> SUFFICES ASSUME TimeAccepted(n)
               PROVE  /\ Nanoseconds(n) \in 0..MaxI64
                      /\ Nanoseconds(n) * n.scale = (n.whole * n.scale + n.fraction) * mult
    OBVIOUS
  <2>1. CASE n.scale = 1
    <3>1. n.fraction = 0
      BY <1>1, <2>1
    <3> DEFINE w == n.whole * mult
    <3>2. (n.whole * n.scale + n.fraction) * mult = w * n.scale
      BY <1>1, <1>2, <2>1, <3>1, SMT
    <3> QED
      BY <1>4, <2>1, <3>2
  <2>2. CASE n.scale # 1
    <3> DEFINE f == FractionNs(n)
    <3>1. f \in Nat /\ n.scale * f = n.fraction * mult /\ Nanoseconds(n) = n.whole * mult + f
      BY <1>5, <2>2
    <3> HIDE DEF f
    <3>2. (n.whole * mult + f) * n.scale = (n.whole * mult) * n.scale + n.scale * f
      <4>1. n.whole * mult \in Nat
        BY <1>1, <1>2, SMT
      <4> DEFINE w == n.whole * mult
      <4> HIDE DEF w
      <4>2. (w + f) * n.scale = w * n.scale + n.scale * f
        BY <1>1, <3>1, <4>1, SMT DEF w
      <4> QED
        BY <4>2 DEF w
    <3>3. (n.whole * n.scale + n.fraction) * mult = (n.whole * mult) * n.scale + n.fraction * mult
      BY <1>1, <1>2, SMT
    <3> QED
      BY <1>5, <2>2, <3>1, <3>2, <3>3
  <2> QED
    BY <2>1, <2>2
<1>7. ASSUME n.scale = 1, ~TimeAccepted(n)
      PROVE  n.whole * mult > MaxI64
  <2> SUFFICES ASSUME ~(n.whole * mult > MaxI64) PROVE FALSE
    OBVIOUS
  <2>1. n.whole * mult \in Nat /\ n.whole * mult <= MaxI64
    BY <1>1, <1>2, SMT
  <2>2. n.whole <= n.whole * mult
    <3>1. n.whole * 1 <= n.whole * mult
      BY <1>1, <1>2, TimesMonotonic
    <3> QED
      BY <1>1, <3>1
  <2>3. Fits(n.whole, mult)
    BY <1>1, <1>2, <2>1, FitsIsExact
  <2>4. Nanoseconds(n) = n.whole * mult
    <3>1. WholeNs(n) = n.whole * mult /\ WholeNs(n) \in 0..MaxU64
      BY <1>3, <2>3
    <3>2. Nanoseconds(n) = Word(WholeNs(n))
      BY <1>7, <3>1, SMT DEF Nanoseconds
    <3> QED
      BY <3>1, <3>2, WordOfSmall
  <2> QED
    BY <1>1, <1>7, <2>1, <2>2, <2>3, <2>4 DEF TimeAccepted, mult
<1> QED
  BY <1>6, <1>7 DEF TimeIsExact, mult

HIDE WidthAssumption

-----------------------------------------------------------------------------
(* What parse_cli returns. *)

\* The kinds of a query, each once.
KindList(ks) == ks \in Seq(Range(KindSeq)) /\ \A i, j \in DOMAIN ks : ks[i] = ks[j] => i = j

\* A new kind at the end keeps a list of kinds one.
LEMMA MoreKinds ==
  ASSUME NEW ks, KindList(ks), NEW k \in Range(KindSeq), k \notin Range(ks)
  PROVE  KindList(Append(ks, k))
<1> DEFINE more == Append(ks, k)
<1>1. /\ more \in Seq(Range(KindSeq)) /\ Len(ks) \in Nat /\ DOMAIN more = 1 .. Len(ks) + 1
      /\ more[Len(ks) + 1] = k
      /\ \A i \in 1 .. Len(ks) : more[i] = ks[i] /\ more[i] \in Range(ks) /\ i \in DOMAIN ks
  BY DEF KindList, Range
<1> HIDE DEF more
<1>2. ASSUME NEW i \in DOMAIN more, NEW j \in DOMAIN more, more[i] = more[j] PROVE i = j
  <2>1. CASE i \in 1 .. Len(ks) /\ j \in 1 .. Len(ks)
    BY <1>1, <1>2, <2>1 DEF KindList
  <2>2. CASE i \notin 1 .. Len(ks) /\ j \notin 1 .. Len(ks)
    BY <1>1, <2>2
  <2>3. CASE i \in 1 .. Len(ks) /\ j \notin 1 .. Len(ks)
    BY <1>1, <1>2, <2>3
  <2>4. CASE i \notin 1 .. Len(ks) /\ j \in 1 .. Len(ks)
    BY <1>1, <1>2, <2>4
  <2> QED
    BY <2>1, <2>2, <2>3, <2>4
<1> QED
  BY <1>1, <1>2 DEF KindList, more

\* parse_kinds leaves a list of kinds, each once.
LEMMA WithKindsTyped ==
  ASSUME NEW kinds, KindList(kinds), NEW list, list \in Seq(Range(list)),
         Range(list) \subseteq Range(KindSeq) \cup {"all"}
  PROVE  KindList(WithKinds(kinds, list))
<1> DEFINE Eq(f) == f = [n \in 0 .. Len(list) |->
                           IF n = 0 THEN kinds
                           ELSE IF list[n] \in Range(f[n - 1]) \cup {"all"} THEN f[n - 1]
                           ELSE Append(f[n - 1], list[n])]
           upTo == CHOOSE f : Eq(f)
           V == {ks \in Seq(Range(KindSeq)) : KindList(ks)}
           step == [n \in Nat |-> [ks \in V |->
                     IF n \in 1 .. Len(list) /\ list[n] \notin Range(ks) \cup {"all"}
                     THEN Append(ks, list[n]) ELSE ks]]
<1>1. WithKinds(kinds, list) = upTo[Len(list)]
  BY DEF WithKinds
<1>2. kinds \in V /\ Len(list) \in Nat
  BY DEF KindList
<1>3. step \in [Nat -> [V -> V]]
  <2>1. ASSUME NEW n \in Nat, NEW ks \in V
        PROVE  (IF n \in 1 .. Len(list) /\ list[n] \notin Range(ks) \cup {"all"}
                THEN Append(ks, list[n]) ELSE ks) \in V
    <3>1. CASE n \in 1 .. Len(list) /\ list[n] \notin Range(ks) \cup {"all"}
      <4>1. list[n] \in Range(KindSeq) /\ list[n] \notin Range(ks)
        BY <3>1
      <4>2. KindList(Append(ks, list[n]))
        BY <4>1, MoreKinds
      <4>3. Append(ks, list[n]) \in V
        BY <4>2 DEF KindList
      <4> QED
        BY <3>1, <4>3, Zenon
    <3>2. CASE ~(n \in 1 .. Len(list) /\ list[n] \notin Range(ks) \cup {"all"})
      BY <3>2
    <3> QED
      BY <3>1, <3>2
  <2> HIDE DEF V
  <2> QED
    BY <2>1
<1> HIDE DEF step, V
<1>4. PICK f : Computed(V, kinds, step, Len(list), f)
  BY <1>2, <1>3, Recursion
<1>5. f \in [0 .. Len(list) -> V] /\ f[0] = kinds /\ \A n \in 1 .. Len(list) : f[n] = step[n][f[n - 1]]
  BY <1>4 DEF Computed
<1>6. Eq(f)
  <2>1. ASSUME NEW n \in 0 .. Len(list)
        PROVE  f[n] = IF n = 0 THEN kinds
                      ELSE IF list[n] \in Range(f[n - 1]) \cup {"all"} THEN f[n - 1]
                      ELSE Append(f[n - 1], list[n])
    <3>1. CASE n = 0
      BY <1>5, <3>1
    <3>2. CASE n # 0
      <4>1. n \in 1 .. Len(list) /\ n \in Nat /\ n - 1 \in 0 .. Len(list)
        BY <1>2, <3>2
      <4>2. f[n - 1] \in V /\ f[n] = step[n][f[n - 1]]
        BY <1>5, <4>1
      <4> QED
        BY <3>2, <4>1, <4>2 DEF step
    <3> QED
      BY <3>1, <3>2
  <2>2. f = [n \in 0 .. Len(list) |-> f[n]]
    BY <1>5
  <2> QED
    BY <2>1, <2>2
<1>7. Eq(upTo)
  BY <1>6
<1> HIDE DEF upTo
<1> DEFINE P == {n \in Nat : n \in 0 .. Len(list) => KindList(upTo[n])}
<1>8. 0 \in P
  BY <1>2, <1>7 DEF V
<1>9. ASSUME NEW n \in P PROVE n + 1 \in P
  <2> SUFFICES ASSUME n + 1 \in 0 .. Len(list) PROVE KindList(upTo[n + 1])
    OBVIOUS
  <2>1. n \in 0 .. Len(list) /\ n + 1 # 0 /\ (n + 1) - 1 = n /\ n + 1 \in 1 .. Len(list)
    BY <1>2
  <2>2. KindList(upTo[n])
    BY <2>1
  <2> HIDE DEF P
  <2>3. upTo[n + 1] = IF list[n + 1] \in Range(upTo[n]) \cup {"all"} THEN upTo[n]
                      ELSE Append(upTo[n], list[n + 1])
    BY <1>7, <2>1
  <2>4. list[n + 1] \in Range(KindSeq) \cup {"all"}
    BY <2>1
  <2>5. CASE list[n + 1] \in Range(upTo[n]) \cup {"all"}
    BY <2>2, <2>3, <2>5
  <2>6. CASE list[n + 1] \notin Range(upTo[n]) \cup {"all"}
    BY <2>2, <2>3, <2>4, <2>6, MoreKinds
  <2> QED
    BY <2>5, <2>6
<1>10. P = Nat
  <2>1. P \in SUBSET Nat
    OBVIOUS
  <2> HIDE DEF P
  <2> QED
    BY <1>8, <1>9, <2>1, NatSetInduction
<1> QED
  BY <1>1, <1>2, <1>10

-----------------------------------------------------------------------------
(* Options and parsers. *)

TimeOrNone(n) == n \in Nat \cup {NoTime}

OptionsTyped(o) ==
  /\ DOMAIN o = DOMAIN NoOptions
  /\ KindList(o.kinds)
  /\ TimeOrNone(o.at) /\ TimeOrNone(o.from) /\ TimeOrNone(o.to)
  /\ o.match \in {"overlap", "start", "contained"}
  /\ o.limit \in 0 .. MaxU64 \cup {NoLimit}

ValueTyped(v) ==
  /\ v[1] = "time" => v[2] \in Decimals
  /\ v[1] = "kinds" => v[2] \in Seq(Range(v[2]))

\* parse_time yields a time or nothing.
LEMMA NanosecondsTyped == \A n \in Decimals : TimeOrNone(Nanoseconds(n))
<1> SUFFICES ASSUME NEW n \in Decimals PROVE Nanoseconds(n) \in Nat
  BY DEF TimeOrNone
<1>0. \A m \in Int : Word(m) \in Nat
  BY WidthAssumption DEF Word
<1>1. /\ n.whole \in Nat /\ n.fraction \in Nat /\ n.scale \in Nat \ {0}
      /\ Multiplier[n.unit] \in Nat
  BY WidthAssumption DEF Decimals
<1>2. \A l, r \in Nat : l * r \in Nat
  BY SMT
<1>3. n.whole * Multiplier[n.unit] \in Int /\ n.fraction * Multiplier[n.unit] \in Int
  BY <1>1, <1>2
<1>4. WholeNs(n) \in Nat /\ ScaledFraction(n) \in Nat
  BY <1>0, <1>3 DEF WholeNs, ScaledFraction, Multiplied
<1>5. FractionNs(n) \in Nat
  BY <1>1, <1>4 DEF FractionNs
<1> QED
  BY <1>0, <1>4, <1>5 DEF Nanoseconds


\* Two options that differ in a field the types say nothing of.
Others == DOMAIN NoOptions \ {"kinds", "at", "from", "to", "match", "limit"}

\* Fields of no type of their own change no other.
LEMMA SetOther ==
  ASSUME NEW o, OptionsTyped(o), NEW f \in Others, NEW x
  PROVE  OptionsTyped([o EXCEPT ![f] = x])
BY DEF OptionsTyped, Others

\* --from, --to and --at store times.
LEMMA PutTimeTyped ==
  ASSUME NEW o, OptionsTyped(o), NEW name \in {"--from", "--to", "--at"}, NEW v, ValueTyped(v),
         Takes(name, v)
  PROVE  OptionsTyped(PutTime(o, name, v))
<1>1. /\ IsTime(v) => TimeOrNone(Nanoseconds(v[2])) /\ v[1] = "time"
      /\ TimeOrNone(MaxI64) /\ TimeOrNone(0)
      /\ \A texts : IsText(v, texts) => v[1] = "text"
  BY WidthAssumption, NanosecondsTyped DEF IsTime, ValueTyped, TimeOrNone, IsText
<1>2. \A t : TimeOrNone(t) => /\ OptionsTyped([o EXCEPT !.from = t])
                              /\ OptionsTyped([o EXCEPT !.to = t])
                              /\ OptionsTyped([o EXCEPT !.at = t])
  BY DEF OptionsTyped, NoOptions
<1>3. "fromStart" \in Others /\ "toEnd" \in Others
  BY DEF Others, NoOptions
<1>4. OptionsTyped([o EXCEPT !.fromStart = TRUE]) /\ OptionsTyped([o EXCEPT !.toEnd = TRUE])
  BY <1>3, SetOther
<1>5. CASE name = "--at"
  <2>1. IsTime(v) /\ PutTime(o, name, v) = [o EXCEPT !.at = Nanoseconds(v[2])]
    BY <1>5 DEF PutTime, Takes
  <2> QED
    BY <1>1, <1>2, <2>1
<1>6. CASE name \in {"--from", "--to"}
  <2>1. IsText(v, {"start", "end"}) \/ IsTime(v)
    BY <1>6 DEF Takes
  <2>2. IsText(v, {"start"}) \/ IsText(v, {"end"}) \/ IsTime(v)
    BY <2>1 DEF IsText
  <2>3. ~(IsText(v, {"start"}) /\ IsText(v, {"end"}))
    BY DEF IsText
  <2>4. CASE IsTime(v)
    <3>1. ~IsText(v, {"start"}) /\ ~IsText(v, {"end"})
      BY <1>1, <2>4
    <3>2. PutTime(o, name, v) = IF name = "--from" THEN [o EXCEPT !.from = Nanoseconds(v[2])]
                                ELSE [o EXCEPT !.to = Nanoseconds(v[2])]
      BY <1>6, <2>4, <3>1 DEF PutTime
    <3> QED
      BY <1>1, <1>2, <2>4, <3>2
  <2>5. CASE IsText(v, {"start"})
    <3>1. ~IsTime(v)
      BY <1>1, <2>5
    <3>2. PutTime(o, name, v) = IF name = "--from" THEN [o EXCEPT !.fromStart = TRUE]
                                ELSE [o EXCEPT !.to = 0]
      BY <1>6, <2>3, <2>5, <3>1 DEF PutTime
    <3> QED
      BY <1>1, <1>2, <1>4, <3>2
  <2>6. CASE IsText(v, {"end"})
    <3>1. ~IsTime(v)
      BY <1>1, <2>6
    <3>2. PutTime(o, name, v) = IF name = "--from" THEN [o EXCEPT !.from = MaxI64]
                                ELSE [o EXCEPT !.toEnd = TRUE]
      BY <1>6, <2>3, <2>6, <3>1 DEF PutTime
    <3> QED
      BY <1>1, <1>2, <1>4, <3>2
  <2> QED
    BY <2>2, <2>4, <2>5, <2>6
<1> QED
  BY <1>5, <1>6

SelectorNames == DOMAIN TextSets \cup DOMAIN PatternSets \cup DOMAIN Patterns

\* The selector options store what they were given.
LEMMA PutSelectorTyped ==
  ASSUME NEW o, OptionsTyped(o), NEW name \in SelectorNames, NEW v
  PROVE  OptionsTyped(PutSelector(o, name, v))
<1>1. /\ DOMAIN TextSets = {"--source", "--source-type"}
      /\ DOMAIN PatternSets = {"--source-regex", "--thread", "--gpu-context", "--plot",
                               "--frame-set", "--lock", "--memory-pool"}
      /\ DOMAIN Patterns = {"--zone-parent", "--zone-ancestor", "--stack-frame"}
  BY DEF TextSets, PatternSets, Patterns
<1>2. CASE name \in DOMAIN TextSets
  <2>1. TextSets[name] \in Others
    BY <1>2 DEF TextSets, Others, NoOptions
  <2>2. PutSelector(o, name, v) = [o EXCEPT ![TextSets[name]] = @ \cup {TextOf(v)}]
    <3>1. name \notin DOMAIN PatternSets /\ name \notin DOMAIN Patterns
      BY <1>1, <1>2
    <3> QED
      BY <1>2, <3>1 DEF PutSelector
  <2> DEFINE f == TextSets[name]
             x == o[f] \cup {TextOf(v)}
  <2>3. f \in Others /\ PutSelector(o, name, v) = [o EXCEPT ![f] = x]
    BY <2>1, <2>2
  <2> HIDE DEF f, x
  <2> QED
    BY <2>3 DEF OptionsTyped, Others
<1>3. CASE name \in DOMAIN PatternSets
  <2>1. PatternSets[name] \in Others
    BY <1>3 DEF PatternSets, Others, NoOptions
  <2>2. PutSelector(o, name, v) = [o EXCEPT ![PatternSets[name]] = @ \cup {PatternOf(v)}]
    <3>1. name \notin DOMAIN TextSets /\ name \notin DOMAIN Patterns
      BY <1>1, <1>3
    <3> QED
      BY <1>3, <3>1 DEF PutSelector
  <2> DEFINE f == PatternSets[name]
             x == o[f] \cup {PatternOf(v)}
  <2>3. f \in Others /\ PutSelector(o, name, v) = [o EXCEPT ![f] = x]
    BY <2>1, <2>2
  <2> HIDE DEF f, x
  <2> QED
    BY <2>3 DEF OptionsTyped, Others
<1>4. CASE name \in DOMAIN Patterns
  <2>1. Patterns[name] \in Others
    BY <1>4 DEF Patterns, Others, NoOptions
  <2>2. PutSelector(o, name, v) = [o EXCEPT ![Patterns[name]] = {PatternOf(v)}]
    <3>1. name \notin DOMAIN TextSets /\ name \notin DOMAIN PatternSets
      BY <1>1, <1>4
    <3> QED
      BY <1>4, <3>1 DEF PutSelector
  <2> DEFINE f == Patterns[name]
             x == {PatternOf(v)}
  <2>3. f \in Others /\ PutSelector(o, name, v) = [o EXCEPT ![f] = x]
    BY <2>1, <2>2
  <2> HIDE DEF f, x
  <2> QED
    BY <2>3 DEF OptionsTyped, Others
<1> QED
  BY <1>2, <1>3, <1>4 DEF SelectorNames

\* Every option that takes a value keeps the options typed.
LEMMA PutTyped ==
  ASSUME NEW o, OptionsTyped(o), NEW name \in ValueOptions, NEW v, ValueTyped(v), Takes(name, v)
  PROVE  OptionsTyped(Put(o, name, v))
<1>1. /\ DOMAIN TextSets = {"--source", "--source-type"}
      /\ DOMAIN PatternSets = {"--source-regex", "--thread", "--gpu-context", "--plot",
                               "--frame-set", "--lock", "--memory-pool"}
      /\ DOMAIN Patterns = {"--zone-parent", "--zone-ancestor", "--stack-frame"}
  BY DEF TextSets, PatternSets, Patterns
<1>2. CASE name \in {"--from", "--to", "--at"}
  <2>1. Put(o, name, v) = PutTime(o, name, v)
    BY <1>1, <1>2 DEF Put, Global
  <2> QED
    BY <1>2, <2>1, PutTimeTyped
<1>3. CASE name \in SelectorNames
  <2>1. Put(o, name, v) = PutSelector(o, name, v)
    BY <1>1, <1>3 DEF Put, Global, SelectorNames
  <2> QED
    BY <1>3, <2>1, PutSelectorTyped
<1>4. CASE name = "--kind"
  <2>1. Put(o, name, v) = [o EXCEPT !.kinds = WithKinds(o.kinds, v[2])]
    BY <1>1, <1>4 DEF Put, Global
  <2>2. v[2] \in Seq(Range(v[2])) /\ Range(v[2]) \subseteq Range(KindSeq) \cup {"all"}
    BY <1>4 DEF Takes, ValueTyped
  <2>3. KindList(WithKinds(o.kinds, v[2]))
    BY <2>2, WithKindsTyped DEF OptionsTyped
  <2> QED
    BY <2>1, <2>3 DEF OptionsTyped, NoOptions
<1>5. CASE name = "--range-match"
  <2>1. Put(o, name, v) = [o EXCEPT !.match = v[2]]
    BY <1>1, <1>5 DEF Put, Global
  <2>2. v[2] \in {"overlap", "start", "contained"}
    BY <1>5 DEF Takes, IsText
  <2> QED
    BY <2>1, <2>2 DEF OptionsTyped, NoOptions
<1>6. CASE name = "--limit"
  <2>1. Put(o, name, v) = [o EXCEPT !.limit = v[2]]
    BY <1>1, <1>6 DEF Put, Global
  <2>2. v[2] \in 0 .. MaxU64
    BY <1>6 DEF Takes
  <2> QED
    BY <2>1, <2>2 DEF OptionsTyped, NoOptions
<1>7. CASE name \in {"--group-by", "--filter", "--zone-depth", "--cpu"}
  <2>1. {"groupBy", "filters", "zoneDepth", "cpus"} \subseteq Others
    BY DEF Others, NoOptions
  <2>2. \E f \in Others : \E x : Put(o, name, v) = [o EXCEPT ![f] = x]
    BY <1>1, <1>7, <2>1 DEF Put, Global
  <2> QED
    BY <2>2 DEF OptionsTyped, Others
<1>8. CASE name \in Global
  <2>1. Put(o, name, v) = o
    BY <1>1, <1>8 DEF Put, Global
  <2> QED
    BY <2>1
<1> QED
  BY <1>2, <1>3, <1>4, <1>5, <1>6, <1>7, <1>8 DEF ValueOptions, SelectorNames, Global

-----------------------------------------------------------------------------
(* Arguments. *)

ArgumentTyped(arg) ==
  Len(arg) = 3 => /\ arg[2] = "time" => arg[3] \in Decimals
                  /\ arg[2] = "kinds" => arg[3] \in Seq(Range(arg[3]))

ParserTyped(p, W) ==
  /\ DOMAIN p = DOMAIN Parser
  /\ OptionsTyped(p.options)
  /\ p.inputs \in Seq(W)
  /\ p.pending \in ValueOptions \cup {""}

\* The words of an argument are values of the command line.
LEMMA ValueOfTyped ==
  ASSUME NEW arg, ArgumentTyped(arg)
  PROVE  ValueTyped(ValueOf(arg)) /\ (Len(arg) = 3 => ValueTyped(<<arg[2], arg[3]>>))
<1>1. Len(arg) = 3 => ValueTyped(<<arg[2], arg[3]>>)
  BY DEF ArgumentTyped, ValueTyped
<1>2. ValueTyped(<<"text", arg[1]>>)
  BY DEF ValueTyped
<1> QED
  BY <1>1, <1>2 DEF ValueOf

\* A value, taken or refused, keeps the parser typed.
LEMMA TakeValueTyped ==
  ASSUME NEW W, NEW p, ParserTyped(p, W), NEW name \in ValueOptions, NEW v, ValueTyped(v)
  PROVE  ParserTyped(TakeValue(p, name, v), W)
<1>1. CASE ~Takes(name, v)
  BY <1>1 DEF TakeValue, Refused, ParserTyped, Parser
<1>2. CASE Takes(name, v)
  <2> DEFINE q == TakeValue(p, name, v)
  <2>1. OptionsTyped(Put(p.options, name, v))
    BY <1>2, PutTyped DEF ParserTyped
  <2>2. /\ DOMAIN q = DOMAIN Parser /\ q.options = Put(p.options, name, v)
        /\ q.inputs = p.inputs /\ q.pending = ""
    BY <1>2 DEF TakeValue, ParserTyped, Parser
  <2> HIDE DEF q
  <2>3. ParserTyped(q, W)
    BY <2>1, <2>2 DEF ParserTyped
  <2> QED
    BY <2>3 DEF q
<1> QED
  BY <1>1, <1>2

\* A flag, taken or refused, keeps the parser typed.
LEMMA TakeFlagTyped ==
  ASSUME NEW W, NEW p, ParserTyped(p, W), NEW name
  PROVE  ParserTyped(TakeFlag(p, name), W)
<1> DEFINE q == TakeFlag(p, name)
<1>1. /\ DOMAIN q = DOMAIN Parser /\ q.inputs = p.inputs /\ q.pending = p.pending
      /\ DOMAIN q.options = DOMAIN NoOptions
      /\ \A f \in {"kinds", "at", "from", "to", "match", "limit"} : q.options[f] = p.options[f]
  BY DEF TakeFlag, ParserTyped, Parser, OptionsTyped, NoOptions
<1> HIDE DEF q
<1>2. OptionsTyped(q.options)
  BY <1>1 DEF ParserTyped, OptionsTyped
<1>3. ParserTyped(q, W)
  BY <1>1, <1>2 DEF ParserTyped
<1> QED
  BY <1>3 DEF q

\* A positional word keeps the parser typed.
LEMMA TakeInputTyped ==
  ASSUME NEW W, NEW p, ParserTyped(p, W), NEW arg, arg[1] \in W
  PROVE  ParserTyped(TakeInput(p, arg), W)
<1> DEFINE q == TakeInput(p, arg)
<1>1. /\ DOMAIN q = DOMAIN Parser /\ q.inputs = Append(p.inputs, arg[1]) /\ q.pending = p.pending
      /\ DOMAIN q.options = DOMAIN NoOptions
      /\ \A f \in {"kinds", "at", "from", "to", "match", "limit"} : q.options[f] = p.options[f]
  <2>1. \E word : q = [p EXCEPT !.inputs = Append(p.inputs, arg[1]), !.options.command = word]
    BY DEF TakeInput
  <2>2. PICK word : q = [p EXCEPT !.inputs = Append(p.inputs, arg[1]), !.options.command = word]
    BY <2>1
  <2> HIDE DEF q
  <2>3. {"options", "inputs", "pending"} \subseteq DOMAIN p /\ "command" \in DOMAIN p.options
    BY DEF ParserTyped, Parser, OptionsTyped, NoOptions
  <2>4. DOMAIN q = DOMAIN p /\ q.inputs = Append(p.inputs, arg[1]) /\ q.pending = p.pending
    BY <2>2, <2>3
  <2>5. q.options = [p.options EXCEPT !.command = word]
    BY <2>2, <2>3
  <2>6. /\ DOMAIN q.options = DOMAIN p.options
        /\ \A f \in {"kinds", "at", "from", "to", "match", "limit"} : q.options[f] = p.options[f]
    BY <2>5
  <2>7. DOMAIN p = DOMAIN Parser /\ DOMAIN p.options = DOMAIN NoOptions
    BY DEF ParserTyped, OptionsTyped
  <2> QED
    BY <2>4, <2>6, <2>7, Zenon
<1> HIDE DEF q
<1>2. OptionsTyped(q.options)
  BY <1>1 DEF ParserTyped, OptionsTyped
<1>3. q.inputs \in Seq(W)
  <2>1. p.inputs \in Seq(W)
    BY DEF ParserTyped
  <2>2. Append(p.inputs, arg[1]) \in Seq(W)
    BY <2>1
  <2> QED
    BY <1>1, <2>2, Zenon
<1>4. ParserTyped(q, W)
  BY <1>1, <1>2, <1>3 DEF ParserTyped
<1> QED
  BY <1>4 DEF q

\* An option keeps the parser typed.
LEMMA TakeOptionTyped ==
  ASSUME NEW W, NEW p, ParserTyped(p, W), NEW arg, ArgumentTyped(arg)
  PROVE  ParserTyped(TakeOption(p, arg), W)
<1>1. CASE arg[1] \in Flags
  <2>1. arg[1] \notin ValueOptions
    BY <1>1 DEF Flags, ValueOptions, PointFlags, TextSets, PatternSets, Patterns
  <2>2. TakeOption(p, arg) = TakeFlag(p, arg[1])
    BY <1>1, <2>1 DEF TakeOption
  <2> QED
    BY <2>2, TakeFlagTyped
<1>2. CASE arg[1] \notin Flags /\ arg[1] \in ValueOptions /\ Len(arg) = 3
  <2>1. TakeOption(p, arg) = TakeValue(p, arg[1], <<arg[2], arg[3]>>)
    BY <1>2 DEF TakeOption
  <2> QED
    BY <1>2, <2>1, ValueOfTyped, TakeValueTyped
<1>3. CASE arg[1] \notin Flags /\ arg[1] \in ValueOptions /\ Len(arg) = 1
  <2>1. TakeOption(p, arg) = [p EXCEPT !.pending = arg[1]]
    BY <1>3 DEF TakeOption
  <2> QED
    BY <1>3, <2>1 DEF ParserTyped, Parser
<1>4. CASE arg[1] \notin Flags /\ ~(arg[1] \in ValueOptions /\ Len(arg) \in {1, 3})
  <2>1. TakeOption(p, arg) = Refused(p)
    BY <1>4 DEF TakeOption
  <2> QED
    BY <2>1 DEF Refused, ParserTyped, Parser
<1> QED
  BY <1>1, <1>2, <1>3, <1>4

\* One argument, whatever it is, keeps the parser typed.
LEMMA ParseTyped ==
  ASSUME NEW W, NEW p, ParserTyped(p, W), NEW arg, ArgumentTyped(arg), arg[1] \in W
  PROVE  ParserTyped(Parse(p, arg), W)
<1> DEFINE q == Parse(p, arg)
<1>1. \/ q = p
      \/ p.pending # "" /\ q = TakeValue(p, p.pending, ValueOf(arg))
      \/ q = [p EXCEPT !.positional = TRUE]
      \/ q = [p EXCEPT !.verdict = "help"]
      \/ \E word : q = [p EXCEPT !.options.command = word]
      \/ q = TakeOption(p, arg)
      \/ q = Refused(p)
      \/ q = TakeInput(p, arg)
  <2> DEFINE word == IF Len(arg) = 1 /\ ~p.positional THEN arg[1] ELSE ""
             option == ~p.positional /\ arg[1] \in LongWords
             rest == CASE word = "--" -> [p EXCEPT !.positional = TRUE]
                       [] word \in Asking -> [p EXCEPT !.verdict = "help"]
                       [] word \in Commands /\ p.options.command = "" ->
                            [p EXCEPT !.options.command = word]
                       [] option /\ word \notin Asking \cup {"--"} -> TakeOption(p, arg)
                       [] word = "-x" /\ p.options.command = "" -> Refused(p)
                       [] OTHER -> TakeInput(p, arg)
  <2>1. q = CASE p.verdict # "open" -> p
              [] p.verdict = "open" /\ p.pending # "" -> TakeValue(p, p.pending, ValueOf(arg))
              [] p.verdict = "open" /\ p.pending = "" -> rest
    BY DEF Parse
  <2>2. \/ rest = [p EXCEPT !.positional = TRUE]
        \/ rest = [p EXCEPT !.verdict = "help"]
        \/ rest = [p EXCEPT !.options.command = word]
        \/ rest = TakeOption(p, arg)
        \/ rest = Refused(p)
        \/ rest = TakeInput(p, arg)
    <3> HIDE DEF word, option
    <3> QED
      OBVIOUS
  <2> HIDE DEF q, rest, word
  <2>3. \/ q = p
        \/ p.pending # "" /\ q = TakeValue(p, p.pending, ValueOf(arg))
        \/ q = rest
    BY <2>1
  <2> QED
    BY <2>2, <2>3, Zenon
<1>2. CASE p.pending # "" /\ q = TakeValue(p, p.pending, ValueOf(arg))
  <2>1. p.pending \in ValueOptions
    BY <1>2 DEF ParserTyped
  <2> QED
    BY <1>2, <2>1, ValueOfTyped, TakeValueTyped
<1>3. CASE \E word : q = [p EXCEPT !.options.command = word]
  <2>1. PICK word : q = [p EXCEPT !.options.command = word]
    BY <1>3
  <2> HIDE DEF q
  <2>2. /\ DOMAIN q = DOMAIN Parser /\ q.inputs = p.inputs /\ q.pending = p.pending
        /\ DOMAIN q.options = DOMAIN NoOptions
        /\ \A f \in {"kinds", "at", "from", "to", "match", "limit"} : q.options[f] = p.options[f]
    BY <2>1 DEF ParserTyped, Parser, OptionsTyped, NoOptions
  <2>3. OptionsTyped(q.options)
    BY <2>2 DEF ParserTyped, OptionsTyped
  <2>4. ParserTyped(q, W)
    BY <2>2, <2>3 DEF ParserTyped
  <2> QED
    BY <2>4 DEF q
<1>4. CASE q = TakeOption(p, arg) \/ q = TakeInput(p, arg)
  BY <1>4, TakeOptionTyped, TakeInputTyped
<1>5. CASE q = [p EXCEPT !.positional = TRUE] \/ q = [p EXCEPT !.verdict = "help"] \/ q = Refused(p)
  <2> HIDE DEF q
  <2> SUFFICES ParserTyped(q, W)
    BY DEF q
  <2> QED
    BY <1>5 DEF Refused, ParserTyped, Parser
<1> QED
  BY <1>1, <1>2, <1>3, <1>4, <1>5

\* The parser before the first argument, and the kinds that "all" stands for.
LEMMA StartTyped == \A W : ParserTyped(Parser, W) /\ KindList(KindSeq)
<1>1. KindList(<<>>)
  BY DEF KindList, Range
<1>2. OptionsTyped(NoOptions)
  BY <1>1 DEF OptionsTyped, NoOptions, TimeOrNone
<1>3. \A W : ParserTyped(Parser, W)
  BY <1>2 DEF ParserTyped, Parser
<1>4. KindList(KindSeq)
  <2>1. KindSeq \in Seq(Range(KindSeq))
    BY DEF KindSeq, Range
  <2>2. \A i, j \in DOMAIN KindSeq : KindSeq[i] = KindSeq[j] => i = j
    BY DEF KindSeq
  <2> QED
    BY <2>1, <2>2 DEF KindList
<1> QED
  BY <1>3, <1>4

\* The parsers after each of n arguments, as ParseCli has them.
Parsers(args, n, f) == f = [m \in 0 .. n |-> IF m = 0 THEN Parser ELSE Parse(f[m - 1], args[m])]

\* The parser has a state after every argument.
LEMMA ParsersExist ==
  ASSUME NEW args, NEW N \in Nat
  PROVE  \E f : Parsers(args, N, f)
<1> DEFINE P == {n \in Nat : \E f : Parsers(args, n, f)}
<1>1. 0 \in P
  <2>1. Parsers(args, 0, [m \in 0 .. 0 |-> Parser])
    BY DEF Parsers
  <2> QED
    BY <2>1
<1>2. ASSUME NEW n \in P PROVE n + 1 \in P
  <2>1. PICK f : Parsers(args, n, f)
    OBVIOUS
  <2> DEFINE more == [m \in 0 .. n + 1 |-> IF m = n + 1 THEN Parse(f[n], args[m]) ELSE f[m]]
  <2>2. ASSUME NEW m \in 0 .. n + 1
        PROVE  more[m] = IF m = 0 THEN Parser ELSE Parse(more[m - 1], args[m])
    <3>1. CASE m = n + 1
      <4>1. m # 0 /\ m - 1 = n /\ n \in 0 .. n + 1 /\ n # n + 1
        BY <3>1
      <4>2. more[m] = Parse(f[n], args[m]) /\ more[m - 1] = f[n]
        BY <3>1, <4>1
      <4> QED
        BY <4>1, <4>2, Zenon
    <3>2. CASE m # n + 1
      <4>1. m \in 0 .. n /\ n \in Nat
        BY <3>2
      <4>2. m # 0 => m - 1 \in 0 .. n + 1 /\ m - 1 # n + 1
        BY <4>1
      <4>3. more[m] = f[m] /\ (m # 0 => more[m - 1] = f[m - 1])
        BY <3>2, <4>2
      <4>4. f[m] = IF m = 0 THEN Parser ELSE Parse(f[m - 1], args[m])
        BY <2>1, <4>1 DEF Parsers
      <4> HIDE DEF more
      <4> QED
        BY <4>3, <4>4
    <3> QED
      BY <3>1, <3>2
  <2>3. more = [m \in 0 .. n + 1 |-> more[m]]
    OBVIOUS
  <2> HIDE DEF more
  <2>4. Parsers(args, n + 1, more)
    BY <2>2, <2>3 DEF Parsers
  <2> QED
    BY <2>4
<1>3. P \in SUBSET Nat
  OBVIOUS
<1> HIDE DEF P
<1>4. P = Nat
  BY <1>1, <1>2, <1>3, NatSetInduction
<1> QED
  BY <1>4 DEF P

ArgumentsTyped(args) == args \in Seq(Range(args)) /\ \A i \in DOMAIN args : ArgumentTyped(args[i])

\* What parse_cli returns: options of their types, and the inputs in a sequence.
LEMMA ParseCliTyped ==
  ASSUME NEW args, ArgumentsTyped(args)
  PROVE  /\ OptionsTyped(ParseCli(args).options)
         /\ \E n \in Nat : DOMAIN ParseCli(args).inputs = 1 .. n
<1> DEFINE after == CHOOSE f : Parsers(args, Len(args), f)
           W == {args[i][1] : i \in DOMAIN args}
           p == after[Len(args)]
           o == IF p.allKinds THEN [p.options EXCEPT !.kinds = KindSeq] ELSE p.options
           inputs == [i \in DOMAIN p.inputs |-> [path |-> p.inputs[i], label |-> LabelOf(p, p.inputs[i])]]
<1>1. Len(args) \in Nat /\ DOMAIN args = 1 .. Len(args)
  BY DEF ArgumentsTyped
<1>2. Parsers(args, Len(args), after)
  BY <1>1, ParsersExist
<1>3. ParseCli(args).options = o /\ ParseCli(args).inputs = inputs
  BY DEF ParseCli, Parsers
<1> HIDE DEF after
<1> DEFINE P == {n \in Nat : n \in 0 .. Len(args) => ParserTyped(after[n], W)}
<1>4. 0 \in P
  BY <1>1, <1>2, StartTyped DEF Parsers
<1>5. ASSUME NEW n \in P PROVE n + 1 \in P
  <2> SUFFICES ASSUME n + 1 \in 0 .. Len(args) PROVE ParserTyped(after[n + 1], W)
    OBVIOUS
  <2>1. n \in 0 .. Len(args) /\ n + 1 # 0 /\ (n + 1) - 1 = n /\ n + 1 \in DOMAIN args
    BY <1>1
  <2>2. ParserTyped(after[n], W)
    BY <2>1
  <2>3. after[n + 1] = Parse(after[n], args[n + 1])
    BY <1>2, <2>1 DEF Parsers
  <2>4. ArgumentTyped(args[n + 1]) /\ args[n + 1][1] \in W
    BY <2>1 DEF ArgumentsTyped
  <2> HIDE DEF P, W
  <2> QED
    BY <2>2, <2>3, <2>4, ParseTyped
<1>6. P \in SUBSET Nat
  OBVIOUS
<1> HIDE DEF P
<1>7. P = Nat
  BY <1>4, <1>5, <1>6, NatSetInduction
<1>8. ParserTyped(p, W)
  <2>1. Len(args) \in P /\ Len(args) \in 0 .. Len(args)
    BY <1>1, <1>7
  <2> HIDE DEF W
  <2> QED
    BY <2>1 DEF P
<1> HIDE DEF W, p
<1>9. OptionsTyped(o)
  <2>1. OptionsTyped(p.options)
    BY <1>8 DEF ParserTyped
  <2>2. OptionsTyped([p.options EXCEPT !.kinds = KindSeq])
    BY <2>1, StartTyped DEF OptionsTyped, NoOptions
  <2> QED
    BY <2>1, <2>2, Zenon
<1>10. DOMAIN inputs = 1 .. Len(p.inputs) /\ Len(p.inputs) \in Nat
  <2>1. p.inputs \in Seq(W)
    BY <1>8 DEF ParserTyped
  <2>2. DOMAIN p.inputs = 1 .. Len(p.inputs) /\ Len(p.inputs) \in Nat
    BY <2>1
  <2>3. DOMAIN inputs = DOMAIN p.inputs
    OBVIOUS
  <2> QED
    BY <2>2, <2>3, Zenon
<1> HIDE DEF o, inputs
<1> QED
  BY <1>3, <1>9, <1>10

-----------------------------------------------------------------------------
(* What the Matcher takes. *)

\* What validate_regex has tried is what the Matcher will compile.
LEMMA PatternsCollected ==
  ASSUME NEW o
  PROVE  /\ \A f \in {"sourceRegexes", "threads", "gpuContexts", "plots", "frameSets", "locks",
                      "memoryPools", "zoneParent", "zoneAncestor", "stackFrame"} :
              o[f] \subseteq PatternsOf(o)
         /\ \A f \in Range(o.filters) : f.pattern \in PatternsOf(o)
<1>1. {"sourceRegexes", "threads", "gpuContexts", "plots", "frameSets", "locks", "memoryPools"}
        \subseteq Range(PatternSets)
  <2>1. /\ PatternSets["--source-regex"] = "sourceRegexes" /\ PatternSets["--thread"] = "threads"
        /\ PatternSets["--gpu-context"] = "gpuContexts" /\ PatternSets["--plot"] = "plots"
        /\ PatternSets["--frame-set"] = "frameSets" /\ PatternSets["--lock"] = "locks"
        /\ PatternSets["--memory-pool"] = "memoryPools"
    BY DEF PatternSets
  <2>2. DOMAIN PatternSets = {"--source-regex", "--thread", "--gpu-context", "--plot",
                              "--frame-set", "--lock", "--memory-pool"}
    BY DEF PatternSets
  <2> QED
    BY <2>1, <2>2 DEF Range
<1>2. {"zoneParent", "zoneAncestor", "stackFrame"} \subseteq Range(Patterns)
  <2>1. /\ Patterns["--zone-parent"] = "zoneParent" /\ Patterns["--zone-ancestor"] = "zoneAncestor"
        /\ Patterns["--stack-frame"] = "stackFrame"
    BY DEF Patterns
  <2>2. DOMAIN Patterns = {"--zone-parent", "--zone-ancestor", "--stack-frame"}
    BY DEF Patterns
  <2> QED
    BY <2>1, <2>2 DEF Range
<1>3. \A f \in Range(PatternSets) \cup Range(Patterns) : o[f] \subseteq PatternsOf(o)
  BY DEF PatternsOf
<1>4. ASSUME NEW f \in Range(o.filters) PROVE f.pattern \in PatternsOf(o)
  <2>1. PICK i \in DOMAIN o.filters : f = o.filters[i]
    BY DEF Range
  <2>2. o.filters[i].pattern \in PatternsOf(o)
    BY Zenon DEF PatternsOf
  <2> QED
    BY <2>1, <2>2
<1>5. \A f \in {"sourceRegexes", "threads", "gpuContexts", "plots", "frameSets", "locks",
               "memoryPools", "zoneParent", "zoneAncestor", "stackFrame"} :
        f \in Range(PatternSets) \cup Range(Patterns)
  BY <1>1, <1>2
<1> QED
  BY <1>3, <1>4, <1>5, Zenon

\* A query that parse_cli accepts names only what the Matcher supports.
LEMMA AcceptedForMatcher ==
  ASSUME NEW p, NEW o, Accepted(p, o), o.command = "query"
  PROVE  MatcherAccepts(o)
<1>1. ValidOptions(o) /\ \A pattern \in PatternsOf(o) : pattern.valid
  BY DEF Accepted
<1>2. /\ \A q \in o.sourceRegexes \cup o.threads \cup o.gpuContexts \cup o.plots
                  \cup o.frameSets \cup o.locks \cup o.memoryPools \cup o.zoneParent
                  \cup o.zoneAncestor \cup o.stackFrame : q.valid
      /\ \A f \in Range(o.filters) : f.pattern.valid
  BY <1>1, PatternsCollected
<1> QED
  BY <1>1, <1>2 DEF ValidOptions, MatcherAccepts

\* parse_cli accepts nothing but what it has checked.
LEMMA AcceptedWasChecked ==
  ASSUME NEW args, ParseCli(args).verdict = "accepted"
  PROVE  \E p : Accepted(p, ParseCli(args).options)
<1>1. \E p, o, inputs :
        ParseCli(args) = [options |-> o, inputs |-> inputs,
                          verdict |-> CASE p.verdict = "help" -> "help"
                                        [] Accepted(p, o) -> "accepted"
                                        [] OTHER -> "refused"]
  BY DEF ParseCli
<1>2. PICK p, o, inputs :
        ParseCli(args) = [options |-> o, inputs |-> inputs,
                          verdict |-> CASE p.verdict = "help" -> "help"
                                        [] Accepted(p, o) -> "accepted"
                                        [] OTHER -> "refused"]
  BY <1>1
<1>3. ParseCli(args).options = o
  BY <1>2
<1>4. Accepted(p, o)
  <2> SUFFICES ASSUME ~Accepted(p, o) PROVE FALSE
    OBVIOUS
  <2>1. ParseCli(args).verdict = CASE p.verdict = "help" -> "help"
                                   [] Accepted(p, o) -> "accepted"
                                   [] OTHER -> "refused"
    BY <1>2
  <2>2. ParseCli(args).verdict \in {"help", "refused"}
    BY <2>1
  <2> QED
    BY <2>2
<1> QED
  BY <1>3, <1>4

\* parse_cli ends in one of three ways.
LEMMA VerdictIs == \A args : ParseCli(args).verdict \in {"help", "accepted", "refused"}
  BY DEF ParseCli

\* AcceptedIsValid, for every command line: when run_query starts, parse_cli has
\* let only options pass that the Matcher and the modes of run_query can work with.
THEOREM OptionsAreValid == ProgramSpec => []AcceptedIsValid
<1>1. ProgramInit => AcceptedIsValid
  BY DEF ProgramInit, AcceptedIsValid
<1>2. AcceptedIsValid /\ [ProgramNext]_allVars => AcceptedIsValid'
  <2> SUFFICES ASSUME AcceptedIsValid, [ProgramNext]_allVars PROVE AcceptedIsValid'
    OBVIOUS
  <2>1. CASE ParseArguments
    <3> SUFFICES ASSUME exit' = Running, options'.command = "query"
                 PROVE  MatcherAccepts(options')
      BY DEF AcceptedIsValid
    <3>1. options' = ParseCli(argv).options /\ ParseStatus(ParseCli(argv).verdict) = Running
      BY <2>1 DEF ParseArguments
    <3>2. ParseCli(argv).verdict = "accepted"
      BY <3>1, VerdictIs DEF ParseStatus, Running
    <3> QED
      BY <3>1, <3>2, AcceptedWasChecked, AcceptedForMatcher
  <2>2. ASSUME options' = options, parsed' = parsed, exit' = Running => exit = Running
        PROVE  AcceptedIsValid'
    BY <2>2 DEF AcceptedIsValid, MatcherAccepts, ZoneStructure
  <2>3. CASE RunCommand
    BY <2>2, <2>3 DEF RunCommand
  <2>4. CASE RunQuery
    <3>1. CASE Load \/ LoadFails \/ Skip \/ Select \/ CountRecord \/ List
      BY <2>2, <2>4, <3>1 DEF RunQuery, programVars, Load, LoadFails, Skip, Select, CountRecord, List,
                  Visiting, Querying
    <3>2. CASE FinishListing \/ FinishCount \/ FinishPoint
      BY <2>2, <2>4, <3>2 DEF RunQuery, programVars, FinishListing, FinishCount, FinishPoint, Visited,
                  Querying
    <3>3. CASE Done
      BY <2>2, <2>4, <3>3 DEF RunQuery, programVars, Done, vars, queryVars
    <3> QED
      BY <2>4, <3>1, <3>2, <3>3 DEF RunQuery, Next
  <2>5. CASE UNCHANGED allVars
    BY <2>2, <2>5 DEF allVars, vars, queryVars, programVars
  <2> QED
    BY <2>1, <2>3, <2>4, <2>5 DEF ProgramNext
<1> QED
  BY <1>1, <1>2, PTL DEF ProgramSpec

-----------------------------------------------------------------------------
(* What the loops of run_query visit. *)

\* Pairs with equal parts are equal.
LEMMA PairsEqual ==
  ASSUME NEW x \in Nat \X Nat, NEW y \in Nat \X Nat, x[1] = y[1], x[2] = y[2]
  PROVE  x = y
OBVIOUS

\* Items with the number their records will have, which tells those of a source apart.
Numbered(I) == [item : I, number : Nat]
ToldApart(items) ==
  \A p, q \in DOMAIN items :
    items[p].item.source = items[q].item.source /\ items[p].number = items[q].number => p = q

\* Items numbered through a whole trace are told apart by their numbers.
LEMMA PerTraceNumbers ==
  ASSUME NEW I, NEW c \in Seq(Seq(I))
  PROVE  PerTrace(c) \in Seq(Numbered(I)) /\ ToldApart(PerTrace(c))
<1> DEFINE items == FlattenSeq(c)
           numbered == [p \in DOMAIN items |-> [item |-> items[p], number |-> p - 1]]
<1>1. items \in Seq(I)
  BY FlattenPlaces
<1>2. PerTrace(c) = numbered
  BY DEF PerTrace
<1> HIDE DEF items
<1>3. Len(items) \in Nat /\ DOMAIN items = 1 .. Len(items) /\ \A p \in 1 .. Len(items) : items[p] \in I
  BY <1>1
<1>4. \A p \in 1 .. Len(items) : [item |-> items[p], number |-> p - 1] \in Numbered(I)
  BY <1>3 DEF Numbered
<1>5. numbered \in Seq(Numbered(I))
  BY <1>3, <1>4
<1>6. ToldApart(numbered)
  BY <1>3 DEF ToldApart
<1> QED
  BY <1>2, <1>5, <1>6

\* The sets whose sizes number the items of a source grow from one to the next.
LEMMA EarlierAreFewer ==
  ASSUME NEW I, NEW items \in Seq(I), NEW p \in DOMAIN items, NEW q \in DOMAIN items, p < q,
         items[p].source = items[q].source
  PROVE  Cardinality({r \in 1 .. p - 1 : items[r].source = items[p].source})
           < Cardinality({r \in 1 .. q - 1 : items[r].source = items[q].source})
<1> DEFINE S == {r \in 1 .. p - 1 : items[r].source = items[p].source}
           Q == {r \in 1 .. q - 1 : items[r].source = items[q].source}
<1>0. p \in Nat /\ q \in Nat
  OBVIOUS
<1>1. IsFiniteSet(Q)
  <2>1. IsFiniteSet(1 .. q - 1)
    BY <1>0, FS_Interval
  <2> QED
    BY <2>1, FS_Subset
<1>2. S \cup {p} \subseteq Q /\ p \notin S
  BY <1>0
<1> HIDE DEF S, Q
<1>3. IsFiniteSet(S) /\ IsFiniteSet(S \cup {p}) /\ Cardinality(S \cup {p}) <= Cardinality(Q)
  BY <1>1, <1>2, FS_Subset
<1>4. Cardinality(S \cup {p}) = Cardinality(S) + 1
  BY <1>2, <1>3, FS_AddElement
<1>5. Cardinality(S) \in Nat /\ Cardinality(Q) \in Nat
  BY <1>1, <1>3, FS_CardinalityType
<1>6. Cardinality(S) < Cardinality(Q)
  BY <1>3, <1>4, <1>5
<1> QED
  BY <1>6 DEF S, Q

\* Items numbered through each source are told apart by source and number.
LEMMA PerSourceNumbers ==
  ASSUME NEW I, NEW c \in Seq(Seq(I))
  PROVE  PerSource(c) \in Seq(Numbered(I)) /\ ToldApart(PerSource(c))
<1> DEFINE items == FlattenSeq(c)
           number(p) == Cardinality({q \in 1 .. p - 1 : items[q].source = items[p].source})
           numbered == [p \in DOMAIN items |-> [item |-> items[p], number |-> number(p)]]
<1>1. items \in Seq(I)
  BY FlattenPlaces
<1>2. PerSource(c) = numbered
  BY DEF PerSource
<1> HIDE DEF items
<1>3. Len(items) \in Nat /\ DOMAIN items = 1 .. Len(items) /\ \A p \in 1 .. Len(items) : items[p] \in I
  BY <1>1
<1>4. ASSUME NEW p \in 1 .. Len(items) PROVE number(p) \in Nat
  <2>1. IsFiniteSet(1 .. p - 1)
    BY <1>3, FS_Interval
  <2>2. IsFiniteSet({q \in 1 .. p - 1 : items[q].source = items[p].source})
    BY <2>1, FS_Subset
  <2> QED
    BY <2>2, FS_CardinalityType
<1>5. \A p, q \in DOMAIN items :
        p < q /\ items[p].source = items[q].source => number(p) < number(q)
  BY <1>1, EarlierAreFewer
<1> HIDE DEF number
<1>6. numbered \in Seq(Numbered(I))
  BY <1>3, <1>4 DEF Numbered
<1>7. ASSUME NEW p \in DOMAIN numbered, NEW q \in DOMAIN numbered,
             numbered[p].item.source = numbered[q].item.source,
             numbered[p].number = numbered[q].number
      PROVE  p = q
  <2>1. /\ p \in DOMAIN items /\ q \in DOMAIN items
        /\ items[p].source = items[q].source /\ number(p) = number(q)
    BY <1>7
  <2>2. number(p) \in Nat /\ number(q) \in Nat /\ p \in Int /\ q \in Int
    BY <1>3, <1>4, <2>1
  <2>3. ~(p < q) /\ ~(q < p)
    BY <1>5, <2>1, <2>2
  <2> QED
    BY <2>2, <2>3
<1> HIDE DEF numbered
<1>8. ToldApart(numbered)
  BY <1>7 DEF ToldApart
<1> QED
  BY <1>2, <1>6, <1>8

\* Numbered in each collection, items are told apart when no source has two.
OneCollection(c) ==
  \A g, h \in DOMAIN c : \A i \in DOMAIN c[g], j \in DOMAIN c[h] :
    c[g][i].source = c[h][j].source => g = h

\* Items numbered through each collection are told apart by their numbers when
\* there is one collection.
LEMMA PerCollectionNumbers ==
  ASSUME NEW I, NEW c \in Seq(Seq(I))
  PROVE  /\ PerCollection(c) \in Seq(Numbered(I))
         /\ OneCollection(c) => ToldApart(PerCollection(c))
<1> DEFINE parts == [g \in DOMAIN c |-> [i \in DOMAIN c[g] |-> [item |-> c[g][i], number |-> i - 1]]]
           items == FlattenSeq(parts)
<1>1. PerCollection(c) = items
  BY DEF PerCollection
<1>2. /\ Len(c) \in Nat /\ DOMAIN c = 1 .. Len(c)
      /\ \A g \in 1 .. Len(c) : c[g] \in Seq(I) /\ Len(c[g]) \in Nat /\ DOMAIN c[g] = 1 .. Len(c[g])
  OBVIOUS
<1>3. ASSUME NEW g \in 1 .. Len(c)
      PROVE  /\ parts[g] = [i \in 1 .. Len(c[g]) |-> [item |-> c[g][i], number |-> i - 1]]
             /\ parts[g] \in Seq(Numbered(I)) /\ Len(parts[g]) = Len(c[g])
  <2>1. parts[g] = [i \in 1 .. Len(c[g]) |-> [item |-> c[g][i], number |-> i - 1]]
    BY <1>2
  <2>2. \A i \in 1 .. Len(c[g]) : [item |-> c[g][i], number |-> i - 1] \in Numbered(I)
    BY <1>2 DEF Numbered
  <2> HIDE DEF parts
  <2> QED
    BY <1>2, <2>1, <2>2
<1>4. parts \in Seq(Seq(Numbered(I))) /\ Len(parts) = Len(c)
  BY <1>2, <1>3
<1> HIDE DEF parts
<1>5. items \in Seq(Numbered(I)) /\ \E at : PlacedUpto(parts, Len(parts), items, at)
  BY <1>4, FlattenPlaces
<1> HIDE DEF items
<1>6. ASSUME OneCollection(c), NEW p \in DOMAIN items, NEW q \in DOMAIN items,
             items[p].item.source = items[q].item.source, items[p].number = items[q].number
      PROVE  p = q
  <2>1. PICK at : PlacedUpto(parts, Len(parts), items, at)
    BY <1>5
  <2>2. ASSUME NEW r \in DOMAIN items
        PROVE  /\ at[r] \in Nat \X Nat
               /\ at[r][1] \in 1 .. Len(c) /\ at[r][2] \in 1 .. Len(c[at[r][1]])
               /\ items[r].item = c[at[r][1]][at[r][2]] /\ items[r].number = at[r][2] - 1
    <3>1. r \in 1 .. Len(items)
      BY <1>5
    <3>2. /\ at[r] \in Nat \X Nat /\ at[r][1] \in 1 .. Len(c)
          /\ at[r][2] \in 1 .. Len(parts[at[r][1]]) /\ items[r] = parts[at[r][1]][at[r][2]]
      BY <1>4, <2>1, <3>1 DEF PlacedUpto
    <3> DEFINE g == at[r][1]
               i == at[r][2]
    <3>3. g \in 1 .. Len(c) /\ i \in 1 .. Len(parts[g]) /\ items[r] = parts[g][i]
      BY <3>2
    <3> HIDE DEF g, i
    <3>4. /\ parts[g] = [k \in 1 .. Len(c[g]) |-> [item |-> c[g][k], number |-> k - 1]]
          /\ Len(parts[g]) = Len(c[g])
      BY <1>3, <3>3
    <3>5. i \in 1 .. Len(c[g])
      BY <3>3, <3>4
    <3>6. items[r] = [item |-> c[g][i], number |-> i - 1]
      BY <3>3, <3>4, <3>5
    <3> QED
      BY <3>2, <3>3, <3>5, <3>6 DEF g, i
  <2>3. at[p][1] = at[q][1]
    <3> DEFINE g == at[p][1]
               i == at[p][2]
               h == at[q][1]
               j == at[q][2]
    <3>1. /\ g \in DOMAIN c /\ i \in DOMAIN c[g] /\ items[p].item = c[g][i]
          /\ h \in DOMAIN c /\ j \in DOMAIN c[h] /\ items[q].item = c[h][j]
      BY <1>2, <2>2
    <3> HIDE DEF g, h, i, j
    <3>2. g = h
      BY <1>6, <3>1 DEF OneCollection
    <3> QED
      BY <3>2 DEF g, h
  <2>4. at[p][2] = at[q][2]
    <3> DEFINE i == at[p][2]
               j == at[q][2]
    <3>0. at[p] \in Nat \X Nat /\ at[q] \in Nat \X Nat
      BY <2>2
    <3>1. items[p].number = i - 1 /\ items[q].number = j - 1
      BY <2>2
    <3>3. i \in Nat /\ j \in Nat
      BY <3>0
    <3> HIDE DEF i, j
    <3>4. i - 1 = j - 1
      BY <1>6, <3>1, Zenon
    <3>2. i = j
      BY <3>3, <3>4
    <3> QED
      BY <3>2 DEF i, j
  <2>5. at[p] = at[q]
    BY <2>2, <2>3, <2>4, PairsEqual
  <2>6. p \in 1 .. Len(items) /\ q \in 1 .. Len(items)
    BY <1>5
  <2> QED
    BY <2>1, <2>5, <2>6 DEF PlacedUpto
<1>7. OneCollection(c) => ToldApart(items)
  BY <1>6 DEF ToldApart
<1> QED
  BY <1>1, <1>5, <1>7

\* Images keep the numbers of their frames.
LEMMA ImagesNumbers ==
  ASSUME NEW I, NEW c \in Seq(Seq(I))
  PROVE  /\ Images(c) \in Seq(Numbered(I))
         /\ OneCollection(c) => ToldApart(Images(c))
<1> DEFINE items == PerCollection(c)
           parts == [p \in DOMAIN items |-> IF items[p].item.image THEN <<items[p]>> ELSE <<>>]
           images == FlattenSeq(parts)
<1>1. Images(c) = images
  BY DEF Images, Those
<1>2. items \in Seq(Numbered(I)) /\ (OneCollection(c) => ToldApart(items))
  BY PerCollectionNumbers
<1> HIDE DEF items
<1>3. Len(items) \in Nat /\ DOMAIN items = 1 .. Len(items)
      /\ \A p \in 1 .. Len(items) : items[p] \in Numbered(I)
  BY <1>2
<1>4. \A p \in 1 .. Len(items) : parts[p] \in Seq(Numbered(I)) /\ (parts[p] = <<items[p]>> \/ parts[p] = <<>>)
  BY <1>3
<1>5. parts \in Seq(Seq(Numbered(I))) /\ Len(parts) = Len(items)
  BY <1>3, <1>4
<1> HIDE DEF parts
<1>6. images \in Seq(Numbered(I)) /\ \E at : PlacedUpto(parts, Len(parts), images, at)
  BY <1>5, FlattenPlaces
<1> HIDE DEF images
<1>7. ASSUME ToldApart(items), NEW p \in DOMAIN images, NEW q \in DOMAIN images,
             images[p].item.source = images[q].item.source, images[p].number = images[q].number
      PROVE  p = q
  <2>1. PICK at : PlacedUpto(parts, Len(parts), images, at)
    BY <1>6
  <2>2. ASSUME NEW r \in DOMAIN images
        PROVE  /\ at[r] \in Nat \X Nat
               /\ at[r][1] \in 1 .. Len(items) /\ at[r][2] = 1
               /\ images[r] = items[at[r][1]]
    <3>1. r \in 1 .. Len(images)
      BY <1>6
    <3>2. /\ at[r] \in Nat \X Nat /\ at[r][1] \in 1 .. Len(items)
          /\ at[r][2] \in 1 .. Len(parts[at[r][1]]) /\ images[r] = parts[at[r][1]][at[r][2]]
      BY <1>5, <2>1, <3>1 DEF PlacedUpto
    <3>3. parts[at[r][1]] = <<items[at[r][1]]>>
      BY <1>4, <3>2
    <3>4. at[r][2] = 1
      BY <3>2, <3>3
    <3> QED
      BY <3>2, <3>3, <3>4
  <2>3. at[p][1] = at[q][1]
    <3> DEFINE a == at[p][1]
               b == at[q][1]
    <3>1. a \in DOMAIN items /\ images[p] = items[a] /\ b \in DOMAIN items /\ images[q] = items[b]
      BY <1>3, <2>2
    <3> HIDE DEF a, b
    <3>2. a = b
      BY <1>7, <3>1 DEF ToldApart
    <3> QED
      BY <3>2 DEF a, b
  <2>4. at[p][2] = at[q][2]
    BY <2>2
  <2>5. at[p] = at[q]
    BY <2>2, <2>3, <2>4, PairsEqual
  <2>6. p \in 1 .. Len(images) /\ q \in 1 .. Len(images)
    BY <1>6
  <2> QED
    BY <2>1, <2>5, <2>6 DEF PlacedUpto
<1>8. OneCollection(c) => ToldApart(images)
  BY <1>2, <1>7 DEF ToldApart
<1> QED
  BY <1>1, <1>6, <1>8

-----------------------------------------------------------------------------
(* The records of a kind. *)

TracesTyped == traces \in Seq(Range(traces)) /\ \A t \in DOMAIN traces : WorkerTrace(traces[t])

HeldItems(t, k) == UNION {Range(part) : part \in Range(Held(traces[t], k))}

\* What a trace holds of a kind: collections in order, of typed items, and one only
\* unless its sources share the kind.
LEMMA HeldTyped ==
  ASSUME TracesTyped, NEW t \in DOMAIN traces, NEW k
  PROVE  /\ Held(traces[t], k) \in Seq(Seq(HeldItems(t, k)))
         /\ \A x \in HeldItems(t, k) : WorkerItem(traces[t], k, x)
         /\ k \notin Shared => OneCollection(Held(traces[t], k))
         /\ \A part \in Range(Held(traces[t], k)) : InOrder(k, part)
<1>1. CASE k \in DOMAIN traces[t].data
  <2> DEFINE held == traces[t].data[k]
  <2>1. Held(traces[t], k) = held
    BY <1>1 DEF Held
  <2>2. /\ held \in Seq(Seq(UNION {Range(part) : part \in Range(held)}))
        /\ \A part \in Range(held) : InOrder(k, part)
        /\ \A g \in DOMAIN held : \A i \in DOMAIN held[g] :
             /\ WorkerItem(traces[t], k, held[g][i])
             /\ k \notin Shared =>
                  \A h \in DOMAIN held : \A j \in DOMAIN held[h] :
                    held[g][i].source = held[h][j].source => g = h
    BY <1>1 DEF TracesTyped, WorkerTrace
  <2> HIDE DEF held
  <2>3. \A x \in UNION {Range(part) : part \in Range(held)} :
          \E g \in DOMAIN held : \E i \in DOMAIN held[g] : x = held[g][i]
    BY DEF Range
  <2>4. k \notin Shared => OneCollection(held)
    BY <2>2 DEF OneCollection
  <2> QED
    BY <2>1, <2>2, <2>3, <2>4 DEF HeldItems
<1>2. CASE k \notin DOMAIN traces[t].data
  <2>1. Held(traces[t], k) = <<>>
    BY <1>2 DEF Held
  <2>2. HeldItems(t, k) = {}
    BY <2>1 DEF HeldItems, Range
  <2> QED
    BY <2>1, <2>2 DEF OneCollection, Range
<1> QED
  BY <1>1, <1>2

\* The items VisitKind goes through, and the kind the Worker holds them as.
ItemsVisited(t, k) ==
  CASE k \in {"message", "cpu-zone", "gpu-zone"} -> PerTrace(Held(traces[t], k))
    [] k = "sample" -> PerSource(Held(traces[t], k))
    [] k = "frame-image" -> Images(Held(traces[t], "frame"))
    [] OTHER -> PerCollection(Held(traces[t], k))
HeldKind(k) == IF k = "frame-image" THEN "frame" ELSE k

\* The items visited of a kind are typed, and told apart but for hardware samples.
LEMMA ItemsTyped ==
  ASSUME TracesTyped, NEW t \in DOMAIN traces, NEW k
  PROVE  \E I : /\ ItemsVisited(t, k) \in Seq(Numbered(I))
                /\ \A x \in I : WorkerItem(traces[t], HeldKind(k), x)
                /\ k # "hardware-sample" => ToldApart(ItemsVisited(t, k))
<1> DEFINE I == HeldItems(t, HeldKind(k))
           c == Held(traces[t], HeldKind(k))
<1>1. /\ c \in Seq(Seq(I)) /\ \A x \in I : WorkerItem(traces[t], HeldKind(k), x)
      /\ HeldKind(k) \notin Shared => OneCollection(c)
  BY HeldTyped
<1> HIDE DEF I
<1>2. CASE k \in {"message", "cpu-zone", "gpu-zone"}
  <2>1. ItemsVisited(t, k) = PerTrace(c)
    BY <1>2 DEF ItemsVisited, HeldKind
  <2> HIDE DEF c
  <2> QED
    BY <1>1, <2>1, PerTraceNumbers
<1>3. CASE k = "sample"
  <2>1. ItemsVisited(t, k) = PerSource(c)
    BY <1>3 DEF ItemsVisited, HeldKind
  <2> HIDE DEF c
  <2> QED
    BY <1>1, <2>1, PerSourceNumbers
<1>4. CASE k = "frame-image"
  <2>1. ItemsVisited(t, k) = Images(c) /\ HeldKind(k) \notin Shared
    BY <1>4 DEF ItemsVisited, HeldKind, Shared
  <2> HIDE DEF c
  <2> QED
    BY <1>1, <2>1, ImagesNumbers
<1>5. CASE k \notin {"message", "cpu-zone", "gpu-zone", "sample", "frame-image"}
  <2>1. ItemsVisited(t, k) = PerCollection(c) /\ (k # "hardware-sample" => HeldKind(k) \notin Shared)
    BY <1>5 DEF ItemsVisited, HeldKind, Shared
  <2> HIDE DEF c
  <2> QED
    BY <1>1, <2>1, PerCollectionNumbers
<1> QED
  BY <1>2, <1>3, <1>4, <1>5

\* A label stands at one place of the command line.
LEMMA TraceOrderIs ==
  ASSUME TracesTyped, NEW t \in DOMAIN traces
  PROVE  /\ TraceOrder(traces[t].label) \in DOMAIN traces
         /\ TraceOrder(traces[t].label) \in Nat
         /\ DistinctLabels => TraceOrder(traces[t].label) = t
<1> DEFINE label == traces[t].label
           S == {i \in DOMAIN traces : traces[i].label = label}
<1>1. DOMAIN traces \subseteq Nat /\ DOMAIN traces = 1 .. Len(traces) /\ Len(traces) \in Nat
  BY DEF TracesTyped
<1>2. S \in SUBSET Nat /\ t \in S
  BY <1>1
<1>3. PICK i \in S : \A m \in S : i <= m
  BY <1>2, Least
<1>4. /\ i \in DOMAIN traces
      /\ traces[i].label = label
      /\ \A j \in 1 .. i - 1 : traces[j].label # label
  <2>1. ASSUME NEW j \in 1 .. i - 1 PROVE traces[j].label # label
    <3>1. j \in DOMAIN traces /\ ~(i <= j)
      BY <1>1, <1>3
    <3> QED
      BY <1>3, <3>1
  <2> QED
    BY <2>1
<1> HIDE DEF label
<1>5. /\ TraceOrder(label) \in DOMAIN traces
      /\ traces[TraceOrder(label)].label = label
  BY <1>4 DEF TraceOrder
<1> QED
  BY <1>1, <1>5 DEF label, DistinctLabels

\* kind_order is the place of a kind in the list of kinds.
LEMMA KindOrderIs ==
  \A k \in Range(KindSeq) : KindOrder(k) \in Nat /\ KindOrder(k) \in DOMAIN KindSeq
                            /\ KindSeq[KindOrder(k)] = k
<1>1. DOMAIN KindSeq \subseteq Nat
  BY DEF KindSeq
<1>2. \A k \in Range(KindSeq) : \E i \in DOMAIN KindSeq : KindSeq[i] = k
  BY DEF Range
<1> QED
  BY <1>1, <1>2 DEF KindOrder

\* What a record is, whichever item it was made of.
RecordTyped(r) ==
  /\ r.file \in DOMAIN traces /\ r.trace = TraceOrder(traces[r.file].label)
  /\ r.kind \in Range(KindSeq)
  /\ r.source \in Nat /\ r.seq \in Nat
  /\ r.time \in Int /\ r.end \in Int /\ r.last \in Int
  /\ r.time <= r.end /\ r.end <= r.last

\* The record that visit_kind makes of an item is typed and names the item.
LEMMA RecordOfItem ==
  ASSUME TracesTyped, NEW t \in DOMAIN traces, NEW k \in Range(KindSeq), NEW I,
         NEW n \in Numbered(I), WorkerItem(traces[t], HeldKind(k), n.item)
  PROVE  /\ RecordTyped(RecordOf(t, k, n))
         /\ RecordOf(t, k, n).file = t /\ RecordOf(t, k, n).kind = k
         /\ RecordOf(t, k, n).source = n.item.source /\ RecordOf(t, k, n).seq = n.number
<1> DEFINE r == RecordOf(t, k, n)
           trace == traces[t]
<1>1. /\ r.time = n.item.time - trace.first
      /\ r.end = (IF Interval(k) /\ ~n.item.open THEN n.item.end ELSE n.item.time) - trace.first
      /\ r.last = trace.last - trace.first
  BY DEF RecordOf, Normalize
<1>2. /\ r.file = t /\ r.trace = TraceOrder(traces[t].label) /\ r.kind = k
      /\ r.source = n.item.source /\ r.seq = n.number
  BY DEF RecordOf
<1> HIDE DEF r
<1>3. trace.first \in Int /\ trace.last \in Int
  BY DEF TracesTyped, WorkerTrace
<1>4. /\ n.item.time \in Int /\ n.item.time <= trace.last /\ n.item.source \in Nat
      /\ n.number \in Nat
      /\ Interval(k) /\ ~n.item.open => n.item.end \in n.item.time .. trace.last
  BY DEF WorkerItem, Numbered, HeldKind, Interval
<1> HIDE DEF trace
<1>5. r.time \in Int /\ r.end \in Int /\ r.last \in Int /\ r.time <= r.end /\ r.end <= r.last
  BY <1>1, <1>3, <1>4
<1>6. RecordTyped(r)
  BY <1>2, <1>4, <1>5 DEF RecordTyped
<1> QED
  BY <1>2, <1>6 DEF r

\* The key of a typed record is one the comparison is defined on.
LEMMA KeyTyped == ASSUME TracesTyped, NEW r, RecordTyped(r) PROVE KeyOf(r) \in Keys
<1>1. r.trace \in Nat
  BY TraceOrderIs DEF RecordTyped
<1>2. KindOrder(r.kind) \in Nat
  BY KindOrderIs DEF RecordTyped
<1> QED
  BY <1>1, <1>2 DEF RecordTyped, KeyOf, Keys

\* Records are told apart by their source and number, but for hardware samples.
Distinguished(rs) ==
  \A p, q \in DOMAIN rs :
    SameSource(rs[p], rs[q]) /\ rs[p].seq = rs[q].seq /\ rs[p].kind # "hardware-sample" => p = q

\* What visit_kind visits is typed, of that file and kind, and told apart.
LEMMA KindVisited ==
  ASSUME TracesTyped, NEW t \in DOMAIN traces, NEW k \in Range(KindSeq)
  PROVE  /\ VisitKind(t, k) \in Seq(Range(VisitKind(t, k)))
         /\ \A p \in DOMAIN VisitKind(t, k) :
              /\ RecordTyped(VisitKind(t, k)[p])
              /\ VisitKind(t, k)[p].file = t /\ VisitKind(t, k)[p].kind = k
         /\ Distinguished(VisitKind(t, k))
<1> DEFINE items == ItemsVisited(t, k)
           rs == VisitKind(t, k)
<1>1. rs = [p \in DOMAIN items |-> RecordOf(t, k, items[p])]
  BY DEF VisitKind, ItemsVisited
<1>2. PICK I : /\ items \in Seq(Numbered(I))
               /\ \A x \in I : WorkerItem(traces[t], HeldKind(k), x)
               /\ k # "hardware-sample" => ToldApart(items)
  BY ItemsTyped
<1> HIDE DEF items, rs
<1>3. /\ Len(items) \in Nat /\ DOMAIN items = 1 .. Len(items)
      /\ \A p \in DOMAIN items : items[p] \in Numbered(I) /\ items[p].item \in I
  <2>1. \A n \in Numbered(I) : n.item \in I
    BY DEF Numbered
  <2> QED
    BY <1>2, <2>1
<1>4. ASSUME NEW p \in DOMAIN items
      PROVE  /\ rs[p] = RecordOf(t, k, items[p])
             /\ RecordTyped(rs[p]) /\ rs[p].file = t /\ rs[p].kind = k
             /\ rs[p].source = items[p].item.source /\ rs[p].seq = items[p].number
  BY <1>1, <1>2, <1>3, RecordOfItem
<1>5. DOMAIN rs = DOMAIN items /\ rs \in Seq(Range(rs))
  <2>1. DOMAIN rs = 1 .. Len(items)
    BY <1>1, <1>3
  <2>2. rs = [p \in 1 .. Len(items) |-> rs[p]] /\ \A p \in 1 .. Len(items) : rs[p] \in Range(rs)
    BY <1>1, <2>1 DEF Range
  <2> QED
    BY <1>3, <2>1, <2>2
<1>6. Distinguished(rs)
  BY <1>2, <1>4, <1>5 DEF Distinguished, ToldApart, SameSource
<1> QED
  BY <1>4, <1>5, <1>6 DEF rs

\* Flattened, parts that are told apart by what their records have in common
\* are still told apart.
LEMMA FlattenDistinguished ==
  ASSUME NEW T, NEW ss \in Seq(Seq(T)),
         \A g \in DOMAIN ss : Distinguished(ss[g]),
         \A g, h \in DOMAIN ss : \A i \in DOMAIN ss[g], j \in DOMAIN ss[h] :
           SameSource(ss[g][i], ss[h][j]) => g = h
  PROVE  /\ FlattenSeq(ss) \in Seq(T)
         /\ \A p \in DOMAIN FlattenSeq(ss) :
              \E g \in DOMAIN ss : \E i \in DOMAIN ss[g] : FlattenSeq(ss)[p] = ss[g][i]
         /\ Distinguished(FlattenSeq(ss))
<1> DEFINE flat == FlattenSeq(ss)
<1>1. flat \in Seq(T) /\ \E at : PlacedUpto(ss, Len(ss), flat, at)
  BY FlattenPlaces
<1>2. PICK at : PlacedUpto(ss, Len(ss), flat, at)
  BY <1>1
<1> HIDE DEF flat
<1>3. ASSUME NEW p \in DOMAIN flat
      PROVE  /\ p \in 1 .. Len(flat)
             /\ at[p] \in Nat \X Nat
             /\ at[p][1] \in DOMAIN ss /\ at[p][2] \in DOMAIN ss[at[p][1]]
             /\ flat[p] = ss[at[p][1]][at[p][2]]
  <2>1. p \in 1 .. Len(flat)
    BY <1>1
  <2>2. at[p] \in Nat \X Nat /\ at[p][1] \in 1 .. Len(ss) /\ flat[p] = ss[at[p][1]][at[p][2]]
    BY <1>2, <2>1 DEF PlacedUpto
  <2>3. at[p][2] \in 1 .. Len(ss[at[p][1]])
    BY <1>2, <2>1 DEF PlacedUpto
  <2> DEFINE g == at[p][1]
  <2>4. g \in 1 .. Len(ss) /\ at[p][2] \in 1 .. Len(ss[g])
    BY <2>2, <2>3
  <2> HIDE DEF g
  <2>5. g \in DOMAIN ss /\ DOMAIN ss[g] = 1 .. Len(ss[g])
    BY <2>4
  <2> QED
    BY <2>1, <2>2, <2>4, <2>5 DEF g
<1>4. ASSUME NEW p \in DOMAIN flat, NEW q \in DOMAIN flat,
             SameSource(flat[p], flat[q]), flat[p].seq = flat[q].seq,
             flat[p].kind # "hardware-sample"
      PROVE  p = q
  <2> DEFINE g == at[p][1]
             i == at[p][2]
             h == at[q][1]
             j == at[q][2]
  <2>1. /\ g \in DOMAIN ss /\ i \in DOMAIN ss[g] /\ flat[p] = ss[g][i]
        /\ h \in DOMAIN ss /\ j \in DOMAIN ss[h] /\ flat[q] = ss[h][j]
    BY <1>3
  <2> HIDE DEF g, h, i, j
  <2>2. g = h
    BY <1>4, <2>1
  <2>3. i = j
    BY <1>4, <2>1, <2>2 DEF Distinguished
  <2>4. at[p] = at[q]
    BY <1>3, <2>2, <2>3, PairsEqual DEF g, h, i, j
  <2> QED
    BY <1>2, <1>3, <2>4 DEF PlacedUpto
<1>5. Distinguished(flat)
  BY <1>4 DEF Distinguished
<1>6. \A p \in DOMAIN flat : \E g \in DOMAIN ss : \E i \in DOMAIN ss[g] : flat[p] = ss[g][i]
  BY <1>3
<1> QED
  BY <1>1, <1>5, <1>6 DEF flat

\* What run_query visits: records of the traces, of the kinds asked for, and
\* all told apart but the hardware samples.
LEMMA RecordsVisited ==
  ASSUME TracesTyped, KindList(options.kinds)
  PROVE  /\ AllRecords \in Seq(Range(AllRecords))
         /\ \A p \in DOMAIN AllRecords : RecordTyped(AllRecords[p])
         /\ Distinguished(AllRecords)
<1> DEFINE kinds == options.kinds
           T == UNION {Range(VisitKind(t, k)) : t \in DOMAIN traces, k \in Range(KindSeq)}
           parts(t) == [k \in DOMAIN kinds |-> VisitKind(t, kinds[k])]
           outer == [t \in DOMAIN traces |-> FlattenSeq(parts(t))]
<1>1. /\ Len(kinds) \in Nat /\ DOMAIN kinds = 1 .. Len(kinds)
      /\ \A i \in DOMAIN kinds : kinds[i] \in Range(KindSeq)
      /\ \A i, j \in DOMAIN kinds : kinds[i] = kinds[j] => i = j
  BY DEF KindList
<1>2. Len(traces) \in Nat /\ DOMAIN traces = 1 .. Len(traces)
  BY DEF TracesTyped
<1>3. AllRecords = FlattenSeq(outer)
  BY DEF AllRecords
<1> HIDE DEF kinds
<1>4. ASSUME NEW t \in DOMAIN traces
      PROVE  /\ FlattenSeq(parts(t)) \in Seq(T)
             /\ \A p \in DOMAIN FlattenSeq(parts(t)) :
                  RecordTyped(FlattenSeq(parts(t))[p]) /\ FlattenSeq(parts(t))[p].file = t
             /\ Distinguished(FlattenSeq(parts(t)))
  <2> DEFINE ss == parts(t)
  <2>1. DOMAIN ss = 1 .. Len(kinds)
    BY <1>1
  <2>2. ASSUME NEW g \in 1 .. Len(kinds)
        PROVE  /\ ss[g] \in Seq(T)
               /\ \A i \in DOMAIN ss[g] :
                    RecordTyped(ss[g][i]) /\ ss[g][i].file = t /\ ss[g][i].kind = kinds[g]
               /\ Distinguished(ss[g])
    <3>1. kinds[g] \in Range(KindSeq) /\ ss[g] = VisitKind(t, kinds[g])
      BY <1>1, <2>2
    <3> DEFINE rs == VisitKind(t, kinds[g])
    <3>2. Range(rs) \subseteq T
      BY <3>1
    <3>3. /\ rs \in Seq(Range(rs)) /\ Distinguished(rs)
          /\ \A i \in DOMAIN rs : RecordTyped(rs[i]) /\ rs[i].file = t /\ rs[i].kind = kinds[g]
      BY <3>1, KindVisited
    <3> HIDE DEF rs, T
    <3>4. rs \in Seq(T)
      BY <3>2, <3>3
    <3> QED
      BY <3>1, <3>3, <3>4 DEF rs
  <2> HIDE DEF T
  <2>3. ss \in Seq(Seq(T))
    <3>1. ss = [g \in 1 .. Len(kinds) |-> ss[g]]
      BY <2>1
    <3> HIDE DEF ss
    <3> QED
      BY <1>1, <2>2, <3>1
  <2> HIDE DEF ss
  <2>4. \A g \in DOMAIN ss : Distinguished(ss[g])
    BY <2>1, <2>2
  <2>5. \A g, h \in DOMAIN ss : \A i \in DOMAIN ss[g], j \in DOMAIN ss[h] :
          SameSource(ss[g][i], ss[h][j]) => g = h
    BY <1>1, <2>1, <2>2 DEF SameSource
  <2>6. /\ FlattenSeq(ss) \in Seq(T) /\ Distinguished(FlattenSeq(ss))
        /\ \A p \in DOMAIN FlattenSeq(ss) :
             \E g \in DOMAIN ss : \E i \in DOMAIN ss[g] : FlattenSeq(ss)[p] = ss[g][i]
    BY <2>3, <2>4, <2>5, FlattenDistinguished
  <2>7. \A p \in DOMAIN FlattenSeq(ss) :
          RecordTyped(FlattenSeq(ss)[p]) /\ FlattenSeq(ss)[p].file = t
    BY <2>1, <2>2, <2>6
  <2> QED
    BY <2>6, <2>7 DEF ss
<1> HIDE DEF T, parts
<1>5. DOMAIN outer = DOMAIN traces /\ \A t \in DOMAIN traces : outer[t] = FlattenSeq(parts(t))
  OBVIOUS
<1> HIDE DEF outer
<1>6. outer \in Seq(Seq(T))
  <2>1. outer = [t \in 1 .. Len(traces) |-> outer[t]]
    BY <1>2, <1>5 DEF outer
  <2> QED
    BY <1>2, <1>4, <1>5, <2>1
<1>7. \A t \in DOMAIN outer : Distinguished(outer[t])
  BY <1>4, <1>5
<1>8. \A t \in DOMAIN outer : \A p \in DOMAIN outer[t] : RecordTyped(outer[t][p]) /\ outer[t][p].file = t
  BY <1>4, <1>5
<1>9. \A g, h \in DOMAIN outer : \A i \in DOMAIN outer[g], j \in DOMAIN outer[h] :
        SameSource(outer[g][i], outer[h][j]) => g = h
  BY <1>8 DEF SameSource
<1>10. /\ AllRecords \in Seq(T) /\ Distinguished(AllRecords)
       /\ \A p \in DOMAIN AllRecords :
            \E g \in DOMAIN outer : \E i \in DOMAIN outer[g] : AllRecords[p] = outer[g][i]
  BY <1>3, <1>6, <1>7, <1>9, FlattenDistinguished
<1>11. AllRecords \in Seq(Range(AllRecords))
  <2> DEFINE rs == AllRecords
  <2> HIDE DEF rs
  <2>1. rs \in Seq(T) => rs \in Seq(Range(rs))
    BY DEF Range
  <2> QED
    BY <1>10, <2>1 DEF rs
<1> QED
  BY <1>8, <1>10, <1>11

-----------------------------------------------------------------------------
(* The program's invariant, but for its answers. *)

\* Only a listing uses the sorter.  Point mode sets what finish returns itself.
SorterIsListing == stage # "adding" => Listing(options)

SorterEmpty ==
  /\ added = <<>> /\ chunk = {} /\ runs = <<>> /\ read = <<>> /\ heap = {} /\ out = <<>>
  /\ stage = "adding" /\ truncated = FALSE

\* Nothing was visited, and the answer is empty.
Unvisited ==
  /\ SorterEmpty
  /\ visits = <<>> /\ seen = 0
  /\ latest = <<>> /\ next = <<>> /\ records = <<>>
  /\ count = 0 /\ groups = <<>> /\ printed = <<>>

\* What is visited are records of the traces, told apart by what they are of.
VisitsGood ==
  /\ visits \in Seq(Range(visits))
  /\ \A p \in DOMAIN visits : RecordTyped(visits[p])
  /\ Distinguished(visits)

Started == \E i \in Invocations : argv \in i.lines /\ files \in i.files

Inputs == Started /\ TracesTyped /\ OptionsTyped(options) /\ limit \in Limits /\ VisitsGood

Progress ==
  /\ parsed \in BOOLEAN
  /\ loaded \in 0 .. Len(traces) /\ seen \in 0 .. Len(visits)
  /\ ~parsed => exit = Running /\ failure = "none" /\ traces = <<>>
  /\ ~parsed \/ loaded < Len(traces) => Unvisited
  /\ visits # <<>> => ValidOptions(options)
  /\ exit = Running => failure = "none"
  /\ exit = Running /\ parsed /\ options.command = "query" => ValidOptions(options)
  /\ Succeeded => seen = Len(visits)

ProgramBase == IInv /\ SorterIsListing /\ Inputs /\ Progress

\* The program starts in its invariant.
LEMMA BaseInit == ProgramInit => ProgramBase
<1> SUFFICES ASSUME ProgramInit PROVE ProgramBase
  OBVIOUS
<1>1. SortInit /\ seen = 0 /\ visits = <<>> /\ traces = <<>> /\ options = NoOptions /\ loaded = 0
      /\ limit = NoLimit /\ ~parsed /\ parsed \in BOOLEAN /\ exit = Running /\ failure = "none"
  BY DEF ProgramInit, Fresh, NoOptions
<1>2. IInv
  BY <1>1, InitHolds
<1>3. SorterIsListing /\ Unvisited
  BY <1>1 DEF ProgramInit, Fresh, SortInit, SorterIsListing, SorterEmpty, Unvisited
<1>4. OptionsTyped(options) /\ limit \in Limits
  <2>1. KindList(<<>>)
    BY DEF KindList, Range
  <2>2. OptionsTyped(NoOptions)
    BY <2>1 DEF OptionsTyped, NoOptions, TimeOrNone
  <2> QED
    BY <1>1, <2>2, LimitsAssumption
<1>5. TracesTyped /\ VisitsGood /\ Started
  BY <1>1 DEF TracesTyped, VisitsGood, Distinguished, Range, ProgramInit, Started
<1>6. Progress
  BY <1>1, <1>3 DEF Progress, Succeeded, Running
<1> QED
  BY <1>2, <1>3, <1>4, <1>5, <1>6 DEF ProgramBase, Inputs

\* What is given to the query stays as it is.
LEMMA InputsStay ==
  ASSUME Inputs, UNCHANGED <<traces, options, limit, visits, argv, files>>
  PROVE  Inputs'
<1>1. Started'
  BY DEF Inputs, Started
<1>2. TracesTyped'
  <2>1. /\ traces' \in Seq(Range(traces')) /\ traces' = traces
        /\ \A t \in DOMAIN traces' : WorkerTrace(traces'[t])
    BY DEF Inputs, TracesTyped
  <2> QED
    BY <2>1, Zenon DEF TracesTyped
<1>3. (OptionsTyped(options) /\ limit \in Limits)'
  BY DEF Inputs, OptionsTyped, KindList, TimeOrNone
<1>4. VisitsGood'
  BY DEF Inputs, VisitsGood, RecordTyped, TraceOrder, Distinguished, SameSource
<1> QED
  BY <1>1, <1>2, <1>3, <1>4 DEF Inputs

\* A trace of another label is still a trace.
LEMMA Relabeled ==
  ASSUME NEW trace, WorkerTrace(trace), NEW label
  PROVE  WorkerTrace([trace EXCEPT !.label = label])
<1> DEFINE other == [trace EXCEPT !.label = label]
<1>1. {"label", "first", "last", "data", "sources"} \subseteq DOMAIN trace
  BY DEF WorkerTrace
<1>2. /\ DOMAIN other = DOMAIN trace /\ other.first = trace.first /\ other.last = trace.last
      /\ other.data = trace.data /\ other.sources = trace.sources
  BY <1>1
<1> HIDE DEF other
<1>3. \A k, item : WorkerItem(trace, k, item) => WorkerItem(other, k, item)
  BY <1>2, Zenon DEF WorkerItem
<1>4. {"label", "first", "last", "data", "sources"} \subseteq DOMAIN other
  BY <1>1, <1>2
<1>5. WorkerTrace(other)
  <2>1. /\ other.first \in Int /\ other.last \in Int
        /\ IsFiniteSet(DOMAIN other.sources)
        /\ DOMAIN other.sources = 0 .. Cardinality(DOMAIN other.sources) - 1
    BY <1>2 DEF WorkerTrace
  <2>2. ASSUME NEW k \in DOMAIN other.data
        PROVE  LET held == other.data[k]
               IN /\ held \in Seq(Seq(UNION {Range(part) : part \in Range(held)}))
                  /\ \A part \in Range(held) : InOrder(k, part)
                  /\ \A g \in DOMAIN held : \A i \in DOMAIN held[g] :
                       /\ WorkerItem(other, k, held[g][i])
                       /\ k \notin Shared =>
                            \A h \in DOMAIN held : \A j \in DOMAIN held[h] :
                              held[g][i].source = held[h][j].source => g = h
    <3> DEFINE held == trace.data[k]
    <3>1. other.data[k] = held /\ k \in DOMAIN trace.data
      BY <1>2
    <3>2. /\ held \in Seq(Seq(UNION {Range(part) : part \in Range(held)}))
          /\ \A part \in Range(held) : InOrder(k, part)
          /\ \A g \in DOMAIN held : \A i \in DOMAIN held[g] :
               /\ WorkerItem(trace, k, held[g][i])
               /\ k \notin Shared =>
                    \A h \in DOMAIN held : \A j \in DOMAIN held[h] :
                      held[g][i].source = held[h][j].source => g = h
      BY <3>1 DEF WorkerTrace
    <3> HIDE DEF held
    <3> QED
      BY <1>3, <3>1, <3>2, Zenon
  <2> QED
    BY <1>4, <2>1, <2>2 DEF WorkerTrace
<1> QED
  BY <1>5 DEF other

\* Parsing the command line keeps the invariant.
LEMMA ParseHolds == ASSUME ProgramBase, ParseArguments PROVE ProgramBase'
<1> DEFINE p == ParseCli(argv)
<1>1. /\ ~parsed /\ parsed' /\ options' = p.options /\ exit' = ParseStatus(p.verdict)
      /\ UNCHANGED <<added, chunk, runs, read, heap, out, stage, truncated, loaded, visits, seen,
                     latest, next, records, count, groups, printed, failure, argv, files>>
  BY DEF ParseArguments
<1>2. /\ Unvisited /\ failure = "none" /\ traces = <<>> /\ loaded = 0 /\ Started /\ TracesTyped
      /\ limit \in Limits
  <2>1. Progress /\ Inputs
    BY DEF ProgramBase
  <2>2. Unvisited /\ failure = "none" /\ traces = <<>> /\ loaded \in 0 .. Len(traces)
    BY <1>1, <2>1 DEF Progress
  <2> QED
    BY <2>1, <2>2 DEF Inputs
<1>3. Unvisited' /\ SorterEmpty'
  BY <1>1, <1>2 DEF Unvisited, SorterEmpty
<1>4. PICK i \in Invocations : argv \in i.lines /\ files \in i.files
  BY <1>2 DEF Started
<1>5. ArgumentsTyped(argv)
  BY <1>4, InvocationsAssumption DEF ArgumentsTyped, ArgumentTyped
<1>6. OptionsTyped(p.options) /\ \E n \in Nat : DOMAIN p.inputs = 1 .. n
  BY <1>5, ParseCliTyped
<1>7. /\ \A input \in Range(p.inputs) : input.path \in DOMAIN files
      /\ \A path \in DOMAIN files : WorkerTrace(files[path])
  BY <1>4, InvocationsAssumption
<1>8. TracesTyped' /\ limit' \in Limits
  <2>1. CASE p.verdict = "accepted"
    <3>1. /\ traces' = [k \in DOMAIN p.inputs |->
                         [files[p.inputs[k].path] EXCEPT !.label = p.inputs[k].label]]
          /\ limit' = p.options.limit
      BY <2>1 DEF ParseArguments
    <3>2. limit' \in Limits
      BY <1>6, <3>1, LimitsAssumption DEF OptionsTyped
    <3>3. PICK n \in Nat : DOMAIN p.inputs = 1 .. n
      BY <1>6
    <3> HIDE DEF p
    <3>4. ASSUME NEW k \in 1 .. n PROVE WorkerTrace(traces'[k])
      <4>1. p.inputs[k].path \in DOMAIN files
        BY <1>7, <3>3 DEF Range
      <4>2. traces'[k] = [files[p.inputs[k].path] EXCEPT !.label = p.inputs[k].label]
        BY <3>1, <3>3
      <4>3. WorkerTrace(files[p.inputs[k].path])
        BY <1>7, <4>1
      <4>4. WorkerTrace([files[p.inputs[k].path] EXCEPT !.label = p.inputs[k].label])
        BY <4>3, Relabeled
      <4> QED
        BY <4>2, <4>4, Zenon
    <3>5. DOMAIN traces' = 1 .. n /\ traces' \in Seq(Range(traces'))
      <4>1. DOMAIN traces' = 1 .. n /\ traces' = [k \in 1 .. n |-> traces'[k]]
        BY <3>1, <3>3
      <4>2. \A k \in 1 .. n : traces'[k] \in Range(traces')
        BY <4>1 DEF Range
      <4> QED
        BY <3>3, <4>1, <4>2
    <3>6. TracesTyped'
      BY <3>4, <3>5, Zenon DEF TracesTyped
    <3> QED
      BY <3>2, <3>6
  <2>2. CASE p.verdict # "accepted"
    <3>1. traces' = <<>> /\ limit' = limit
      BY <1>2, <2>2 DEF ParseArguments
    <3>2. TracesTyped'
      BY <3>1 DEF TracesTyped, Range
    <3> QED
      BY <1>2, <3>1, <3>2
  <2> QED
    BY <2>1, <2>2
<1>9. Started'
  BY <1>1, <1>2 DEF Started
<1>10. VisitsGood'
  BY <1>3 DEF Unvisited, VisitsGood, Distinguished, Range
<1>11. Inputs'
  <2>1. OptionsTyped(options')
    BY <1>1, <1>6
  <2>2. OptionsTyped(options)'
    BY <2>1 DEF OptionsTyped, KindList, TimeOrNone
  <2> QED
    BY <1>8, <1>9, <1>10, <2>2 DEF Inputs
<1>12. IInv' /\ SorterIsListing'
  <2>1. SortInit'
    BY <1>3, <1>8 DEF SortInit, SorterEmpty
  <2>2. SortInit' => IInv'
    BY InitHolds, PTL
  <2> QED
    BY <1>3, <2>1, <2>2 DEF SorterIsListing, SorterEmpty
<1>13. Progress'
  <2>1. loaded' = 0 /\ seen' = 0 /\ visits' = <<>> /\ failure' = "none" /\ parsed'
    BY <1>1, <1>2, <1>3 DEF Unvisited
  <2>2. loaded' \in 0 .. Len(traces') /\ seen' \in 0 .. Len(visits') /\ seen' = Len(visits')
    BY <1>8, <2>1 DEF TracesTyped
  <2>3. ASSUME exit' = Running, options'.command = "query" PROVE ValidOptions(options')
    <3>1. p.verdict = "accepted"
      BY <1>1, <2>3, VerdictIs DEF ParseStatus, Running
    <3>2. PICK q : Accepted(q, p.options)
      BY <3>1, AcceptedWasChecked
    <3> QED
      BY <1>1, <2>3, <3>2 DEF Accepted
  <2>4. exit' = Running /\ options'.command = "query" => ValidOptions(options)'
    BY <2>3 DEF ValidOptions, PointMode, Ranged, ZoneStructure
  <2> QED
    BY <1>1, <1>3, <2>1, <2>2, <2>4 DEF Progress
<1> QED
  BY <1>11, <1>12, <1>13 DEF ProgramBase

\* Loading a trace, or failing to, keeps the invariant.
LEMMA LoadHolds == ASSUME ProgramBase, Load, parsed' = parsed, argv' = argv, files' = files PROVE ProgramBase'
<1>1. /\ exit = Running /\ loaded < Len(traces) /\ loaded' = loaded + 1
      /\ visits' = IF loaded' = Len(traces) /\ options.command = "query" THEN AllRecords ELSE visits
      /\ UNCHANGED <<sortVars, traces, options, seen, latest, next, records, count,
                     groups, printed, failure, exit>>
  BY DEF Load
<1>2. /\ IInv /\ SorterIsListing /\ Inputs /\ Unvisited /\ parsed /\ failure = "none"
      /\ Len(traces) \in Nat /\ loaded \in 0 .. Len(traces) /\ seen = 0
      /\ options.command = "query" => ValidOptions(options)
  <2>1. ~(exit = Running /\ failure = "none" /\ traces = <<>>)
    <3>1. traces = <<>> => Len(traces) = 0
      OBVIOUS
    <3> QED
      BY <1>1, <3>1 DEF ProgramBase, Progress
  <2>2. parsed /\ Unvisited
    BY <1>1, <2>1 DEF ProgramBase, Progress
  <2>3. Len(traces) \in Nat
    BY DEF ProgramBase, Inputs, TracesTyped
  <2> QED
    BY <1>1, <2>2, <2>3 DEF ProgramBase, Progress, Unvisited
<1>3. IInv'
  BY <1>1, <1>2, StepHolds
<1>4. SorterIsListing'
  BY <1>1, <1>2 DEF SorterIsListing, sortVars, Listing, PointMode
<1>5. loaded' \in 0 .. Len(traces')
  BY <1>1, <1>2
<1>6. CASE visits' = visits
  <2>1. Inputs'
    BY <1>1, <1>2, <1>6, InputsStay DEF sortVars
  <2>2. Unvisited'
    BY <1>1, <1>2, <1>6 DEF Unvisited, SorterEmpty, sortVars
  <2>3. Progress'
    <3>1. visits' = <<>> /\ seen' = 0 /\ Len(visits') = 0
      BY <2>2 DEF Unvisited
    <3>2. options'.command = "query" => ValidOptions(options)'
      BY <1>1, <1>2 DEF ValidOptions, PointMode, Ranged, ZoneStructure
    <3> QED
      BY <1>1, <1>2, <1>5, <2>2, <3>1, <3>2 DEF Progress, Succeeded, Running
  <2> QED
    BY <1>3, <1>4, <2>1, <2>3 DEF ProgramBase
<1>7. CASE loaded' = Len(traces) /\ options.command = "query" /\ visits' = AllRecords
  <2>1. TracesTyped /\ KindList(options.kinds)
    BY <1>2 DEF Inputs, OptionsTyped
  <2>2. /\ visits' \in Seq(Range(visits'))
        /\ \A q \in DOMAIN visits' : RecordTyped(visits'[q])
        /\ Distinguished(visits')
    BY <1>7, <2>1, RecordsVisited, Zenon
  <2>3. VisitsGood'
    <3>1. ASSUME NEW r, RecordTyped(r) PROVE RecordTyped(r)'
      <4>1. TraceOrder(traces[r.file].label)' = TraceOrder(traces[r.file].label)
        BY <1>1 DEF TraceOrder
      <4> QED
        BY <1>1, <3>1, <4>1 DEF RecordTyped
    <3>2. \A q \in DOMAIN visits' : RecordTyped(visits[q])'
      BY <2>2, <3>1, Zenon
    <3>3. Distinguished(visits)'
      BY <2>2, Zenon DEF Distinguished, SameSource
    <3> QED
      BY <2>2, <3>2, <3>3, Zenon DEF VisitsGood
  <2>4. Started' /\ limit' \in Limits
    BY <1>1, <1>2 DEF Inputs, Started, sortVars
  <2>5. TracesTyped'
    <3>1. /\ traces' \in Seq(Range(traces')) /\ traces' = traces
          /\ \A t \in DOMAIN traces' : WorkerTrace(traces'[t])
      BY <1>1, <2>1 DEF TracesTyped
    <3> QED
      BY <3>1, Zenon DEF TracesTyped
  <2>6. OptionsTyped(options)'
    BY <1>1, <1>2 DEF Inputs, OptionsTyped, KindList, TimeOrNone
  <2>7. Len(visits') \in Nat
    BY <2>2
  <2>8. ValidOptions(options)'
    BY <1>1, <1>2, <1>7 DEF ValidOptions, PointMode, Ranged, ZoneStructure
  <2>9. Progress'
    <3>1. seen' \in 0 .. Len(visits') /\ ~(loaded' < Len(traces'))
      BY <1>1, <1>2, <1>7, <2>7
    <3> QED
      BY <1>1, <1>2, <1>5, <2>8, <3>1 DEF Progress, Succeeded, Running
  <2> QED
    BY <1>3, <1>4, <2>3, <2>4, <2>5, <2>6, <2>9 DEF ProgramBase, Inputs
<1> QED
  BY <1>1, <1>6, <1>7

\* A step that neither parses nor loads.
Given == <<traces, options, limit, visits, argv, files, parsed, loaded>>

\* A step that changes neither what is given nor what is visited keeps the
\* invariant when it keeps the sorter's.
LEMMA OtherHolds ==
  ASSUME ProgramBase, UNCHANGED Given, parsed, IInv', SorterIsListing',
         seen' \in 0 .. Len(visits),
         exit' = Running => exit = Running /\ failure' = failure,
         Succeeded' => seen' = Len(visits),
         loaded < Len(traces) =>
           UNCHANGED <<sortVars, seen, latest, next, records, count, groups, printed>>
  PROVE  ProgramBase'
<1>1. Inputs'
  BY InputsStay DEF Given, ProgramBase
<1>2. loaded < Len(traces) => Unvisited'
  BY DEF ProgramBase, Progress, Unvisited, SorterEmpty, sortVars, Given
<1>3. ValidOptions(options) => ValidOptions(options)'
  BY DEF Given, ValidOptions, PointMode, Ranged, ZoneStructure
<1>4. Progress'
  BY <1>2, <1>3 DEF ProgramBase, Progress, Given
<1> QED
  BY <1>1, <1>4 DEF ProgramBase

\* What record_less compares of a visited record is of the types it is given.
LEMMA VisitedTyped ==
  ASSUME Inputs
  PROVE  Len(visits) \in Nat /\ \A p \in 1 .. Len(visits) : RecordTyped(visits[p]) /\ KeyOf(visits[p]) \in Keys
<1>1. /\ visits \in Seq(Range(visits)) /\ TracesTyped
      /\ \A p \in DOMAIN visits : RecordTyped(visits[p])
  BY DEF Inputs, VisitsGood
<1>2. Len(visits) \in Nat /\ DOMAIN visits = 1 .. Len(visits)
  BY <1>1
<1> QED
  BY <1>1, <1>2, KeyTyped

\* A query that only sets what finish would return leaves the sorter as it is.
LEMMA TruncatedKeeps ==
  ASSUME IInv, SorterIsListing, ~Listing(options), truncated' \in BOOLEAN,
         UNCHANGED <<limit, added, chunk, runs, read, heap, out, stage, options>>
  PROVE  IInv' /\ SorterIsListing'
<1>1. stage = "adding"
  BY DEF SorterIsListing
<1>3. SortTypeOK'
  BY DEF IInv, SortTypeOK, Numbers
<1>4. EveryRecordOnce' /\ RunsAreSorted'
  BY DEF IInv, EveryRecordOnce, Stored, InRun, StoredOnce, WrittenOnce, Numbers,
              RunsAreSorted, Sorted
<1>5. Idle' /\ HeapIsFront' /\ OutputIsRead' /\ Ended'
  BY <1>1 DEF IInv, Idle, HeapIsFront, OutputIsRead, Ended, Merging
<1>6. FrontOfOrder' /\ WithinLimit'
  BY <1>1 DEF IInv, FrontOfOrder, MergedInOrder, NothingSmallerLeft, WithinLimit
<1>7. SorterIsListing'
  BY <1>1 DEF SorterIsListing
<1> QED
  BY <1>3, <1>4, <1>5, <1>6, <1>7 DEF IInv

\* What the end of run_query in point mode makes of the selected records.
LEMMA PointOutcome ==
  ASSUME FinishPoint, truncated \in BOOLEAN
  PROVE  /\ records' \in PointOrders(Joined(Joined(records, latest), next))
         /\ truncated' \in BOOLEAN
         /\ options.count =>
              /\ count' = Len(records') /\ truncated' = truncated /\ printed' = printed
              /\ groups' = IF options.groupBy = <<>> THEN groups ELSE Tallied(groups, records')
         /\ ~options.count =>
              LET shown == IF limit # NoLimit /\ limit < Len(records') THEN limit ELSE Len(records')
              IN printed' = SubSeq(records', 1, shown) /\ truncated' = (shown < Len(records'))
<1>1. PICK all \in PointOrders(Joined(Joined(records, latest), next)) :
        LET shown == IF limit # NoLimit /\ limit < Len(all) THEN limit ELSE Len(all)
        IN /\ records' = all
           /\ IF options.count
              THEN /\ count' = Len(all)
                   /\ groups' = IF options.groupBy = <<>> THEN groups ELSE Tallied(groups, all)
                   /\ UNCHANGED <<printed, truncated>>
              ELSE /\ printed' = SubSeq(all, 1, shown)
                   /\ truncated' = (shown < Len(all))
                   /\ UNCHANGED <<count, groups>>
  BY DEF FinishPoint
<1>2. \A m, n : (m < n) \in BOOLEAN
  OBVIOUS
<1>3. ~options.count => truncated' \in BOOLEAN
  BY <1>1, <1>2
<1> QED
  BY <1>1, <1>3

\* Every step of run_query keeps the invariant.
LEMMA QueryHolds == ASSUME ProgramBase, RunQuery PROVE ProgramBase'
<1>1. /\ parsed /\ Next /\ parsed' = parsed /\ argv' = argv /\ files' = files
      /\ IInv /\ SorterIsListing /\ Inputs
  BY DEF RunQuery, programVars, ProgramBase
<1>2. Len(visits) \in Nat /\ seen \in 0 .. Len(visits)
  BY <1>1, VisitedTyped DEF ProgramBase, Progress
<1>3. ASSUME UNCHANGED <<traces, options, visits, loaded>>, UNCHANGED sortVars,
             seen' \in 0 .. Len(visits),
             exit' = Running => exit = Running /\ failure' = failure,
             Succeeded' => seen' = Len(visits),
             \/ loaded = Len(traces)
             \/ UNCHANGED <<seen, latest, next, records, count, groups, printed>>
      PROVE  ProgramBase'
  <2>1. IInv' /\ SorterIsListing'
    BY <1>1, <1>3, StepHolds DEF SorterIsListing, sortVars, Listing, PointMode
  <2>2. loaded < Len(traces) =>
          UNCHANGED <<sortVars, seen, latest, next, records, count, groups, printed>>
    BY <1>1, <1>3 DEF Inputs, TracesTyped
  <2> QED
    BY <1>1, <1>3, <2>1, <2>2, OtherHolds DEF Given, sortVars
<1>4. CASE Load
  BY <1>1, <1>4, LoadHolds
<1>5. CASE LoadFails
  BY <1>2, <1>3, <1>5 DEF LoadFails, Throw, ExitStatus, Succeeded, Running
<1>6. CASE Skip \/ Select \/ CountRecord
  <2>1. /\ Visiting /\ seen' = seen + 1 /\ exit' = exit
        /\ UNCHANGED <<traces, options, visits, loaded, sortVars, failure>>
    BY <1>6 DEF Skip, Select, CountRecord
  <2>2. seen' \in 0 .. Len(visits) /\ loaded = Len(traces) /\ exit = Running
    BY <1>2, <2>1 DEF Visiting, Querying
  <2>3. ~Succeeded'
    BY <2>1, <2>2 DEF Succeeded, Running
  <2> QED
    BY <1>3, <2>1, <2>2, <2>3
<1>7. CASE FinishCount
  <2>1. loaded = Len(traces) /\ seen = Len(visits) /\ seen' = seen
    BY <1>7 DEF FinishCount, Visited, Querying
  <2>2. exit' # Running
    BY <1>7 DEF FinishCount, Throw, ExitStatus, Running
  <2> QED
    BY <1>2, <1>3, <1>7, <2>1, <2>2 DEF FinishCount
<1>8. CASE Done
  BY <1>2, <1>3, <1>8 DEF Done, vars, queryVars, ProgramBase, Progress, Succeeded
<1>9. ASSUME SortNext, Listing(options), Querying, limit' = limit,
             UNCHANGED <<traces, options, visits, loaded>>,
             seen' \in 0 .. Len(visits),
             exit' = Running => failure' = failure,
             Succeeded' => seen' = Len(visits)
      PROVE  ProgramBase'
  <2>1. IInv' /\ SorterIsListing'
    BY <1>1, <1>9, StepHolds DEF SorterIsListing, Listing, PointMode
  <2>2. ~(loaded < Len(traces)) /\ exit = Running
    BY <1>1, <1>9 DEF Querying, Inputs, TracesTyped
  <2> QED
    BY <1>1, <1>9, <2>1, <2>2, OtherHolds DEF Given
<1>10. SortNext => limit' = limit
  BY DEF SortNext, Add, AddFails, Finish, Emit, Stop, FinishFails
<1>11. CASE List
  <2>1. /\ UNCHANGED <<traces, options, visits, loaded>>
        /\ Listing(options) /\ Visiting /\ Querying /\ seen' = seen + 1
    BY <1>11 DEF List, Visiting
  <2>2. Add(KeyOf(visits[seen + 1])) \/ AddFails
    BY <1>11 DEF List
  <2>3. seen' \in 0 .. Len(visits) /\ seen + 1 \in 1 .. Len(visits)
    BY <1>2, <2>1 DEF Visiting
  <2>4. SortNext
    BY <1>1, <2>2, <2>3, VisitedTyped DEF SortNext
  <2>5. exit = Running /\ ~Succeeded' /\ (exit' = Running => failure' = failure)
    <3>1. UNCHANGED <<failure, exit>> \/ Throw("sort run")
      BY <1>11 DEF List
    <3>2. exit = Running
      BY <2>1 DEF Querying
    <3>3. CASE UNCHANGED <<failure, exit>>
      BY <3>2, <3>3 DEF Succeeded, Running
    <3>4. CASE Throw("sort run")
      <4>1. failure' = "sort run" /\ exit' = 0
        BY <3>4 DEF Throw, ExitStatus
      <4>2. 0 # Running
        BY DEF Running
      <4>3. failure' # "none"
        BY <4>1
      <4>4. ~Succeeded'
        BY <4>3 DEF Succeeded
      <4> QED
        BY <3>2, <4>1, <4>2, <4>4, Zenon
    <3> QED
      BY <3>1, <3>3, <3>4
  <2> QED
    BY <1>9, <1>10, <2>1, <2>3, <2>4, <2>5
<1>12. CASE FinishListing
  <2>1. /\ UNCHANGED <<traces, options, visits, loaded, seen>>
        /\ Listing(options) /\ Querying /\ seen = Len(visits)
    BY <1>12 DEF FinishListing, Visited
  <2>2. SortNext
    BY <1>12 DEF FinishListing, SortNext
  <2>3. exit' = Running => failure' = failure
    BY <1>12 DEF FinishListing, Throw, ExitStatus, Running
  <2> QED
    BY <1>2, <1>9, <1>10, <2>1, <2>2, <2>3
<1>13. CASE FinishPoint
  <2>1. /\ PointMode(options) /\ Querying /\ seen = Len(visits)
        /\ UNCHANGED <<limit, added, chunk, runs, read, heap, out, stage, traces, options,
                       loaded, visits, seen, latest, next>>
    BY <1>13 DEF FinishPoint, Visited
  <2>2. truncated \in BOOLEAN
    BY <1>1 DEF IInv, SortTypeOK
  <2>3. IInv' /\ SorterIsListing'
    BY <1>1, <1>13, <2>1, <2>2, PointOutcome, TruncatedKeeps DEF Listing
  <2>4. exit' # Running
    BY <1>13 DEF FinishPoint, Throw, ExitStatus, Running
  <2>5. ~(loaded < Len(traces))
    BY <1>1, <2>1 DEF Querying, Inputs, TracesTyped
  <2> QED
    BY <1>1, <1>2, <2>1, <2>3, <2>4, <2>5, OtherHolds DEF Given
<1> QED
  BY <1>1, <1>4, <1>5, <1>6, <1>7, <1>8, <1>11, <1>12, <1>13 DEF Next

\* Every step of the program keeps the invariant.
LEMMA BaseStep == ProgramBase /\ [ProgramNext]_allVars => ProgramBase'
<1> SUFFICES ASSUME ProgramBase, [ProgramNext]_allVars PROVE ProgramBase'
  OBVIOUS
<1>1. CASE ParseArguments
  BY <1>1, ParseHolds
<1>2. CASE RunCommand
  <2>1. /\ parsed /\ parsed' = parsed /\ loaded = Len(traces) /\ exit = Running
        /\ options.command # "query"
        /\ UNCHANGED <<sortVars, traces, options, loaded, visits, seen, argv, files>>
    BY <1>2 DEF RunCommand
  <2>2. IInv' /\ SorterIsListing'
    BY <2>1, StepHolds DEF ProgramBase, SorterIsListing, sortVars, Listing, PointMode
  <2>3. exit' # Running /\ ~Succeeded' /\ ~(loaded < Len(traces))
    BY <1>2, <2>1 DEF RunCommand, Throw, ExitStatus, Running, Succeeded, ProgramBase, Inputs,
                      TracesTyped
  <2> QED
    BY <2>1, <2>2, <2>3, OtherHolds DEF Given, sortVars, ProgramBase, Progress
<1>3. CASE RunQuery
  BY <1>3, QueryHolds
<1>4. CASE UNCHANGED allVars
  <2>1. UNCHANGED <<vars, programVars>>
    BY <1>4 DEF allVars
  <2>2. IInv' /\ SorterIsListing' /\ Inputs'
    BY <2>1, StepHolds, InputsStay DEF ProgramBase, vars, sortVars, queryVars, programVars,
       SorterIsListing, Listing, PointMode
  <2>3. Unvisited => Unvisited'
    BY <2>1 DEF Unvisited, SorterEmpty, vars, queryVars, sortVars
  <2>4. ValidOptions(options) => ValidOptions(options)'
    BY <2>1 DEF vars, queryVars, ValidOptions, PointMode, Ranged, ZoneStructure
  <2>5. Progress'
    BY <2>1, <2>3, <2>4 DEF ProgramBase, Progress, vars, queryVars, programVars, Succeeded
  <2> QED
    BY <2>2, <2>5 DEF ProgramBase
<1> QED
  BY <1>1, <1>2, <1>3, <1>4 DEF ProgramNext

\* Whatever the program is started with, no record is lost or doubled by the
\* sorter, the listing is the front of the order of all records, and the
\* truncation notice is right.
THEOREM ProgramSorts == ProgramSpec => [](EveryRecordOnce /\ FrontOfOrder /\ TruncationExact)
<1>1. ProgramBase => EveryRecordOnce /\ FrontOfOrder /\ TruncationExact
  BY IInvTruncation DEF ProgramBase, IInv
<1> QED
  BY <1>1, BaseInit, BaseStep, PTL DEF ProgramSpec

\* No time on a command line is taken for another instant, for every width of
\* the words parse_time computes in.
THEOREM TimesTaken == ProgramSpec => []TimesAreTaken
<1>1. ProgramBase => TimesAreTaken
  <2> SUFFICES ASSUME ProgramBase, NEW i \in DOMAIN argv, Len(argv[i]) = 3, argv[i][2] = "time"
               PROVE  TimeIsExact(argv[i][3])
    BY DEF TimesAreTaken
  <2>1. PICK invocation \in Invocations : argv \in invocation.lines
    BY DEF ProgramBase, Inputs, Started
  <2>2. argv[i][3] \in Decimals
    BY <2>1, InvocationsAssumption
  <2> QED
    BY <2>2, TimesAreExact
<1> QED
  BY <1>1, BaseInit, BaseStep, PTL DEF ProgramSpec

-----------------------------------------------------------------------------
(* What a record is asked for by. *)

\* The options and the traces decide whether a record is wanted, and they stay.
LEMMA WantedStays ==
  ASSUME UNCHANGED <<traces, options>>, NEW r
  PROVE  /\ Matches(r)' <=> Matches(r)
         /\ Wanted(r)' <=> Wanted(r)
         /\ Asked(r)' <=> Asked(r)
         /\ GroupOf(r)' = GroupOf(r)
<1>1. \A field : FieldOf(r, field)' = FieldOf(r, field)
  BY Zenon DEF FieldOf, SourceId
<1>2. \A fields, patterns : MatchesAny(r, fields, patterns)' <=> MatchesAny(r, fields, patterns)
  BY <1>1, Zenon DEF MatchesAny
<1>3. SourceId(r)' = SourceId(r)
  BY DEF SourceId
<1>4. InScopes(r)' <=> InScopes(r)
  BY <1>1, <1>2, <1>3, Zenon DEF InScopes, InScope
<1>5. InStructure(r)' <=> InStructure(r)
  BY <1>2, Zenon DEF InStructure
<1>6. Matches(r)' <=> Matches(r)
  BY <1>1, <1>2, <1>4, <1>5, Zenon DEF Matches
<1>7. InRange(r)' <=> InRange(r)
  BY Zenon DEF InRange, Ranged
<1>8. PointMode(options)' <=> PointMode(options)
  BY DEF PointMode
<1>9. Wanted(r)' <=> Wanted(r)
  BY <1>6, <1>7, <1>8, Zenon DEF Wanted
<1>10. Asked(r)' <=> Asked(r)
  BY <1>6, Zenon DEF Asked, Ranged
<1>11. GroupOf(r)' = GroupOf(r)
  BY DEF GroupOf
<1> QED
  BY <1>6, <1>9, <1>10, <1>11

\* What --from and --to ask for is what temporal_range_match tests.
LEMMA AskedIsWanted ==
  ASSUME OptionsTyped(options), ValidOptions(options), ~PointMode(options),
         NEW r, RecordTyped(r)
  PROVE  Asked(r) <=> Wanted(r)
<1> DEFINE from == IF options.from = NoTime THEN 0 ELSE options.from
           to == IF options.to = NoTime THEN r.last ELSE options.to
<1>1. /\ r.time \in Int /\ r.end \in Int /\ r.last \in Int /\ r.time <= r.end /\ r.end <= r.last
      /\ options.match \in {"overlap", "start", "contained"}
  BY DEF RecordTyped, OptionsTyped
<1>2. /\ from \in Nat /\ to \in Int
      /\ r.end >= from => from <= to
  <2>1. /\ options.from \in Nat \cup {NoTime} /\ options.to \in Nat \cup {NoTime}
        /\ options.from # NoTime /\ options.to # NoTime => options.from <= options.to
    BY DEF OptionsTyped, TimeOrNone, ValidOptions
  <2> QED
    BY <1>1, <2>1
<1> HIDE DEF from, to
<1>3. (r.time .. r.end) \cap (from .. to) # {} <=> r.time <= to /\ r.end >= from
  <2>1. ASSUME r.time <= to, r.end >= from
        PROVE  (r.time .. r.end) \cap (from .. to) # {}
    <3>1. CASE r.time >= from
      <4>1. r.time \in (r.time .. r.end) \cap (from .. to)
        BY <1>1, <1>2, <2>1, <3>1
      <4> QED
        BY <4>1
    <3>2. CASE r.time < from
      <4>1. from \in (r.time .. r.end) \cap (from .. to)
        BY <1>1, <1>2, <2>1, <3>2
      <4> QED
        BY <4>1
    <3> QED
      BY <1>1, <1>2, <3>1, <3>2
  <2> QED
    BY <1>1, <1>2, <2>1
<1>4. r.time \in from .. to <=> r.time >= from /\ r.time <= to
  BY <1>1, <1>2
<1>5. r.time .. r.end \subseteq from .. to <=> r.time >= from /\ r.end <= to
  <2>1. r.time \in r.time .. r.end /\ r.end \in r.time .. r.end
    BY <1>1
  <2> QED
    BY <1>1, <1>2, <2>1
<1>6. InRange(r) <=> (Ranged(options) =>
        \/ options.match = "overlap" /\ r.time <= to /\ r.end >= from
        \/ options.match = "start" /\ r.time >= from /\ r.time <= to
        \/ options.match = "contained" /\ r.time >= from /\ r.end <= to)
  BY <1>1 DEF InRange, from, to
<1>7. Asked(r) <=> Matches(r) /\ (Ranged(options) =>
        \/ options.match = "overlap" /\ (r.time .. r.end) \cap (from .. to) # {}
        \/ options.match = "start" /\ r.time \in from .. to
        \/ options.match = "contained" /\ r.time .. r.end \subseteq from .. to)
  BY Zenon DEF Asked, from, to
<1> QED
  BY <1>3, <1>4, <1>5, <1>6, <1>7 DEF Wanted

-----------------------------------------------------------------------------
(* Point mode: the selected records and their order. *)

\* SetToSeq lists a finite set, each member once.
LEMMA SetToSeqIs ==
  ASSUME NEW S, IsFiniteSet(S)
  PROVE  /\ SetToSeq(S) \in Seq(S)
         /\ Range(SetToSeq(S)) = S
         /\ \A i, j \in DOMAIN SetToSeq(S) : SetToSeq(S)[i] = SetToSeq(S)[j] => i = j
<1> DEFINE n == Cardinality(S)
           s == SetToSeq(S)
<1>1. n \in Nat /\ ExistsBijection(1 .. n, S)
  BY FS_CardinalityType
<1>2. \E f \in [1 .. n -> S] : IsInjective(f)
  BY <1>1 DEF ExistsBijection, Bijection, Injection
<1>3. s \in [1 .. n -> S] /\ IsInjective(s)
  BY <1>2 DEF SetToSeq
<1> HIDE DEF s
<1>4. s \in Injection(1 .. n, S)
  BY <1>3 DEF Injection
<1>5. Cardinality(1 .. n) = n
  BY <1>1, FS_Interval
<1>6. s \in Surjection(1 .. n, S)
  BY <1>4, <1>5, FS_Injection
<1>7. Range(s) = S
  BY <1>3, <1>6 DEF Surjection, Range
<1>8. s \in Seq(S)
  BY <1>1, <1>3
<1> QED
  BY <1>3, <1>7, <1>8 DEF s, IsInjective

\* No two records have one identity.
OneEach(rs) == \A p, q \in DOMAIN rs : Identity(rs[p]) = Identity(rs[q]) => p = q

\* What joins the selected records.
Joining(rs, map) == {r \in {map[k] : k \in DOMAIN map} : Identity(r) \notin Identities(rs)}

\* Point mode joins the records of a map that are not among the others yet.
LEMMA JoinedIs ==
  ASSUME NEW V, IsFiniteSet(V), NEW rs \in Seq(V), OneEach(rs),
         NEW map, \A k \in DOMAIN map : map[k] \in V /\ PointKey(map[k]) = k
  PROVE  /\ Joined(rs, map) \in Seq(V)
         /\ Range(Joined(rs, map)) = Range(rs) \cup Joining(rs, map)
         /\ OneEach(Joined(rs, map))
<1> DEFINE S == Joining(rs, map)
           t == SetToSeq(S)
           j == rs \o t
<1>1. S \subseteq V /\ IsFiniteSet(S)
  <2>1. S \subseteq V
    BY DEF Joining
  <2> QED
    BY <2>1, FS_Subset
<1>2. t \in Seq(S) /\ Range(t) = S /\ \A p, q \in DOMAIN t : t[p] = t[q] => p = q
  BY <1>1, SetToSeqIs
<1>3. Joined(rs, map) = j
  BY DEF Joined, Joining
<1>4. \A r \in S : Identity(r) \notin Identities(rs)
  BY DEF Joining
<1>5. \A r, u \in S : Identity(r) = Identity(u) => r = u
  <2> SUFFICES ASSUME NEW r \in S, NEW u \in S, Identity(r) = Identity(u) PROVE r = u
    OBVIOUS
  <2>1. PICK k \in DOMAIN map : r = map[k] /\ PointKey(r) = k
    BY DEF Joining
  <2>2. PICK l \in DOMAIN map : u = map[l] /\ PointKey(u) = l
    BY DEF Joining
  <2>3. PointKey(r) = PointKey(u)
    BY DEF Identity, PointKey
  <2> QED
    BY <2>1, <2>2, <2>3
<1> HIDE DEF S, t
<1>6. t \in Seq(V)
  BY <1>1, <1>2
<1>7. /\ j \in Seq(V) /\ Len(rs) \in Nat /\ Len(t) \in Nat
      /\ DOMAIN j = 1 .. Len(rs) + Len(t) /\ DOMAIN rs = 1 .. Len(rs) /\ DOMAIN t = 1 .. Len(t)
      /\ \A p \in 1 .. Len(rs) + Len(t) : j[p] = IF p <= Len(rs) THEN rs[p] ELSE t[p - Len(rs)]
  BY <1>6
<1> HIDE DEF j
<1>8. ASSUME NEW p \in DOMAIN j
      PROVE  \/ p \in DOMAIN rs /\ j[p] = rs[p]
             \/ p \notin DOMAIN rs /\ p - Len(rs) \in DOMAIN t /\ j[p] = t[p - Len(rs)]
  BY <1>7
<1>9. Range(j) = Range(rs) \cup S
  <2>1. ASSUME NEW p \in DOMAIN j PROVE j[p] \in Range(rs) \cup S
    BY <1>2, <1>8 DEF Range
  <2>2. ASSUME NEW p \in DOMAIN rs PROVE p \in DOMAIN j /\ j[p] = rs[p]
    BY <1>7
  <2>3. ASSUME NEW p \in DOMAIN t PROVE Len(rs) + p \in DOMAIN j /\ j[Len(rs) + p] = t[p]
    BY <1>7
  <2>4. \A r \in S : \E p \in DOMAIN t : t[p] = r
    BY <1>2 DEF Range
  <2>5. Range(j) \subseteq Range(rs) \cup S
    BY <2>1 DEF Range
  <2>6. Range(rs) \subseteq Range(j)
    BY <2>2 DEF Range
  <2>7. S \subseteq Range(j)
    BY <2>3, <2>4 DEF Range
  <2> QED
    BY <2>5, <2>6, <2>7
<1>10. OneEach(j)
  <2> SUFFICES ASSUME NEW p \in DOMAIN j, NEW q \in DOMAIN j, Identity(j[p]) = Identity(j[q])
               PROVE  p = q
    BY DEF OneEach
  <2>0. \A i \in DOMAIN t : t[i] \in S
    BY <1>2 DEF Range
  <2>1. CASE p \in DOMAIN rs /\ q \in DOMAIN rs
    BY <1>8, <2>1 DEF OneEach
  <2>2. CASE p \notin DOMAIN rs /\ q \notin DOMAIN rs
    <3>1. /\ p - Len(rs) \in DOMAIN t /\ j[p] = t[p - Len(rs)]
          /\ q - Len(rs) \in DOMAIN t /\ j[q] = t[q - Len(rs)]
      BY <1>8, <2>2
    <3>2. t[p - Len(rs)] = t[q - Len(rs)]
      BY <1>5, <2>0, <3>1
    <3>3. p - Len(rs) = q - Len(rs)
      BY <1>2, <3>1, <3>2
    <3> QED
      BY <1>7, <3>3
  <2>3. CASE p \in DOMAIN rs /\ q \notin DOMAIN rs
    <3>1. j[p] = rs[p] /\ j[q] \in S
      BY <1>8, <2>0, <2>3
    <3>2. Identity(j[q]) \in Identities(rs)
      BY <2>3, <3>1 DEF Identities
    <3> QED
      BY <1>4, <3>1, <3>2
  <2>4. CASE q \in DOMAIN rs /\ p \notin DOMAIN rs
    <3>1. j[q] = rs[q] /\ j[p] \in S
      BY <1>8, <2>0, <2>4
    <3>2. Identity(j[p]) \in Identities(rs)
      BY <2>4, <3>1 DEF Identities
    <3> QED
      BY <1>4, <3>1, <3>2
  <2> QED
    BY <2>1, <2>2, <2>3, <2>4
<1> QED
  BY <1>3, <1>7, <1>9, <1>10 DEF S

\* Records of different identities have different keys, so one precedes the other.
LEMMA IdentityOrders ==
  ASSUME TracesTyped, NEW r, RecordTyped(r), NEW s, RecordTyped(s),
         Identity(r) # Identity(s), ~Before(s, r)
  PROVE  Before(r, s)
<1>1. KeyOf(r) \in Keys /\ KeyOf(s) \in Keys
  BY KeyTyped
<1>2. KeyOf(r) # KeyOf(s)
  <2>1. r.kind \in Range(KindSeq) /\ s.kind \in Range(KindSeq)
    BY DEF RecordTyped
  <2>2. KindOrder(r.kind) = KindOrder(s.kind) => r.kind = s.kind
    BY <2>1, KindOrderIs
  <2>3. KeyOf(r) = KeyOf(s) =>
          r.trace = s.trace /\ KindOrder(r.kind) = KindOrder(s.kind) /\ r.source = s.source /\ r.seq = s.seq
    BY DEF KeyOf
  <2> QED
    BY <2>2, <2>3 DEF Identity
<1>3. \A a, b \in Keys : a # b /\ ~RecordLess(b, a) => RecordLess(a, b)
  BY DEF Keys, RecordLess
<1> QED
  BY <1>1, <1>2, <1>3 DEF Before

\* What std::sort makes of the selected records.
LEMMA PointOrdersAre ==
  ASSUME TracesTyped, NEW V, NEW rs \in Seq(V), OneEach(rs), \A r \in V : RecordTyped(r),
         NEW all \in PointOrders(rs)
  PROVE  /\ all \in Seq(V) /\ Len(all) = Len(rs) /\ Range(all) = Range(rs)
         /\ \A i, j \in DOMAIN all : i < j => Before(all[i], all[j])
<1> DEFINE keys == [i \in DOMAIN rs |-> KeyOf(rs[i])]
<1>1. PICK order \in SortedOrders(keys, DOMAIN rs) : all = [i \in DOMAIN rs |-> rs[order[i]]]
  BY DEF PointOrders
<1>2. Len(rs) \in Nat /\ DOMAIN rs = 1 .. Len(rs) /\ Cardinality(DOMAIN rs) = Len(rs)
  BY FS_Interval
<1>3. /\ order \in [1 .. Len(rs) -> 1 .. Len(rs)]
      /\ \A i \in 1 .. Len(rs) : \E p \in 1 .. Len(rs) : order[p] = i
      /\ \A p, q \in 1 .. Len(rs) :
           p < q => order[p] # order[q] /\ ~RecordLess(keys[order[q]], keys[order[p]])
  <2>1. /\ order \in [1 .. Len(rs) -> 1 .. Len(rs)]
        /\ \A i \in DOMAIN rs : \E p \in DOMAIN order : order[p] = i
        /\ \A p, q \in DOMAIN order :
             p < q => order[p] # order[q] /\ ~RecordLess(keys[order[q]], keys[order[p]])
    <3> HIDE DEF keys
    <3> QED
      BY <1>1, <1>2 DEF SortedOrders
  <2> HIDE DEF keys
  <2> QED
    BY <1>2, <2>1
<1>4. \A i \in 1 .. Len(rs) : /\ order[i] \in 1 .. Len(rs) /\ all[i] = rs[order[i]] /\ all[i] \in V
                              /\ keys[i] = KeyOf(rs[i])
  BY <1>1, <1>2, <1>3
<1>5. all \in Seq(V) /\ DOMAIN all = 1 .. Len(rs) /\ Len(all) = Len(rs)
  <2>1. all = [i \in 1 .. Len(rs) |-> all[i]]
    BY <1>1, <1>2
  <2> QED
    BY <1>2, <1>4, <2>1
<1> HIDE DEF keys
<1>6. Range(all) = Range(rs)
  <2>1. ASSUME NEW i \in 1 .. Len(rs) PROVE rs[i] \in Range(all)
    <3>1. PICK p \in 1 .. Len(rs) : order[p] = i
      BY <1>3
    <3>2. all[p] = rs[i]
      BY <1>4, <3>1
    <3> QED
      BY <1>5, <3>2 DEF Range
  <2>2. ASSUME NEW i \in 1 .. Len(rs) PROVE all[i] \in Range(rs)
    BY <1>2, <1>4 DEF Range
  <2>3. Range(rs) \subseteq Range(all)
    BY <1>2, <2>1 DEF Range
  <2>4. Range(all) \subseteq Range(rs)
    BY <1>5, <2>2 DEF Range
  <2> QED
    BY <2>3, <2>4
<1>7. ASSUME NEW i \in DOMAIN all, NEW j \in DOMAIN all, i < j
      PROVE  Before(all[i], all[j])
  <2>0. i \in 1 .. Len(rs) /\ j \in 1 .. Len(rs)
    BY <1>5
  <2>1. /\ i \in 1 .. Len(rs) /\ j \in 1 .. Len(rs) /\ all[i] \in V /\ all[j] \in V
        /\ order[i] \in DOMAIN rs /\ order[j] \in DOMAIN rs
        /\ all[i] = rs[order[i]] /\ all[j] = rs[order[j]]
    BY <1>2, <1>4, <2>0
  <2>2. order[i] # order[j] /\ ~RecordLess(keys[order[j]], keys[order[i]])
    BY <1>3, <1>7, <2>1
  <2>3. Identity(all[i]) # Identity(all[j])
    BY <2>1, <2>2 DEF OneEach
  <2>4. ~Before(all[j], all[i])
    <3>1. keys[order[i]] = KeyOf(all[i]) /\ keys[order[j]] = KeyOf(all[j])
      BY <1>2, <1>4, <2>1
    <3> QED
      BY <2>2, <3>1, Zenon DEF Before
  <2> QED
    BY <2>1, <2>3, <2>4, IdentityOrders
<1> QED
  BY <1>5, <1>6, <1>7

-----------------------------------------------------------------------------
(* Point mode: what is selected. *)

\* What latest and next hold when the first n records have been visited, and
\* what records holds before the end.
LatestOk(map, n) ==
  /\ \A k \in DOMAIN map :
       /\ map[k] \in Matching /\ PointKey(map[k]) = k
       /\ map[k].time <= options.at /\ "latest" \in options.flags
  /\ PointMode(options) /\ "latest" \in options.flags =>
       \A p \in 1 .. n :
         visits[p] \in Matching /\ visits[p].time <= options.at =>
           /\ PointKey(visits[p]) \in DOMAIN map
           /\ visits[p].time <= map[PointKey(visits[p])].time

NextOk(map, n) ==
  /\ \A k \in DOMAIN map :
       /\ map[k] \in Matching /\ PointKey(map[k]) = k
       /\ map[k].time >= options.at /\ "next" \in options.flags
  /\ PointMode(options) /\ "next" \in options.flags =>
       \A p \in 1 .. n :
         visits[p] \in Matching /\ visits[p].time >= options.at =>
           /\ PointKey(visits[p]) \in DOMAIN map
           /\ visits[p].time >= map[PointKey(visits[p])].time

ActiveOk(rs, n) ==
  /\ rs \in Seq(Range(visits)) /\ OneEach(rs)
  /\ \A i \in DOMAIN rs :
       rs[i] \in Matching /\ IsActive(rs[i]) /\ "active" \in options.flags
  /\ PointMode(options) /\ "active" \in options.flags =>
       \A p \in 1 .. n :
         visits[p] \in Matching /\ IsActive(visits[p]) => Identity(visits[p]) \in Identities(rs)

\* A visit keeps the newest record of every source before the point.
LEMMA SelectLatest ==
  ASSUME Inputs, LatestOk(latest, seen), seen \in Nat, seen + 1 \in 1 .. Len(visits),
         PointMode(options), visits[seen + 1] \in Matching,
         NEW map,
         map = IF "latest" \in options.flags /\ IsLater(visits[seen + 1])
               THEN With(latest, PointKey(visits[seen + 1]), visits[seen + 1]) ELSE latest
  PROVE  LatestOk(map, seen + 1)
<1> DEFINE r == visits[seen + 1]
           at == options.at
           key == PointKey(r)
<1>1. /\ at \in Int /\ r.time \in Int /\ \A s \in Matching : s.time \in Int
      /\ \A p \in 1 .. seen : p \in 1 .. Len(visits)
  <2>1. /\ Len(visits) \in Nat /\ \A p \in 1 .. Len(visits) : RecordTyped(visits[p])
        /\ DOMAIN visits = 1 .. Len(visits)
    BY VisitedTyped DEF Inputs, VisitsGood
  <2>2. at \in Int
    BY DEF Inputs, OptionsTyped, TimeOrNone, NoTime
  <2>3. \A p \in 1 .. Len(visits) : visits[p] \in Range(visits) /\ visits[p].time \in Int
    BY <2>1 DEF Range, RecordTyped
  <2>4. \A s \in Matching : s.time \in Int
    BY <2>1, <2>3 DEF Range, Matching
  <2>5. \A p \in 1 .. seen : p \in 1 .. Len(visits)
    BY <2>1
  <2> QED
    BY <2>2, <2>3, <2>4, <2>5
<1> HIDE DEF at
<1>2. CASE "latest" \in options.flags /\ IsLater(r)
  <2>1. /\ r.time <= at /\ (key \in DOMAIN latest => latest[key].time < r.time)
        /\ "latest" \in options.flags
    BY <1>2 DEF IsLater, at
  <2>2. /\ DOMAIN map = DOMAIN latest \cup {key}
        /\ \A j \in DOMAIN map : map[j] = IF j = key THEN r ELSE latest[j]
    BY <1>2 DEF With
  <2>3. ASSUME NEW k \in DOMAIN map
        PROVE  map[k] \in Matching /\ PointKey(map[k]) = k /\ map[k].time <= at
    BY <1>1, <2>1, <2>2 DEF LatestOk, at
  <2>4. ASSUME NEW p \in 1 .. seen + 1, visits[p] \in Matching, visits[p].time <= at
        PROVE  /\ PointKey(visits[p]) \in DOMAIN map
               /\ visits[p].time <= map[PointKey(visits[p])].time
    <3>1. CASE p = seen + 1
      BY <1>1, <2>2, <3>1
    <3>2. CASE p # seen + 1
      <4> DEFINE k == PointKey(visits[p])
      <4>1. p \in 1 .. seen
        BY <3>2
      <4>2. k \in DOMAIN latest /\ visits[p].time <= latest[k].time
        BY <2>1, <2>4, <4>1 DEF LatestOk, at
      <4>3. visits[p].time \in Int /\ latest[k].time \in Int
        BY <1>1, <2>4, <4>2 DEF LatestOk
      <4> HIDE DEF k, r, key
      <4>4. k \in DOMAIN map /\ visits[p].time <= map[k].time
        BY <1>1, <2>1, <2>2, <4>2, <4>3
      <4> QED
        BY <4>4 DEF k
    <3> QED
      BY <3>1, <3>2
  <2> QED
    BY <2>1, <2>3, <2>4 DEF LatestOk, at
<1>3. CASE ~("latest" \in options.flags /\ IsLater(r))
  <2>1. map = latest
    BY <1>3
  <2>2. ASSUME NEW p \in 1 .. seen + 1, visits[p] \in Matching, visits[p].time <= at,
               "latest" \in options.flags
        PROVE  /\ PointKey(visits[p]) \in DOMAIN map
               /\ visits[p].time <= map[PointKey(visits[p])].time
    <3>1. CASE p = seen + 1
      <4>1. r.time <= at
        BY <2>2, <3>1
      <4>2. key \in DOMAIN latest /\ ~(latest[key].time < r.time)
        BY <1>3, <2>2, <4>1 DEF IsLater, at
      <4>3. latest[key].time \in Int
        BY <1>1, <4>2 DEF LatestOk
      <4>4. r.time <= latest[key].time
        BY <1>1, <4>2, <4>3
      <4> QED
        BY <2>1, <3>1, <4>2, <4>4
    <3>2. CASE p # seen + 1
      <4>1. p \in 1 .. seen
        BY <3>2
      <4> QED
        BY <2>1, <2>2, <4>1 DEF LatestOk, at
    <3> QED
      BY <3>1, <3>2
  <2>3. \A k \in DOMAIN map :
          /\ map[k] \in Matching /\ PointKey(map[k]) = k
          /\ map[k].time <= at /\ "latest" \in options.flags
    BY <2>1 DEF LatestOk, at
  <2> QED
    BY <2>2, <2>3 DEF LatestOk, at
<1> QED
  BY <1>2, <1>3

\* A visit keeps the earliest record of every source after the point.
LEMMA SelectNext ==
  ASSUME Inputs, NextOk(next, seen), seen \in Nat, seen + 1 \in 1 .. Len(visits),
         PointMode(options), visits[seen + 1] \in Matching,
         NEW map,
         map = IF "next" \in options.flags /\ IsSooner(visits[seen + 1])
               THEN With(next, PointKey(visits[seen + 1]), visits[seen + 1]) ELSE next
  PROVE  NextOk(map, seen + 1)
<1> DEFINE r == visits[seen + 1]
           at == options.at
           key == PointKey(r)
<1>1. /\ at \in Int /\ r.time \in Int /\ \A s \in Matching : s.time \in Int
      /\ \A p \in 1 .. seen : p \in 1 .. Len(visits)
  <2>1. /\ Len(visits) \in Nat /\ \A p \in 1 .. Len(visits) : RecordTyped(visits[p])
        /\ DOMAIN visits = 1 .. Len(visits)
    BY VisitedTyped DEF Inputs, VisitsGood
  <2>2. at \in Int
    BY DEF Inputs, OptionsTyped, TimeOrNone, NoTime
  <2>3. \A p \in 1 .. Len(visits) : visits[p] \in Range(visits) /\ visits[p].time \in Int
    BY <2>1 DEF Range, RecordTyped
  <2>4. \A s \in Matching : s.time \in Int
    BY <2>1, <2>3 DEF Range, Matching
  <2>5. \A p \in 1 .. seen : p \in 1 .. Len(visits)
    BY <2>1
  <2> QED
    BY <2>2, <2>3, <2>4, <2>5
<1> HIDE DEF at
<1>2. CASE "next" \in options.flags /\ IsSooner(r)
  <2>1. /\ r.time >= at /\ (key \in DOMAIN next => next[key].time > r.time)
        /\ "next" \in options.flags
    BY <1>2 DEF IsSooner, at
  <2>2. /\ DOMAIN map = DOMAIN next \cup {key}
        /\ \A j \in DOMAIN map : map[j] = IF j = key THEN r ELSE next[j]
    BY <1>2 DEF With
  <2>3. ASSUME NEW k \in DOMAIN map
        PROVE  map[k] \in Matching /\ PointKey(map[k]) = k /\ map[k].time >= at
    BY <1>1, <2>1, <2>2 DEF NextOk, at
  <2>4. ASSUME NEW p \in 1 .. seen + 1, visits[p] \in Matching, visits[p].time >= at
        PROVE  /\ PointKey(visits[p]) \in DOMAIN map
               /\ visits[p].time >= map[PointKey(visits[p])].time
    <3>1. CASE p = seen + 1
      BY <1>1, <2>2, <3>1
    <3>2. CASE p # seen + 1
      <4> DEFINE k == PointKey(visits[p])
      <4>1. p \in 1 .. seen
        BY <3>2
      <4>2. k \in DOMAIN next /\ visits[p].time >= next[k].time
        BY <2>1, <2>4, <4>1 DEF NextOk, at
      <4>3. visits[p].time \in Int /\ next[k].time \in Int
        BY <1>1, <2>4, <4>2 DEF NextOk
      <4> HIDE DEF k, r, key
      <4>4. k \in DOMAIN map /\ visits[p].time >= map[k].time
        BY <1>1, <2>1, <2>2, <4>2, <4>3
      <4> QED
        BY <4>4 DEF k
    <3> QED
      BY <3>1, <3>2
  <2> QED
    BY <2>1, <2>3, <2>4 DEF NextOk, at
<1>3. CASE ~("next" \in options.flags /\ IsSooner(r))
  <2>1. map = next
    BY <1>3
  <2>2. ASSUME NEW p \in 1 .. seen + 1, visits[p] \in Matching, visits[p].time >= at,
               "next" \in options.flags
        PROVE  /\ PointKey(visits[p]) \in DOMAIN map
               /\ visits[p].time >= map[PointKey(visits[p])].time
    <3>1. CASE p = seen + 1
      <4>1. r.time >= at
        BY <2>2, <3>1
      <4>2. key \in DOMAIN next /\ ~(next[key].time > r.time)
        BY <1>3, <2>2, <4>1 DEF IsSooner, at
      <4>3. next[key].time \in Int
        BY <1>1, <4>2 DEF NextOk
      <4>4. r.time >= next[key].time
        BY <1>1, <4>2, <4>3
      <4> QED
        BY <2>1, <3>1, <4>2, <4>4
    <3>2. CASE p # seen + 1
      <4>1. p \in 1 .. seen
        BY <3>2
      <4> QED
        BY <2>1, <2>2, <4>1 DEF NextOk, at
    <3> QED
      BY <3>1, <3>2
  <2>3. \A k \in DOMAIN map :
          /\ map[k] \in Matching /\ PointKey(map[k]) = k
          /\ map[k].time >= at /\ "next" \in options.flags
    BY <2>1 DEF NextOk, at
  <2> QED
    BY <2>2, <2>3 DEF NextOk, at
<1> QED
  BY <1>2, <1>3

\* A visit keeps the records active at the point, each once.
LEMMA SelectActive ==
  ASSUME Inputs, ActiveOk(records, seen), seen \in Nat, seen + 1 \in 1 .. Len(visits),
         PointMode(options), visits[seen + 1] \in Matching,
         NEW rs,
         rs = IF /\ "active" \in options.flags /\ IsActive(visits[seen + 1])
                 /\ Identity(visits[seen + 1]) \notin Identities(records)
              THEN Append(records, visits[seen + 1]) ELSE records
  PROVE  ActiveOk(rs, seen + 1)
<1> DEFINE r == visits[seen + 1]
<1>1. r \in Range(visits)
  BY VisitedTyped DEF Inputs, VisitsGood, Range
<1>2. records \in Seq(Range(visits)) /\ OneEach(records)
  BY DEF ActiveOk
<1>3. CASE /\ "active" \in options.flags /\ IsActive(r)
           /\ Identity(r) \notin Identities(records)
  <2>1. /\ rs = Append(records, r) /\ Len(records) \in Nat /\ rs \in Seq(Range(visits))
        /\ DOMAIN rs = 1 .. Len(records) + 1 /\ DOMAIN records = 1 .. Len(records)
        /\ rs[Len(records) + 1] = r
        /\ \A i \in 1 .. Len(records) : rs[i] = records[i]
    BY <1>1, <1>2, <1>3
  <2> HIDE DEF r
  <2>2. ASSUME NEW i \in DOMAIN rs, NEW j \in DOMAIN rs, Identity(rs[i]) = Identity(rs[j])
        PROVE  i = j
    <3>1. \A k \in 1 .. Len(records) : Identity(rs[k]) \in Identities(records)
      BY <2>1 DEF Identities
    <3>2. CASE i \in 1 .. Len(records) /\ j \in 1 .. Len(records)
      BY <1>2, <2>1, <2>2, <3>2 DEF OneEach
    <3>3. CASE i \notin 1 .. Len(records) /\ j \notin 1 .. Len(records)
      BY <2>1, <3>3
    <3>4. CASE i \in 1 .. Len(records) /\ j = Len(records) + 1
      BY <1>3, <2>1, <2>2, <3>1, <3>4
    <3>5. CASE j \in 1 .. Len(records) /\ i = Len(records) + 1
      BY <1>3, <2>1, <2>2, <3>1, <3>5
    <3> QED
      BY <2>1, <3>2, <3>3, <3>4, <3>5
  <2>3. \A i \in DOMAIN rs : rs[i] \in Matching /\ IsActive(rs[i]) /\ "active" \in options.flags
    <3>1. r \in Matching
      BY DEF r
    <3> QED
      BY <1>3, <2>1, <3>1 DEF ActiveOk
  <2>4. Identities(rs) = Identities(records) \cup {Identity(r)}
    <3>1. \A i \in 1 .. Len(records) : Identity(rs[i]) = Identity(records[i])
      BY <2>1
    <3>2. Len(records) + 1 \in DOMAIN rs /\ Identity(rs[Len(records) + 1]) = Identity(r)
      BY <2>1
    <3>3. Identities(rs) = {Identity(rs[i]) : i \in 1 .. Len(records) + 1}
      BY <2>1 DEF Identities
    <3>4. Identities(records) = {Identity(records[i]) : i \in 1 .. Len(records)}
      BY <2>1 DEF Identities
    <3>5. \A i : i \in 1 .. Len(records) + 1 <=> i \in 1 .. Len(records) \/ i = Len(records) + 1
      BY <2>1
    <3> HIDE DEF Identities
    <3> QED
      BY <3>1, <3>2, <3>3, <3>4, <3>5
  <2>5. ASSUME NEW p \in 1 .. seen + 1, visits[p] \in Matching, IsActive(visits[p])
        PROVE  Identity(visits[p]) \in Identities(rs)
    <3>1. CASE p = seen + 1
      BY <2>4, <3>1 DEF r
    <3>2. CASE p # seen + 1
      <4>1. p \in 1 .. seen
        BY <3>2
      <4> QED
        BY <1>3, <2>4, <2>5, <4>1 DEF ActiveOk
    <3> QED
      BY <3>1, <3>2
  <2>6. OneEach(rs)
    BY <2>2 DEF OneEach
  <2> QED
    BY <2>1, <2>3, <2>5, <2>6 DEF ActiveOk
<1>4. CASE ~(/\ "active" \in options.flags /\ IsActive(r)
             /\ Identity(r) \notin Identities(records))
  <2>1. rs = records
    BY <1>4
  <2>2. ASSUME NEW p \in 1 .. seen + 1, visits[p] \in Matching, IsActive(visits[p]),
               "active" \in options.flags
        PROVE  Identity(visits[p]) \in Identities(rs)
    <3>1. CASE p = seen + 1
      BY <1>4, <2>1, <2>2, <3>1
    <3>2. CASE p # seen + 1
      <4>1. p \in 1 .. seen
        BY <3>2
      <4> QED
        BY <2>1, <2>2, <4>1 DEF ActiveOk
    <3> QED
      BY <3>1, <3>2
  <2> QED
    BY <2>1, <2>2 DEF ActiveOk
<1> QED
  BY <1>3, <1>4

\* It stays right as long as the options and what is visited do,
LEMMA SelectedStays ==
  ASSUME UNCHANGED <<traces, options, visits>>
  PROVE  /\ LatestOk(latest', seen') => LatestOk(latest, seen)'
         /\ NextOk(next', seen') => NextOk(next, seen)'
         /\ ActiveOk(records', seen') => ActiveOk(records, seen)'
<1>1. \A r : Matches(r)' <=> Matches(r)
  BY WantedStays
<1>2. Matching' = Matching
  BY <1>1, Zenon DEF Matching
<1>3. PointMode(options)' <=> PointMode(options)
  BY DEF PointMode
<1>4. LatestOk(latest', seen') => LatestOk(latest, seen)'
  BY <1>2, <1>3, Zenon DEF LatestOk, PointKey
<1>5. NextOk(next', seen') => NextOk(next, seen)'
  BY <1>2, <1>3, Zenon DEF NextOk, PointKey
<1>6. ActiveOk(records', seen') => ActiveOk(records, seen)'
  BY <1>2, <1>3, Zenon DEF ActiveOk, OneEach, IsActive, Identity, Identities
<1> QED
  BY <1>4, <1>5, <1>6

\* also when a record that does not match is passed over.
LEMMA PassedOver ==
  ASSUME seen \in Nat, ~PointMode(options) \/ visits[seen + 1] \notin Matching
  PROVE  /\ LatestOk(latest, seen) => LatestOk(latest, seen + 1)
         /\ NextOk(next, seen) => NextOk(next, seen + 1)
         /\ ActiveOk(records, seen) => ActiveOk(records, seen + 1)
<1>1. \A p \in 1 .. seen + 1 : p \in 1 .. seen \/ p = seen + 1
  OBVIOUS
<1> QED
  BY <1>1, Zenon DEF LatestOk, NextOk, ActiveOk

-----------------------------------------------------------------------------
(* Point mode: the answer. *)

\* What is visited is finitely many typed records.
LEMMA VisitsFinite ==
  ASSUME Inputs
  PROVE  /\ IsFiniteSet(Range(visits)) /\ TracesTyped
         /\ \A r \in Range(visits) : RecordTyped(r) /\ \E p \in 1 .. Len(visits) : r = visits[p]
         /\ \A p \in 1 .. Len(visits) : visits[p] \in Range(visits)
<1>1. /\ Len(visits) \in Nat /\ \A p \in 1 .. Len(visits) : RecordTyped(visits[p])
      /\ DOMAIN visits = 1 .. Len(visits) /\ visits \in Seq(Range(visits)) /\ TracesTyped
  BY VisitedTyped DEF Inputs, VisitsGood
<1>2. visits \in Surjection(1 .. Len(visits), Range(visits))
  BY <1>1 DEF Surjection, Range
<1>3. IsFiniteSet(1 .. Len(visits))
  BY <1>1, FS_Interval
<1>4. IsFiniteSet(Range(visits))
  BY <1>2, <1>3, FS_Surjection
<1> QED
  BY <1>1, <1>4 DEF Range

\* Where no label is given twice, an identity is of one record, and a key of one
\* source; records of one source have one key in any case.
LEMMA SameIdentity ==
  ASSUME Inputs, DistinctLabels, NEW r \in Range(visits), NEW s \in Range(visits),
         Identity(r) = Identity(s), r.kind # "hardware-sample"
  PROVE  r = s
<1>1. RecordTyped(r) /\ RecordTyped(s) /\ TracesTyped /\ Distinguished(visits)
  BY VisitsFinite DEF Inputs, VisitsGood
<1>2. r.trace = s.trace /\ r.source = s.source /\ r.kind = s.kind /\ r.seq = s.seq
  BY DEF Identity
<1>3. r.file = s.file
  BY <1>1, <1>2, TraceOrderIs DEF RecordTyped
<1>4. PICK p \in DOMAIN visits, q \in DOMAIN visits : r = visits[p] /\ s = visits[q]
  BY DEF Range
<1>5. p = q
  BY <1>1, <1>2, <1>3, <1>4 DEF Distinguished, SameSource
<1> QED
  BY <1>4, <1>5

\* Records of one source have one point key, and different labels different keys.
LEMMA SameKey ==
  ASSUME Inputs, NEW r \in Range(visits), NEW s \in Range(visits)
  PROVE  /\ SameSource(r, s) => PointKey(r) = PointKey(s)
         /\ DistinctLabels /\ PointKey(r) = PointKey(s) => SameSource(r, s)
<1>1. RecordTyped(r) /\ RecordTyped(s) /\ TracesTyped
  BY VisitsFinite
<1>2. SameSource(r, s) => PointKey(r) = PointKey(s)
  BY <1>1 DEF SameSource, PointKey, RecordTyped
<1>3. ASSUME DistinctLabels, PointKey(r) = PointKey(s) PROVE SameSource(r, s)
  <2>1. r.trace = s.trace /\ r.source = s.source /\ r.kind = s.kind
    BY <1>3 DEF PointKey
  <2>2. r.file = s.file
    BY <1>1, <1>3, <2>1, TraceOrderIs DEF RecordTyped
  <2> QED
    BY <2>1, <2>2 DEF SameSource
<1> QED
  BY <1>2, <1>3

\* Whether the records in R are those point mode is to select.
Selection(R) ==
  /\ \A r \in R :
       /\ r \in Range(visits)
       /\ \/ "active" \in options.flags /\ r \in Matching /\ IsActive(r)
          \/ "latest" \in options.flags /\ NewestBefore(r)
          \/ "next" \in options.flags /\ EarliestAfter(r)
  /\ DistinctLabels =>
       \A r \in Matching :
         /\ "active" \in options.flags /\ IsActive(r) => r \in R
         /\ "latest" \in options.flags /\ r.time <= options.at =>
              \E s \in R : SameSource(r, s) /\ NewestBefore(s)
         /\ "next" \in options.flags /\ r.time >= options.at /\ r.kind # "hardware-sample" =>
              \E s \in R : SameSource(r, s) /\ EarliestAfter(s)

\* What --latest keeps is the newest before the point.
LEMMA LatestIsNewest ==
  ASSUME Inputs, PointMode(options), LatestOk(latest, Len(visits)), NEW k \in DOMAIN latest
  PROVE  NewestBefore(latest[k]) /\ "latest" \in options.flags
<1> DEFINE m == latest[k]
<1>1. m \in Matching /\ m.time <= options.at /\ PointKey(m) = k /\ "latest" \in options.flags
  BY DEF LatestOk, Matching
<1>2. ASSUME NEW s \in Matching, SameSource(m, s), s.time <= options.at PROVE s.time <= m.time
  <2>1. s \in Range(visits) /\ m \in Range(visits) /\ Matches(s)
    BY <1>1 DEF Matching
  <2>2. PointKey(s) = k
    BY <1>1, <1>2, <2>1, SameKey
  <2>3. PICK p \in 1 .. Len(visits) : s = visits[p]
    BY <2>1, VisitsFinite
  <2> QED
    BY <1>1, <1>2, <2>1, <2>2, <2>3 DEF LatestOk
<1> QED
  BY <1>1, <1>2 DEF NewestBefore

\* What --next keeps is the earliest after the point.
LEMMA NextIsEarliest ==
  ASSUME Inputs, PointMode(options), NextOk(next, Len(visits)), NEW k \in DOMAIN next
  PROVE  EarliestAfter(next[k]) /\ "next" \in options.flags
<1> DEFINE m == next[k]
<1>1. m \in Matching /\ m.time >= options.at /\ PointKey(m) = k /\ "next" \in options.flags
  BY DEF NextOk, Matching
<1>2. ASSUME NEW s \in Matching, SameSource(m, s), s.time >= options.at PROVE s.time >= m.time
  <2>1. s \in Range(visits) /\ m \in Range(visits) /\ Matches(s)
    BY <1>1 DEF Matching
  <2>2. PointKey(s) = k
    BY <1>1, <1>2, <2>1, SameKey
  <2>3. PICK p \in 1 .. Len(visits) : s = visits[p]
    BY <2>1, VisitsFinite
  <2> QED
    BY <1>1, <1>2, <2>1, <2>2, <2>3 DEF NextOk
<1> QED
  BY <1>1, <1>2 DEF EarliestAfter

\* What is selected, once everything has been visited.
LEMMA JoinedIsSelection ==
  ASSUME Inputs, PointMode(options), LatestOk(latest, Len(visits)), NextOk(next, Len(visits)),
         ActiveOk(records, Len(visits))
  PROVE  LET joined == Joined(Joined(records, latest), next)
         IN joined \in Seq(Range(visits)) /\ OneEach(joined) /\ Selection(Range(joined))
<1> DEFINE V == Range(visits)
           one == Joined(records, latest)
           two == Joined(one, next)
<1>1. IsFiniteSet(V) /\ records \in Seq(V) /\ OneEach(records)
  BY VisitsFinite DEF ActiveOk
<1>2. /\ \A k \in DOMAIN latest : latest[k] \in V /\ PointKey(latest[k]) = k
      /\ \A k \in DOMAIN next : next[k] \in V /\ PointKey(next[k]) = k
  BY DEF LatestOk, NextOk, Matching
<1> HIDE DEF V
<1>3. one \in Seq(V) /\ Range(one) = Range(records) \cup Joining(records, latest) /\ OneEach(one)
  BY <1>1, <1>2, JoinedIs
<1> HIDE DEF one
<1>4. two \in Seq(V) /\ Range(two) = Range(one) \cup Joining(one, next) /\ OneEach(two)
  BY <1>1, <1>2, <1>3, JoinedIs
<1> HIDE DEF two
<1>5. \A r \in Range(records) : r \in V /\ r \in Matching /\ IsActive(r) /\ "active" \in options.flags
  BY DEF ActiveOk, Range, Matching, V
<1>6. ASSUME NEW r \in Range(two)
      PROVE  /\ r \in Range(visits)
             /\ \/ "active" \in options.flags /\ r \in Matching /\ IsActive(r)
                \/ "latest" \in options.flags /\ NewestBefore(r)
                \/ "next" \in options.flags /\ EarliestAfter(r)
  <2>1. r \in V
    BY <1>4 DEF Range
  <2>2. CASE r \in Range(records)
    BY <1>5, <2>1, <2>2 DEF V
  <2>3. CASE r \in Joining(records, latest)
    <3>1. PICK k \in DOMAIN latest : r = latest[k]
      BY <2>3 DEF Joining
    <3> QED
      BY <2>1, <3>1, LatestIsNewest DEF V
  <2>4. CASE r \in Joining(one, next)
    <3>1. PICK k \in DOMAIN next : r = next[k]
      BY <2>4 DEF Joining
    <3> QED
      BY <2>1, <3>1, NextIsEarliest DEF V
  <2> QED
    BY <1>3, <1>4, <2>2, <2>3, <2>4
<1>7. ASSUME DistinctLabels, NEW rs \in Seq(V), NEW m \in V, m.kind # "hardware-sample",
             Identity(m) \in Identities(rs)
      PROVE  m \in Range(rs)
  <2>1. PICK i \in DOMAIN rs : Identity(m) = Identity(rs[i])
    BY <1>7 DEF Identities
  <2>2. rs[i] \in V
    BY <2>1
  <2>3. m = rs[i]
    BY <1>7, <2>1, <2>2, SameIdentity DEF V
  <2> QED
    BY <2>1, <2>3 DEF Range
<1>8. ASSUME DistinctLabels, NEW r \in Matching
      PROVE  /\ "active" \in options.flags /\ IsActive(r) => r \in Range(two)
             /\ "latest" \in options.flags /\ r.time <= options.at =>
                  \E s \in Range(two) : SameSource(r, s) /\ NewestBefore(s)
             /\ "next" \in options.flags /\ r.time >= options.at /\ r.kind # "hardware-sample" =>
                  \E s \in Range(two) : SameSource(r, s) /\ EarliestAfter(s)
  <2>1. r \in V /\ Matches(r) /\ r \in Range(visits)
    BY DEF Matching, V
  <2>2. PICK p \in 1 .. Len(visits) : r = visits[p]
    BY <2>1, VisitsFinite
  <2>3. ASSUME "active" \in options.flags, IsActive(r) PROVE r \in Range(two)
    <3>1. Identity(r) \in Identities(records)
      BY <2>1, <2>2, <2>3 DEF ActiveOk
    <3>2. r.kind # "hardware-sample"
      BY <2>3 DEF IsActive, Interval
    <3>3. r \in Range(records)
      BY <1>1, <1>7, <1>8, <2>1, <3>1, <3>2
    <3> QED
      BY <1>3, <1>4, <3>3
  <2>4. ASSUME "latest" \in options.flags, r.time <= options.at
        PROVE  \E s \in Range(two) : SameSource(r, s) /\ NewestBefore(s)
    <3> DEFINE m == latest[PointKey(r)]
    <3>1. PointKey(r) \in DOMAIN latest
      BY <2>1, <2>2, <2>4 DEF LatestOk
    <3>2. NewestBefore(m) /\ m \in V /\ PointKey(m) = PointKey(r)
      BY <1>2, <3>1, LatestIsNewest
    <3>3. SameSource(r, m)
      BY <1>8, <2>1, <3>2, SameKey DEF V
    <3>4. m \in Range(one)
      <4>1. CASE Identity(m) \notin Identities(records)
        BY <1>3, <3>1, <4>1 DEF Joining
      <4>2. CASE Identity(m) \in Identities(records)
        <5>1. PICK i \in DOMAIN records : Identity(m) = Identity(records[i])
          BY <4>2 DEF Identities
        <5>2. IsActive(records[i]) /\ m.kind = records[i].kind
          BY <1>5, <5>1 DEF Range, Identity
        <5>3. m.kind # "hardware-sample"
          BY <5>2 DEF IsActive, Interval
        <5>4. m \in Range(records)
          BY <1>1, <1>7, <1>8, <3>2, <4>2, <5>3
        <5> QED
          BY <1>3, <5>4
      <4> QED
        BY <4>1, <4>2
    <3> QED
      BY <1>4, <3>2, <3>3, <3>4
  <2>5. ASSUME "next" \in options.flags, r.time >= options.at, r.kind # "hardware-sample"
        PROVE  \E s \in Range(two) : SameSource(r, s) /\ EarliestAfter(s)
    <3> DEFINE m == next[PointKey(r)]
    <3>1. PointKey(r) \in DOMAIN next
      BY <2>1, <2>2, <2>5 DEF NextOk
    <3>2. EarliestAfter(m) /\ m \in V /\ PointKey(m) = PointKey(r)
      BY <1>2, <3>1, NextIsEarliest
    <3>3. SameSource(r, m)
      BY <1>8, <2>1, <3>2, SameKey DEF V
    <3>4. m.kind # "hardware-sample"
      BY <2>5, <3>3 DEF SameSource
    <3>5. m \in Range(two)
      <4>1. CASE Identity(m) \notin Identities(one)
        BY <1>4, <3>1, <4>1 DEF Joining
      <4>2. CASE Identity(m) \in Identities(one)
        <5>1. m \in Range(one)
          BY <1>3, <1>7, <1>8, <3>2, <3>4, <4>2
        <5> QED
          BY <1>4, <5>1
      <4> QED
        BY <4>1, <4>2
    <3> QED
      BY <3>2, <3>3, <3>5
  <2> QED
    BY <2>3, <2>4, <2>5
<1>9. Selection(Range(two))
  BY <1>6, <1>8 DEF Selection
<1> QED
  BY <1>4, <1>9 DEF two, one, V

\* Nothing about a record or a source changes as long as the options, the
\* traces and what is visited stay.
LEMMA SelectionStays ==
  ASSUME UNCHANGED <<traces, options, visits>>
  PROVE  /\ Matching' = Matching /\ (DistinctLabels' <=> DistinctLabels)
         /\ \A r : /\ IsActive(r)' <=> IsActive(r)
                   /\ NewestBefore(r)' <=> NewestBefore(r)
                   /\ EarliestAfter(r)' <=> EarliestAfter(r)
<1>1. \A r : Matches(r)' <=> Matches(r)
  BY WantedStays
<1>2. Matching' = Matching
  BY <1>1, Zenon DEF Matching
<1>3. DistinctLabels' <=> DistinctLabels
  BY DEF DistinctLabels
<1>4. \A r : IsActive(r)' <=> IsActive(r)
  BY DEF IsActive
<1>5. \A r : NewestBefore(r)' <=> NewestBefore(r)
  BY <1>2, Zenon DEF NewestBefore
<1>6. \A r : EarliestAfter(r)' <=> EarliestAfter(r)
  BY <1>2, Zenon DEF EarliestAfter
<1> QED
  BY <1>2, <1>3, <1>4, <1>5, <1>6

\* The invariant of point mode.
PointHolds ==
  /\ LatestOk(latest, seen) /\ NextOk(next, seen)
  /\ exit = Running => ActiveOk(records, seen)
  /\ PointAnswer

\* Before the first visit nothing is selected.
LEMMA NothingSelected ==
  ASSUME seen = 0, latest = <<>>, next = <<>>, records = <<>>
  PROVE  LatestOk(latest, seen) /\ NextOk(next, seen) /\ ActiveOk(records, seen)
<1>1. LatestOk(latest, seen)
  BY DEF LatestOk
<1>2. NextOk(next, seen)
  BY DEF NextOk
<1>3. ActiveOk(records, seen)
  BY DEF ActiveOk, OneEach
<1> QED
  BY <1>1, <1>2, <1>3

\* Before the query point mode has nothing to answer.
LEMMA UnvisitedAnswers == ASSUME Unvisited PROVE PointHolds
<1>1. LatestOk(latest, seen) /\ NextOk(next, seen) /\ ActiveOk(records, seen)
  BY NothingSelected DEF Unvisited
<1>2. /\ printed = <<>> /\ records = <<>> /\ visits = <<>> /\ truncated = FALSE
      /\ Range(printed) = {} /\ Range(records) = {} /\ Matching = {}
      /\ Len(printed) = 0 /\ Len(records) = 0
  BY DEF Unvisited, SorterEmpty, Range, Matching
<1>3. PointPrinted
  BY <1>2 DEF PointPrinted
<1>4. PointAnswer
  BY <1>2, <1>3 DEF PointAnswer
<1> QED
  BY <1>1, <1>4 DEF PointHolds

\* The front of a sequence, as --limit keeps it.
LEMMA FrontOf ==
  ASSUME NEW V, NEW all \in Seq(V), NEW n \in 0 .. Len(all)
  PROVE  /\ SubSeq(all, 1, n) \in Seq(V)
         /\ Len(SubSeq(all, 1, n)) = n
         /\ \A i \in 1 .. n : SubSeq(all, 1, n)[i] = all[i]
<1>1. \A i \in 1 .. n : all[i] \in V
  OBVIOUS
<1> QED
  BY <1>1

\* What is printed, and in which order.
LEMMA PrintedIsFront ==
  ASSUME NEW V, NEW all \in Seq(V), NEW n \in 0 .. Len(all),
         \A i, j \in DOMAIN all : i < j => Before(all[i], all[j])
  PROVE  LET front == SubSeq(all, 1, n)
         IN /\ \A i, j \in DOMAIN front : i < j => Before(front[i], front[j])
            /\ \A i \in DOMAIN front, r \in Range(all) \ Range(front) : Before(front[i], r)
            /\ Len(front) = n
<1> DEFINE front == SubSeq(all, 1, n)
<1>1. /\ Len(front) = n /\ DOMAIN front = 1 .. n /\ n \in Nat
      /\ \A i \in 1 .. n : front[i] = all[i]
  BY FrontOf
<1> HIDE DEF front
<1>2. DOMAIN all = 1 .. Len(all) /\ Len(all) \in Nat
  OBVIOUS
<1>3. ASSUME NEW i \in DOMAIN front, NEW r \in Range(all) \ Range(front)
      PROVE  Before(front[i], r)
  <2>1. PICK j \in DOMAIN all : r = all[j]
    BY DEF Range
  <2>2. j \notin 1 .. n
    BY <1>1, <2>1 DEF Range
  <2>3. i \in DOMAIN all /\ i < j
    BY <1>1, <1>2, <2>1, <2>2
  <2> QED
    BY <1>1, <2>1, <2>3
<1>4. \A i, j \in DOMAIN front : i < j => Before(front[i], front[j])
  BY <1>1, <1>2
<1> QED
  BY <1>1, <1>3, <1>4 DEF front

\* The end of point mode writes the selected records in order, to the limit.
LEMMA FinishPointAnswers ==
  ASSUME ProgramBase, FinishPoint, LatestOk(latest, seen), NextOk(next, seen),
         ActiveOk(records, seen)
  PROVE  records' \in Seq(Range(visits)) /\ PointAnswer'
<1>1. /\ Inputs /\ PointMode(options) /\ seen = Len(visits)
      /\ UNCHANGED <<limit, traces, options, visits>>
      /\ limit \in Nat \cup {NoLimit}
  BY LimitAssumption DEF ProgramBase, Inputs, FinishPoint, Visited
<1>2. truncated \in BOOLEAN
  BY DEF ProgramBase, IInv, SortTypeOK
<1> DEFINE joined == Joined(Joined(records, latest), next)
           V == Range(visits)
<1>3. joined \in Seq(V) /\ OneEach(joined) /\ Selection(Range(joined))
  BY <1>1, JoinedIsSelection
<1>4. /\ records' \in PointOrders(joined)
      /\ ~options.count =>
           LET shown == IF limit # NoLimit /\ limit < Len(records') THEN limit ELSE Len(records')
           IN printed' = SubSeq(records', 1, shown) /\ truncated' = (shown < Len(records'))
  BY <1>2, PointOutcome
<1> HIDE DEF joined, V
<1>5. /\ records' \in Seq(V) /\ Range(records') = Range(joined)
      /\ \A i, j \in DOMAIN records' : i < j => Before(records'[i], records'[j])
  <2>1. TracesTyped /\ \A r \in V : RecordTyped(r)
    BY <1>1, VisitsFinite DEF V
  <2> QED
    BY <1>3, <1>4, <2>1, PointOrdersAre
<1>6. PointPrinted'
  <2> SUFFICES ASSUME ~options.count PROVE PointPrinted'
    BY <1>1 DEF PointPrinted
  <2> DEFINE all == records'
             shown == IF limit # NoLimit /\ limit < Len(all) THEN limit ELSE Len(all)
             front == printed'
  <2>1. front = SubSeq(all, 1, shown) /\ truncated' = (shown < Len(all)) /\ all \in Seq(V)
    BY <1>4, <1>5
  <2>2. \A i, j \in DOMAIN all : i < j => Before(all[i], all[j])
    BY <1>5
  <2> HIDE DEF all, front
  <2>3. shown \in 0 .. Len(all) /\ (shown < Len(all) => shown = limit)
    BY <1>1, <2>1 DEF NoLimit
  <2> HIDE DEF shown
  <2>5. /\ \A i, j \in DOMAIN front : i < j => Before(front[i], front[j])
        /\ \A i \in DOMAIN front, r \in Range(all) \ Range(front) : Before(front[i], r)
        /\ Len(front) = shown
    BY <2>1, <2>2, <2>3, PrintedIsFront
  <2>4. /\ \A i, j \in DOMAIN printed' : i < j => Before(printed'[i], printed'[j])
        /\ \A i \in DOMAIN printed', r \in Range(records') \ Range(printed') :
             Before(printed'[i], r)
        /\ truncated' <=> Len(printed') < Len(records')
        /\ truncated' => Len(printed') = limit'
    BY <1>1, <2>1, <2>3, <2>5 DEF all, front
  <2> QED
    BY <2>4, Zenon DEF PointPrinted, Before, KeyOf
<1>7. Matching' = Matching /\ (DistinctLabels' <=> DistinctLabels)
      /\ \A r : /\ IsActive(r)' <=> IsActive(r)
                /\ NewestBefore(r)' <=> NewestBefore(r)
                /\ EarliestAfter(r)' <=> EarliestAfter(r)
  BY <1>1, SelectionStays
<1>8. \A i \in DOMAIN records' :
         \/ "active" \in options.flags /\ records'[i] \in Matching /\ IsActive(records'[i])
         \/ "latest" \in options.flags /\ NewestBefore(records'[i])
         \/ "next" \in options.flags /\ EarliestAfter(records'[i])
  <2>1. \A i \in DOMAIN records' : records'[i] \in Range(records')
    BY DEF Range
  <2> QED
    BY <1>3, <1>5, <2>1 DEF Selection
<1>9. DistinctLabels => \A r \in Matching :
         /\ "active" \in options.flags /\ IsActive(r) => r \in Range(records')
         /\ "latest" \in options.flags /\ r.time <= options.at =>
              \E s \in Range(records') : SameSource(r, s) /\ NewestBefore(s)
         /\ "next" \in options.flags /\ r.time >= options.at /\ r.kind # "hardware-sample" =>
              \E s \in Range(records') : SameSource(r, s) /\ EarliestAfter(s)
  BY <1>3, <1>5 DEF Selection
<1>10. ASSUME NEW i \in DOMAIN records'
       PROVE  (\/ "active" \in options.flags /\ records[i] \in Matching /\ IsActive(records[i])
               \/ "latest" \in options.flags /\ NewestBefore(records[i])
               \/ "next" \in options.flags /\ EarliestAfter(records[i]))'
  <2> DEFINE r == records'[i]
  <2>1. \/ "active" \in options.flags /\ r \in Matching /\ IsActive(r)
        \/ "latest" \in options.flags /\ NewestBefore(r)
        \/ "next" \in options.flags /\ EarliestAfter(r)
    BY <1>8
  <2>2. options' = options /\ Matching' = Matching
    BY <1>1, <1>7
  <2> QED
    BY <2>1, <2>2, Zenon DEF IsActive, NewestBefore, EarliestAfter
<1>11. DistinctLabels' => \A r \in Matching' :
         /\ "active" \in options'.flags /\ IsActive(r)' => r \in Range(records')
         /\ "latest" \in options'.flags /\ r.time <= options'.at =>
              \E s \in Range(records') : SameSource(r, s) /\ NewestBefore(s)'
         /\ "next" \in options'.flags /\ r.time >= options'.at /\ r.kind # "hardware-sample" =>
              \E s \in Range(records') : SameSource(r, s) /\ EarliestAfter(s)'
  <2>1. options' = options
    BY <1>1
  <2> QED
    BY <1>7, <1>9, <2>1, Zenon
<1>12. PointAnswer'
  BY <1>6, <1>10, <1>11, Zenon DEF PointAnswer, PointAnswered, SameSource
<1> QED
  BY <1>5, <1>12 DEF V

\* A step that leaves what was selected, or visits nothing that matches.
LEMMA SelectedKept ==
  ASSUME PointHolds, UNCHANGED <<traces, options, visits, latest, next, records>>,
         exit' = Running => exit = Running,
         \/ seen' = seen
         \/ /\ seen' = seen + 1 /\ seen \in Nat /\ seen + 1 \in 1 .. Len(visits)
            /\ ~PointMode(options) \/ visits[seen + 1] \notin Matching,
         ~Succeeded' \/ ~PointMode(options)
  PROVE  PointHolds'
<1>1. /\ LatestOk(latest', seen') /\ NextOk(next', seen')
      /\ exit' = Running => ActiveOk(records', seen')
  BY PassedOver, Zenon DEF PointHolds
<1>2. LatestOk(latest, seen)' /\ NextOk(next, seen)'
      /\ (exit' = Running => ActiveOk(records, seen)')
  BY <1>1, SelectedStays
<1>3. PointAnswer'
  BY DEF PointAnswer, PointPrinted, PointAnswered, PointMode
<1> QED
  BY <1>2, <1>3 DEF PointHolds

\* Every step keeps what point mode has selected.
LEMMA PointStep ==
  ASSUME ProgramBase, PointHolds, [ProgramNext]_allVars
  PROVE  PointHolds'
<1>1. Len(visits) \in Nat /\ seen \in 0 .. Len(visits) /\ Inputs
  BY VisitedTyped DEF ProgramBase, Progress
<1>2. CASE ParseArguments
  <2>1. Unvisited
    BY <1>2 DEF ParseArguments, ProgramBase, Progress
  <2>2. Unvisited'
    BY <1>2, <2>1 DEF ParseArguments, Unvisited, SorterEmpty
  <2>3. Unvisited' => PointHolds'
    BY UnvisitedAnswers, PTL
  <2> QED
    BY <2>2, <2>3
<1>3. CASE Load
  <2>1. Unvisited /\ exit = Running /\ exit' = Running
    BY <1>1, <1>3 DEF Load, ProgramBase, Progress, Inputs, TracesTyped
  <2>2. (seen = 0 /\ latest = <<>> /\ next = <<>> /\ records = <<>>)'
    BY <1>3, <2>1 DEF Load, Unvisited
  <2>3. (LatestOk(latest, seen) /\ NextOk(next, seen) /\ ActiveOk(records, seen))'
    BY <2>2, NothingSelected, PTL
  <2>4. PointAnswer'
    BY <2>1 DEF PointAnswer, PointPrinted, PointAnswered, Succeeded, Running
  <2> QED
    BY <2>3, <2>4 DEF PointHolds
<1>4. CASE LoadFails
  <2>1. ~Succeeded' /\ exit = Running
    BY <1>4 DEF LoadFails, Throw, ExitStatus, Succeeded
  <2> QED
    BY <1>4, <2>1, SelectedKept DEF LoadFails
<1>5. CASE Skip
  <2>1. /\ seen' = seen + 1 /\ seen + 1 \in 1 .. Len(visits) /\ seen \in Nat
        /\ exit = Running /\ ~Succeeded'
        /\ UNCHANGED <<traces, options, visits, latest, next, records, exit>>
    BY <1>1, <1>5 DEF Skip, Visiting, Querying, Succeeded, Running
  <2>2. ~PointMode(options) \/ visits[seen + 1] \notin Matching
    BY <1>5 DEF Skip, Wanted, Matching
  <2> QED
    BY <2>1, <2>2, SelectedKept
<1>6. CASE Select
  <2> DEFINE r == visits[seen + 1]
  <2>1. /\ seen' = seen + 1 /\ seen + 1 \in 1 .. Len(visits) /\ seen \in Nat
        /\ exit = Running /\ exit' = Running /\ PointMode(options) /\ Matches(r)
        /\ UNCHANGED <<traces, options, visits>>
        /\ records' = IF /\ "active" \in options.flags /\ IsActive(r)
                         /\ Identity(r) \notin Identities(records)
                      THEN Append(records, r) ELSE records
        /\ latest' = IF "latest" \in options.flags /\ IsLater(r)
                     THEN With(latest, PointKey(r), r) ELSE latest
        /\ next' = IF "next" \in options.flags /\ IsSooner(r)
                   THEN With(next, PointKey(r), r) ELSE next
    BY <1>1, <1>6 DEF Select, Visiting, Querying, Wanted
  <2>2. r \in Matching
    BY <1>1, <2>1, VisitsFinite DEF Matching
  <2>3. LatestOk(latest', seen')
    BY <1>1, <2>1, <2>2, SelectLatest DEF PointHolds
  <2>4. NextOk(next', seen')
    BY <1>1, <2>1, <2>2, SelectNext DEF PointHolds
  <2>5. ActiveOk(records', seen')
    BY <1>1, <2>1, <2>2, SelectActive DEF PointHolds
  <2>6. PointAnswer'
    BY <2>1 DEF PointAnswer, PointPrinted, PointAnswered, Succeeded, Running
  <2> QED
    BY <2>1, <2>3, <2>4, <2>5, <2>6, SelectedStays DEF PointHolds
<1>7. CASE CountRecord \/ List
  <2>1. /\ seen' = seen + 1 /\ Visiting /\ ~PointMode(options)
        /\ UNCHANGED <<traces, options, visits, latest, next, records>>
    BY <1>7, Zenon DEF CountRecord, List, Listing
  <2>2. seen + 1 \in 1 .. Len(visits) /\ seen \in Nat /\ exit = Running
    BY <1>1, <2>1 DEF Visiting, Querying
  <2> QED
    BY <2>1, <2>2, SelectedKept
<1>8. CASE FinishListing \/ FinishCount
  <2>1. /\ seen' = seen /\ exit = Running /\ ~PointMode(options)
        /\ UNCHANGED <<traces, options, visits, latest, next, records>>
    BY <1>8 DEF FinishListing, FinishCount, Visited, Querying, Listing
  <2> QED
    BY <2>1, SelectedKept
<1>9. CASE FinishPoint
  <2>1. /\ exit = Running /\ exit' # Running
        /\ UNCHANGED <<traces, options, visits, latest, next, seen>>
    BY <1>9 DEF FinishPoint, Visited, Querying, Throw, ExitStatus, Running
  <2>2. LatestOk(latest, seen) /\ NextOk(next, seen) /\ ActiveOk(records, seen)
    BY <2>1 DEF PointHolds
  <2>3. PointAnswer'
    BY <1>9, <2>2, FinishPointAnswers
  <2>4. LatestOk(latest', seen') /\ NextOk(next', seen')
    BY <2>1, <2>2
  <2> QED
    BY <2>1, <2>3, <2>4, SelectedStays DEF PointHolds
<1>10. CASE RunCommand
  <2>1. /\ exit = Running /\ ~Succeeded'
        /\ UNCHANGED <<traces, options, visits, latest, next, records, seen>>
    BY <1>10 DEF RunCommand, Succeeded
  <2> QED
    BY <2>1, SelectedKept
<1>11. CASE UNCHANGED vars
  <2>1. UNCHANGED <<limit, truncated, traces, options, visits, latest, next, records, seen, exit,
                    printed, failure>>
    BY <1>11 DEF vars, sortVars, queryVars
  <2>2. LatestOk(latest', seen') /\ NextOk(next', seen')
        /\ (exit' = Running => ActiveOk(records', seen'))
    BY <2>1 DEF PointHolds
  <2>3. PointAnswer'
    <3>1. PointPrinted'
      BY <2>1, Zenon DEF PointHolds, PointAnswer, PointPrinted, Succeeded, PointMode, Before, KeyOf
    <3>2. PointAnswered' => PointAnswered
      BY <2>1, SelectionStays DEF PointAnswered, Succeeded, PointMode
    <3>3. PointAnswer
      BY DEF PointHolds
    <3>4. Matching' = Matching /\ options' = options /\ records' = records
      BY <2>1, SelectionStays
    <3>5. CASE ~PointAnswered'
      BY <3>1, <3>5, Zenon DEF PointAnswer
    <3>6. CASE PointAnswered
      <4>1. ASSUME NEW i \in DOMAIN records'
            PROVE  (\/ "active" \in options.flags /\ records[i] \in Matching /\ IsActive(records[i])
                    \/ "latest" \in options.flags /\ NewestBefore(records[i])
                    \/ "next" \in options.flags /\ EarliestAfter(records[i]))'
        <5>1. \/ "active" \in options.flags /\ records[i] \in Matching /\ IsActive(records[i])
              \/ "latest" \in options.flags /\ NewestBefore(records[i])
              \/ "next" \in options.flags /\ EarliestAfter(records[i])
          BY <3>3, <3>4, <3>6, Zenon DEF PointAnswer
        <5> QED
          BY <3>4, <5>1, Zenon DEF IsActive, NewestBefore, EarliestAfter
      <4>2. ASSUME NEW r \in Matching'
            PROVE  (/\ "active" \in options.flags /\ IsActive(r) => r \in Range(records)
                    /\ "latest" \in options.flags /\ r.time <= options.at =>
                         \E s \in Range(records) : SameSource(r, s) /\ NewestBefore(s)
                    /\ "next" \in options.flags /\ r.time >= options.at
                       /\ r.kind # "hardware-sample" =>
                         \E s \in Range(records) : SameSource(r, s) /\ EarliestAfter(s))'
        <5>1. /\ "active" \in options.flags /\ IsActive(r) => r \in Range(records)
              /\ "latest" \in options.flags /\ r.time <= options.at =>
                   \E s \in Range(records) : SameSource(r, s) /\ NewestBefore(s)
              /\ "next" \in options.flags /\ r.time >= options.at
                 /\ r.kind # "hardware-sample" =>
                   \E s \in Range(records) : SameSource(r, s) /\ EarliestAfter(s)
          BY <3>3, <3>4, <3>6, Zenon DEF PointAnswer
        <5> QED
          BY <3>4, <5>1, Zenon DEF IsActive, NewestBefore, EarliestAfter, SameSource
      <4> QED
        BY <3>1, <4>1, <4>2, Zenon DEF PointAnswer
    <3> QED
      BY <3>2, <3>5, <3>6
  <2> QED
    BY <2>1, <2>2, <2>3, SelectedStays DEF PointHolds
<1>12. CASE RunQuery
  BY <1>3, <1>4, <1>5, <1>6, <1>7, <1>8, <1>9, <1>11, <1>12 DEF RunQuery, Next, Done
<1> QED
  BY <1>2, <1>10, <1>11, <1>12 DEF ProgramNext, allVars

\* At the start nothing is selected.
LEMMA PointInit == ProgramInit => PointHolds
<1> SUFFICES ASSUME ProgramInit PROVE PointHolds
  OBVIOUS
<1>1. Unvisited
  BY DEF ProgramInit, Fresh, SortInit, Unvisited, SorterEmpty
<1> QED
  BY <1>1, UnvisitedAnswers

\* A query with --at prints, in the order of a listing, the records asked for
\* and no others: for all traces, options and times, and however std::sort and
\* the maps of sources order what they are given.
THEOREM PointModeAnswers == ProgramSpec => []PointAnswer
<1>1. ProgramBase /\ PointHolds => PointAnswer
  BY DEF PointHolds
<1>2. ProgramInit => ProgramBase /\ PointHolds
  BY BaseInit, PointInit
<1>3. ProgramBase /\ PointHolds /\ [ProgramNext]_allVars => (ProgramBase /\ PointHolds)'
  BY BaseStep, PointStep
<1> QED
  BY <1>1, <1>2, <1>3, PTL DEF ProgramSpec

-----------------------------------------------------------------------------
(* Counting. *)

\* The tally of the records of rs whose numbers are in S.
TallyOf(tally, rs, S) ==
  /\ DOMAIN tally = {GroupOf(rs[i]) : i \in S}
  /\ \A g \in DOMAIN tally : tally[g] = Cardinality({i \in S : GroupOf(rs[i]) = g})

\* One more record counted is one more in its group.
LEMMA TallyMore ==
  ASSUME NEW rs, NEW S, IsFiniteSet(S), NEW n, n \notin S, NEW tally, TallyOf(tally, rs, S)
  PROVE  TallyOf(Tally(tally, rs[n]), rs, S \cup {n})
<1> DEFINE r == rs[n]
           new == Tally(tally, r)
           T == S \cup {n}
           In(U, g) == {i \in U : GroupOf(rs[i]) = g}
<1>1. /\ DOMAIN new = DOMAIN tally \cup {GroupOf(r)}
      /\ \A g \in DOMAIN new :
           new[g] = IF g = GroupOf(r)
                    THEN (IF g \in DOMAIN tally THEN tally[g] ELSE 0) + 1 ELSE tally[g]
  BY DEF Tally, With
<1> HIDE DEF new
<1>2. DOMAIN new = {GroupOf(rs[i]) : i \in T}
  BY <1>1 DEF TallyOf
<1>3. \A g : IsFiniteSet(In(S, g)) /\ Cardinality(In(S, g)) \in Nat
  <2>1. \A g : In(S, g) \subseteq S
    OBVIOUS
  <2> HIDE DEF In
  <2> QED
    BY <2>1, FS_Subset, FS_CardinalityType
<1>4. \A g : In(T, g) = IF g = GroupOf(r) THEN In(S, g) \cup {n} ELSE In(S, g)
  OBVIOUS
<1>5. \A g : n \notin In(S, g)
  OBVIOUS
<1>6. \A g : g \notin DOMAIN tally => In(S, g) = {}
  BY DEF TallyOf
<1>7. \A g \in DOMAIN tally : tally[g] = Cardinality(In(S, g))
  BY DEF TallyOf
<1> HIDE DEF In
<1>8. Cardinality({}) = 0
  BY FS_EmptySet
<1>9. ASSUME NEW g \in DOMAIN new PROVE new[g] = Cardinality(In(T, g))
  <2>1. CASE g = GroupOf(r)
    <3>1. Cardinality(In(T, g)) = Cardinality(In(S, g)) + 1
      <4>1. In(T, g) = In(S, g) \cup {n} /\ n \notin In(S, g) /\ IsFiniteSet(In(S, g))
        BY <1>3, <1>4, <1>5, <2>1
      <4> QED
        BY <4>1, FS_AddElement
    <3>2. (IF g \in DOMAIN tally THEN tally[g] ELSE 0) = Cardinality(In(S, g))
      BY <1>6, <1>7, <1>8
    <3> HIDE DEF r
    <3> QED
      BY <1>1, <2>1, <3>1, <3>2
  <2>2. CASE g # GroupOf(r)
    <3>1. g \in DOMAIN tally /\ new[g] = tally[g]
      BY <1>1, <2>2
    <3>2. In(T, g) = In(S, g)
      BY <1>4, <2>2
    <3> QED
      BY <1>7, <3>1, <3>2
  <2> QED
    BY <2>1, <2>2
<1> QED
  BY <1>2, <1>9 DEF TallyOf, In, new

\* The tallies of the records of rs are functions from some of their groups.
LEMMA TallyTyped ==
  ASSUME NEW G, NEW tally \in UNION {[D -> Nat] : D \in SUBSET G}, NEW r, GroupOf(r) \in G
  PROVE  Tally(tally, r) \in UNION {[D -> Nat] : D \in SUBSET G}
<1>1. PICK D \in SUBSET G : tally \in [D -> Nat]
  OBVIOUS
<1> DEFINE g == GroupOf(r)
           E == D \cup {g}
           new == Tally(tally, r)
<1>2. new = [j \in E |-> IF j = g THEN (IF g \in DOMAIN tally THEN tally[g] ELSE 0) + 1 ELSE tally[j]]
  BY <1>1 DEF Tally, With
<1> HIDE DEF new, g
<1>3. \A j \in E : (IF j = g THEN (IF g \in DOMAIN tally THEN tally[g] ELSE 0) + 1 ELSE tally[j]) \in Nat
  BY <1>1
<1>4. new \in [E -> Nat]
  BY <1>2, <1>3
<1>5. E \in SUBSET G
  BY <1>1 DEF g
<1> HIDE DEF E
<1> QED
  BY <1>4, <1>5 DEF new

\* What the loop of count_record over the selected records computes.
LEMMA TalliedIs ==
  ASSUME NEW V, NEW rs \in Seq(V)
  PROVE  TallyOf(Tallied(<<>>, rs), rs, DOMAIN rs)
<1> DEFINE N == Len(rs)
           G == {GroupOf(rs[i]) : i \in DOMAIN rs}
           W == UNION {[D -> Nat] : D \in SUBSET G}
           step == [n \in Nat |-> [t \in W |-> IF n \in 1 .. N THEN Tally(t, rs[n]) ELSE t]]
           Eq(f) == f = [n \in 0 .. N |-> IF n = 0 THEN <<>> ELSE Tally(f[n - 1], rs[n])]
           upTo == CHOOSE f : Eq(f)
<1>1. N \in Nat /\ DOMAIN rs = 1 .. N
  OBVIOUS
<1>2. <<>> \in W
  <2>1. <<>> \in [{} -> Nat] /\ {} \in SUBSET G
    OBVIOUS
  <2> QED
    BY <2>1
<1>3. step \in [Nat -> [W -> W]]
  <2>1. ASSUME NEW n \in Nat, NEW t \in W
        PROVE  (IF n \in 1 .. N THEN Tally(t, rs[n]) ELSE t) \in W
    <3>1. CASE n \in 1 .. N
      <4>1. GroupOf(rs[n]) \in G
        BY <1>1, <3>1
      <4> HIDE DEF G
      <4> QED
        BY <3>1, <4>1, TallyTyped
    <3> QED
      BY <3>1
  <2> HIDE DEF W
  <2> QED
    BY <2>1
<1> HIDE DEF N, W
<1>4. PICK g : Computed(W, <<>>, step, N, g)
  BY <1>1, <1>2, <1>3, Recursion
<1>5. \A n \in 1 .. N : g[n] = Tally(g[n - 1], rs[n])
  <2> TAKE n \in 1 .. N
  <2>1. n \in Nat /\ n - 1 \in 0 .. N
    BY <1>1
  <2>2. g[n - 1] \in W
    BY <1>4, <2>1 DEF Computed
  <2>3. g[n] = step[n][g[n - 1]]
    BY <1>4 DEF Computed
  <2> QED
    BY <2>1, <2>2, <2>3
<1> HIDE DEF step
<1>6. Eq(g)
  <2>1. g = [n \in 0 .. N |-> g[n]]
    BY <1>4 DEF Computed
  <2>2. \A n \in 0 .. N : g[n] = IF n = 0 THEN <<>> ELSE Tally(g[n - 1], rs[n])
    <3> TAKE n \in 0 .. N
    <3>1. CASE n = 0
      BY <1>4, <3>1 DEF Computed
    <3>2. CASE n # 0
      <4>1. n \in 1 .. N
        BY <1>1, <3>2
      <4> QED
        BY <1>5, <3>2, <4>1
    <3> QED
      BY <3>1, <3>2
  <2> QED
    BY <2>1, <2>2, Zenon
<1>7. Eq(upTo)
  <2> HIDE DEF Eq
  <2> QED
    BY <1>6
<1>8. Tallied(<<>>, rs) = upTo[N]
  BY DEF Tallied, N
<1> HIDE DEF upTo
<1>9. upTo[0] = <<>> /\ \A n \in 1 .. N : upTo[n] = Tally(upTo[n - 1], rs[n])
  <2>1. 0 \in 0 .. N /\ \A n \in 1 .. N : n \in 0 .. N /\ n # 0
    BY <1>1
  <2>2. \A n \in 0 .. N : upTo[n] = IF n = 0 THEN <<>> ELSE Tally(upTo[n - 1], rs[n])
    BY <1>7, Zenon
  <2> QED
    BY <2>1, <2>2
<1> DEFINE P == {n \in Nat : n \in 0 .. N => TallyOf(upTo[n], rs, 1 .. n)}
<1>10. 0 \in P
  <2>1. 1 .. 0 = {}
    OBVIOUS
  <2>2. TallyOf(<<>>, rs, {})
    BY DEF TallyOf
  <2> QED
    BY <1>9, <2>1, <2>2
<1>11. ASSUME NEW n \in P PROVE n + 1 \in P
  <2> SUFFICES ASSUME n + 1 \in 0 .. N PROVE TallyOf(upTo[n + 1], rs, 1 .. (n + 1))
    OBVIOUS
  <2>1. n \in Nat /\ n \in 0 .. N /\ n + 1 \in 1 .. N /\ (n + 1) - 1 = n
    BY <1>1
  <2>2. TallyOf(upTo[n], rs, 1 .. n)
    BY <2>1
  <2> HIDE DEF P
  <2>3. upTo[n + 1] = Tally(upTo[n], rs[n + 1])
    BY <1>9, <2>1
  <2>4. IsFiniteSet(1 .. n)
    BY <2>1, FS_Interval
  <2>5. n + 1 \notin 1 .. n /\ 1 .. (n + 1) = (1 .. n) \cup {n + 1}
    BY <2>1
  <2> HIDE DEF Eq
  <2>6. TallyOf(Tally(upTo[n], rs[n + 1]), rs, (1 .. n) \cup {n + 1})
    BY <2>2, <2>4, <2>5, TallyMore
  <2> QED
    BY <2>3, <2>5, <2>6, Zenon
<1>12. P \in SUBSET Nat
  OBVIOUS
<1> HIDE DEF P
<1>13. P = Nat
  BY <1>10, <1>11, <1>12, NatSetInduction
<1>14. TallyOf(upTo[N], rs, 1 .. N)
  BY <1>1, <1>13 DEF P
<1> QED
  BY <1>1, <1>8, <1>14

WantedTo(n) == {i \in 1 .. n : Wanted(visits[i])}

\* What the counters hold of the records visited, and of the selected ones.
Counted ==
  /\ count = Cardinality(WantedTo(seen))
  /\ options.groupBy # <<>> => TallyOf(groups, visits, WantedTo(seen))

SelectedCounted ==
  /\ count = Cardinality(DOMAIN records)
  /\ options.groupBy # <<>> => TallyOf(groups, records, DOMAIN records)

\* The invariant of count mode.
CountHolds ==
  /\ options.command = "query" /\ ~PointMode(options) /\ options.count => Counted
  /\ PointMode(options) /\ exit = Running => groups = <<>>
  /\ PointMode(options) /\ options.count /\ Succeeded => SelectedCounted

\* Before the first visit nothing is counted.
LEMMA NothingCounted ==
  ASSUME seen = 0, count = 0, groups = <<>>
  PROVE  Counted
<1>1. WantedTo(seen) = {}
  BY DEF WantedTo
<1>2. TallyOf(<<>>, visits, {})
  BY DEF TallyOf
<1> QED
  BY <1>1, <1>2, FS_EmptySet DEF Counted

\* Before the query there is nothing to count.
LEMMA UnvisitedCounts == ASSUME Unvisited PROVE CountHolds
<1>1. /\ seen = 0 /\ count = 0 /\ groups = <<>> /\ records = <<>> /\ DOMAIN records = {}
  BY DEF Unvisited
<1>2. TallyOf(<<>>, records, {})
  BY DEF TallyOf
<1>3. SelectedCounted
  BY <1>1, <1>2, FS_EmptySet DEF SelectedCounted
<1> QED
  BY <1>1, <1>3, NothingCounted DEF CountHolds

\* The counters stay right.
LEMMA CountedStays ==
  ASSUME UNCHANGED <<traces, options, visits, seen, count, groups>>, Counted
  PROVE  Counted'
<1>1. \A r : (Wanted(r)' <=> Wanted(r)) /\ GroupOf(r)' = GroupOf(r)
  BY WantedStays
<1>2. WantedTo(seen)' = WantedTo(seen)
  BY <1>1, Zenon DEF WantedTo
<1>3. TallyOf(groups, visits, WantedTo(seen)) => TallyOf(groups, visits, WantedTo(seen))'
  BY <1>1, <1>2, Zenon DEF TallyOf
<1> QED
  BY <1>2, <1>3 DEF Counted

\* One more visit adds its place, if its record is asked for.
LEMMA WantedToMore ==
  ASSUME seen \in Nat
  PROVE  /\ IsFiniteSet(WantedTo(seen)) /\ seen + 1 \notin WantedTo(seen)
         /\ WantedTo(seen + 1) =
              IF Wanted(visits[seen + 1]) THEN WantedTo(seen) \cup {seen + 1} ELSE WantedTo(seen)
<1>1. WantedTo(seen) \subseteq 1 .. seen /\ IsFiniteSet(1 .. seen) /\ seen + 1 \notin 1 .. seen
  BY FS_Interval DEF WantedTo
<1>2. IsFiniteSet(WantedTo(seen))
  BY <1>1, FS_Subset
<1>3. 1 .. (seen + 1) = (1 .. seen) \cup {seen + 1}
  OBVIOUS
<1>4. WantedTo(seen + 1) =
        IF Wanted(visits[seen + 1]) THEN WantedTo(seen) \cup {seen + 1} ELSE WantedTo(seen)
  BY <1>3, Zenon DEF WantedTo
<1> QED
  BY <1>1, <1>2, <1>4

\* Also when one more record has been visited.
LEMMA CountedMore ==
  ASSUME UNCHANGED <<traces, options, visits>>, Counted, seen \in Nat, seen' = seen + 1,
         IF Wanted(visits[seen + 1])
         THEN /\ count' = count + 1
              /\ groups' = IF options.groupBy = <<>> THEN groups
                           ELSE Tally(groups, visits[seen + 1])
         ELSE count' = count /\ groups' = groups
  PROVE  Counted'
<1>1. \A r : (Wanted(r)' <=> Wanted(r)) /\ GroupOf(r)' = GroupOf(r)
  BY WantedStays
<1> DEFINE S == WantedTo(seen)
           T == WantedTo(seen + 1)
<1>2. WantedTo(seen)' = T
  BY <1>1, Zenon DEF WantedTo
<1>3. /\ IsFiniteSet(S) /\ seen + 1 \notin S
      /\ T = IF Wanted(visits[seen + 1]) THEN S \cup {seen + 1} ELSE S
  BY WantedToMore
<1>4. count = Cardinality(S) /\ (options.groupBy # <<>> => TallyOf(groups, visits, S))
  BY DEF Counted
<1> HIDE DEF S, T
<1>5. count' = Cardinality(T) /\ (options.groupBy # <<>> => TallyOf(groups', visits, T))
  <2>1. CASE Wanted(visits[seen + 1])
    <3>1. Cardinality(S \cup {seen + 1}) = Cardinality(S) + 1
      BY <1>3, FS_AddElement
    <3>2. options.groupBy # <<>> => TallyOf(Tally(groups, visits[seen + 1]), visits, S \cup {seen + 1})
      BY <1>3, <1>4, TallyMore
    <3> QED
      BY <1>3, <1>4, <2>1, <3>1, <3>2
  <2>2. CASE ~Wanted(visits[seen + 1])
    BY <1>3, <1>4, <2>2
  <2> QED
    BY <2>1, <2>2
<1>6. TallyOf(groups', visits, T) => TallyOf(groups, visits, WantedTo(seen))'
  BY <1>1, <1>2, Zenon DEF TallyOf
<1> QED
  BY <1>2, <1>5, <1>6 DEF Counted

\* A step that is not of count mode.
LEMMA NotCounted ==
  ASSUME CountHolds, UNCHANGED <<traces, options, visits>>,
         exit' = Running => exit = Running,
         ~options.count \/ UNCHANGED <<seen, count, groups>> \/ PointMode(options)
           \/ options.command # "query",
         PointMode(options) => groups' = groups,
         ~Succeeded' \/ ~options.count \/ ~PointMode(options)
  PROVE  CountHolds'
<1>1. /\ ~PointMode(options') <=> ~PointMode(options)
      /\ options' = options
  BY DEF PointMode
<1>2. options.command = "query" /\ ~PointMode(options) /\ options.count => Counted'
  BY CountedStays DEF CountHolds
<1>3. PointMode(options') /\ exit' = Running => groups' = <<>>
  BY <1>1 DEF CountHolds
<1> QED
  BY <1>1, <1>2, <1>3 DEF CountHolds, PointMode

\* Every step keeps the counts.
LEMMA CountStep ==
  ASSUME ProgramBase, PointHolds, CountHolds, [ProgramNext]_allVars
  PROVE  CountHolds'
<1>1. Len(visits) \in Nat /\ seen \in 0 .. Len(visits) /\ Inputs
  BY VisitedTyped DEF ProgramBase, Progress
<1>2. CASE ParseArguments
  <2>1. Unvisited
    BY <1>2 DEF ParseArguments, ProgramBase, Progress
  <2>2. Unvisited'
    BY <1>2, <2>1 DEF ParseArguments, Unvisited, SorterEmpty
  <2>3. Unvisited' => CountHolds'
    BY UnvisitedCounts, PTL
  <2> QED
    BY <2>2, <2>3
<1>3. CASE Load
  <2>1. Unvisited /\ exit = Running /\ exit' = Running
    BY <1>1, <1>3 DEF Load, ProgramBase, Progress, Inputs, TracesTyped
  <2>2. (seen = 0 /\ count = 0 /\ groups = <<>>)'
    BY <1>3, <2>1 DEF Load, Unvisited
  <2>3. Counted'
    BY <2>2, NothingCounted, PTL
  <2> QED
    BY <2>1, <2>2, <2>3 DEF CountHolds, Succeeded, Running
<1>4. CASE LoadFails
  <2>1. ~Succeeded' /\ exit = Running
    BY <1>4 DEF LoadFails, Throw, ExitStatus, Succeeded
  <2> QED
    BY <1>4, <2>1, NotCounted DEF LoadFails
<1>5. CASE Skip \/ CountRecord
  <2>1. /\ Visiting /\ seen' = seen + 1 /\ exit' = exit /\ seen \in Nat
        /\ UNCHANGED <<traces, options, visits>>
        /\ IF Wanted(visits[seen + 1])
           THEN /\ count' = count + 1
                /\ groups' = IF options.groupBy = <<>> THEN groups
                             ELSE Tally(groups, visits[seen + 1])
           ELSE count' = count /\ groups' = groups
        /\ PointMode(options) => groups' = groups
    BY <1>1, <1>5 DEF Skip, CountRecord
  <2>2. exit = Running /\ ~Succeeded'
    BY <2>1 DEF Visiting, Querying, Succeeded, Running
  <2>3. Counted => Counted'
    BY <2>1, CountedMore
  <2> QED
    BY <2>1, <2>2, <2>3 DEF CountHolds, PointMode
<1>6. CASE Select
  <2>1. /\ exit = Running /\ ~Succeeded' /\ PointMode(options)
        /\ UNCHANGED <<traces, options, visits, groups, exit>>
    BY <1>6 DEF Select, Visiting, Querying, Succeeded, Running
  <2> QED
    BY <2>1, NotCounted
<1>7. CASE List \/ FinishListing
  <2>1. /\ exit = Running /\ Listing(options)
        /\ UNCHANGED <<traces, options, visits, groups>>
    BY <1>7 DEF List, FinishListing, Visiting, Visited, Querying
  <2> QED
    BY <2>1, NotCounted DEF Listing
<1>8. CASE FinishCount
  <2>1. /\ exit = Running /\ ~PointMode(options)
        /\ UNCHANGED <<traces, options, visits, seen, count, groups>>
    BY <1>8 DEF FinishCount, Visited, Querying
  <2> QED
    BY <2>1, NotCounted
<1>9. CASE FinishPoint
  <2>1. /\ exit = Running /\ exit' # Running /\ PointMode(options)
        /\ UNCHANGED <<traces, options, visits>>
    BY <1>9 DEF FinishPoint, Visited, Querying, Throw, ExitStatus, Running
  <2>2. truncated \in BOOLEAN
    BY DEF ProgramBase, IInv, SortTypeOK
  <2>3. groups = <<>>
    BY <2>1 DEF CountHolds
  <2>4. /\ records' \in PointOrders(Joined(Joined(records, latest), next))
        /\ options.count =>
             /\ count' = Len(records')
             /\ groups' = IF options.groupBy = <<>> THEN <<>> ELSE Tallied(<<>>, records')
    BY <1>9, <2>2, <2>3, PointOutcome
  <2>5. records' \in Seq(Range(visits))
    BY <1>9, <2>1, FinishPointAnswers DEF PointHolds
  <2>6. /\ Len(records') = Cardinality(DOMAIN records')
        /\ TallyOf(Tallied(<<>>, records'), records', DOMAIN records')
    BY <2>5, FS_Interval, TalliedIs
  <2>7. \A tally : TallyOf(tally, records', DOMAIN records') /\ groups' = tally =>
                   TallyOf(groups, records, DOMAIN records)'
    <3>1. \A r : GroupOf(r)' = GroupOf(r)
      BY <2>1, WantedStays
    <3> QED
      BY <3>1, Zenon DEF TallyOf
  <2>8. options.count => SelectedCounted'
    BY <2>1, <2>4, <2>6, <2>7 DEF SelectedCounted
  <2> QED
    BY <2>1, <2>8 DEF CountHolds, PointMode
<1>10. CASE RunCommand
  <2>1. /\ exit = Running /\ ~Succeeded' /\ options.command # "query"
        /\ UNCHANGED <<traces, options, visits, groups>>
    BY <1>10 DEF RunCommand, Succeeded
  <2> QED
    BY <2>1, NotCounted
<1>11. CASE UNCHANGED vars
  <2>1. UNCHANGED <<traces, options, visits, seen, count, groups, records, exit, failure>>
    BY <1>11 DEF vars, queryVars
  <2>2. Counted => Counted'
    BY <2>1, CountedStays
  <2>3. SelectedCounted => SelectedCounted'
    <3>1. \A r : GroupOf(r)' = GroupOf(r)
      BY <2>1, WantedStays
    <3> QED
      BY <2>1, <3>1, Zenon DEF SelectedCounted, TallyOf
  <2> QED
    BY <2>1, <2>2, <2>3, Zenon DEF CountHolds, Succeeded, PointMode
<1>12. CASE RunQuery
  BY <1>3, <1>4, <1>5, <1>6, <1>7, <1>8, <1>9, <1>11, <1>12 DEF RunQuery, Next, Done
<1> QED
  BY <1>2, <1>10, <1>11, <1>12 DEF ProgramNext, allVars

\* At the start nothing is counted.
LEMMA CountInit == ProgramInit => CountHolds
<1> SUFFICES ASSUME ProgramInit PROVE CountHolds
  OBVIOUS
<1>1. Unvisited
  BY DEF ProgramInit, Fresh, SortInit, Unvisited, SorterEmpty
<1> QED
  BY <1>1, UnvisitedCounts

\* The counts at the end are the answer of count and summary.
LEMMA CountsAnswer == ProgramBase /\ CountHolds => CountAnswer
<1> SUFFICES ASSUME ProgramBase, CountHolds, Succeeded, options.count PROVE CountAnswer
  BY DEF CountAnswer
<1>1. CASE PointMode(options)
  <2>1. SelectedCounted
    BY <1>1 DEF CountHolds
  <2> QED
    BY <1>1, <2>1, Zenon DEF CountAnswer, SelectedCounted, TallyOf, Occurrences
<1>2. CASE ~PointMode(options)
  <2>1. Counted /\ seen = Len(visits) /\ DOMAIN visits = 1 .. Len(visits)
    BY <1>2, VisitedTyped DEF CountHolds, Succeeded, ProgramBase, Progress, Inputs, VisitsGood
  <2>2. \A i \in DOMAIN visits : Asked(visits[i]) <=> Wanted(visits[i])
    <3> TAKE i \in DOMAIN visits
    <3>1. visits # <<>> /\ RecordTyped(visits[i])
      BY DEF ProgramBase, Inputs, VisitsGood
    <3>2. OptionsTyped(options) /\ ValidOptions(options)
      BY <3>1 DEF ProgramBase, Inputs, Progress
    <3> QED
      BY <1>2, <3>1, <3>2, AskedIsWanted
  <2> DEFINE S == {i \in DOMAIN visits : Asked(visits[i])}
  <2>3. WantedTo(seen) = S
    BY <2>1, <2>2 DEF WantedTo
  <2>4. \A g : {i \in S : GroupOf(visits[i]) = g} =
                 {i \in DOMAIN visits : Asked(visits[i]) /\ GroupOf(visits[i]) = g}
    OBVIOUS
  <2> QED
    BY <1>2, <2>1, <2>3, <2>4, Zenon DEF CountAnswer, Counted, TallyOf, Occurrences
<1> QED
  BY <1>1, <1>2

\* --count says how many records the query lists, and --group-by divides that
\* number among the groups there are, for all traces, options and groupings.
THEOREM CountsAreRight == ProgramSpec => []CountAnswer
<1>1. ProgramBase /\ CountHolds => CountAnswer
  BY CountsAnswer
<1>2. ProgramInit => ProgramBase /\ PointHolds /\ CountHolds
  BY BaseInit, PointInit, CountInit
<1>3. ProgramBase /\ PointHolds /\ CountHolds /\ [ProgramNext]_allVars =>
        (ProgramBase /\ PointHolds /\ CountHolds)'
  BY BaseStep, PointStep, CountStep
<1> QED
  BY <1>1, <1>2, <1>3, PTL DEF ProgramSpec

-----------------------------------------------------------------------------
(* Listing. *)

\* Where the loops of run_query found each record that was given to the sorter:
\* every wanted record was, and once.
PlacedBy(place) ==
  /\ place \in [Numbers -> WantedTo(seen)]
  /\ \A i, j \in Numbers : place[i] = place[j] => i = j
  /\ \A w \in WantedTo(seen) : \E i \in Numbers : place[i] = w
  /\ \A i \in Numbers : added[i] = KeyOf(visits[place[i]])

\* The invariant of a listing.
ListHolds ==
  /\ Listing(options) /\ failure = "none" => \E place : PlacedBy(place)
  /\ Listing(options) /\ Succeeded => stage = "done" \/ Unvisited

\* Before the first visit nothing is listed.
LEMMA NothingListed ==
  ASSUME seen = 0, added = <<>>
  PROVE  \E place : PlacedBy(place)
<1>1. WantedTo(seen) = {} /\ Numbers = {}
  BY DEF WantedTo, Numbers
<1>2. <<>> \in [Numbers -> WantedTo(seen)]
  BY <1>1
<1>3. PlacedBy(<<>>)
  BY <1>1, <1>2 DEF PlacedBy
<1> QED
  BY <1>3

\* Before the query there is nothing to list.
LEMMA UnvisitedLists == ASSUME Unvisited PROVE ListHolds
BY NothingListed DEF ListHolds, Unvisited, SorterEmpty

\* Places stay when neither the visits nor the listed records change.
LEMMA PlacedStays ==
  ASSUME UNCHANGED <<added, visits>>, WantedTo(seen)' = WantedTo(seen), \E place : PlacedBy(place)
  PROVE  \E place : PlacedBy(place)'
<1>1. PICK place : PlacedBy(place)
  OBVIOUS
<1>2. Numbers' = Numbers
  BY DEF Numbers
<1>3. PlacedBy(place)'
  BY <1>1, <1>2, Zenon DEF PlacedBy, KeyOf
<1> QED
  BY <1>3

\* A record given to the sorter has the place it was found at.
LEMMA PlacedMore ==
  ASSUME added \in Seq(Keys), seen \in Nat, UNCHANGED <<traces, options, visits>>,
         seen' = seen + 1, Wanted(visits[seen + 1]),
         added' = Append(added, KeyOf(visits[seen + 1])), \E place : PlacedBy(place)
  PROVE  \E place : PlacedBy(place)'
<1> DEFINE S == WantedTo(seen)
           T == WantedTo(seen + 1)
           n == Len(added) + 1
           w == seen + 1
<1>1. PICK place : PlacedBy(place)
  OBVIOUS
<1>2. T = S \cup {w} /\ w \notin S
  BY WantedToMore
<1>3. WantedTo(seen)' = T
  <2>1. \A r : Wanted(r)' <=> Wanted(r)
    BY WantedStays
  <2> QED
    BY <2>1, Zenon DEF WantedTo
<1>4. /\ Numbers' = Numbers \cup {n} /\ n \notin Numbers
      /\ added'[n] = KeyOf(visits[w]) /\ \A i \in Numbers : added'[i] = added[i]
  <2>1. Len(added) \in Nat /\ Len(added') = n
    OBVIOUS
  <2> QED
    BY <2>1 DEF Numbers
<1> DEFINE new == [i \in Numbers \cup {n} |-> IF i = n THEN w ELSE place[i]]
<1>5. new[n] = w /\ \A i \in Numbers : new[i] = place[i]
  BY <1>4
<1>6. place \in [Numbers -> S]
  BY <1>1 DEF PlacedBy
<1> HIDE DEF S, T, n, w
<1>7. new \in [Numbers' -> T]
  BY <1>2, <1>4, <1>6
<1> HIDE DEF new
<1>8. \A i, j \in Numbers' : new[i] = new[j] => i = j
  <2> SUFFICES ASSUME NEW i \in Numbers', NEW j \in Numbers', new[i] = new[j] PROVE i = j
    OBVIOUS
  <2>1. \A m \in Numbers : new[m] \in S
    BY <1>5, <1>6
  <2>2. CASE i \in Numbers /\ j \in Numbers
    BY <1>1, <1>5, <2>2 DEF PlacedBy
  <2>3. CASE i = n /\ j = n
    BY <2>3
  <2>4. CASE i = n /\ j \in Numbers
    BY <1>2, <1>5, <2>1, <2>4
  <2>5. CASE j = n /\ i \in Numbers
    BY <1>2, <1>5, <2>1, <2>5
  <2> QED
    BY <1>4, <2>2, <2>3, <2>4, <2>5
<1>9. \A v \in T : \E i \in Numbers' : new[i] = v
  <2>1. \A v \in S : \E i \in Numbers : place[i] = v
    BY <1>1 DEF PlacedBy, S
  <2> QED
    BY <1>2, <1>4, <1>5, <2>1
<1>10. \A i \in Numbers' : added'[i] = KeyOf(visits[new[i]])
  <2>1. \A i \in Numbers : added[i] = KeyOf(visits[place[i]])
    BY <1>1 DEF PlacedBy
  <2> QED
    BY <1>4, <1>5, <2>1
<1>11. PICK all : all = new
  OBVIOUS
<1>12. PlacedBy(all)'
  <2>1. all \in [Numbers' -> WantedTo(seen)']
    BY <1>3, <1>7, <1>11
  <2>2. \A v \in WantedTo(seen)' : \E i \in Numbers' : all[i] = v
    BY <1>3, <1>9, <1>11
  <2>3. \A i \in Numbers' : (added[i] = KeyOf(visits[all[i]]))'
    BY <1>10, <1>11 DEF KeyOf
  <2> QED
    BY <1>8, <1>11, <2>1, <2>2, <2>3, Zenon DEF PlacedBy
<1> QED
  BY <1>12

\* Every step keeps a place for every listed record.
LEMMA ListStep ==
  ASSUME ProgramBase, ListHolds, [ProgramNext]_allVars
  PROVE  ListHolds'
<1>1. Len(visits) \in Nat /\ seen \in 0 .. Len(visits) /\ Inputs /\ added \in Seq(Keys)
  BY VisitedTyped DEF ProgramBase, Progress, IInv, SortTypeOK
<1>2. CASE ParseArguments
  <2>1. Unvisited
    BY <1>2 DEF ParseArguments, ProgramBase, Progress
  <2>2. Unvisited'
    BY <1>2, <2>1 DEF ParseArguments, Unvisited, SorterEmpty
  <2>3. Unvisited' => ListHolds'
    BY UnvisitedLists, PTL
  <2> QED
    BY <2>2, <2>3
<1>3. CASE Load
  <2>1. Unvisited /\ exit = Running /\ exit' = Running
    BY <1>1, <1>3 DEF Load, ProgramBase, Progress, Inputs, TracesTyped
  <2>2. (seen = 0 /\ added = <<>>)'
    BY <1>3, <2>1 DEF Load, Unvisited, SorterEmpty, sortVars
  <2>3. (\E place : PlacedBy(place))'
    BY <2>2, NothingListed, PTL
  <2> QED
    BY <2>1, <2>3 DEF ListHolds, Succeeded, Running
\* A step that leaves what was given to the sorter.
<1>4. ASSUME UNCHANGED <<traces, options, visits, added>>, failure' = "none" => failure = "none",
             WantedTo(seen)' = WantedTo(seen),
             Succeeded' => ~Listing(options) \/ stage' = "done"
      PROVE  ListHolds'
  <2>1. Listing(options)' <=> Listing(options)
    BY <1>4 DEF Listing, PointMode
  <2>2. Listing(options) /\ failure' = "none" => (\E place : PlacedBy(place))'
    BY <1>4, PlacedStays DEF ListHolds
  <2> QED
    BY <1>4, <2>1, <2>2 DEF ListHolds
<1>5. ASSUME UNCHANGED <<traces, options, visits, seen>>
      PROVE  WantedTo(seen)' = WantedTo(seen)
  <2>1. \A r : Wanted(r)' <=> Wanted(r)
    BY <1>5, WantedStays
  <2> QED
    BY <1>5, <2>1, Zenon DEF WantedTo
<1>6. CASE LoadFails
  BY <1>4, <1>5, <1>6 DEF LoadFails, Throw, ExitStatus, Succeeded, sortVars
<1>7. CASE Skip
  <2>1. /\ UNCHANGED <<traces, options, visits, added, failure, exit>> /\ exit = Running
        /\ seen' = seen + 1 /\ ~Wanted(visits[seen + 1])
    BY <1>7 DEF Skip, Visiting, Querying, sortVars
  <2>2. \A r : Wanted(r)' <=> Wanted(r)
    BY <2>1, WantedStays
  <2>3. WantedTo(seen)' = WantedTo(seen + 1)
    BY <2>1, <2>2, Zenon DEF WantedTo
  <2>4. WantedTo(seen + 1) = WantedTo(seen)
    BY <1>1, <2>1, WantedToMore
  <2> QED
    BY <1>4, <2>1, <2>3, <2>4 DEF Succeeded, Running
<1>8. CASE List
  <2>1. /\ UNCHANGED <<traces, options, visits>> /\ exit = Running /\ seen' = seen + 1
        /\ Wanted(visits[seen + 1]) /\ Listing(options)
    BY <1>8 DEF List, Visiting, Querying
  <2>2. CASE Add(KeyOf(visits[seen + 1])) /\ UNCHANGED <<failure, exit>>
    <3>1. added' = Append(added, KeyOf(visits[seen + 1]))
      BY <2>2 DEF Add
    <3>2. Listing(options) /\ failure' = "none" => (\E place : PlacedBy(place))'
      BY <1>1, <2>1, <2>2, <3>1, PlacedMore DEF ListHolds
    <3>3. ~Succeeded'
      BY <2>1, <2>2 DEF Succeeded, Running
    <3> QED
      BY <2>1, <3>2, <3>3 DEF ListHolds
  <2>3. CASE AddFails /\ Throw("sort run")
    <3>1. failure' = "sort run"
      BY <2>3 DEF Throw
    <3>2. failure' # "none"
      BY <3>1
    <3> QED
      BY <3>2, Zenon DEF ListHolds, Succeeded
  <2> QED
    BY <1>8, <2>2, <2>3 DEF List
<1>9. CASE FinishListing
  <2>1. UNCHANGED <<traces, options, visits, seen>> /\ exit = Running /\ failure = "none"
    BY <1>9 DEF FinishListing, Visited, Querying, ProgramBase, Progress
  <2>2. CASE (Finish \/ Emit) /\ UNCHANGED <<failure, exit>>
    <3>1. added' = added
      BY <2>2 DEF Finish, Emit
    <3>2. ~Succeeded'
      BY <2>1, <2>2 DEF Succeeded, Running
    <3> QED
      BY <1>4, <1>5, <2>1, <3>1, <3>2
  <2>3. CASE Stop /\ exit' = 0 /\ UNCHANGED failure
    <3>1. added' = added /\ stage' = "done"
      BY <2>3 DEF Stop
    <3> QED
      BY <1>4, <1>5, <2>1, <3>1
  <2>4. CASE FinishFails /\ \E thrown \in {"output", "sort run"} : Throw(thrown)
    <3>1. failure' # "none"
      BY <2>4 DEF Throw
    <3> QED
      BY <3>1, Zenon DEF ListHolds, Succeeded
  <2> QED
    BY <1>9, <2>2, <2>3, <2>4 DEF FinishListing
<1>10. CASE Select \/ CountRecord \/ FinishCount \/ FinishPoint
  <2>1. ~Listing(options) /\ options' = options
    BY <1>10 DEF Select, CountRecord, FinishCount, FinishPoint, Listing
  <2>2. ~Listing(options)'
    BY <2>1 DEF Listing, PointMode
  <2> QED
    BY <2>2 DEF ListHolds
<1>11. CASE RunCommand
  <2>1. /\ ~Succeeded' /\ failure = "none"
        /\ UNCHANGED <<traces, options, visits, added, seen>>
    BY <1>11 DEF RunCommand, Succeeded, sortVars, ProgramBase, Progress
  <2> QED
    BY <1>4, <1>5, <2>1
<1>12. CASE UNCHANGED vars
  <2>1. /\ UNCHANGED <<traces, options, visits, added, seen, failure, exit, stage>>
    BY <1>12 DEF vars, queryVars, sortVars
  <2>2. Unvisited => Unvisited'
    BY <1>12 DEF vars, queryVars, sortVars, Unvisited, SorterEmpty
  <2>3. (\E place : PlacedBy(place)) => (\E place : PlacedBy(place))'
    BY <1>5, <2>1, PlacedStays
  <2>4. (Listing(options)' <=> Listing(options)) /\ (Succeeded' <=> Succeeded)
    BY <2>1 DEF Listing, PointMode, Succeeded
  <2> QED
    BY <2>1, <2>2, <2>3, <2>4 DEF ListHolds
<1>13. CASE RunQuery
  BY <1>3, <1>6, <1>7, <1>8, <1>9, <1>10, <1>12, <1>13 DEF RunQuery, Next, Done
<1> QED
  BY <1>2, <1>11, <1>12, <1>13 DEF ProgramNext, allVars

\* At the start nothing is listed.
LEMMA ListInit == ProgramInit => ListHolds
<1> SUFFICES ASSUME ProgramInit PROVE ListHolds
  OBVIOUS
<1>1. Unvisited
  BY DEF ProgramInit, Fresh, SortInit, Unvisited, SorterEmpty
<1> QED
  BY <1>1, UnvisitedLists

\* What the sorter wrote is the answer of a listing.
LEMMA ListsAnswer == ProgramBase /\ ListHolds => ListingAnswer
<1> SUFFICES ASSUME ProgramBase, ListHolds, Succeeded, Listing(options) PROVE ListingAnswer
  BY DEF ListingAnswer
<1>1. CASE Unvisited
  <2>1. /\ {added[i] : i \in Numbers} \cup {KeyOf(r) : r \in Range(visits)} = {}
        /\ truncated = FALSE
    BY <1>1 DEF Unvisited, SorterEmpty, Numbers, Range
  <2> QED
    BY <2>1, Zenon DEF ListingAnswer
<1>2. CASE stage = "done"
  <2>1. /\ seen = Len(visits) /\ DOMAIN visits = 1 .. Len(visits) /\ Len(visits) \in Nat
        /\ SortTypeOK /\ WrittenOnce /\ TruncationExact /\ truncated = (Len(out) < Len(added))
    BY <1>2, VisitedTyped, IInvTruncation
       DEF ProgramBase, Progress, Inputs, VisitsGood, IInv, EveryRecordOnce, Ended
  <2>2. \A i \in DOMAIN visits : Asked(visits[i]) <=> Wanted(visits[i])
    <3> TAKE i \in DOMAIN visits
    <3>1. visits # <<>> /\ RecordTyped(visits[i])
      BY DEF ProgramBase, Inputs, VisitsGood
    <3>2. OptionsTyped(options) /\ ValidOptions(options) /\ ~PointMode(options)
      BY <3>1 DEF ProgramBase, Inputs, Progress, Listing
    <3> QED
      BY <3>1, <3>2, AskedIsWanted
  <2> DEFINE S == {i \in DOMAIN visits : Asked(visits[i])}
             There(k) == {i \in DOMAIN visits : Asked(visits[i]) /\ KeyOf(visits[i]) = k}
             Here(k) == {p \in DOMAIN out : added[out[p]] = k}
  <2>3. WantedTo(seen) = S /\ IsFiniteSet(S)
    <3>1. WantedTo(seen) = S /\ S \subseteq 1 .. Len(visits)
      BY <2>1, <2>2 DEF WantedTo
    <3> HIDE DEF S
    <3>2. IsFiniteSet(1 .. Len(visits))
      BY <2>1, FS_Interval
    <3> QED
      BY <3>1, <3>2, FS_Subset
  <2>4. PICK place : PlacedBy(place)
    BY DEF ListHolds, Succeeded
  <2>5. /\ place \in [Numbers -> S]
        /\ \A i, j \in Numbers : place[i] = place[j] => i = j
        /\ \A w \in S : \E i \in Numbers : place[i] = w
        /\ \A i \in Numbers : added[i] = KeyOf(visits[place[i]])
    BY <2>3, <2>4 DEF PlacedBy
  <2>6. /\ out \in Seq(Numbers) /\ \A p \in DOMAIN out : out[p] \in Numbers
        /\ Len(out) \in Nat /\ DOMAIN out = 1 .. Len(out)
        /\ Len(added) \in Nat /\ Numbers = 1 .. Len(added)
    BY <2>1 DEF SortTypeOK, Numbers
  <2>7. ASSUME NEW k
        PROVE  /\ Cardinality(Here(k)) <= Cardinality(There(k))
               /\ ~truncated => Cardinality(Here(k)) = Cardinality(There(k))
    <3> DEFINE f == [p \in Here(k) |-> place[out[p]]]
    <3>1. There(k) \subseteq S /\ \A i \in There(k) : i \in S /\ KeyOf(visits[i]) = k
      OBVIOUS
    <3>2. IsFiniteSet(There(k))
      <4> HIDE DEF S, There
      <4> QED
        BY <2>3, <3>1, FS_Subset
    <3>3. ASSUME NEW p \in Here(k) PROVE f[p] \in There(k)
      <4>1. out[p] \in Numbers /\ added[out[p]] = k /\ f[p] = place[out[p]]
        BY <2>6
      <4>2. place[out[p]] \in S /\ KeyOf(visits[place[out[p]]]) = k
        BY <2>5, <4>1
      <4> QED
        BY <4>1, <4>2
    <3>4. ASSUME NEW p \in Here(k), NEW q \in Here(k), f[p] = f[q] PROVE p = q
      <4>1. p \in DOMAIN out /\ q \in DOMAIN out /\ out[p] \in Numbers /\ out[q] \in Numbers
        BY <2>6
      <4>2. out[p] = out[q]
        BY <2>5, <3>4, <4>1
      <4> QED
        BY <2>1, <4>1, <4>2 DEF WrittenOnce
    <3>5. f \in [Here(k) -> There(k)]
      BY <3>3
    <3>6. f \in Injection(Here(k), There(k))
      <4> HIDE DEF f, There, Here
      <4> QED
        BY <3>4, <3>5 DEF Injection, IsInjective
    <3>7. ASSUME ~truncated PROVE f \in Surjection(Here(k), There(k))
      <4>1. Numbers \ Emitted = {}
        BY <1>2, <2>1, <3>7 DEF TruncationExact
      <4>2. ASSUME NEW w \in There(k) PROVE \E p \in Here(k) : f[p] = w
        <5>1. w \in S /\ KeyOf(visits[w]) = k
          BY <3>1
        <5>2. PICK i \in Numbers : place[i] = w
          BY <2>5, <5>1
        <5>3. PICK p \in DOMAIN out : out[p] = i
          BY <4>1 DEF Emitted
        <5>4. p \in Here(k)
          BY <2>5, <5>1, <5>2, <5>3
        <5> QED
          BY <5>2, <5>3, <5>4
      <4> HIDE DEF f, There, Here
      <4> QED
        BY <3>5, <4>2 DEF Surjection
    <3> HIDE DEF f, There, Here
    <3>8. Cardinality(Here(k)) <= Cardinality(There(k))
          /\ (Cardinality(Here(k)) = Cardinality(There(k)) <=> f \in Surjection(Here(k), There(k)))
      BY <3>2, <3>6, FS_Injection
    <3> QED
      BY <3>7, <3>8
  <2>8. truncated => Len(out) = limit /\ limit < Cardinality(S)
    <3> SUFFICES ASSUME truncated PROVE Len(out) = limit /\ limit < Cardinality(S)
      OBVIOUS
    <3>1. Len(out) = limit /\ Len(out) < Len(added)
      BY <1>2, <2>1 DEF TruncationExact
    <3>2. place \in Injection(Numbers, S)
      <4> HIDE DEF S
      <4> QED
        BY <2>5 DEF Injection, IsInjective
    <3>3. Cardinality(Numbers) = Len(added)
      <4> DEFINE n == Len(added)
      <4>1. n \in Nat
        BY <2>6
      <4> HIDE DEF n
      <4>2. Cardinality(1 .. n) = n
        BY <4>1, FS_Interval
      <4> QED
        BY <2>6, <4>2 DEF n
    <3> HIDE DEF S
    <3>4. Cardinality(Numbers) <= Cardinality(S) /\ Cardinality(S) \in Nat
      BY <2>3, <3>2, FS_Injection, FS_CardinalityType
    <3> QED
      BY <2>6, <3>1, <3>3, <3>4
  <2> QED
    BY <2>7, <2>8, Zenon DEF ListingAnswer, Occurrences
<1> QED
  BY <1>1, <1>2 DEF ListHolds

\* A listing holds what --from, --to and the selectors ask for, no record twice
\* and none lost, for any chunk size, any --limit and all traces and options.
THEOREM ListingsAreRight == ProgramSpec => []ListingAnswer
<1>1. ProgramBase /\ ListHolds => ListingAnswer
  BY ListsAnswer
<1>2. ProgramInit => ProgramBase /\ ListHolds
  BY BaseInit, ListInit
<1>3. ProgramBase /\ ListHolds /\ [ProgramNext]_allVars => (ProgramBase /\ ListHolds)'
  BY BaseStep, ListStep
<1> QED
  BY <1>1, <1>2, <1>3, PTL DEF ProgramSpec

-----------------------------------------------------------------------------
(* What `sources` finds. *)

\* FlattenSeq holds the items of the sequences, and no others.
LEMMA FlattenMembers ==
  ASSUME NEW T, NEW ss \in Seq(Seq(T))
  PROVE  /\ FlattenSeq(ss) \in Seq(T)
         /\ \A x : x \in Range(FlattenSeq(ss)) <=> \E g \in DOMAIN ss : x \in Range(ss[g])
<1> DEFINE flat == FlattenSeq(ss)
<1>1. flat \in Seq(T) /\ \E at : OrderedUpto(ss, Len(ss), flat, at)
  BY FlattenOrdered
<1> HIDE DEF flat
<1>2. PICK at : OrderedUpto(ss, Len(ss), flat, at)
  BY <1>1
<1>3. DOMAIN ss = 1 .. Len(ss) /\ DOMAIN flat = 1 .. Len(flat)
      /\ \A g \in 1 .. Len(ss) : DOMAIN ss[g] = 1 .. Len(ss[g])
  BY <1>1
<1>4. ASSUME NEW x \in Range(flat) PROVE \E g \in DOMAIN ss : x \in Range(ss[g])
  <2>1. PICK p \in 1 .. Len(flat) : x = flat[p]
    BY <1>3 DEF Range
  <2> DEFINE g == at[p][1]
             i == at[p][2]
  <2>2. g \in 1 .. Len(ss) /\ i \in 1 .. Len(ss[g]) /\ x = ss[g][i]
    BY <1>2, <2>1 DEF OrderedUpto, PlacedUpto
  <2> HIDE DEF g, i
  <2>3. x \in Range(ss[g])
    BY <1>3, <2>2 DEF Range
  <2> QED
    BY <1>3, <2>2, <2>3
<1>5. ASSUME NEW g \in DOMAIN ss, NEW x \in Range(ss[g]) PROVE x \in Range(flat)
  <2>1. PICK i \in 1 .. Len(ss[g]) : x = ss[g][i]
    BY <1>3, <1>5 DEF Range
  <2>0. g \in 1 .. Len(ss)
    BY <1>3
  <2>2. PICK p \in 1 .. Len(flat) : at[p][1] = g /\ at[p][2] = i
    BY <1>2, <2>0, <2>1 DEF OrderedUpto
  <2>3. flat[p] = ss[at[p][1]][at[p][2]]
    BY <1>2, <2>2 DEF OrderedUpto, PlacedUpto
  <2>4. x = flat[p]
    BY <2>1, <2>2, <2>3
  <2> QED
    BY <1>3, <2>2, <2>4 DEF Range
<1> QED
  BY <1>1, <1>4, <1>5 DEF flat

\* Those, where the test is to be of a set.
Chosen(seq, P) == Those(seq, LAMBDA x : x \in P)

ChosenAt(seq, P, chosen, place) ==
  /\ place \in [1 .. Len(chosen) -> 1 .. Len(seq)]
  /\ \A q \in 1 .. Len(chosen) : seq[place[q]] \in P /\ chosen[q] = seq[place[q]]
  /\ \A q, r \in 1 .. Len(chosen) : q < r => place[q] < place[r]
  /\ \A p \in 1 .. Len(seq) : seq[p] \in P => \E q \in 1 .. Len(chosen) : place[q] = p

\* Those chosen from a sequence keep their order, each at a place of its own.
LEMMA ChosenIs ==
  ASSUME NEW S, NEW seq \in Seq(S), NEW P
  PROVE  /\ Chosen(seq, P) \in Seq(S \cap P)
         /\ \E place : ChosenAt(seq, P, Chosen(seq, P), place)
<1> DEFINE ss == [p \in DOMAIN seq |-> IF seq[p] \in P THEN <<seq[p]>> ELSE <<>>]
           flat == FlattenSeq(ss)
<1>1. Chosen(seq, P) = flat
  BY DEF Chosen, Those
<1>2. DOMAIN seq = 1 .. Len(seq) /\ Len(seq) \in Nat /\ \A p \in 1 .. Len(seq) : seq[p] \in S
  OBVIOUS
<1>3. ASSUME NEW p \in 1 .. Len(seq)
      PROVE  /\ seq[p] \in P => ss[p] = <<seq[p]>>
             /\ seq[p] \notin P => ss[p] = <<>>
             /\ ss[p] \in Seq(S \cap P)
  <2>1. CASE seq[p] \in P
    <3>1. ss[p] = <<seq[p]>>
      BY <1>2, <2>1
    <3>2. seq[p] \in S \cap P
      BY <1>2, <2>1
    <3> HIDE DEF ss
    <3> QED
      BY <2>1, <3>1, <3>2
  <2>2. CASE seq[p] \notin P
    <3>1. ss[p] = <<>>
      BY <1>2, <2>2
    <3> HIDE DEF ss
    <3> QED
      BY <2>2, <3>1
  <2> QED
    BY <2>1, <2>2
<1>4. ss \in Seq(Seq(S \cap P)) /\ Len(ss) = Len(seq)
  BY <1>2, <1>3
<1> HIDE DEF ss
<1>5. flat \in Seq(S \cap P) /\ \E at : OrderedUpto(ss, Len(ss), flat, at)
  BY <1>4, FlattenOrdered
<1> HIDE DEF flat
<1>6. PICK at : OrderedUpto(ss, Len(ss), flat, at)
  BY <1>5
<1> DEFINE place == [q \in 1 .. Len(flat) |-> at[q][1]]
<1>7. ASSUME NEW q \in 1 .. Len(flat)
      PROVE  /\ at[q][1] \in 1 .. Len(seq) /\ at[q][2] = 1
             /\ seq[at[q][1]] \in P /\ flat[q] = seq[at[q][1]]
  <2> DEFINE g == at[q][1]
             i == at[q][2]
  <2>1. g \in 1 .. Len(seq) /\ i \in 1 .. Len(ss[g]) /\ flat[q] = ss[g][i]
    BY <1>4, <1>6 DEF OrderedUpto, PlacedUpto
  <2> HIDE DEF g, i
  <2>2. seq[g] \in P /\ ss[g] = <<seq[g]>>
    BY <1>3, <2>1
  <2>3. i = 1 /\ flat[q] = seq[g]
    BY <2>1, <2>2
  <2> QED
    BY <2>1, <2>2, <2>3 DEF g, i
<1>8. \A q, r \in 1 .. Len(flat) : q < r => at[q][1] < at[r][1]
  BY <1>6, <1>7 DEF OrderedUpto
<1>9. ASSUME NEW p \in 1 .. Len(seq), seq[p] \in P
      PROVE  \E q \in 1 .. Len(flat) : at[q][1] = p
  <2>0. ss[p] = <<seq[p]>>
    BY <1>3, <1>9
  <2>1. 1 \in 1 .. Len(ss[p])
    BY <2>0
  <2> QED
    BY <1>4, <1>6, <2>1 DEF OrderedUpto
<1>10. ChosenAt(seq, P, flat, place)
  BY <1>7, <1>8, <1>9 DEF ChosenAt
<1> QED
  BY <1>1, <1>5, <1>10

\* Those chosen are the members that satisfy the test.
LEMMA ChosenMembers ==
  ASSUME NEW S, NEW seq \in Seq(S), NEW P
  PROVE  \A x : x \in Range(Chosen(seq, P)) <=> x \in Range(seq) /\ x \in P
<1> DEFINE chosen == Chosen(seq, P)
<1>1. chosen \in Seq(S \cap P) /\ \E place : ChosenAt(seq, P, chosen, place)
  BY ChosenIs
<1> HIDE DEF chosen
<1>2. PICK place : ChosenAt(seq, P, chosen, place)
  BY <1>1
<1>3. DOMAIN seq = 1 .. Len(seq) /\ DOMAIN chosen = 1 .. Len(chosen)
  BY <1>1
<1>4. ASSUME NEW x \in Range(chosen) PROVE x \in Range(seq) /\ x \in P
  <2>1. PICK q \in 1 .. Len(chosen) : x = chosen[q]
    BY <1>3 DEF Range
  <2>2. place[q] \in 1 .. Len(seq) /\ x = seq[place[q]] /\ x \in P
    BY <1>2, <2>1 DEF ChosenAt
  <2> QED
    BY <1>3, <2>2 DEF Range
<1>5. ASSUME NEW x \in Range(seq), x \in P PROVE x \in Range(chosen)
  <2>1. PICK p \in 1 .. Len(seq) : x = seq[p]
    BY <1>3 DEF Range
  <2>2. PICK q \in 1 .. Len(chosen) : place[q] = p
    BY <1>2, <1>5, <2>1 DEF ChosenAt
  <2>3. chosen[q] = x
    BY <1>2, <2>1, <2>2 DEF ChosenAt
  <2> QED
    BY <1>3, <2>2, <2>3 DEF Range
<1> QED
  BY <1>4, <1>5 DEF chosen

\* Sets are of one size when each element of one has its own of the other.
LEMMA SameSize ==
  ASSUME NEW S, IsFiniteSet(S), NEW T, NEW f \in [S -> T],
         \A x, y \in S : f[x] = f[y] => x = y,
         \A z \in T : \E x \in S : f[x] = z
  PROVE  IsFiniteSet(T) /\ Cardinality(T) = Cardinality(S)
<1>1. ExistsBijection(S, T)
  BY DEF ExistsBijection, Bijection, Injection, Surjection, IsInjective
<1> QED
  BY <1>1, FS_Bijection

\* Where the elements of a set are in some collections.
PlacesOf(c, P) ==
  {w \in Nat \X Nat : w[1] \in DOMAIN c /\ w[2] \in DOMAIN c[w[1]] /\ c[w[1]][w[2]] \in P}

\* The indices of those of a sequence.
IndicesOf(seq, P) == {p \in DOMAIN seq : seq[p] \in P}

\* A sequence has finitely many places.
LEMMA IndicesFinite ==
  ASSUME NEW S, NEW seq \in Seq(S), NEW P
  PROVE  IsFiniteSet(IndicesOf(seq, P))
<1> DEFINE n == Len(seq)
<1>1. n \in Nat /\ DOMAIN seq = 1 .. n
  OBVIOUS
<1> HIDE DEF n
<1>2. IsFiniteSet(1 .. n)
  BY <1>1, FS_Interval
<1>3. IndicesOf(seq, P) \subseteq 1 .. n
  BY <1>1 DEF IndicesOf
<1> QED
  BY <1>2, <1>3, FS_Subset

\* FlattenSeq keeps the number of items that satisfy a test.
LEMMA CountFlat ==
  ASSUME NEW T, NEW ss \in Seq(Seq(T)), NEW P
  PROVE  /\ IsFiniteSet(PlacesOf(ss, P))
         /\ Cardinality(PlacesOf(ss, P)) = Cardinality(IndicesOf(FlattenSeq(ss), P))
<1> DEFINE flat == FlattenSeq(ss)
           S == IndicesOf(flat, P)
<1>1. flat \in Seq(T) /\ \E at : OrderedUpto(ss, Len(ss), flat, at)
  BY FlattenOrdered
<1> HIDE DEF flat
<1>2. PICK at : OrderedUpto(ss, Len(ss), flat, at)
  BY <1>1
<1>3. IsFiniteSet(S)
  BY <1>1, IndicesFinite
<1>4. DOMAIN ss = 1 .. Len(ss) /\ DOMAIN flat = 1 .. Len(flat) /\ S \subseteq 1 .. Len(flat)
      /\ \A g \in 1 .. Len(ss) : DOMAIN ss[g] = 1 .. Len(ss[g])
  BY <1>1 DEF IndicesOf
<1> DEFINE f == [p \in S |-> at[p]]
<1>5. ASSUME NEW p \in S PROVE at[p] \in PlacesOf(ss, P)
  <2> DEFINE g == at[p][1]
             i == at[p][2]
  <2>1. at[p] \in Nat \X Nat /\ g \in 1 .. Len(ss) /\ i \in 1 .. Len(ss[g]) /\ flat[p] = ss[g][i]
    BY <1>2, <1>4 DEF OrderedUpto, PlacedUpto
  <2>2. flat[p] \in P
    BY DEF IndicesOf
  <2> QED
    BY <1>4, <2>1, <2>2 DEF PlacesOf
<1>6. ASSUME NEW w \in PlacesOf(ss, P) PROVE \E p \in S : at[p] = w
  <2>1. w \in Nat \X Nat /\ w[1] \in 1 .. Len(ss) /\ w[2] \in DOMAIN ss[w[1]] /\ ss[w[1]][w[2]] \in P
    BY <1>4 DEF PlacesOf
  <2>2. w[2] \in 1 .. Len(ss[w[1]])
    BY <1>4, <2>1
  <2>3. PICK p \in 1 .. Len(flat) : at[p][1] = w[1] /\ at[p][2] = w[2]
    BY <1>2, <2>1, <2>2 DEF OrderedUpto
  <2>4. at[p] \in Nat \X Nat /\ flat[p] = ss[at[p][1]][at[p][2]]
    BY <1>2, <2>3 DEF OrderedUpto, PlacedUpto
  <2>5. at[p] = w
    BY <2>1, <2>3, <2>4, PairsEqual
  <2>6. flat[p] \in P
    BY <2>1, <2>4, <2>5
  <2> QED
    BY <1>4, <2>3, <2>5, <2>6 DEF IndicesOf
<1>7. f \in [S -> PlacesOf(ss, P)]
  BY <1>5
<1>8. \A p, q \in S : f[p] = f[q] => p = q
  BY <1>2, <1>4 DEF OrderedUpto, PlacedUpto
<1>9. \A w \in PlacesOf(ss, P) : \E p \in S : f[p] = w
  BY <1>6
<1> HIDE DEF f, S
<1> QED
  BY <1>3, <1>7, <1>8, <1>9, SameSize DEF S, flat

\* Choosing twice is choosing by both tests.
LEMMA CountChosen ==
  ASSUME NEW T, NEW seq \in Seq(T), NEW P, NEW Q
  PROVE  Cardinality(IndicesOf(Chosen(seq, P), Q)) = Cardinality(IndicesOf(seq, P \cap Q))
<1> DEFINE chosen == Chosen(seq, P)
           S == IndicesOf(chosen, Q)
           G == IndicesOf(seq, P \cap Q)
<1>1. chosen \in Seq(T \cap P) /\ \E place : ChosenAt(seq, P, chosen, place)
  BY ChosenIs
<1> HIDE DEF chosen
<1>2. PICK place : ChosenAt(seq, P, chosen, place)
  BY <1>1
<1>3. IsFiniteSet(S)
  BY <1>1, IndicesFinite
<1>4. DOMAIN seq = 1 .. Len(seq) /\ DOMAIN chosen = 1 .. Len(chosen) /\ Len(chosen) \in Nat
  BY <1>1
<1> DEFINE f == [q \in S |-> place[q]]
<1>5. \A q \in S : place[q] \in G
  BY <1>2, <1>4 DEF ChosenAt, IndicesOf
<1>6. \A p \in G : \E q \in S : place[q] = p
  BY <1>2, <1>4 DEF ChosenAt, IndicesOf
<1>7. \A q, r \in S : place[q] = place[r] => q = r
  <2> SUFFICES ASSUME NEW q \in S, NEW r \in S, place[q] = place[r] PROVE q = r
    OBVIOUS
  <2>1. q \in 1 .. Len(chosen) /\ r \in 1 .. Len(chosen) /\ place[q] \in 1 .. Len(seq)
    BY <1>2, <1>4 DEF ChosenAt, IndicesOf
  <2>2. ~(q < r) /\ ~(r < q)
    BY <1>2, <2>1 DEF ChosenAt
  <2> QED
    BY <2>1, <2>2
<1>8. f \in [S -> G] /\ (\A q, r \in S : f[q] = f[r] => q = r) /\ \A p \in G : \E q \in S : f[q] = p
  BY <1>5, <1>6, <1>7
<1> HIDE DEF f, S, G
<1>9. Cardinality(G) = Cardinality(S)
  BY <1>3, <1>8, SameSize
<1> QED
  BY <1>9 DEF S, G, chosen

\* The length of a sequence is the number of its places.
LEMMA CountLen ==
  ASSUME NEW T, NEW seq \in Seq(T)
  PROVE  Len(seq) = Cardinality(IndicesOf(seq, T))
<1>1. IndicesOf(seq, T) = 1 .. Len(seq) /\ Len(seq) \in Nat
  BY DEF IndicesOf
<1> DEFINE n == Len(seq)
<1> HIDE DEF n
<1>2. IndicesOf(seq, T) = 1 .. n /\ n \in Nat
  BY <1>1 DEF n
<1>3. Cardinality(1 .. n) = n
  BY <1>2, FS_Interval
<1> QED
  BY <1>2, <1>3 DEF n

\* The lengths of the parts of some collections that are in a set.
LEMMA CountParts ==
  ASSUME NEW T, NEW c \in Seq(Seq(T)), NEW P
  PROVE  /\ [g \in DOMAIN c |-> Chosen(c[g], P)] \in Seq(Seq(T \cap P))
         /\ Len(FlattenSeq([g \in DOMAIN c |-> Chosen(c[g], P)])) = Cardinality(PlacesOf(c, P))
<1> DEFINE parts == [g \in DOMAIN c |-> Chosen(c[g], P)]
           U == T \cap P
<1>1. DOMAIN c = 1 .. Len(c) /\ Len(c) \in Nat /\ \A g \in 1 .. Len(c) : c[g] \in Seq(T)
  OBVIOUS
<1>2. ASSUME NEW g \in 1 .. Len(c)
      PROVE  /\ parts[g] = Chosen(c[g], P) /\ parts[g] \in Seq(U)
             /\ \E place : ChosenAt(c[g], P, parts[g], place)
  <2>1. parts[g] = Chosen(c[g], P)
    BY <1>1
  <2> QED
    BY <1>1, <2>1, ChosenIs
<1>3. parts \in Seq(Seq(U)) /\ DOMAIN parts = 1 .. Len(c)
  BY <1>1, <1>2
<1> HIDE DEF parts, U
<1> DEFINE S == PlacesOf(parts, U)
           D == PlacesOf(c, P)
           place(g) == CHOOSE place : ChosenAt(c[g], P, parts[g], place)
           f == [w \in S |-> <<w[1], place(w[1])[w[2]]>>]
<1>4. ASSUME NEW g \in 1 .. Len(c)
      PROVE  /\ ChosenAt(c[g], P, parts[g], place(g))
             /\ DOMAIN parts[g] = 1 .. Len(parts[g]) /\ DOMAIN c[g] = 1 .. Len(c[g])
             /\ Len(parts[g]) \in Nat
  BY <1>1, <1>2
<1> HIDE DEF place
<1>5. IsFiniteSet(S) /\ Len(FlattenSeq(parts)) = Cardinality(S)
  <2> DEFINE flat == FlattenSeq(parts)
  <2>1. flat \in Seq(U)
    BY <1>3, FlattenMembers
  <2>2. IsFiniteSet(S) /\ Cardinality(S) = Cardinality(IndicesOf(flat, U))
    BY <1>3, CountFlat
  <2> HIDE DEF flat, S
  <2>3. Len(flat) = Cardinality(IndicesOf(flat, U))
    BY <2>1, CountLen
  <2> QED
    BY <2>2, <2>3 DEF flat
<1>6. ASSUME NEW w \in S
      PROVE  /\ w \in Nat \X Nat /\ w[1] \in 1 .. Len(c) /\ w[2] \in 1 .. Len(parts[w[1]])
             /\ place(w[1])[w[2]] \in 1 .. Len(c[w[1]])
             /\ <<w[1], place(w[1])[w[2]]>> \in D
  <2> DEFINE g == w[1]
             i == w[2]
  <2>1. w \in Nat \X Nat /\ g \in 1 .. Len(c) /\ i \in DOMAIN parts[g]
    BY <1>3 DEF PlacesOf
  <2> HIDE DEF g, i
  <2>2. i \in 1 .. Len(parts[g])
    BY <1>4, <2>1
  <2> DEFINE p == place(g)[i]
  <2>3. p \in 1 .. Len(c[g]) /\ c[g][p] \in P
    BY <1>4, <2>1, <2>2 DEF ChosenAt
  <2>4. g \in DOMAIN c /\ p \in DOMAIN c[g] /\ p \in Nat /\ g \in Nat
    BY <1>1, <1>4, <2>1, <2>3
  <2> HIDE DEF p
  <2>5. <<g, p>> \in Nat \X Nat /\ <<g, p>>[1] = g /\ <<g, p>>[2] = p
    BY <2>4
  <2>6. <<g, p>> \in D
    BY <2>3, <2>4, <2>5 DEF PlacesOf
  <2> QED
    BY <2>1, <2>2, <2>3, <2>6 DEF g, i, p
<1>7. ASSUME NEW w \in S, NEW v \in S, f[w] = f[v] PROVE w = v
  <2>1. w[1] = v[1] /\ place(w[1])[w[2]] = place(v[1])[v[2]]
    BY <1>7
  <2> DEFINE g == w[1]
             i == w[2]
             j == v[2]
  <2>2. /\ g \in 1 .. Len(c) /\ i \in 1 .. Len(parts[g]) /\ j \in 1 .. Len(parts[g])
        /\ place(g)[i] = place(g)[j]
    BY <1>6, <2>1
  <2> HIDE DEF g, i, j
  <2>3. i \in Nat /\ j \in Nat /\ place(g)[i] \in Int /\ place(g)[j] \in Int
    <3>1. place(g) \in [1 .. Len(parts[g]) -> 1 .. Len(c[g])]
      BY <1>4, <2>2 DEF ChosenAt
    <3> QED
      BY <2>2, <3>1
  <2>4. ~(i < j) /\ ~(j < i)
    BY <1>4, <2>2, <2>3 DEF ChosenAt
  <2>5. i = j
    BY <2>3, <2>4
  <2> QED
    BY <1>6, <2>1, <2>5, PairsEqual DEF i, j
<1>8. ASSUME NEW v \in D PROVE \E w \in S : f[w] = v
  <2> DEFINE g == v[1]
             p == v[2]
  <2>1. v \in Nat \X Nat /\ v = <<g, p>> /\ g \in DOMAIN c /\ p \in DOMAIN c[g] /\ c[g][p] \in P
    BY DEF PlacesOf
  <2> HIDE DEF g, p
  <2>2. g \in 1 .. Len(c) /\ p \in 1 .. Len(c[g])
    BY <1>1, <1>4, <2>1
  <2>3. PICK i \in 1 .. Len(parts[g]) : place(g)[i] = p
    BY <1>4, <2>1, <2>2 DEF ChosenAt
  <2>4. i \in DOMAIN parts[g] /\ g \in DOMAIN parts /\ parts[g][i] \in U /\ i \in Nat /\ g \in Nat
    BY <1>2, <1>3, <1>4, <2>2, <2>3
  <2>5. <<g, i>> \in Nat \X Nat /\ <<g, i>>[1] = g /\ <<g, i>>[2] = i
    BY <2>4
  <2>6. <<g, i>> \in S
    BY <2>4, <2>5 DEF PlacesOf
  <2>7. f[<<g, i>>] = <<g, place(g)[i]>>
    BY <2>5, <2>6
  <2> QED
    BY <2>1, <2>3, <2>6, <2>7
<1>9. f \in [S -> D]
  BY <1>6
<1> HIDE DEF f, S, D
<1>10. Cardinality(D) = Cardinality(S)
  BY <1>5, <1>7, <1>8, <1>9, SameSize
<1> QED
  BY <1>3, <1>5, <1>10 DEF parts, D, U

\* The items of a kind that are a source's.
OfSource(t, k, rank) ==
  {x \in HeldItems(t, HeldKind(k)) : x.source = rank /\ (k = "frame-image" => x.image)}

\* The parts of a source are its items in every collection of the trace.
LEMMA PartsAre ==
  ASSUME TracesTyped, NEW t \in DOMAIN traces, NEW k, NEW rank
  PROVE  PartsOf(traces[t], rank, k) =
           [g \in DOMAIN Held(traces[t], HeldKind(k)) |->
              Chosen(Held(traces[t], HeldKind(k))[g], OfSource(t, k, rank))]
<1> DEFINE c == Held(traces[t], HeldKind(k))
           I == HeldItems(t, HeldKind(k))
           P == OfSource(t, k, rank)
           part(g) == FlattenSeq([p \in DOMAIN c[g] |->
                        IF c[g][p].source = rank /\ (k = "frame-image" => c[g][p].image)
                        THEN <<c[g][p]>> ELSE <<>>])
<1>1. c \in Seq(Seq(I))
  BY HeldTyped
<1>2. PartsOf(traces[t], rank, k) = [g \in DOMAIN c |-> part(g)]
  BY DEF PartsOf, Those, HeldKind
<1>3. \A x \in I : x \in P <=> x.source = rank /\ (k = "frame-image" => x.image)
  BY DEF OfSource
<1> HIDE DEF c, I, P
<1>4. ASSUME NEW g \in DOMAIN c PROVE part(g) = Chosen(c[g], P)
  <2>1. \A p \in DOMAIN c[g] : c[g][p] \in I
    BY <1>1
  <2>2. \A p \in DOMAIN c[g] :
          c[g][p] \in P <=> c[g][p].source = rank /\ (k = "frame-image" => c[g][p].image)
    BY <1>3, <2>1
  <2>3. [p \in DOMAIN c[g] |->
           IF c[g][p].source = rank /\ (k = "frame-image" => c[g][p].image)
           THEN <<c[g][p]>> ELSE <<>>]
        = [p \in DOMAIN c[g] |-> IF c[g][p] \in P THEN <<c[g][p]>> ELSE <<>>]
    BY <2>2
  <2> QED
    BY <2>3 DEF Chosen, Those
<1> HIDE DEF part
<1> QED
  BY <1>2, <1>4 DEF c, P

\* Items with a number, of a set.
NumberedIn(I, P) == {n \in Numbered(I) : n.item \in P}

\* Numbering the items of the collections keeps their number.
LEMMA CollectionCounted ==
  ASSUME NEW I, NEW c \in Seq(Seq(I)), NEW P
  PROVE  Cardinality(IndicesOf(PerCollection(c), NumberedIn(I, P))) = Cardinality(PlacesOf(c, P))
<1> DEFINE d == [g \in DOMAIN c |-> [i \in DOMAIN c[g] |-> [item |-> c[g][i], number |-> i - 1]]]
           Q == NumberedIn(I, P)
<1>1. PerCollection(c) = FlattenSeq(d)
  BY DEF PerCollection
<1>2. /\ Len(c) \in Nat /\ DOMAIN c = 1 .. Len(c)
      /\ \A g \in 1 .. Len(c) : c[g] \in Seq(I) /\ Len(c[g]) \in Nat /\ DOMAIN c[g] = 1 .. Len(c[g])
  OBVIOUS
<1>3. ASSUME NEW g \in 1 .. Len(c)
      PROVE  /\ d[g] = [i \in 1 .. Len(c[g]) |-> [item |-> c[g][i], number |-> i - 1]]
             /\ d[g] \in Seq(Numbered(I)) /\ DOMAIN d[g] = DOMAIN c[g]
             /\ \A i \in DOMAIN c[g] : d[g][i] \in Q <=> c[g][i] \in P
  <2>1. d[g] = [i \in 1 .. Len(c[g]) |-> [item |-> c[g][i], number |-> i - 1]]
    BY <1>2
  <2>2. \A i \in 1 .. Len(c[g]) : [item |-> c[g][i], number |-> i - 1] \in Numbered(I)
    BY <1>2 DEF Numbered
  <2>3. \A i \in 1 .. Len(c[g]) : [item |-> c[g][i], number |-> i - 1].item = c[g][i]
    OBVIOUS
  <2> HIDE DEF d
  <2> QED
    BY <1>2, <2>1, <2>2, <2>3 DEF NumberedIn
<1>4. d \in Seq(Seq(Numbered(I))) /\ DOMAIN d = DOMAIN c
  BY <1>2, <1>3
<1> HIDE DEF d, Q
<1>5. PlacesOf(d, Q) = PlacesOf(c, P)
  BY <1>2, <1>3, <1>4 DEF PlacesOf
<1>6. Cardinality(PlacesOf(d, Q)) = Cardinality(IndicesOf(FlattenSeq(d), Q))
  BY <1>4, CountFlat
<1> QED
  BY <1>1, <1>5, <1>6 DEF Q

\* The images are the frames that carry one, with their numbers.
LEMMA ImagesAre ==
  ASSUME NEW I, NEW c \in Seq(Seq(I))
  PROVE  Images(c) = Chosen(PerCollection(c), {n \in Numbered(I) : n.item.image})
<1> DEFINE items == PerCollection(c)
           P == {n \in Numbered(I) : n.item.image}
<1>1. items \in Seq(Numbered(I))
  BY PerCollectionNumbers
<1>2. Images(c) = FlattenSeq([p \in DOMAIN items |-> IF items[p].item.image THEN <<items[p]>> ELSE <<>>])
  BY DEF Images, Those
<1> HIDE DEF items
<1>3. \A p \in DOMAIN items : items[p] \in P <=> items[p].item.image
  BY <1>1
<1> HIDE DEF P
<1>4. [p \in DOMAIN items |-> IF items[p].item.image THEN <<items[p]>> ELSE <<>>]
      = [p \in DOMAIN items |-> IF items[p] \in P THEN <<items[p]>> ELSE <<>>]
  BY <1>3
<1> QED
  BY <1>2, <1>4 DEF Chosen, Those, items, P

\* As many items are visited as are held, image by image for frame images.
LEMMA VisitedAsHeld ==
  ASSUME TracesTyped, NEW t \in DOMAIN traces, NEW k, NEW P,
         k = "frame-image" => \A x \in P : x.image
  PROVE  LET I == HeldItems(t, HeldKind(k))
             c == Held(traces[t], HeldKind(k))
         IN /\ ItemsVisited(t, k) \in Seq(Numbered(I))
            /\ k = "frame-image" => \A p \in DOMAIN ItemsVisited(t, k) : ItemsVisited(t, k)[p].item.image
            /\ Cardinality(IndicesOf(ItemsVisited(t, k), NumberedIn(I, P))) = Cardinality(PlacesOf(c, P))
<1> DEFINE I == HeldItems(t, HeldKind(k))
           c == Held(traces[t], HeldKind(k))
           items == ItemsVisited(t, k)
           Q == NumberedIn(I, P)
           flat == FlattenSeq(c)
<1>1. c \in Seq(Seq(I))
  BY HeldTyped
<1>2. ASSUME items \in Seq(Numbered(I)), DOMAIN items = DOMAIN flat,
             \A p \in DOMAIN flat : items[p].item = flat[p]
      PROVE  Cardinality(IndicesOf(items, Q)) = Cardinality(PlacesOf(c, P))
  <2> HIDE DEF items, I, c, flat
  <2>1. \A p \in DOMAIN items : items[p] \in Numbered(I)
    BY <1>2
  <2>2. IndicesOf(items, Q) = IndicesOf(flat, P)
    BY <1>2, <2>1 DEF IndicesOf, NumberedIn
  <2> QED
    BY <1>1, <2>2, CountFlat DEF flat
<1>3. CASE k \in {"message", "cpu-zone", "gpu-zone"}
  <2>1. items = PerTrace(c)
    BY <1>3 DEF ItemsVisited, HeldKind
  <2>2. items \in Seq(Numbered(I))
    <3> HIDE DEF I, c, items
    <3> QED
      BY <1>1, <2>1, PerTraceNumbers
  <2>3. items = [p \in DOMAIN flat |-> [item |-> flat[p], number |-> p - 1]]
    BY <2>1 DEF PerTrace
  <2> HIDE DEF items, flat, I, c, Q
  <2>4. DOMAIN items = DOMAIN flat /\ \A p \in DOMAIN flat : items[p].item = flat[p]
    BY <2>3
  <2>5. Cardinality(IndicesOf(items, Q)) = Cardinality(PlacesOf(c, P))
    BY <1>2, <2>2, <2>4
  <2> QED
    BY <1>3, <2>2, <2>5 DEF items, I, c, Q
<1>4. CASE k = "sample"
  <2>1. items = PerSource(c)
    BY <1>4 DEF ItemsVisited, HeldKind
  <2>2. items \in Seq(Numbered(I))
    <3> HIDE DEF I, c, items
    <3> QED
      BY <1>1, <2>1, PerSourceNumbers
  <2> DEFINE number(p) == Cardinality({q \in 1 .. p - 1 : flat[q].source = flat[p].source})
  <2>3. items = [p \in DOMAIN flat |-> [item |-> flat[p], number |-> number(p)]]
    BY <2>1 DEF PerSource
  <2> HIDE DEF items, flat, I, c, Q, number
  <2>4. DOMAIN items = DOMAIN flat /\ \A p \in DOMAIN flat : items[p].item = flat[p]
    BY <2>3
  <2>5. Cardinality(IndicesOf(items, Q)) = Cardinality(PlacesOf(c, P))
    BY <1>2, <2>2, <2>4
  <2> QED
    BY <1>4, <2>2, <2>5 DEF items, I, c, Q
<1>5. CASE k = "frame-image"
  <2>1. items = Images(c)
    BY <1>5 DEF ItemsVisited, HeldKind
  <2> DEFINE all == PerCollection(c)
             M == {n \in Numbered(I) : n.item.image}
  <2> HIDE DEF items, flat, I, c, Q
  <2>2. all \in Seq(Numbered(I)) /\ items = Chosen(all, M)
    BY <1>1, <2>1, ImagesAre, PerCollectionNumbers
  <2>3. Cardinality(IndicesOf(all, Q)) = Cardinality(PlacesOf(c, P))
    BY <1>1, CollectionCounted DEF Q
  <2> HIDE DEF all
  <2>4. M \cap Q = Q
    BY <1>5 DEF Q, NumberedIn
  <2>5. items \in Seq(Numbered(I) \cap M)
    BY <2>2, ChosenIs
  <2>6. Cardinality(IndicesOf(items, Q)) = Cardinality(IndicesOf(all, M \cap Q))
    <3> HIDE DEF M
    <3> QED
      BY <2>2, CountChosen
  <2>7. items \in Seq(Numbered(I)) /\ \A p \in DOMAIN items : items[p].item.image
    <3>1. \A p \in DOMAIN items : items[p] \in Numbered(I) \cap M
      BY <2>5
    <3> QED
      BY <2>5, <3>1
  <2>8. Cardinality(IndicesOf(items, Q)) = Cardinality(PlacesOf(c, P))
    BY <2>3, <2>4, <2>6
  <2> QED
    BY <2>7, <2>8 DEF items, I, c, Q
<1>6. CASE k \notin {"message", "cpu-zone", "gpu-zone", "sample", "frame-image"}
  <2>1. items = PerCollection(c)
    BY <1>6 DEF ItemsVisited, HeldKind
  <2> HIDE DEF items, flat, I, c, Q
  <2>2. items \in Seq(Numbered(I)) /\ Cardinality(IndicesOf(items, Q)) = Cardinality(PlacesOf(c, P))
    BY <1>1, <2>1, CollectionCounted, PerCollectionNumbers DEF Q
  <2> QED
    BY <1>6, <2>2 DEF items, I, c, Q
<1> QED
  BY <1>3, <1>4, <1>5, <1>6

\* The records of a source and kind.
Of(rs, rank, k) == {r \in Range(rs) : r.source = rank /\ r.kind = k}

\* The records of a kind are those of the items held.
LEMMA KindCounted ==
  ASSUME TracesTyped, NEW t \in DOMAIN traces, NEW k \in Range(KindSeq), NEW P,
         k = "frame-image" => \A x \in P : x.image
  PROVE  LET c == Held(traces[t], HeldKind(k))
             items == ItemsVisited(t, k)
         IN Cardinality(PlacesOf(c, P)) = Cardinality({p \in DOMAIN items : items[p].item \in P})
<1> DEFINE I == HeldItems(t, HeldKind(k))
           c == Held(traces[t], HeldKind(k))
           items == ItemsVisited(t, k)
<1>1. /\ items \in Seq(Numbered(I))
      /\ Cardinality(IndicesOf(items, NumberedIn(I, P))) = Cardinality(PlacesOf(c, P))
  BY VisitedAsHeld
<1> HIDE DEF I, c, items
<1>2. IndicesOf(items, NumberedIn(I, P)) = {p \in DOMAIN items : items[p].item \in P}
  <2>1. \A p \in DOMAIN items : items[p] \in Numbered(I)
    BY <1>1
  <2> QED
    BY <2>1 DEF IndicesOf, NumberedIn
<1> QED
  BY <1>1, <1>2 DEF c, items

\* VisitKind, item by item.
LEMMA KindIs ==
  ASSUME TracesTyped, NEW t \in DOMAIN traces, NEW k \in Range(KindSeq)
  PROVE  /\ DOMAIN VisitKind(t, k) = DOMAIN ItemsVisited(t, k)
         /\ \A p \in DOMAIN ItemsVisited(t, k) :
              /\ VisitKind(t, k)[p] = RecordOf(t, k, ItemsVisited(t, k)[p])
              /\ ItemsVisited(t, k)[p].item \in HeldItems(t, HeldKind(k))
              /\ k = "frame-image" => ItemsVisited(t, k)[p].item.image
<1> DEFINE items == ItemsVisited(t, k)
           I == HeldItems(t, HeldKind(k))
<1>1. VisitKind(t, k) = [p \in DOMAIN items |-> RecordOf(t, k, items[p])]
  BY DEF VisitKind, ItemsVisited
<1>2. items \in Seq(Numbered(I)) /\ (k = "frame-image" => \A p \in DOMAIN items : items[p].item.image)
  <2> DEFINE P == {}
  <2>1. k = "frame-image" => \A x \in P : x.image
    OBVIOUS
  <2> HIDE DEF P
  <2> QED
    BY <2>1, VisitedAsHeld
<1>3. \A p \in DOMAIN items : items[p].item \in I
  <2> HIDE DEF items, I
  <2>1. \A p \in DOMAIN items : items[p] \in Numbered(I)
    BY <1>2
  <2> QED
    BY <2>1 DEF Numbered
<1> HIDE DEF items
<1> QED
  BY <1>1, <1>2, <1>3 DEF items

\* What the loops of a query for every kind find.
LEMMA EveryIs ==
  ASSUME TracesTyped, NEW t \in DOMAIN traces
  PROVE  \E T : [j \in DOMAIN KindSeq |-> VisitKind(t, KindSeq[j])] \in Seq(Seq(T))
<1> DEFINE T == UNION {Range(VisitKind(t, k)) : k \in Range(KindSeq)}
           ss == [j \in DOMAIN KindSeq |-> VisitKind(t, KindSeq[j])]
           n == Len(KindSeq)
<1>1. n \in Nat /\ DOMAIN KindSeq = 1 .. n
  BY DEF KindSeq
<1>2. ASSUME NEW j \in 1 .. n PROVE ss[j] \in Seq(T)
  <2> DEFINE rs == VisitKind(t, KindSeq[j])
  <2>1. KindSeq[j] \in Range(KindSeq) /\ ss[j] = rs
    BY <1>1 DEF Range
  <2>2. rs \in Seq(Range(rs))
    BY <2>1, KindVisited
  <2>3. Range(rs) \subseteq T
    BY <2>1
  <2> HIDE DEF rs, T
  <2>4. rs \in Seq(T)
    BY <2>2, <2>3
  <2> QED
    BY <2>1, <2>4
<1> HIDE DEF T
<1>3. ss \in [1 .. n -> Seq(T)]
  BY <1>1, <1>2
<1> HIDE DEF ss, n
<1>4. ss \in Seq(Seq(T))
  BY <1>1, <1>3
<1> QED
  BY <1>4 DEF ss

\* What a query of everything visits is what is visited of each kind.
LEMMA EveryMembers ==
  ASSUME TracesTyped, NEW t \in DOMAIN traces
  PROVE  \A r : r \in Range(EveryRecord(t)) <=> \E k \in Range(KindSeq) : r \in Range(VisitKind(t, k))
<1> DEFINE ss == [j \in DOMAIN KindSeq |-> VisitKind(t, KindSeq[j])]
<1>1. PICK T : ss \in Seq(Seq(T))
  BY EveryIs
<1>2. EveryRecord(t) = FlattenSeq(ss)
  BY DEF EveryRecord
<1>3. DOMAIN ss = DOMAIN KindSeq /\ \A j \in DOMAIN KindSeq : ss[j] = VisitKind(t, KindSeq[j])
  OBVIOUS
<1> HIDE DEF ss
<1>4. \A r : r \in Range(FlattenSeq(ss)) <=> \E g \in DOMAIN ss : r \in Range(ss[g])
  BY <1>1, FlattenMembers
<1>5. \A r : (\E g \in DOMAIN ss : r \in Range(ss[g]))
               <=> (\E j \in DOMAIN KindSeq : r \in Range(VisitKind(t, KindSeq[j])))
  BY <1>3
<1>6. \A r : (\E j \in DOMAIN KindSeq : r \in Range(VisitKind(t, KindSeq[j])))
               <=> (\E k \in Range(KindSeq) : r \in Range(VisitKind(t, k)))
  BY DEF Range
<1> QED
  BY <1>2, <1>4, <1>5, <1>6

\* No kind is listed twice.
LEMMA KindsApart == \A i, j \in DOMAIN KindSeq : KindSeq[i] = KindSeq[j] => i = j
  BY DEF KindSeq

\* A source is counted by as many items as a query finds records of it.
LEMMA SourceCounted ==
  ASSUME TracesTyped, NEW t \in DOMAIN traces, NEW k \in Range(KindSeq), NEW rank
  PROVE  Len(FlattenSeq(PartsOf(traces[t], rank, k)))
           = Occurrences(EveryRecord(t), LAMBDA r : r.source = rank /\ r.kind = k)
<1> DEFINE ss == [j \in DOMAIN KindSeq |-> VisitKind(t, KindSeq[j])]
           all == FlattenSeq(ss)
           c == Held(traces[t], HeldKind(k))
           I == HeldItems(t, HeldKind(k))
           P == OfSource(t, k, rank)
           items == ItemsVisited(t, k)
           rs == VisitKind(t, k)
           Q == {r \in Range(all) : r.source = rank /\ r.kind = k}
           S == {p \in DOMAIN items : items[p].item \in P}
<1>1. Len(FlattenSeq(PartsOf(traces[t], rank, k))) = Cardinality(PlacesOf(c, P))
  <2>1. c \in Seq(Seq(I))
    BY HeldTyped
  <2>2. PartsOf(traces[t], rank, k) = [g \in DOMAIN c |-> Chosen(c[g], P)]
    BY PartsAre
  <2> HIDE DEF c, I, P
  <2> QED
    BY <2>1, <2>2, CountParts
<1>2. Cardinality(PlacesOf(c, P)) = Cardinality(S)
  <2>1. k = "frame-image" => \A x \in P : x.image
    BY DEF OfSource
  <2> HIDE DEF P
  <2> QED
    BY <2>1, KindCounted
<1>3. PICK T : ss \in Seq(Seq(T))
  BY EveryIs
<1>4. EveryRecord(t) = all
  BY DEF EveryRecord
<1>5. PICK j0 \in DOMAIN KindSeq : KindSeq[j0] = k
  BY DEF Range
<1>6. /\ DOMAIN rs = DOMAIN items
      /\ \A p \in DOMAIN items : /\ rs[p] = RecordOf(t, k, items[p]) /\ items[p].item \in I
                                 /\ k = "frame-image" => items[p].item.image
  BY KindIs
<1>7. \A p \in DOMAIN items : rs[p].source = items[p].item.source /\ rs[p].kind = k
  BY <1>6 DEF RecordOf
<1>8. \A p \in DOMAIN items : p \in S <=> rs[p].source = rank
  BY <1>6, <1>7 DEF OfSource
<1>9. DOMAIN ss = DOMAIN KindSeq /\ (\A j \in DOMAIN ss : ss[j] = VisitKind(t, KindSeq[j])) /\ ss[j0] = rs
  BY <1>5
<1>10. \A r : r \in Range(all) <=> \E g \in DOMAIN ss : r \in Range(ss[g])
  BY <1>3, FlattenMembers
<1>11. Cardinality(PlacesOf(ss, Q)) = Cardinality(IndicesOf(all, Q))
  BY <1>3, CountFlat
<1>12. IndicesOf(all, Q) = {p \in DOMAIN all : all[p].source = rank /\ all[p].kind = k}
  <2> HIDE DEF all
  <2> QED
    BY DEF IndicesOf, Range
<1>13. IsFiniteSet(S) /\ S \subseteq Nat
  <2>1. items \in Seq(Numbered(I))
    <3> DEFINE E == {}
    <3>1. k = "frame-image" => \A x \in E : x.image
      OBVIOUS
    <3> HIDE DEF E
    <3> QED
      BY <3>1, VisitedAsHeld
  <2> DEFINE n == Len(items)
  <2>2. DOMAIN items = 1 .. n /\ n \in Nat
    BY <2>1
  <2> HIDE DEF n
  <2>3. IsFiniteSet(1 .. n)
    BY <2>2, FS_Interval
  <2>4. S \subseteq 1 .. n /\ S \subseteq Nat
    BY <2>2
  <2> HIDE DEF S
  <2> QED
    BY <2>3, <2>4, FS_Subset
<1>14. \A j \in DOMAIN ss : \A p \in DOMAIN ss[j] : ss[j][p].kind = KindSeq[j]
  <2>1. \A j \in DOMAIN KindSeq : KindSeq[j] \in Range(KindSeq)
    BY DEF Range
  <2> QED
    BY <1>9, <2>1, KindVisited
<1>15. j0 \in Nat
  BY <1>5 DEF KindSeq
<1> DEFINE D == PlacesOf(ss, Q)
           f == [p \in S |-> <<j0, p>>]
<1> HIDE DEF ss, all, c, I, P, items, rs
<1>16. ASSUME NEW p \in S PROVE <<j0, p>> \in D
  <2>1. p \in DOMAIN rs /\ rs[p].source = rank /\ rs[p].kind = k
    BY <1>6, <1>7, <1>8
  <2>2. j0 \in DOMAIN ss /\ p \in DOMAIN ss[j0] /\ ss[j0][p] = rs[p]
    BY <1>5, <1>9, <2>1
  <2>3. rs[p] \in Range(ss[j0])
    BY <2>2 DEF Range
  <2>4. rs[p] \in Q
    BY <1>10, <2>1, <2>2, <2>3
  <2>5. <<j0, p>> \in Nat \X Nat
    BY <1>13, <1>15
  <2> HIDE DEF Q, S
  <2> QED
    BY <2>2, <2>4, <2>5 DEF PlacesOf
<1>17. ASSUME NEW w \in D PROVE \E p \in S : f[p] = w
  <2> DEFINE j == w[1]
             p == w[2]
  <2>1. w \in Nat \X Nat /\ w = <<j, p>> /\ j \in DOMAIN ss /\ p \in DOMAIN ss[j] /\ ss[j][p] \in Q
    BY DEF PlacesOf
  <2> HIDE DEF j, p
  <2>2. KindSeq[j] = k /\ j = j0
    BY <1>5, <1>9, <1>14, <2>1, KindsApart
  <2>3. p \in DOMAIN items /\ rs[p].source = rank
    BY <1>6, <1>9, <2>1, <2>2
  <2>4. p \in S
    BY <1>8, <2>3
  <2> HIDE DEF S
  <2> QED
    BY <2>1, <2>2, <2>4
<1>18. f \in [S -> D] /\ \A p, q \in S : f[p] = f[q] => p = q
  BY <1>16
<1> HIDE DEF f, S, D
<1>19. Cardinality(D) = Cardinality(S)
  BY <1>13, <1>17, <1>18, SameSize
<1>20. Occurrences(all, LAMBDA r : r.source = rank /\ r.kind = k)
         = Cardinality({p \in DOMAIN all : all[p].source = rank /\ all[p].kind = k})
  BY DEF Occurrences
<1>21. Len(FlattenSeq(PartsOf(traces[t], rank, k))) = Occurrences(all, LAMBDA r : r.source = rank /\ r.kind = k)
  BY <1>1, <1>2, <1>11, <1>12, <1>19, <1>20 DEF D
<1> QED
  BY <1>4, <1>21

\* When an item is over, as its record has it.
OverAt(k, x) == IF Interval(k) /\ ~x.open THEN x.end ELSE x.time

\* The items of a source are those its records are made of.
LEMMA RecordsAreItems ==
  ASSUME TracesTyped, NEW t \in DOMAIN traces, NEW k \in Range(KindSeq), NEW rank
  PROVE  /\ \A r \in Range(VisitKind(t, k)) : r.source = rank =>
              \E x \in OfSource(t, k, rank) :
                /\ r.time = Normalize(traces[t], x.time)
                /\ r.end = Normalize(traces[t], OverAt(k, x))
         /\ \A x \in OfSource(t, k, rank) : \E r \in Range(VisitKind(t, k)) :
                /\ r.source = rank /\ r.kind = k
                /\ r.time = Normalize(traces[t], x.time)
                /\ r.end = Normalize(traces[t], OverAt(k, x))
<1> DEFINE items == ItemsVisited(t, k)
           rs == VisitKind(t, k)
           c == Held(traces[t], HeldKind(k))
           I == HeldItems(t, HeldKind(k))
           P == OfSource(t, k, rank)
           trace == traces[t]
<1>1. /\ DOMAIN rs = DOMAIN items
      /\ \A p \in DOMAIN items : /\ rs[p] = RecordOf(t, k, items[p]) /\ items[p].item \in I
                                 /\ k = "frame-image" => items[p].item.image
  BY KindIs
<1>2. \A p \in DOMAIN items :
        /\ rs[p].source = items[p].item.source /\ rs[p].kind = k
        /\ rs[p].time = Normalize(trace, items[p].item.time)
        /\ rs[p].end = Normalize(trace, OverAt(k, items[p].item))
  BY <1>1 DEF RecordOf, OverAt
<1>3. \A x \in I : x \in P <=> x.source = rank /\ (k = "frame-image" => x.image)
  BY DEF OfSource
<1>4. c \in Seq(Seq(I)) /\ I = UNION {Range(part) : part \in Range(c)}
  BY HeldTyped DEF HeldItems
<1>5. P \subseteq I
  BY DEF OfSource
<1>6. ASSUME NEW x \in P PROVE \E p \in DOMAIN items : items[p].item = x
  <2> DEFINE E == {x}
             G == {p \in DOMAIN items : items[p].item \in E}
             D == PlacesOf(c, E)
  <2>1. k = "frame-image" => \A y \in E : y.image
    BY DEF OfSource
  <2>2. Cardinality(D) = Cardinality(G)
    <3> HIDE DEF E
    <3> QED
      BY <2>1, KindCounted
  <2>3. IsFiniteSet(D)
    <3> HIDE DEF E, c, I
    <3> QED
      BY <1>4, CountFlat
  <2>4. \E part \in Range(c) : x \in Range(part)
    <3> HIDE DEF I, c, P
    <3> QED
      BY <1>4, <1>5
  <2>5. PICK g \in DOMAIN c : x \in Range(c[g])
    BY <2>4 DEF Range
  <2>6. PICK i \in DOMAIN c[g] : x = c[g][i]
    BY <2>5 DEF Range
  <2>7. g \in Nat /\ i \in Nat
    <3> HIDE DEF I, c
    <3>1. DOMAIN c \subseteq Nat /\ c[g] \in Seq(I)
      BY <1>4
    <3> QED
      BY <3>1
  <2>8. <<g, i>> \in D
    <3>1. <<g, i>> \in Nat \X Nat /\ <<g, i>>[1] = g /\ <<g, i>>[2] = i
      BY <2>7
    <3> HIDE DEF c
    <3> QED
      BY <2>6, <3>1 DEF PlacesOf
  <2>9. ASSUME G = {} PROVE FALSE
    <3>1. Cardinality(D) = 0
      BY <2>2, <2>9, FS_EmptySet
    <3> HIDE DEF D
    <3>2. D = {}
      BY <2>3, <3>1, FS_EmptySet
    <3> QED
      BY <2>8, <3>2
  <2>10. PICK p \in G : TRUE
    BY <2>9
  <2> QED
    BY <2>10
<1> HIDE DEF items, rs, c, I, P, trace
<1>7. ASSUME NEW r \in Range(rs), r.source = rank
      PROVE  \E x \in P : r.time = Normalize(trace, x.time) /\ r.end = Normalize(trace, OverAt(k, x))
  <2>1. PICK p \in DOMAIN items : r = rs[p]
    BY <1>1 DEF Range
  <2>2. items[p].item \in P
    BY <1>1, <1>2, <1>3, <1>7, <2>1
  <2> QED
    BY <1>2, <2>1, <2>2
<1>8. ASSUME NEW x \in P
      PROVE  \E r \in Range(rs) : /\ r.source = rank /\ r.kind = k
                                  /\ r.time = Normalize(trace, x.time)
                                  /\ r.end = Normalize(trace, OverAt(k, x))
  <2>1. PICK p \in DOMAIN items : items[p].item = x
    BY <1>6
  <2>2. rs[p] \in Range(rs) /\ x.source = rank
    BY <1>1, <1>3, <1>5, <2>1 DEF Range
  <2> QED
    BY <1>2, <2>1, <2>2
<1> QED
  BY <1>7, <1>8 DEF rs, P, trace

\* The parts of a source are made of its items.
LEMMA PartsMembers ==
  ASSUME TracesTyped, NEW t \in DOMAIN traces, NEW k, NEW rank
  PROVE  /\ \A part \in Range(PartsOf(traces[t], rank, k)) :
              \E held \in Range(Held(traces[t], HeldKind(k))) :
                part = Chosen(held, OfSource(t, k, rank))
         /\ \A part \in Range(PartsOf(traces[t], rank, k)) : Range(part) \subseteq OfSource(t, k, rank)
         /\ \A x \in OfSource(t, k, rank) :
              \E part \in Range(PartsOf(traces[t], rank, k)) : x \in Range(part)
         /\ FlattenSeq(PartsOf(traces[t], rank, k)) # <<>> <=> OfSource(t, k, rank) # {}
<1> DEFINE c == Held(traces[t], HeldKind(k))
           I == HeldItems(t, HeldKind(k))
           P == OfSource(t, k, rank)
           parts == PartsOf(traces[t], rank, k)
<1>1. c \in Seq(Seq(I)) /\ I = UNION {Range(held) : held \in Range(c)}
  BY HeldTyped DEF HeldItems
<1>2. parts = [g \in DOMAIN c |-> Chosen(c[g], P)]
  BY PartsAre
<1>3. P \subseteq I
  BY DEF OfSource
<1> HIDE DEF c, I, P, parts
<1>4. \A g \in DOMAIN c : c[g] \in Seq(I) /\ c[g] \in Range(c)
  BY <1>1 DEF Range
<1>5. ASSUME NEW part \in Range(parts)
      PROVE  (\E held \in Range(c) : part = Chosen(held, P)) /\ Range(part) \subseteq P
  <2>1. PICK g \in DOMAIN c : part = Chosen(c[g], P)
    BY <1>2 DEF Range
  <2>2. Range(part) \subseteq P
    BY <1>4, <2>1, ChosenMembers
  <2> QED
    BY <1>4, <2>1, <2>2
<1>6. ASSUME NEW x \in P PROVE \E part \in Range(parts) : x \in Range(part)
  <2>1. PICK g \in DOMAIN c : x \in Range(c[g])
    BY <1>1, <1>3 DEF Range
  <2>2. x \in Range(Chosen(c[g], P))
    BY <1>4, <2>1, ChosenMembers
  <2>3. parts[g] = Chosen(c[g], P) /\ g \in DOMAIN parts
    BY <1>2
  <2> QED
    BY <2>2, <2>3 DEF Range
<1>7. FlattenSeq(parts) # <<>> <=> P # {}
  <2> DEFINE flat == FlattenSeq(parts)
  <2>1. parts \in Seq(Seq(I \cap P))
    BY <1>1, <1>2, CountParts
  <2>2. flat \in Seq(I \cap P) /\ \A x : x \in Range(flat) <=> \E g \in DOMAIN parts : x \in Range(parts[g])
    BY <2>1, FlattenMembers
  <2> HIDE DEF flat
  <2>3. \A x : x \in Range(flat) <=> \E part \in Range(parts) : x \in Range(part)
    BY <2>2 DEF Range
  <2>4. Range(flat) = P
    BY <1>5, <1>6, <2>3
  <2>5. flat # <<>> <=> Range(flat) # {}
    <3>1. flat = <<>> => Range(flat) = {}
      BY DEF Range
    <3>2. ASSUME flat # <<>> PROVE Range(flat) # {}
      <4>1. 1 \in DOMAIN flat
        BY <2>2, <3>2
      <4> QED
        BY <4>1 DEF Range
    <3> QED
      BY <3>1, <3>2
  <2> QED
    BY <2>4, <2>5 DEF flat
<1> QED
  BY <1>5, <1>6, <1>7 DEF c, P, parts

-----------------------------------------------------------------------------
\* What goes for all pairs of a sequence in their order goes for those chosen from it.
LEMMA ChosenInOrder ==
  ASSUME NEW S, NEW seq \in Seq(S), NEW P, NEW R,
         \A j \in 1 .. Len(seq) : \A i \in 1 .. j - 1 :
           seq[i] \in P /\ seq[j] \in P => <<seq[i], seq[j]>> \in R
  PROVE  \A j \in 1 .. Len(Chosen(seq, P)) : \A i \in 1 .. j - 1 :
           <<Chosen(seq, P)[i], Chosen(seq, P)[j]>> \in R
<1> DEFINE chosen == Chosen(seq, P)
<1>1. chosen \in Seq(S \cap P) /\ \E place : ChosenAt(seq, P, chosen, place)
  BY ChosenIs
<1> HIDE DEF chosen
<1>2. PICK place : ChosenAt(seq, P, chosen, place)
  BY <1>1
<1>3. Len(chosen) \in Nat /\ Len(seq) \in Nat
  BY <1>1
<1>4. ASSUME NEW j \in 1 .. Len(chosen), NEW i \in 1 .. j - 1
      PROVE  <<chosen[i], chosen[j]>> \in R
  <2>1. i \in 1 .. Len(chosen) /\ i < j
    BY <1>3
  <2>2. place[i] \in 1 .. Len(seq) /\ place[j] \in 1 .. Len(seq) /\ place[i] < place[j]
    BY <1>2, <2>1 DEF ChosenAt
  <2>3. place[i] \in 1 .. place[j] - 1
    BY <1>3, <2>2
  <2>4. /\ seq[place[i]] \in P /\ seq[place[j]] \in P
        /\ chosen[i] = seq[place[i]] /\ chosen[j] = seq[place[j]]
    BY <1>2, <2>1 DEF ChosenAt
  <2> QED
    BY <2>2, <2>3, <2>4
<1> QED
  BY <1>4 DEF chosen

\* An item that is over.
Closed(k, x) ==
  /\ x.time \in Int /\ ~x.open
  /\ Interval(k) => x.end \in Int /\ x.time <= x.end

\* The pairs of items that may be in this order.
Following(k, S) == {w \in S \X S : Follows(k, w[1], w[2])}

\* Of items in order, the first begins first and the last ends last.
LEMMA FrontAndBack ==
  ASSUME NEW S, NEW part \in Seq(S), part # <<>>, NEW k, \A x \in S : Closed(k, x),
         \A j \in 1 .. Len(part) : \A i \in 1 .. j - 1 : <<part[i], part[j]>> \in Following(k, S)
  PROVE  /\ Head(part) \in Range(part) /\ Last(part) \in Range(part)
         /\ \A x \in Range(part) : Head(part).time <= x.time /\ EndOf(x, k) <= EndOf(Last(part), k)
<1> DEFINE n == Len(part)
<1>1. n \in Nat /\ n >= 1 /\ DOMAIN part = 1 .. n
  OBVIOUS
<1>2. Head(part) = part[1] /\ Last(part) = part[n]
  BY <1>1 DEF Last
<1>3. \A i \in 1 .. n : part[i] \in S
  OBVIOUS
<1>4. \A j \in 1 .. n : \A i \in 1 .. j - 1 : Follows(k, part[i], part[j])
  BY DEF Following
<1> HIDE DEF n
<1>5. ASSUME NEW p \in 1 .. n
      PROVE  part[1].time <= part[p].time /\ EndOf(part[p], k) <= EndOf(part[n], k)
  <2>1. 1 \in 1 .. n /\ n \in 1 .. n
    BY <1>1
  <2>2. Closed(k, part[1]) /\ Closed(k, part[p]) /\ Closed(k, part[n])
    BY <1>3, <2>1
  <2>3. part[1].time <= part[p].time
    <3>1. CASE p = 1
      BY <2>2, <3>1 DEF Closed
    <3>2. CASE p # 1
      <4>1. 1 \in 1 .. p - 1
        BY <1>1, <3>2
      <4>2. Follows(k, part[1], part[p])
        BY <1>4, <4>1
      <4> QED
        BY <4>2 DEF Follows
    <3> QED
      BY <3>1, <3>2
  <2>4. EndOf(part[p], k) <= EndOf(part[n], k)
    <3>1. CASE p = n
      BY <2>2, <3>1 DEF Closed, EndOf
    <3>2. CASE p # n
      <4>1. p \in 1 .. n - 1
        BY <1>1, <3>2
      <4>2. Follows(k, part[p], part[n])
        BY <1>4, <2>1, <4>1
      <4> QED
        BY <2>2, <4>2 DEF Follows, EndOf, Closed
    <3> QED
      BY <3>1, <3>2
  <2> QED
    BY <2>3, <2>4
<1>6. \A x \in Range(part) : \E p \in 1 .. n : x = part[p]
  BY <1>1 DEF Range
<1>7. part[1] \in Range(part) /\ part[n] \in Range(part)
  <2>1. 1 \in DOMAIN part /\ n \in DOMAIN part
    BY <1>1
  <2> QED
    BY <2>1 DEF Range
<1> QED
  BY <1>2, <1>5, <1>6, <1>7

\* That some times are those of a source's first and last: each one is of an
\* item, and none of the items begins before, or ends after, all of them.
Covers(Y, X, k) ==
  /\ \A y \in Y : \E x \in X : y = x.time \/ y = EndOf(x, k)
  /\ \A x \in X : (\E y \in Y : y <= x.time) /\ (\E y \in Y : EndOf(x, k) <= y)

\* The items of a zone's thread lie within those without a parent.
LEMMA RootsCover ==
  ASSUME NEW S, NEW held \in Seq(S), NEW rank, NEW P,
         \A x : x \in P <=> x \in S /\ x.source = rank,
         InOrder("cpu-zone", held), Chosen(held, P) # <<>>,
         \A x \in P : Closed("cpu-zone", x)
  PROVE  Covers(Times(Chosen(held, P), "cpu-zone"), Range(Chosen(held, P)), "cpu-zone")
<1> DEFINE part == Chosen(held, P)
           Q == {x \in P : x.depth = 0}
           roots == Chosen(part, Q)
           k == "cpu-zone"
<1>1. part \in Seq(S \cap P) /\ \A x : x \in Range(part) <=> x \in Range(held) /\ x \in P
  BY ChosenIs, ChosenMembers
<1>2. roots \in Seq(P \cap Q) /\ \A x : x \in Range(roots) <=> x \in Range(part) /\ x \in Q
  <2> HIDE DEF part, Q
  <2>1. part \in Seq(P)
    BY <1>1
  <2> QED
    BY <2>1, ChosenIs, ChosenMembers
<1>3. Interval(k)
  BY DEF Interval
<1>4. Times(part, k) = {Head(roots).time, Last(roots).end}
  <2>1. \A p \in DOMAIN part : part[p] \in P
    BY <1>1
  <2>2. \A p \in DOMAIN part : part[p] \in Q <=> part[p].depth = 0
    BY <2>1
  <2> HIDE DEF part, Q
  <2>3. [p \in DOMAIN part |-> IF part[p].depth = 0 THEN <<part[p]>> ELSE <<>>]
        = [p \in DOMAIN part |-> IF part[p] \in Q THEN <<part[p]>> ELSE <<>>]
    BY <2>2
  <2>4. Those(part, LAMBDA item : item.depth = 0) = roots
    BY <2>3 DEF Those, Chosen
  <2>5. part # <<>>
    BY DEF part
  <2> HIDE DEF roots
  <2> QED
    BY <2>4, <2>5 DEF Times
<1>5. \A j \in 1 .. Len(part) : \A i \in 1 .. j - 1 :
        part[i] \in Q /\ part[j] \in Q => <<part[i], part[j]>> \in Following(k, P)
  <2> DEFINE R == {w \in P \X P : w[1] \in Q /\ w[2] \in Q => Follows(k, w[1], w[2])}
  <2>1. ASSUME NEW j \in 1 .. Len(held), NEW i \in 1 .. j - 1, held[i] \in P, held[j] \in P
        PROVE  <<held[i], held[j]>> \in R
    <3> DEFINE w == <<held[i], held[j]>>
    <3>1. w \in P \X P /\ w[1] = held[i] /\ w[2] = held[j]
      BY <2>1
    <3>2. w[1] \in Q /\ w[2] \in Q => Follows(k, w[1], w[2])
      <4>1. j \in DOMAIN held /\ held[i].source = held[j].source
        BY <2>1
      <4> HIDE DEF w
      <4> QED
        BY <3>1, <4>1 DEF InOrder
    <3> HIDE DEF w
    <3>3. w \in R
      BY <3>1, <3>2
    <3> QED
      BY <3>3 DEF w
  <2> HIDE DEF R, Q
  <2>2. \A j \in 1 .. Len(part) : \A i \in 1 .. j - 1 : <<part[i], part[j]>> \in R
    BY <2>1, ChosenInOrder
  <2> HIDE DEF part
  <2> QED
    BY <2>2 DEF R, Following
<1>6. \A j \in 1 .. Len(roots) : \A i \in 1 .. j - 1 : <<roots[i], roots[j]>> \in Following(k, P)
  <2>1. part \in Seq(P)
    BY <1>1
  <2> HIDE DEF part, Q
  <2> QED
    BY <1>5, <2>1, ChosenInOrder
<1>7. ASSUME NEW x \in Range(part) PROVE \E y \in Range(roots) : y.time <= x.time /\ x.end <= y.end
  <2>1. x \in Range(held) /\ x \in P
    BY <1>1
  <2>2. PICK y \in Range(held) : Within(x, y)
    BY <2>1 DEF InOrder
  <2>3. y \in S
    BY <2>2 DEF Range
  <2>4. y \in P /\ y.depth = 0
    BY <2>1, <2>2, <2>3 DEF Within
  <2>5. y \in Range(part) /\ y \in Q
    BY <1>1, <2>2, <2>4
  <2>6. y \in Range(roots)
    BY <1>2, <2>5
  <2>7. ~x.open /\ ~y.open
    BY <2>1, <2>4 DEF Closed
  <2> QED
    BY <2>2, <2>6, <2>7 DEF Within
<1>8. roots # <<>> /\ roots \in Seq(P)
  <2>1. 1 \in DOMAIN part
    BY <1>1 DEF part
  <2>2. part[1] \in Range(part)
    BY <2>1 DEF Range
  <2>3. PICK y : y \in Range(roots)
    BY <1>7, <2>2
  <2> HIDE DEF roots, Q
  <2>4. roots # <<>>
    BY <2>3 DEF Range
  <2> QED
    BY <1>2, <2>4
<1> HIDE DEF roots, part, Q
<1>9. /\ Head(roots) \in Range(roots) /\ Last(roots) \in Range(roots)
      /\ \A x \in Range(roots) : Head(roots).time <= x.time /\ EndOf(x, k) <= EndOf(Last(roots), k)
  BY <1>6, <1>8, FrontAndBack
<1>10. \A x : EndOf(x, k) = x.end
  BY <1>3 DEF EndOf
<1>11. \A x \in Range(part) : Closed(k, x) /\ x.time \in Int /\ x.end \in Int
  BY <1>1, <1>3 DEF Closed
<1>12. \A y \in Range(roots) : y \in Range(part)
  BY <1>2
<1>13. ASSUME NEW x \in Range(part)
       PROVE  Head(roots).time <= x.time /\ x.end <= Last(roots).end
  <2>1. PICK y \in Range(roots) : y.time <= x.time /\ x.end <= y.end
    BY <1>7
  <2>2. Head(roots).time <= y.time /\ y.end <= Last(roots).end
    BY <1>9, <1>10, <2>1
  <2>3. /\ x.time \in Int /\ x.end \in Int /\ y.time \in Int /\ y.end \in Int
        /\ Head(roots).time \in Int /\ Last(roots).end \in Int
    BY <1>9, <1>11, <1>12, <2>1
  <2> QED
    BY <2>1, <2>2, <2>3
<1>14. Covers({Head(roots).time, Last(roots).end}, Range(part), k)
  BY <1>9, <1>10, <1>12, <1>13 DEF Covers
<1> QED
  BY <1>4, <1>14 DEF part

\* When every item of a trace has ended, each is over.
LEMMA ItemsClosed ==
  ASSUME TracesTyped, NEW t \in DOMAIN traces, AllEnded(traces[t]), NEW k
  PROVE  \A x \in HeldItems(t, k) : Closed(k, x)
<1> SUFFICES ASSUME NEW x \in HeldItems(t, k) PROVE Closed(k, x)
  OBVIOUS
<1>1. WorkerItem(traces[t], k, x)
  BY HeldTyped
<1>2. k \in DOMAIN traces[t].data /\ ~x.open
  <2>1. PICK part \in Range(Held(traces[t], k)) : x \in Range(part)
    BY DEF HeldItems
  <2>2. k \in DOMAIN traces[t].data
    BY <2>1 DEF Held, Range
  <2>3. part \in Range(traces[t].data[k])
    BY <2>1, <2>2 DEF Held
  <2> QED
    BY <2>1, <2>2, <2>3 DEF AllEnded
<1>3. x.time \in Int /\ traces[t].last \in Int
  BY <1>1 DEF WorkerItem, TracesTyped, WorkerTrace
<1>4. Interval(k) => x.end \in x.time .. traces[t].last
  BY <1>1, <1>2 DEF WorkerItem
<1> QED
  BY <1>2, <1>3, <1>4 DEF Closed

\* Times finds a first and a last time of the items of a part.
LEMMA TimesCover ==
  ASSUME TracesTyped, NEW t \in DOMAIN traces, AllEnded(traces[t]),
         NEW k, k # "frame-image", NEW rank,
         NEW part \in Range(PartsOf(traces[t], rank, k)), part # <<>>
  PROVE  Covers(Times(part, k), Range(part), k)
<1> DEFINE S == HeldItems(t, k)
           P == OfSource(t, k, rank)
<1>1. HeldKind(k) = k
  BY DEF HeldKind
<1>2. PICK held \in Range(Held(traces[t], k)) : part = Chosen(held, P)
  BY <1>1, PartsMembers
<1>3. held \in Seq(S) /\ InOrder(k, held)
  <2>1. Held(traces[t], k) \in Seq(Seq(S)) /\ \A c \in Range(Held(traces[t], k)) : InOrder(k, c)
    BY HeldTyped
  <2> HIDE DEF S
  <2> QED
    BY <1>2, <2>1 DEF Range
<1>4. \A x : x \in P <=> x \in S /\ x.source = rank
  BY <1>1 DEF OfSource
<1>5. \A x \in S : Closed(k, x)
  BY ItemsClosed
<1> HIDE DEF S, P
<1>6. \A x \in P : Closed(k, x)
  BY <1>4, <1>5
<1>7. part \in Seq(P) /\ part # <<>>
  <2>1. part \in Seq(S \cap P)
    BY <1>2, <1>3, ChosenIs
  <2>2. S \cap P = P
    BY <1>4
  <2> QED
    BY <2>1, <2>2
<1>8. \A x \in Range(part) : x \in P
  BY <1>7 DEF Range
<1>9. \A x \in P : x.time \in Int /\ EndOf(x, k) \in Int /\ x.time <= EndOf(x, k)
  BY <1>6 DEF Closed, EndOf
<1>10. CASE k = "cpu-zone"
  BY <1>2, <1>3, <1>4, <1>6, <1>7, <1>10, RootsCover
<1>11. CASE k \in {"gpu-zone", "ghost-zone", "memory"}
  <2> DEFINE Y == {x.time : x \in Range(part)} \cup {EndOf(x, k) : x \in Range(part)}
  <2>1. Times(part, k) = Y
    BY <1>7, <1>11 DEF Times
  <2>2. \A x \in Range(part) : x.time \in Y /\ EndOf(x, k) \in Y
    OBVIOUS
  <2>3. \A y \in Y : \E x \in Range(part) : y = x.time \/ y = EndOf(x, k)
    OBVIOUS
  <2> HIDE DEF Y
  <2>4. \A x \in Range(part) : (\E y \in Y : y <= x.time) /\ (\E y \in Y : EndOf(x, k) <= y)
    BY <1>8, <1>9, <2>2
  <2> QED
    BY <2>1, <2>3, <2>4 DEF Covers
<1>12. CASE k \notin {"cpu-zone", "gpu-zone", "ghost-zone", "memory"}
  <2>1. Times(part, k) = {Head(part).time, EndOf(Last(part), k)}
    BY <1>7, <1>12 DEF Times
  <2>2. \A j \in 1 .. Len(held) : \A i \in 1 .. j - 1 :
          held[i] \in P /\ held[j] \in P => <<held[i], held[j]>> \in Following(k, P)
    <3> SUFFICES ASSUME NEW j \in 1 .. Len(held), NEW i \in 1 .. j - 1, held[i] \in P, held[j] \in P
                 PROVE  <<held[i], held[j]>> \in Following(k, P)
      OBVIOUS
    <3>1. j \in DOMAIN held /\ held[i].source = held[j].source
      BY <1>3, <1>4
    <3>2. Follows(k, held[i], held[j])
      BY <1>3, <1>12, <3>1 DEF InOrder
    <3> QED
      BY <3>2 DEF Following
  <2>3. \A j \in 1 .. Len(part) : \A i \in 1 .. j - 1 : <<part[i], part[j]>> \in Following(k, P)
    BY <1>2, <1>3, <2>2, ChosenInOrder
  <2>4. /\ Head(part) \in Range(part) /\ Last(part) \in Range(part)
        /\ \A x \in Range(part) : Head(part).time <= x.time /\ EndOf(x, k) <= EndOf(Last(part), k)
    BY <1>6, <1>7, <2>3, FrontAndBack
  <2> QED
    BY <2>1, <2>4 DEF Covers
<1> QED
  BY <1>10, <1>11, <1>12

\* A set of numbers, not empty and finite, has a smallest and a greatest one.
LEMMA Extremes ==
  ASSUME NEW S \in SUBSET Int, IsFiniteSet(S), S # {}
  PROVE  /\ \E x \in S : \A y \in S : x <= y
         /\ \E x \in S : \A y \in S : x >= y
<1> DEFINE Sound(T) == T = {} \/ ((\E x \in T : \A y \in T : x <= y) /\ (\E x \in T : \A y \in T : x >= y))
           P == {n \in Nat : \A T \in SUBSET Int : IsFiniteSet(T) /\ Cardinality(T) = n => Sound(T)}
<1>1. 0 \in P
  <2>1. \A T : IsFiniteSet(T) /\ Cardinality(T) = 0 => T = {}
    BY FS_EmptySet
  <2> QED
    BY <2>1
<1>2. ASSUME NEW n \in P PROVE n + 1 \in P
  <2> SUFFICES ASSUME NEW T \in SUBSET Int, IsFiniteSet(T), Cardinality(T) = n + 1, T # {} PROVE Sound(T)
    OBVIOUS
  <2>1. PICK z \in T : TRUE
    OBVIOUS
  <2> DEFINE U == T \ {z}
  <2>2. IsFiniteSet(U) /\ Cardinality(U) = n
    <3>1. IsFiniteSet(U) /\ Cardinality(U) = Cardinality(T) - 1
      BY <2>1, FS_RemoveElement
    <3> QED
      BY <3>1
  <2>3. Sound(U)
    BY <2>2
  <2>4. CASE U = {}
    BY <2>1, <2>4
  <2>5. CASE U # {}
    <3>1. PICK a \in U : \A y \in U : a <= y
      BY <2>3, <2>5
    <3>2. PICK b \in U : \A y \in U : b >= y
      BY <2>3, <2>5
    <3>3. a \in T /\ b \in T /\ z \in T /\ a \in Int /\ b \in Int /\ z \in Int
      BY <2>1, <3>1, <3>2
    <3>4. \A y \in T : y \in Int /\ (y = z \/ (a <= y /\ b >= y))
      BY <3>1, <3>2
    <3>5. \E x \in T : \A y \in T : x <= y
      <4>1. CASE z <= a
        <5>1. \A y \in T : z <= y
          BY <3>3, <3>4, <4>1
        <5> QED
          BY <2>1, <5>1
      <4>2. CASE ~(z <= a)
        <5>1. \A y \in T : a <= y
          BY <3>3, <3>4, <4>2
        <5> QED
          BY <3>3, <5>1
      <4> QED
        BY <4>1, <4>2
    <3>6. \E x \in T : \A y \in T : x >= y
      <4>1. CASE z >= b
        <5>1. \A y \in T : z >= y
          BY <3>3, <3>4, <4>1
        <5> QED
          BY <2>1, <5>1
      <4>2. CASE ~(z >= b)
        <5>1. \A y \in T : b >= y
          BY <3>3, <3>4, <4>2
        <5> QED
          BY <3>3, <5>1
      <4> QED
        BY <4>1, <4>2
    <3> QED
      BY <3>5, <3>6
  <2> QED
    BY <2>4, <2>5
<1>3. P \subseteq Nat
  OBVIOUS
<1>4. \A m \in Nat : m \in P
  <2> HIDE DEF P
  <2> QED
    BY <1>1, <1>2, <1>3, NatSetInduction
<1>5. Cardinality(S) \in Nat
  BY FS_CardinalityType
<1> QED
  BY <1>4, <1>5

\* When no element of either of two sets of numbers is below all of the other, one
\* of the sets being moved by d, the least of them are as far apart.
LEMMA SameLeast ==
  ASSUME NEW S \in SUBSET Int, NEW T \in SUBSET Int, IsFiniteSet(S), S # {}, NEW d \in Int,
         \A x \in S : \E y \in T : y + d <= x,
         \A y \in T : \E x \in S : x <= y + d
  PROVE  Min(T) = Min(S) - d
<1>1. PICK a \in S : \A x \in S : a <= x
  BY Extremes
<1>2. a \in Int /\ \A x \in S : x \in Int
  BY <1>1
<1>3. \A y \in T : y \in Int /\ a - d <= y
  <2> SUFFICES ASSUME NEW y \in T PROVE y \in Int /\ a - d <= y
    OBVIOUS
  <2>1. PICK x \in S : x <= y + d
    OBVIOUS
  <2> QED
    BY <1>1, <1>2, <2>1
<1>4. a - d \in T
  <2>1. PICK y \in T : y + d <= a
    BY <1>1
  <2>2. y = a - d
    BY <1>2, <1>3, <2>1
  <2> QED
    BY <2>2
<1>5. Min(S) = a
  <2>1. \A b \in S : (\A x \in S : b <= x) => b = a
    BY <1>1, <1>2
  <2> QED
    BY <1>1, <2>1 DEF Min
<1>6. Min(T) = a - d
  <2>1. \A b \in T : (\A x \in T : b <= x) => b = a - d
    BY <1>2, <1>3, <1>4
  <2> QED
    BY <1>3, <1>4, <2>1 DEF Min
<1> QED
  BY <1>5, <1>6

\* When no element of either of two sets of numbers is above all of the other, one
\* of the sets being moved by d, the greatest of them are as far apart.
LEMMA SameGreatest ==
  ASSUME NEW S \in SUBSET Int, NEW T \in SUBSET Int, IsFiniteSet(S), S # {}, NEW d \in Int,
         \A x \in S : \E y \in T : y + d >= x,
         \A y \in T : \E x \in S : x >= y + d
  PROVE  Max(T) = Max(S) - d
<1>1. PICK a \in S : \A x \in S : a >= x
  BY Extremes
<1>2. a \in Int /\ \A x \in S : x \in Int
  BY <1>1
<1>3. \A y \in T : y \in Int /\ a - d >= y
  <2> SUFFICES ASSUME NEW y \in T PROVE y \in Int /\ a - d >= y
    OBVIOUS
  <2>1. PICK x \in S : x >= y + d
    OBVIOUS
  <2> QED
    BY <1>1, <1>2, <2>1
<1>4. a - d \in T
  <2>1. PICK y \in T : y + d >= a
    BY <1>1
  <2>2. y = a - d
    BY <1>2, <1>3, <2>1
  <2> QED
    BY <2>2
<1>5. Max(S) = a
  <2>1. \A b \in S : (\A x \in S : b >= x) => b = a
    BY <1>1, <1>2
  <2> QED
    BY <1>1, <2>1 DEF Max
<1>6. Max(T) = a - d
  <2>1. \A b \in T : (\A x \in T : b >= x) => b = a - d
    BY <1>2, <1>3, <1>4
  <2> QED
    BY <1>3, <1>4, <2>1 DEF Max
<1> QED
  BY <1>5, <1>6

\* The kinds of the sources of a type are kinds, and every kind but the usage of
\* the cpus is one of the sources of its type.
LEMMA KindsOfTypes ==
  /\ \A type \in Range(TypeSeq) : KindsOfType(type) \in Seq(Range(KindSeq) \ {"cpu-usage"})
  /\ \A k \in Range(KindSeq) \ {"cpu-usage"} :
       SourceType(k) \in Range(TypeSeq) /\ k \in Range(KindsOfType(SourceType(k)))
<1>1. Range(KindSeq) = {"message", "plot", "cpu-zone", "gpu-zone", "frame", "frame-image", "lock",
             "memory", "sample", "ghost-zone", "context-switch", "cpu-slice", "cpu-usage",
             "hardware-sample", "crash"}
  BY DEF KindSeq, Range
<1>2. Range(TypeSeq) = {"thread", "gpu-thread", "plot", "frame-set", "lock", "memory-pool", "cpu",
             "hardware-counter", "capture"}
  BY DEF TypeSeq, Range
<1>3. /\ KindsOfType("thread") = <<"cpu-zone", "message", "sample", "ghost-zone", "context-switch">>
      /\ KindsOfType("gpu-thread") = <<"gpu-zone">>
      /\ KindsOfType("plot") = <<"plot">>
      /\ KindsOfType("frame-set") = <<"frame", "frame-image">>
      /\ KindsOfType("lock") = <<"lock">>
      /\ KindsOfType("memory-pool") = <<"memory">>
      /\ KindsOfType("cpu") = <<"cpu-slice">>
      /\ KindsOfType("hardware-counter") = <<"hardware-sample">>
      /\ KindsOfType("capture") = <<"crash">>
  BY DEF KindsOfType
<1>4. ASSUME NEW type \in Range(TypeSeq) PROVE KindsOfType(type) \in Seq(Range(KindSeq) \ {"cpu-usage"})
  <2> DEFINE K == Range(KindSeq) \ {"cpu-usage"}
  <2>1. /\ "message" \in K /\ "plot" \in K /\ "cpu-zone" \in K /\ "gpu-zone" \in K /\ "frame" \in K
        /\ "frame-image" \in K /\ "lock" \in K /\ "memory" \in K /\ "sample" \in K
        /\ "ghost-zone" \in K /\ "context-switch" \in K /\ "cpu-slice" \in K
        /\ "hardware-sample" \in K /\ "crash" \in K
    BY <1>1
  <2> HIDE DEF K
  <2>2. /\ <<"cpu-zone", "message", "sample", "ghost-zone", "context-switch">> \in Seq(K)
        /\ <<"gpu-zone">> \in Seq(K) /\ <<"plot">> \in Seq(K) /\ <<"frame", "frame-image">> \in Seq(K)
        /\ <<"lock">> \in Seq(K) /\ <<"memory">> \in Seq(K) /\ <<"cpu-slice">> \in Seq(K)
        /\ <<"hardware-sample">> \in Seq(K) /\ <<"crash">> \in Seq(K)
    BY <2>1
  <2> QED
    BY <1>2, <1>3, <2>2 DEF K
<1>5. /\ \A s : s = <<"cpu-zone", "message", "sample", "ghost-zone", "context-switch">> =>
           {"cpu-zone", "message", "sample", "ghost-zone", "context-switch"} \subseteq Range(s)
      /\ \A s : s = <<"frame", "frame-image">> => {"frame", "frame-image"} \subseteq Range(s)
  BY DEF Range
<1>6. \A x, s : s = <<x>> => x \in Range(s)
  BY DEF Range
<1>7. /\ {"cpu-zone", "message", "sample", "ghost-zone", "context-switch"} \subseteq Range(KindsOfType("thread"))
      /\ {"frame", "frame-image"} \subseteq Range(KindsOfType("frame-set"))
  BY <1>3, <1>5
<1>8. /\ "gpu-zone" \in Range(KindsOfType("gpu-thread")) /\ "plot" \in Range(KindsOfType("plot"))
      /\ "lock" \in Range(KindsOfType("lock")) /\ "memory" \in Range(KindsOfType("memory-pool"))
      /\ "cpu-slice" \in Range(KindsOfType("cpu"))
      /\ "hardware-sample" \in Range(KindsOfType("hardware-counter"))
      /\ "crash" \in Range(KindsOfType("capture"))
  BY <1>3, <1>6
<1>9. /\ \A k \in {"message", "cpu-zone", "sample", "ghost-zone", "context-switch"} : SourceType(k) = "thread"
      /\ \A k \in {"frame", "frame-image"} : SourceType(k) = "frame-set"
      /\ SourceType("gpu-zone") = "gpu-thread" /\ SourceType("plot") = "plot"
      /\ SourceType("lock") = "lock" /\ SourceType("memory") = "memory-pool"
      /\ SourceType("cpu-slice") = "cpu" /\ SourceType("hardware-sample") = "hardware-counter"
      /\ SourceType("crash") = "capture"
  BY DEF SourceType
<1>10. ASSUME NEW k \in Range(KindSeq) \ {"cpu-usage"}
       PROVE  SourceType(k) \in Range(TypeSeq) /\ k \in Range(KindsOfType(SourceType(k)))
  <2>1. CASE k \in {"message", "cpu-zone", "sample", "ghost-zone", "context-switch"}
    BY <1>2, <1>7, <1>9, <2>1
  <2>2. CASE k \in {"frame", "frame-image"}
    BY <1>2, <1>7, <1>9, <2>2
  <2>3. CASE k \in {"gpu-zone", "plot", "lock", "memory", "cpu-slice", "hardware-sample", "crash"}
    BY <1>2, <1>8, <1>9, <2>3
  <2> QED
    BY <1>1, <2>1, <2>2, <2>3
<1> QED
  BY <1>4, <1>10

\* The times SourceAt looks at.
TimesAt(t, rank) ==
  UNION {UNION {Times(part, k) : part \in Range(PartsOf(traces[t], rank, k))} :
         k \in Range(SourceAt(t, rank).kinds)}

\* The fields of a source.
LEMMA SourceIs ==
  ASSUME NEW t, NEW rank
  PROVE  /\ SourceAt(t, rank).file = t /\ SourceAt(t, rank).rank = rank
         /\ SourceAt(t, rank).type = traces[t].sources[rank].type
         /\ SourceAt(t, rank).id = traces[t].sources[rank].id
         /\ SourceAt(t, rank).name = traces[t].sources[rank].name
  BY DEF SourceAt

\* discover_sources counts the parts of a source.
LEMMA CountsAre ==
  ASSUME NEW t, NEW rank, NEW k \in Range(SourceAt(t, rank).kinds)
  PROVE  SourceAt(t, rank).counts[k] = Len(FlattenSeq(PartsOf(traces[t], rank, k)))
  BY DEF SourceAt

\* discover_sources spans the times it looked at, if it looked at any.
LEMMA ExtentIs ==
  ASSUME NEW t, NEW rank
  PROVE  SourceAt(t, rank).extent =
           IF TimesAt(t, rank) = {} THEN <<>>
           ELSE <<Normalize(traces[t], Min(TimesAt(t, rank))), Normalize(traces[t], Max(TimesAt(t, rank)))>>
<1>1. SourceAt(t, rank).kinds = Those(KindsOfType(traces[t].sources[rank].type),
                     LAMBDA k : k \in ListedEmpty \/ FlattenSeq(PartsOf(traces[t], rank, k)) # <<>>)
  BY DEF SourceAt
<1> QED
  BY <1>1 DEF SourceAt, TimesAt

\* Which kinds a source is listed with.
LEMMA KindsAre ==
  ASSUME TracesTyped, NEW t \in DOMAIN traces, NEW rank, traces[t].sources[rank].type \in Range(TypeSeq)
  PROVE  LET all == KindsOfType(traces[t].sources[rank].type)
             kinds == SourceAt(t, rank).kinds
         IN /\ kinds \in Seq(Range(KindSeq) \ {"cpu-usage"})
            /\ \A k : k \in Range(kinds) <=>
                 k \in Range(all) /\ (k \in ListedEmpty \/ OfSource(t, k, rank) # {})
<1> DEFINE all == KindsOfType(traces[t].sources[rank].type)
           K == Range(KindSeq) \ {"cpu-usage"}
           P == {k \in K : k \in ListedEmpty \/ OfSource(t, k, rank) # {}}
           kinds == SourceAt(t, rank).kinds
<1>1. all \in Seq(K)
  BY KindsOfTypes
<1>2. kinds = Those(all, LAMBDA k : k \in ListedEmpty \/ FlattenSeq(PartsOf(traces[t], rank, k)) # <<>>)
  BY DEF SourceAt
<1>3. \A k \in K : k \in P <=> (k \in ListedEmpty \/ FlattenSeq(PartsOf(traces[t], rank, k)) # <<>>)
  <2> SUFFICES ASSUME NEW k \in K
               PROVE  k \in P <=> (k \in ListedEmpty \/ FlattenSeq(PartsOf(traces[t], rank, k)) # <<>>)
    OBVIOUS
  <2>1. FlattenSeq(PartsOf(traces[t], rank, k)) # <<>> <=> OfSource(t, k, rank) # {}
    BY PartsMembers
  <2> QED
    BY <2>1
<1> HIDE DEF all, K, P, kinds
<1>4. kinds = Chosen(all, P)
  <2>1. \A p \in DOMAIN all : all[p] \in K
    BY <1>1
  <2>2. [p \in DOMAIN all |->
           IF all[p] \in ListedEmpty \/ FlattenSeq(PartsOf(traces[t], rank, all[p])) # <<>>
           THEN <<all[p]>> ELSE <<>>]
        = [p \in DOMAIN all |-> IF all[p] \in P THEN <<all[p]>> ELSE <<>>]
    BY <1>3, <2>1
  <2> QED
    BY <1>2, <2>2 DEF Chosen, Those
<1>5. kinds \in Seq(K \cap P) /\ \A k : k \in Range(kinds) <=> k \in Range(all) /\ k \in P
  BY <1>1, <1>4, ChosenIs, ChosenMembers
<1>6. kinds \in Seq(K)
  BY <1>5
<1>7. \A k \in Range(all) : k \in K
  BY <1>1 DEF Range
<1> QED
  BY <1>5, <1>6, <1>7 DEF all, K, P, kinds

\* What a function on a finite set has for values is finite.
LEMMA ValuesFinite ==
  ASSUME NEW S, IsFiniteSet(S), NEW f, f = [x \in S |-> f[x]]
  PROVE  IsFiniteSet({f[x] : x \in S})
<1> DEFINE T == {f[x] : x \in S}
<1>1. f \in [S -> T] /\ \A y \in T : \E x \in S : f[x] = y
  OBVIOUS
<1> HIDE DEF T
<1>2. f \in Surjection(S, T)
  BY <1>1 DEF Surjection
<1>3. IsFiniteSet(T)
  BY <1>2, FS_Surjection
<1> QED
  BY <1>3 DEF T

\* The records by which the extent of a source is judged.
TimedOf(t, rank) ==
  {r \in Range(EveryRecord(t)) : r.source = rank /\ r.kind \notin {"frame-image", "cpu-usage"}}

\* The times SourceAt looks at are those of the records, the first and the last included.
LEMMA TimesAreTimed ==
  ASSUME TracesTyped, NEW t \in DOMAIN traces, AllEnded(traces[t]), NEW rank,
         traces[t].sources[rank].type \in Range(TypeSeq)
  PROVE  LET first == traces[t].first
         IN /\ \A r \in TimedOf(t, rank) : r.time \in Int /\ r.end \in Int /\ r.time <= r.end
            /\ \A y \in TimesAt(t, rank) :
                 \E r \in TimedOf(t, rank) : y = r.time + first \/ y = r.end + first
            /\ \A r \in TimedOf(t, rank) :
                 /\ \E y \in TimesAt(t, rank) : y <= r.time + first
                 /\ \E y \in TimesAt(t, rank) : r.end + first <= y
<1> DEFINE first == traces[t].first
           timed == TimedOf(t, rank)
           kinds == SourceAt(t, rank).kinds
<1>1. first \in Int
  BY DEF TracesTyped, WorkerTrace
<1>2. ASSUME NEW k
      PROVE  \A x \in OfSource(t, k, rank) : Closed(HeldKind(k), x)
  BY ItemsClosed DEF OfSource
<1>3. ASSUME NEW k, k # "frame-image", NEW x \in OfSource(t, k, rank)
      PROVE  /\ OverAt(k, x) = EndOf(x, k) /\ x.time \in Int /\ EndOf(x, k) \in Int
             /\ x.time <= EndOf(x, k)
  <2>1. Closed(k, x)
    BY <1>2, <1>3 DEF HeldKind
  <2> QED
    BY <2>1 DEF Closed, OverAt, EndOf
<1>4. ASSUME NEW r \in timed
      PROVE  \E k \in Range(KindSeq) \ {"frame-image", "cpu-usage"} : \E x \in OfSource(t, k, rank) :
               r.time = x.time - first /\ r.end = EndOf(x, k) - first
  <2>1. r \in Range(EveryRecord(t)) /\ r.source = rank /\ r.kind \notin {"frame-image", "cpu-usage"}
    BY DEF TimedOf
  <2>2. PICK k \in Range(KindSeq) : r \in Range(VisitKind(t, k))
    BY <2>1, EveryMembers
  <2>3. PICK p \in DOMAIN VisitKind(t, k) : r = VisitKind(t, k)[p]
    BY <2>2 DEF Range
  <2>4. r = RecordOf(t, k, ItemsVisited(t, k)[p])
    BY <2>3, KindIs
  <2>5. r.kind = k
    BY <2>4 DEF RecordOf
  <2>6. PICK x \in OfSource(t, k, rank) :
          r.time = Normalize(traces[t], x.time) /\ r.end = Normalize(traces[t], OverAt(k, x))
    BY <2>1, <2>2, RecordsAreItems
  <2>7. OverAt(k, x) = EndOf(x, k)
    BY <1>3, <2>1, <2>5, <2>6
  <2> QED
    BY <2>1, <2>5, <2>6, <2>7 DEF Normalize
<1>5. \A r \in timed : r.time \in Int /\ r.end \in Int /\ r.time <= r.end
  <2> SUFFICES ASSUME NEW r \in timed PROVE r.time \in Int /\ r.end \in Int /\ r.time <= r.end
    OBVIOUS
  <2>1. PICK k \in Range(KindSeq) \ {"frame-image", "cpu-usage"} : \E x \in OfSource(t, k, rank) :
               r.time = x.time - first /\ r.end = EndOf(x, k) - first
    BY <1>4
  <2>2. PICK x \in OfSource(t, k, rank) : r.time = x.time - first /\ r.end = EndOf(x, k) - first
    BY <2>1
  <2>3. x.time \in Int /\ EndOf(x, k) \in Int /\ x.time <= EndOf(x, k)
    BY <1>3, <2>1, <2>2
  <2> HIDE DEF first, timed
  <2> QED
    BY <1>1, <2>2, <2>3
<1>6. ASSUME NEW k \in Range(kinds), NEW part \in Range(PartsOf(traces[t], rank, k)),
             NEW y \in Times(part, k)
      PROVE  \E r \in timed : y = r.time + first \/ y = r.end + first
  <2>1. k # "frame-image" /\ part # <<>>
    <3>1. k = "frame-image" \/ part = <<>> => Times(part, k) = {}
      BY DEF Times
    <3> QED
      BY <1>6, <3>1
  <2>2. k \in Range(KindSeq) \ {"cpu-usage"}
    <3>1. kinds \in Seq(Range(KindSeq) \ {"cpu-usage"})
      BY KindsAre
    <3> HIDE DEF kinds
    <3> QED
      BY <3>1 DEF Range
  <2>3. Covers(Times(part, k), Range(part), k)
    BY <2>1, TimesCover
  <2>4. PICK x \in Range(part) : y = x.time \/ y = EndOf(x, k)
    BY <2>3 DEF Covers
  <2>5. x \in OfSource(t, k, rank)
    BY <2>4, PartsMembers
  <2>6. PICK r \in Range(VisitKind(t, k)) :
          /\ r.source = rank /\ r.kind = k
          /\ r.time = Normalize(traces[t], x.time)
          /\ r.end = Normalize(traces[t], OverAt(k, x))
    BY <2>2, <2>5, RecordsAreItems
  <2>7. r \in timed
    <3>1. r \in Range(EveryRecord(t))
      BY <2>2, <2>6, EveryMembers
    <3> QED
      BY <2>1, <2>2, <2>6, <3>1 DEF TimedOf
  <2>8. OverAt(k, x) = EndOf(x, k) /\ x.time \in Int /\ EndOf(x, k) \in Int
    BY <1>3, <2>1, <2>5
  <2>9. r.time = x.time - first /\ r.end = EndOf(x, k) - first
    BY <2>6, <2>8 DEF Normalize
  <2> HIDE DEF first, timed
  <2>10. y = r.time + first \/ y = r.end + first
    BY <1>1, <2>4, <2>8, <2>9
  <2> QED
    BY <2>7, <2>10
<1>7. ASSUME NEW y \in TimesAt(t, rank)
      PROVE  \E r \in timed : y = r.time + first \/ y = r.end + first
  <2>1. PICK k \in Range(kinds) :
          y \in UNION {Times(part, k) : part \in Range(PartsOf(traces[t], rank, k))}
    BY DEF TimesAt
  <2>2. PICK part \in Range(PartsOf(traces[t], rank, k)) : y \in Times(part, k)
    BY <2>1
  <2> HIDE DEF kinds, timed, first
  <2> QED
    BY <1>6, <2>2
<1>8. ASSUME NEW r \in timed
      PROVE  /\ \E y \in TimesAt(t, rank) : y <= r.time + first
             /\ \E y \in TimesAt(t, rank) : r.end + first <= y
  <2>1. PICK k \in Range(KindSeq) \ {"frame-image", "cpu-usage"} : \E x \in OfSource(t, k, rank) :
               r.time = x.time - first /\ r.end = EndOf(x, k) - first
    BY <1>4
  <2>2. PICK x \in OfSource(t, k, rank) : r.time = x.time - first /\ r.end = EndOf(x, k) - first
    BY <2>1
  <2>3. x.time \in Int /\ EndOf(x, k) \in Int
    BY <1>3, <2>1, <2>2
  <2>4. k \in Range(kinds)
    <3>1. WorkerItem(traces[t], k, x) /\ x.source = rank
      BY <2>1, <2>2, HeldTyped DEF OfSource, HeldKind
    <3>2. traces[t].sources[rank].type = SourceType(k)
      BY <3>1 DEF WorkerItem
    <3>3. k \in Range(KindsOfType(SourceType(k)))
      BY <2>1, KindsOfTypes
    <3> QED
      BY <2>2, <3>2, <3>3, KindsAre
  <2>5. PICK part \in Range(PartsOf(traces[t], rank, k)) : x \in Range(part)
    BY <2>2, PartsMembers
  <2>6. part # <<>>
    BY <2>5 DEF Range
  <2>7. Covers(Times(part, k), Range(part), k)
    BY <2>1, <2>6, TimesCover
  <2>8. Times(part, k) \subseteq TimesAt(t, rank)
    BY <2>4, <2>5 DEF TimesAt
  <2>9. /\ \E y \in TimesAt(t, rank) : y <= x.time
        /\ \E y \in TimesAt(t, rank) : EndOf(x, k) <= y
    BY <2>5, <2>7, <2>8 DEF Covers
  <2>10. r.time + first = x.time /\ r.end + first = EndOf(x, k)
    <3> HIDE DEF first, timed
    <3> QED
      BY <1>1, <2>2, <2>3
  <2> QED
    BY <2>9, <2>10, Zenon
<1> QED
  BY <1>5, <1>7, <1>8

\* A source that is listed has the records, and the first and last time, that a
\* query shows.
LEMMA SourceAgrees ==
  ASSUME TracesTyped, NEW t \in DOMAIN traces, AllEnded(traces[t]), NEW rank,
         traces[t].sources[rank].type \in Range(TypeSeq)
  PROVE  Agrees(SourceAt(t, rank))
<1> DEFINE source == SourceAt(t, rank)
           first == traces[t].first
           timed == TimedOf(t, rank)
           times == TimesAt(t, rank)
           starts == {r.time : r \in timed}
           ends == {r.end : r \in timed}
<1>1. first \in Int
  BY DEF TracesTyped, WorkerTrace
<1>2. /\ \A r \in timed : r.time \in Int /\ r.end \in Int /\ r.time <= r.end
      /\ \A y \in times : \E r \in timed : y = r.time + first \/ y = r.end + first
      /\ \A r \in timed : /\ \E y \in times : y <= r.time + first
                          /\ \E y \in times : r.end + first <= y
  BY TimesAreTimed
<1>3. IsFiniteSet(timed)
  <2>1. PICK T : EveryRecord(t) \in Seq(T)
    <3>1. PICK T : [j \in DOMAIN KindSeq |-> VisitKind(t, KindSeq[j])] \in Seq(Seq(T))
      BY EveryIs
    <3> QED
      BY <3>1, FlattenMembers DEF EveryRecord
  <2>2. IsFiniteSet(Range(EveryRecord(t)))
    <3> DEFINE all == EveryRecord(t)
               n == Len(all)
    <3>1. n \in Nat /\ DOMAIN all = 1 .. n
      BY <2>1
    <3> HIDE DEF n, all
    <3>2. IsFiniteSet(1 .. n)
      BY <3>1, FS_Interval
    <3>3. IsFiniteSet({all[i] : i \in 1 .. n})
      <4>1. all = [i \in 1 .. n |-> all[i]]
        BY <2>1, <3>1 DEF all
      <4> QED
        BY <3>2, <4>1, ValuesFinite
    <3>4. Range(all) = {all[i] : i \in 1 .. n}
      BY <3>1 DEF Range
    <3> QED
      BY <3>3, <3>4 DEF all
  <2>3. timed \subseteq Range(EveryRecord(t))
    BY DEF TimedOf
  <2> HIDE DEF timed
  <2> QED
    BY <2>2, <2>3, FS_Subset
<1> HIDE DEF first, timed, times
<1>4. starts \subseteq Int /\ ends \subseteq Int
  BY <1>2
<1>5. times \subseteq Int /\ IsFiniteSet(times)
  <2> DEFINE A == {r.time + first : r \in timed}
             B == {r.end + first : r \in timed}
  <2>1. A \subseteq Int /\ B \subseteq Int /\ times \subseteq A \cup B
    BY <1>1, <1>2
  <2>2. IsFiniteSet(A) /\ IsFiniteSet(B)
    <3> DEFINE f == [r \in timed |-> r.time + first]
               g == [r \in timed |-> r.end + first]
    <3>1. /\ f = [r \in timed |-> f[r]] /\ g = [r \in timed |-> g[r]]
          /\ A = {f[r] : r \in timed} /\ B = {g[r] : r \in timed}
      OBVIOUS
    <3> HIDE DEF f, g, A, B
    <3>2. IsFiniteSet({f[r] : r \in timed}) /\ IsFiniteSet({g[r] : r \in timed})
      BY <1>3, <3>1, ValuesFinite
    <3> QED
      BY <3>1, <3>2
  <2> HIDE DEF A, B
  <2>3. IsFiniteSet(A \cup B)
    BY <2>2, FS_Union
  <2> QED
    BY <2>1, <2>3, FS_Subset
<1>6. times # {} <=> timed # {}
  BY <1>2
<1>7. ASSUME timed # {} PROVE Min(starts) = Min(times) - first /\ Max(ends) = Max(times) - first
  <2>1. /\ \A y \in times : \E s \in starts : s + first <= y
        /\ \A s \in starts : \E y \in times : y <= s + first
        /\ \A y \in times : \E e \in ends : e + first >= y
        /\ \A e \in ends : \E y \in times : y >= e + first
    <3>1. ASSUME NEW y \in times
          PROVE  (\E s \in starts : s + first <= y) /\ (\E e \in ends : e + first >= y)
      <4>1. PICK r \in timed : y = r.time + first \/ y = r.end + first
        BY <1>2
      <4>2. r.time \in Int /\ r.end \in Int /\ r.time <= r.end
        BY <1>2
      <4>3. r.time \in starts /\ r.end \in ends
        OBVIOUS
      <4>4. r.time + first <= y /\ r.end + first >= y
        BY <1>1, <4>1, <4>2
      <4> QED
        BY <4>3, <4>4
    <3>2. \A s \in starts : \E y \in times : y <= s + first
      BY <1>2
    <3>3. ASSUME NEW e \in ends PROVE \E y \in times : y >= e + first
      <4>1. PICK r \in timed : e = r.end
        OBVIOUS
      <4>2. PICK y \in times : r.end + first <= y
        BY <1>2
      <4>3. y \in Int /\ e \in Int /\ e + first <= y
        BY <1>4, <1>5, <4>1, <4>2
      <4> QED
        BY <1>1, <4>3
    <3> QED
      BY <3>1, <3>2, <3>3
  <2> HIDE DEF starts, ends
  <2>2. times # {}
    BY <1>6, <1>7
  <2>3. Min(starts) = Min(times) - first
    BY <1>1, <1>4, <1>5, <2>1, <2>2, SameLeast
  <2>4. Max(ends) = Max(times) - first
    BY <1>1, <1>4, <1>5, <2>1, <2>2, SameGreatest
  <2> QED
    BY <2>3, <2>4
<1>8. source.extent = IF times = {} THEN <<>> ELSE <<Min(times) - first, Max(times) - first>>
  BY ExtentIs DEF times, first, Normalize
<1>9. /\ source.file = t /\ source.rank = rank
      /\ \A k \in Range(source.kinds) :
           source.counts[k] = Len(FlattenSeq(PartsOf(traces[t], rank, k)))
  <2>1. source.file = t /\ source.rank = rank
    BY SourceIs
  <2>2. \A k \in Range(source.kinds) :
           source.counts[k] = Len(FlattenSeq(PartsOf(traces[t], rank, k)))
    BY CountsAre
  <2> QED
    BY <2>1, <2>2
<1>10. source.kinds \in Seq(Range(KindSeq) \ {"cpu-usage"})
  BY KindsAre
<1> HIDE DEF source, starts, ends
<1> DEFINE all == EveryRecord(t)
<1>11. \A k \in Range(source.kinds) :
         source.counts[k] = Cardinality({i \in DOMAIN all : all[i].source = rank /\ all[i].kind = k})
  <2> SUFFICES ASSUME NEW k \in Range(source.kinds)
               PROVE  source.counts[k]
                        = Cardinality({i \in DOMAIN all : all[i].source = rank /\ all[i].kind = k})
    OBVIOUS
  <2>1. k \in Range(KindSeq)
    BY <1>10 DEF Range
  <2>2. source.counts[k] = Len(FlattenSeq(PartsOf(traces[t], rank, k)))
    BY <1>9
  <2>3. Len(FlattenSeq(PartsOf(traces[t], rank, k)))
          = Cardinality({i \in DOMAIN all : all[i].source = rank /\ all[i].kind = k})
    BY <2>1, SourceCounted DEF Occurrences
  <2> QED
    BY <2>2, <2>3
<1>12. /\ source.extent # <<>> <=> timed # {}
       /\ timed # {} => source.extent[1] = Min(starts) /\ source.extent[2] = Max(ends)
  BY <1>6, <1>7, <1>8
<1>13. timed = {r \in Range(all) : r.source = rank /\ r.kind \notin {"frame-image", "cpu-usage"}}
  BY DEF timed, TimedOf
<1>14. /\ Min({r.time : r \in timed}) = Min(starts) /\ Max({r.end : r \in timed}) = Max(ends)
  BY DEF starts, ends
<1>15. all = EveryRecord(source.file)
  BY <1>9
<1> HIDE DEF all
<1>16. Agrees(source)
  BY <1>9, <1>11, <1>12, <1>13, <1>14, <1>15, Zenon DEF Agrees, Occurrences
<1> QED
  BY <1>16 DEF source

\* Those is Chosen, for the set of what passes the test.
LEMMA FoundAre ==
  ASSUME TracesTyped, NEW t \in DOMAIN traces
  PROVE  LET known == traces[t].sources
             A == {SourceAt(t, rank) : rank \in DOMAIN known}
         IN /\ DiscoverSources(t) \in Seq(A)
            /\ \A s : s \in Range(DiscoverSources(t)) <=>
                 \E rank \in DOMAIN known :
                   /\ s = SourceAt(t, rank) /\ known[rank].own
                   /\ s.type \in Range(TypeSeq) /\ s.kinds # <<>>
<1> DEFINE known == traces[t].sources
           A == {SourceAt(t, rank) : rank \in DOMAIN known}
           N == Cardinality(DOMAIN known)
           all == [n \in 1 .. N |-> SourceAt(t, n - 1)]
           P(j) == {s \in A : s.type = TypeSeq[j] /\ known[s.rank].own /\ s.kinds # <<>>}
           parts == [j \in DOMAIN TypeSeq |-> Chosen(all, P(j))]
<1>1. DOMAIN known = 0 .. N - 1 /\ N \in Nat
  <2>1. IsFiniteSet(DOMAIN known) /\ DOMAIN known = 0 .. Cardinality(DOMAIN known) - 1
    BY DEF TracesTyped, WorkerTrace
  <2> HIDE DEF known
  <2> QED
    BY <2>1, FS_CardinalityType
<1>2. all \in Seq(A) /\ Range(all) = A
  <2> HIDE DEF known, N
  <2>1. \A n \in 1 .. N : n - 1 \in DOMAIN known /\ SourceAt(t, n - 1) \in A
    BY <1>1
  <2>2. all \in Seq(A) /\ DOMAIN all = 1 .. N
    BY <1>1, <2>1
  <2>3. \A rank \in DOMAIN known : rank + 1 \in 1 .. N /\ rank + 1 - 1 = rank
    BY <1>1
  <2>4. \A rank \in DOMAIN known : rank + 1 \in DOMAIN all /\ all[rank + 1] = SourceAt(t, rank)
    <3> SUFFICES ASSUME NEW rank \in DOMAIN known
                 PROVE  rank + 1 \in DOMAIN all /\ all[rank + 1] = SourceAt(t, rank)
      OBVIOUS
    <3> DEFINE m == rank + 1
    <3>1. m \in 1 .. N /\ m - 1 = rank
      BY <1>1
    <3> HIDE DEF m
    <3>2. all[m] = SourceAt(t, m - 1)
      BY <3>1
    <3>3. all[m] = SourceAt(t, rank)
      BY <3>1, <3>2, Zenon
    <3> QED
      BY <2>2, <3>1, <3>3 DEF m
  <2>5. Range(all) \subseteq A
    BY <2>1, <2>2 DEF Range
  <2>6. A \subseteq Range(all)
    <3> HIDE DEF all
    <3> QED
      BY <2>4 DEF Range
  <2> QED
    BY <2>2, <2>5, <2>6
<1>3. DiscoverSources(t) = FlattenSeq(parts)
  <2>1. DiscoverSources(t) = FlattenSeq([j \in DOMAIN TypeSeq |->
          FlattenSeq([p \in DOMAIN all |->
            IF all[p].type = TypeSeq[j] /\ known[all[p].rank].own /\ all[p].kinds # <<>>
            THEN <<all[p]>> ELSE <<>>])])
    BY DEF DiscoverSources, Those
  <2> HIDE DEF all, A, known
  <2>2. \A p \in DOMAIN all : all[p] \in A
    BY <1>2
  <2>3. ASSUME NEW j \in DOMAIN TypeSeq
        PROVE  FlattenSeq([p \in DOMAIN all |->
                 IF all[p].type = TypeSeq[j] /\ known[all[p].rank].own /\ all[p].kinds # <<>>
                 THEN <<all[p]>> ELSE <<>>]) = Chosen(all, P(j))
    <3>1. \A p \in DOMAIN all :
            all[p] \in P(j) <=> all[p].type = TypeSeq[j] /\ known[all[p].rank].own /\ all[p].kinds # <<>>
      BY <2>2
    <3> HIDE DEF P
    <3>2. [p \in DOMAIN all |->
             IF all[p].type = TypeSeq[j] /\ known[all[p].rank].own /\ all[p].kinds # <<>>
             THEN <<all[p]>> ELSE <<>>]
          = [p \in DOMAIN all |-> IF all[p] \in P(j) THEN <<all[p]>> ELSE <<>>]
      BY <3>1
    <3> QED
      BY <3>2 DEF Chosen, Those
  <2> QED
    BY <2>1, <2>3
<1> HIDE DEF all, A, known, P
<1>4. parts \in Seq(Seq(A)) /\ DOMAIN parts = DOMAIN TypeSeq
  <2>1. \A j \in DOMAIN TypeSeq : Chosen(all, P(j)) \in Seq(A)
    <3> SUFFICES ASSUME NEW j \in DOMAIN TypeSeq PROVE Chosen(all, P(j)) \in Seq(A)
      OBVIOUS
    <3>1. Chosen(all, P(j)) \in Seq(A \cap P(j))
      BY <1>2, ChosenIs
    <3> QED
      BY <3>1
  <2>2. DOMAIN TypeSeq = 1 .. 9
    BY DEF TypeSeq
  <2> QED
    BY <2>1, <2>2
<1>5. ASSUME NEW j \in DOMAIN TypeSeq, NEW s
      PROVE  s \in Range(parts[j]) <=> s \in A /\ s \in P(j)
  BY <1>2, ChosenMembers
<1>6. \A s : s \in A <=> \E rank \in DOMAIN known : s = SourceAt(t, rank)
  BY DEF A
<1>7. \A rank : SourceAt(t, rank).rank = rank
  BY SourceIs
<1>8. \A s : s.type \in Range(TypeSeq) <=> \E j \in DOMAIN TypeSeq : s.type = TypeSeq[j]
  BY DEF Range
<1> HIDE DEF parts
<1>9. FlattenSeq(parts) \in Seq(A)
  BY <1>4, FlattenMembers
<1>10. \A s : s \in Range(FlattenSeq(parts)) <=> \E j \in DOMAIN TypeSeq : s \in Range(parts[j])
  BY <1>4, FlattenMembers
<1>11. \A s : s \in Range(FlattenSeq(parts)) <=>
          \E rank \in DOMAIN known :
            s = SourceAt(t, rank) /\ known[rank].own /\ s.type \in Range(TypeSeq) /\ s.kinds # <<>>
  <2>1. ASSUME NEW s, s \in Range(FlattenSeq(parts))
        PROVE  \E rank \in DOMAIN known :
                 s = SourceAt(t, rank) /\ known[rank].own /\ s.type \in Range(TypeSeq) /\ s.kinds # <<>>
    <3>1. PICK j \in DOMAIN TypeSeq : s \in A /\ s \in P(j)
      BY <1>5, <1>10, <2>1
    <3>2. PICK rank \in DOMAIN known : s = SourceAt(t, rank)
      BY <1>6, <3>1
    <3>3. s.type = TypeSeq[j] /\ known[s.rank].own /\ s.kinds # <<>>
      BY <3>1 DEF P
    <3> QED
      BY <1>7, <1>8, <3>1, <3>2, <3>3
  <2>2. ASSUME NEW rank \in DOMAIN known, NEW s,
               s = SourceAt(t, rank), known[rank].own, s.type \in Range(TypeSeq), s.kinds # <<>>
        PROVE  s \in Range(FlattenSeq(parts))
    <3>1. PICK j \in DOMAIN TypeSeq : s.type = TypeSeq[j]
      BY <1>8, <2>2
    <3>2. s.rank = rank /\ s \in A
      BY <1>6, <1>7, <2>2
    <3>3. s \in P(j)
      BY <2>2, <3>1, <3>2 DEF P
    <3> QED
      BY <1>5, <1>10, <3>2, <3>3
  <2> QED
    BY <2>1, <2>2
<1> QED
  BY <1>3, <1>9, <1>11 DEF A, known

\* What `sources` lists.
LEMMA ListedAre ==
  ASSUME TracesTyped
  PROVE  /\ Len(ListedSources) \in Nat
         /\ \A s : s \in Range(ListedSources) <=>
              \E t \in DOMAIN traces : s \in Range(DiscoverSources(t)) /\ SourceSelected(options, s)
<1> DEFINE B == UNION {Range(DiscoverSources(t)) : t \in DOMAIN traces}
           P == {s \in B : SourceSelected(options, s)}
           parts == [t \in DOMAIN traces |-> Chosen(DiscoverSources(t), P)]
<1>1. ASSUME NEW t \in DOMAIN traces
      PROVE  /\ DiscoverSources(t) \in Seq(B)
             /\ \A p \in DOMAIN DiscoverSources(t) : DiscoverSources(t)[p] \in B
  <2>1. Range(DiscoverSources(t)) \subseteq B
    OBVIOUS
  <2>2. PICK A : DiscoverSources(t) \in Seq(A)
    BY FoundAre
  <2> HIDE DEF B
  <2>3. \A p \in DOMAIN DiscoverSources(t) : DiscoverSources(t)[p] \in B
    BY <2>1 DEF Range
  <2> DEFINE d == DiscoverSources(t)
  <2>4. d \in Seq(A) /\ \A p \in DOMAIN d : d[p] \in B
    BY <2>2, <2>3
  <2> HIDE DEF d
  <2>5. d \in Seq(B)
    BY <2>4
  <2> QED
    BY <2>3, <2>5 DEF d
<1>2. ListedSources = FlattenSeq(parts)
  <2>1. ListedSources = FlattenSeq([t \in DOMAIN traces |->
          FlattenSeq([p \in DOMAIN DiscoverSources(t) |->
            IF SourceSelected(options, DiscoverSources(t)[p]) THEN <<DiscoverSources(t)[p]>> ELSE <<>>])])
    BY DEF ListedSources, Those
  <2>2. ASSUME NEW t \in DOMAIN traces
        PROVE  FlattenSeq([p \in DOMAIN DiscoverSources(t) |->
                 IF SourceSelected(options, DiscoverSources(t)[p]) THEN <<DiscoverSources(t)[p]>> ELSE <<>>])
               = Chosen(DiscoverSources(t), P)
    <3>1. \A p \in DOMAIN DiscoverSources(t) :
            DiscoverSources(t)[p] \in P <=> SourceSelected(options, DiscoverSources(t)[p])
      BY <1>1
    <3> HIDE DEF P, B
    <3>2. [p \in DOMAIN DiscoverSources(t) |->
             IF SourceSelected(options, DiscoverSources(t)[p]) THEN <<DiscoverSources(t)[p]>> ELSE <<>>]
          = [p \in DOMAIN DiscoverSources(t) |->
               IF DiscoverSources(t)[p] \in P THEN <<DiscoverSources(t)[p]>> ELSE <<>>]
      BY <3>1
    <3> QED
      BY <3>2 DEF Chosen, Those
  <2> HIDE DEF P, B
  <2> QED
    BY <2>1, <2>2
<1>3. DOMAIN traces = 1 .. Len(traces) /\ Len(traces) \in Nat
  BY DEF TracesTyped
<1>4. \A s : s \in P <=> s \in B /\ SourceSelected(options, s)
  OBVIOUS
<1>5. \A s : s \in B <=> \E t \in DOMAIN traces : s \in Range(DiscoverSources(t))
  OBVIOUS
<1> HIDE DEF P, B
<1>6. ASSUME NEW t \in DOMAIN traces
      PROVE  /\ Chosen(DiscoverSources(t), P) \in Seq(B)
             /\ \A s : s \in Range(Chosen(DiscoverSources(t), P)) <=> s \in Range(DiscoverSources(t)) /\ s \in P
  <2>1. Chosen(DiscoverSources(t), P) \in Seq(B \cap P)
    BY <1>1, ChosenIs
  <2>2. \A s : s \in Range(Chosen(DiscoverSources(t), P)) <=> s \in Range(DiscoverSources(t)) /\ s \in P
    BY <1>1, ChosenMembers
  <2> DEFINE c == Chosen(DiscoverSources(t), P)
  <2> HIDE DEF c
  <2>3. c \in Seq(B \cap P) => c \in Seq(B)
    OBVIOUS
  <2> QED
    BY <2>1, <2>2, <2>3 DEF c
<1>7. parts \in Seq(Seq(B)) /\ DOMAIN parts = DOMAIN traces
  BY <1>3, <1>6
<1>8. \A t \in DOMAIN traces : \A s :
        s \in Range(parts[t]) <=> s \in Range(DiscoverSources(t)) /\ s \in P
  BY <1>6
<1> HIDE DEF parts
<1>9. FlattenSeq(parts) \in Seq(B)
      /\ \A s : s \in Range(FlattenSeq(parts)) <=> \E t \in DOMAIN traces : s \in Range(parts[t])
  BY <1>7, FlattenMembers
<1>10. Len(FlattenSeq(parts)) \in Nat
  BY <1>9
<1>11. \A s : s \in Range(FlattenSeq(parts)) <=>
          \E t \in DOMAIN traces : s \in Range(DiscoverSources(t)) /\ SourceSelected(options, s)
  BY <1>4, <1>5, <1>8, <1>9
<1> QED
  BY <1>2, <1>10, <1>11

\* Of every record but the cpus' usage the source, when it is listed at all, is
\* found, with the record's kind.
LEMMA RecordFound ==
  ASSUME TracesTyped, NEW t \in DOMAIN traces, NEW r \in Range(EveryRecord(t)),
         r.kind # "cpu-usage", traces[t].sources[r.source].own
  PROVE  /\ SourceAt(t, r.source) \in Range(DiscoverSources(t))
         /\ r.kind \in Range(SourceAt(t, r.source).kinds)
<1> DEFINE rank == r.source
<1>1. PICK k \in Range(KindSeq) : r \in Range(VisitKind(t, k))
  BY EveryMembers
<1>2. r.kind = k
  <2>1. PICK p \in DOMAIN VisitKind(t, k) : r = VisitKind(t, k)[p]
    BY <1>1 DEF Range
  <2> QED
    BY <2>1, KindVisited
<1>3. PICK x \in OfSource(t, k, rank) : TRUE
  BY <1>1, RecordsAreItems
<1>4. x.source = rank /\ WorkerItem(traces[t], HeldKind(k), x)
  BY <1>3, HeldTyped DEF OfSource
<1>5. rank \in DOMAIN traces[t].sources /\ traces[t].sources[rank].type = SourceType(HeldKind(k))
  BY <1>4 DEF WorkerItem
<1>6. SourceType(HeldKind(k)) = SourceType(k)
  BY DEF HeldKind, SourceType
<1>7. SourceType(k) \in Range(TypeSeq) /\ k \in Range(KindsOfType(SourceType(k)))
  BY <1>1, <1>2, KindsOfTypes
<1>8. k \in Range(SourceAt(t, rank).kinds)
  BY <1>3, <1>5, <1>6, <1>7, KindsAre
<1>9. SourceAt(t, rank).kinds # <<>>
  <2> DEFINE kinds == SourceAt(t, rank).kinds
  <2>1. k \in Range(kinds)
    BY <1>8
  <2> HIDE DEF kinds
  <2>2. kinds # <<>>
    BY <2>1 DEF Range
  <2> QED
    BY <2>2 DEF kinds
<1>10. SourceAt(t, rank).type \in Range(TypeSeq)
  BY <1>5, <1>6, <1>7, SourceIs
<1> QED
  BY <1>2, <1>5, <1>8, <1>9, <1>10, FoundAre

\* SourceAt, field by field.
SourceRecord(t, rank) ==
  LET source == traces[t].sources[rank]
      times == TimesAt(t, rank)
  IN SourceAt(t, rank) =
       [file |-> t, rank |-> rank, id |-> source.id, type |-> source.type,
        name |-> source.name, kinds |-> SourceAt(t, rank).kinds, counts |-> SourceAt(t, rank).counts,
        extent |-> IF times = {} THEN <<>>
                   ELSE <<Normalize(traces[t], Min(times)), Normalize(traces[t], Max(times))>>]

SourceRecords == \A t, rank : SourceRecord(t, rank)

\* The lemma above, as a fact of every state.
LEMMA RecordIs == SourceRecords
<1> SUFFICES ASSUME NEW t, NEW rank PROVE SourceRecord(t, rank)
  BY DEF SourceRecords
<1> DEFINE s == SourceAt(t, rank)
<1>1. s = [file |-> s.file, rank |-> s.rank, id |-> s.id, type |-> s.type,
           name |-> s.name, kinds |-> s.kinds, counts |-> s.counts, extent |-> s.extent]
  BY DEF SourceAt
<1>2. /\ s.file = t /\ s.rank = rank /\ s.type = traces[t].sources[rank].type
      /\ s.id = traces[t].sources[rank].id /\ s.name = traces[t].sources[rank].name
  BY SourceIs
<1>3. s.extent = IF TimesAt(t, rank) = {} THEN <<>>
           ELSE <<Normalize(traces[t], Min(TimesAt(t, rank))), Normalize(traces[t], Max(TimesAt(t, rank)))>>
  BY ExtentIs
<1> QED
  BY <1>1, <1>2, <1>3, Zenon DEF SourceRecord

\* A source is what its trace says.
LEMMA SourceStays ==
  ASSUME UNCHANGED traces, NEW t, NEW rank
  PROVE  SourceAt(t, rank)' = SourceAt(t, rank)
<1> DEFINE all == KindsOfType(traces[t].sources[rank].type)
           test(k) == k \in ListedEmpty \/ FlattenSeq(PartsOf(traces[t], rank, k)) # <<>>
<1>1. traces' = traces
  OBVIOUS
<1>2. all' = all /\ \A k : test(k)' <=> test(k)
  BY <1>1, Zenon
<1>3. Those(all, test)' = Those(all, test)
  <2>1. [p \in DOMAIN all |-> IF test(all[p]) THEN <<all[p]>> ELSE <<>>]'
        = [p \in DOMAIN all |-> IF test(all[p]) THEN <<all[p]>> ELSE <<>>]
    <3> HIDE DEF all, test
    <3> QED
      BY <1>2
  <2> QED
    BY <2>1, Zenon DEF Those
<1>4. SourceAt(t, rank).kinds' = SourceAt(t, rank).kinds
  BY <1>3, Zenon DEF SourceAt
<1>5. TimesAt(t, rank)' = TimesAt(t, rank)
  <2> DEFINE parts(k) == PartsOf(traces[t], rank, k)
             some(k) == UNION {Times(part, k) : part \in Range(parts(k))}
             kinds == SourceAt(t, rank).kinds
  <2>1. \A k : some(k)' = some(k)
    <3>1. \A k : parts(k)' = parts(k)
      BY <1>1, Zenon
    <3> HIDE DEF parts
    <3> QED
      BY <3>1
  <2>2. TimesAt(t, rank) = UNION {some(k) : k \in Range(kinds)}
    BY DEF TimesAt
  <2>3. TimesAt(t, rank)' = UNION {some(k)' : k \in Range(kinds)'}
    BY DEF TimesAt
  <2>4. Range(kinds)' = Range(kinds)
    BY <1>4, Zenon DEF Range
  <2> HIDE DEF some, kinds
  <2> QED
    BY <2>1, <2>2, <2>3, <2>4
<1>6. SourceAt(t, rank).counts' = SourceAt(t, rank).counts
  BY <1>1, <1>4 DEF SourceAt
<1>7. SourceRecords'
  BY RecordIs, PTL
<1>8. SourceRecord(t, rank) /\ SourceRecord(t, rank)'
  BY <1>7, RecordIs, Zenon DEF SourceRecords
<1> DEFINE source == traces[t].sources[rank]
           extent == IF TimesAt(t, rank) = {} THEN <<>>
                     ELSE <<Normalize(traces[t], Min(TimesAt(t, rank))),
                            Normalize(traces[t], Max(TimesAt(t, rank)))>>
           made == [file |-> t, rank |-> rank, id |-> source.id, type |-> source.type,
                    name |-> source.name, kinds |-> SourceAt(t, rank).kinds,
                    counts |-> SourceAt(t, rank).counts, extent |-> extent]
<1>9. source' = source /\ extent' = extent
  BY <1>1, <1>5, Zenon
<1>10. SourceAt(t, rank) = made /\ SourceAt(t, rank)' = made'
  BY <1>8, Zenon DEF SourceRecord
<1> HIDE DEF source, extent, all, test
<1>11. made' = made
  BY <1>4, <1>6, <1>9, Zenon
<1> QED
  BY <1>10, <1>11, Zenon

\* What `sources` writes are sources of the traces, without selectors every one
\* that is found.
IsListing(written) ==
  /\ \A s \in Range(written) : \E t \in DOMAIN traces : \E rank \in DOMAIN traces[t].sources :
       s = SourceAt(t, rank) /\ traces[t].sources[rank].type \in Range(TypeSeq)
  /\ options = [NoOptions EXCEPT !.command = "sources"] =>
       \A t \in DOMAIN traces : \A r \in Range(EveryRecord(t)) :
         \/ r.kind = "cpu-usage" \/ ~traces[t].sources[r.source].own
         \/ /\ SourceAt(t, r.source) \in Range(written)
            /\ r.kind \in Range(SourceAt(t, r.source).kinds)

Answering == exit = 0 /\ failure = "none" /\ options.command = "sources" /\ ~options.count

SourcesHold ==
  /\ exit = Running => answer = <<>>
  /\ Answering => IsListing(answer)

\* Without selectors every source is selected.
LEMMA AllSelected ==
  ASSUME options = [NoOptions EXCEPT !.command = "sources"], NEW s
  PROVE  SourceSelected(options, s)
<1>1. /\ options.kinds = <<>> /\ options.sources = {} /\ options.sourceRegexes = {}
      /\ options.types = {} /\ options.threads = {} /\ options.gpuContexts = {}
      /\ options.plots = {} /\ options.frameSets = {} /\ options.locks = {}
      /\ options.memoryPools = {} /\ options.cpus = {} /\ options.filters = <<>>
  BY DEF NoOptions
<1>2. Range(<<>>) = {}
  BY DEF Range
<1> QED
  BY <1>1, <1>2 DEF SourceSelected, AnyMatch, OfScope

\* The sources that run_sources lists are a listing.
LEMMA ListedAnswers ==
  ASSUME TracesTyped
  PROVE  IsListing(ListedSources)
<1>1. ASSUME NEW s \in Range(ListedSources)
      PROVE  \E t \in DOMAIN traces : \E rank \in DOMAIN traces[t].sources :
               s = SourceAt(t, rank) /\ traces[t].sources[rank].type \in Range(TypeSeq)
  <2>1. PICK t \in DOMAIN traces : s \in Range(DiscoverSources(t))
    BY ListedAre
  <2>2. PICK rank \in DOMAIN traces[t].sources : s = SourceAt(t, rank) /\ s.type \in Range(TypeSeq)
    BY <2>1, FoundAre
  <2> QED
    BY <2>2, SourceIs
<1>2. ASSUME options = [NoOptions EXCEPT !.command = "sources"], NEW t \in DOMAIN traces,
             NEW r \in Range(EveryRecord(t)), r.kind # "cpu-usage", traces[t].sources[r.source].own
      PROVE  /\ SourceAt(t, r.source) \in Range(ListedSources)
             /\ r.kind \in Range(SourceAt(t, r.source).kinds)
  <2>1. /\ SourceAt(t, r.source) \in Range(DiscoverSources(t))
        /\ r.kind \in Range(SourceAt(t, r.source).kinds)
    BY <1>2, RecordFound
  <2>2. SourceSelected(options, SourceAt(t, r.source))
    BY <1>2, AllSelected
  <2> QED
    BY <2>1, <2>2, ListedAre
<1> QED
  BY <1>1, <1>2 DEF IsListing

\* The records of a trace are what they are.
LEMMA RecordsStay ==
  ASSUME UNCHANGED traces, NEW t
  PROVE  EveryRecord(t)' = EveryRecord(t)
<1>1. traces' = traces
  OBVIOUS
<1>2. \A label : TraceOrder(label)' = TraceOrder(label)
  BY <1>1 DEF TraceOrder
<1>3. \A k, n : RecordOf(t, k, n)' = RecordOf(t, k, n)
  BY <1>1, <1>2, Zenon DEF RecordOf
<1>4. ASSUME NEW k PROVE VisitKind(t, k)' = VisitKind(t, k)
  <2> DEFINE items == ItemsVisited(t, k)
  <2>1. items' = items
    BY <1>1, Zenon DEF ItemsVisited
  <2>2. /\ VisitKind(t, k) = [p \in DOMAIN items |-> RecordOf(t, k, items[p])]
        /\ VisitKind(t, k)' = [p \in DOMAIN items' |-> RecordOf(t, k, items[p])']
    BY DEF VisitKind, ItemsVisited
  <2> HIDE DEF items
  <2>3. \A p : RecordOf(t, k, items[p])' = RecordOf(t, k, items[p])
    BY <1>3, <2>1, Zenon
  <2> QED
    BY <2>1, <2>2, <2>3
<1>5. [k \in DOMAIN KindSeq |-> VisitKind(t, KindSeq[k])'] = [k \in DOMAIN KindSeq |-> VisitKind(t, KindSeq[k])]
  BY <1>4
<1> QED
  BY <1>5, Zenon DEF EveryRecord

\* A listing stays one while the traces and the options stay.
LEMMA ListingStays ==
  ASSUME UNCHANGED <<traces, options>>, NEW written, IsListing(written)
  PROVE  IsListing(written)'
<1>1. traces' = traces /\ options' = options
  OBVIOUS
<1>2. \A t, rank : SourceAt(t, rank)' = SourceAt(t, rank)
  BY SourceStays
<1>3. \A t : EveryRecord(t)' = EveryRecord(t)
  BY RecordsStay
<1> QED
  BY <1>1, <1>2, <1>3, Zenon DEF IsListing

\* At the start no sources are written.
LEMMA SourcesInit == ProgramInit => SourcesHold
  BY DEF ProgramInit, Fresh, SourcesHold, Answering, Running

\* Every step keeps the sources that were written right.
LEMMA SourcesStep ==
  ASSUME ProgramBase, SourcesHold, [ProgramNext]_allVars
  PROVE  SourcesHold'
<1>1. TracesTyped
  BY DEF ProgramBase, Inputs
<1>2. CASE ParseArguments
  <2>1. exit = Running /\ answer = <<>> /\ traces = <<>>
    BY <1>2 DEF ParseArguments, ProgramBase, Progress, SourcesHold
  <2>2. answer' = <<>>
    BY <1>2, <2>1 DEF ParseArguments
  <2>3. ASSUME exit' = 0 PROVE traces' = <<>>
    <3>1. ParseCli(argv).verdict # "accepted"
      BY <1>2, <2>3 DEF ParseArguments, ParseStatus, Running
    <3> QED
      BY <1>2, <2>1, <3>1 DEF ParseArguments
  <2>4. ASSUME exit' = 0 PROVE IsListing(answer)'
    <3>1. DOMAIN traces' = {} /\ Range(answer') = {}
      BY <2>2, <2>3, <2>4 DEF Range
    <3> QED
      BY <3>1 DEF IsListing
  <2> QED
    BY <2>2, <2>4 DEF SourcesHold, Answering
<1>3. CASE RunCommand
  <2>1. exit = Running /\ exit' # Running /\ UNCHANGED <<traces, options>>
    BY <1>3 DEF RunCommand, Throw, ExitStatus, Running
  <2>2. ASSUME Answering' PROVE IsListing(answer)'
    <3>1. options.command = "sources" /\ ~options.count
      BY <2>1, <2>2 DEF Answering
    <3>2. answer' = ListedSources
      BY <1>3, <3>1 DEF RunCommand
    <3>3. PICK written : written = ListedSources
      OBVIOUS
    <3>4. IsListing(written)
      BY <1>1, <3>3, ListedAnswers, Zenon
    <3>5. IsListing(written)'
      BY <2>1, <3>4, ListingStays
    <3>6. answer' = written
      BY <3>2, <3>3
    <3> QED
      BY <3>5, <3>6, Zenon DEF IsListing
  <2> QED
    BY <2>1, <2>2 DEF SourcesHold
<1>4. CASE UNCHANGED <<traces, options, answer, exit, failure>>
  <2>1. ASSUME Answering' PROVE IsListing(answer)'
    <3>1. IsListing(answer)
      BY <1>4, <2>1 DEF SourcesHold, Answering
    <3>2. PICK written : written = answer
      OBVIOUS
    <3>3. IsListing(written)'
      BY <1>4, <3>1, <3>2, ListingStays, Zenon
    <3>4. answer' = written
      BY <1>4, <3>2
    <3> QED
      BY <3>3, <3>4, Zenon DEF IsListing
  <2> QED
    BY <1>4, <2>1 DEF SourcesHold
<1>5. CASE RunQuery
  <2>1. CASE UNCHANGED vars
    BY <1>4, <1>5, <2>1 DEF vars, queryVars, RunQuery, programVars
  <2>2. CASE Load
    BY <1>5, <2>2 DEF Load, RunQuery, programVars, SourcesHold, Answering, Running
  <2>3. CASE LoadFails
    BY <1>5, <2>3 DEF LoadFails, Throw, ExitStatus, RunQuery, programVars, SourcesHold, Answering, Running
  <2>4. CASE \/ Skip \/ Select \/ CountRecord \/ List \/ FinishListing \/ FinishCount \/ FinishPoint
    <3>1. exit = Running /\ options.command = "query" /\ options' = options
      BY <2>4 DEF Skip, Select, CountRecord, List, FinishListing, FinishCount, FinishPoint,
                  Visiting, Visited, Querying
    <3>2. answer' = answer
      BY <1>5 DEF RunQuery, programVars
    <3> QED
      BY <3>1, <3>2 DEF SourcesHold, Answering
  <2> QED
    BY <1>5, <2>1, <2>2, <2>3, <2>4 DEF RunQuery, Next, Done
<1>6. CASE UNCHANGED allVars
  BY <1>4, <1>6 DEF allVars, vars, queryVars, programVars
<1> QED
  BY <1>2, <1>3, <1>5, <1>6 DEF ProgramNext

\* The invariant says that the answer of `sources` is right.
LEMMA SourcesAreRight == ProgramBase /\ SourcesHold => SourcesAnswer
<1> SUFFICES ASSUME ProgramBase, SourcesHold, Answering PROVE SourcesAnswer
  BY DEF SourcesAnswer, Answering
<1>1. IsListing(answer) /\ TracesTyped
  BY DEF SourcesHold, ProgramBase, Inputs
<1>2. ASSUME NEW source \in Range(answer), AllEnded(traces[source.file]) PROVE Agrees(source)
  <2>1. PICK t \in DOMAIN traces : \E rank \in DOMAIN traces[t].sources :
          source = SourceAt(t, rank) /\ traces[t].sources[rank].type \in Range(TypeSeq)
    BY <1>1 DEF IsListing
  <2>2. PICK rank \in DOMAIN traces[t].sources :
          source = SourceAt(t, rank) /\ traces[t].sources[rank].type \in Range(TypeSeq)
    BY <2>1
  <2>3. source.file = t
    BY <2>2, SourceIs
  <2>4. AllEnded(traces[t])
    BY <1>2, <2>3, Zenon
  <2>5. Agrees(SourceAt(t, rank))
    BY <1>1, <2>2, <2>4, SourceAgrees
  <2> QED
    BY <2>2, <2>5, Zenon
<1>3. ASSUME options = [NoOptions EXCEPT !.command = "sources"], NEW t \in DOMAIN traces,
             NEW r \in Range(EveryRecord(t)), r.kind # "cpu-usage", traces[t].sources[r.source].own
      PROVE  \E source \in Range(answer) :
               source.file = t /\ source.rank = r.source /\ r.kind \in Range(source.kinds)
  <2>1. /\ SourceAt(t, r.source) \in Range(answer)
        /\ r.kind \in Range(SourceAt(t, r.source).kinds)
    BY <1>1, <1>3 DEF IsListing
  <2>2. SourceAt(t, r.source).file = t /\ SourceAt(t, r.source).rank = r.source
    BY SourceIs
  <2> QED
    BY <2>1, <2>2
<1> QED
  BY <1>2, <1>3, Zenon DEF SourcesAnswer

\* `sources` and `query` say the same of a trace, whatever it holds: a listed source
\* has the records, and the first and last time, that a query shows, and without
\* selectors no record but of a cpu's usage is without its source.
THEOREM SourcesAgree == ProgramSpec => []SourcesAnswer
<1>1. ProgramBase /\ SourcesHold => SourcesAnswer
  BY SourcesAreRight
<1>2. ProgramInit => ProgramBase /\ SourcesHold
  BY BaseInit, SourcesInit
<1>3. ProgramBase /\ SourcesHold /\ [ProgramNext]_allVars => (ProgramBase /\ SourcesHold)'
  BY BaseStep, SourcesStep
<1> QED
  BY <1>1, <1>2, <1>3, PTL DEF ProgramSpec

-----------------------------------------------------------------------------
(* Types. *)

\* What the program has counted, and how it ended.
Counts == count \in Nat /\ \A g \in DOMAIN groups : groups[g] \in Nat \ {0}

TypesInv ==
  /\ Counts
  /\ failure \in {"none", "load", "output", "sort run"}
  /\ exit \in {Running, 0, 1, 2}
  /\ exit = 2 => loaded = 0
  /\ exit # Running \/ loaded > 0 => parsed

\* A record more makes no group empty.
LEMMA TallyPositive ==
  ASSUME NEW tally, \A g \in DOMAIN tally : tally[g] \in Nat \ {0}, NEW r
  PROVE  \A g \in DOMAIN Tally(tally, r) : Tally(tally, r)[g] \in Nat \ {0}
<1> DEFINE g == GroupOf(r)
           n == (IF g \in DOMAIN tally THEN tally[g] ELSE 0) + 1
<1>1. n \in Nat \ {0}
  OBVIOUS
<1>2. Tally(tally, r) = [j \in DOMAIN tally \cup {g} |-> IF j = g THEN n ELSE tally[j]]
  BY DEF Tally, With
<1> HIDE DEF g, n
<1> QED
  BY <1>1, <1>2

\* No group of some records is empty.
LEMMA TalliedPositive ==
  ASSUME NEW V, NEW rs \in Seq(V)
  PROVE  \A g \in DOMAIN Tallied(<<>>, rs) : Tallied(<<>>, rs)[g] \in Nat \ {0}
<1> DEFINE tally == Tallied(<<>>, rs)
           N == Len(rs)
<1>1. TallyOf(tally, rs, DOMAIN rs)
  BY TalliedIs
<1>2. N \in Nat /\ DOMAIN rs = 1 .. N
  OBVIOUS
<1> HIDE DEF tally, N
<1>3. IsFiniteSet(DOMAIN rs)
  BY <1>2, FS_Interval
<1>4. ASSUME NEW g \in DOMAIN tally PROVE tally[g] \in Nat \ {0}
  <2> DEFINE S == {i \in DOMAIN rs : GroupOf(rs[i]) = g}
  <2>1. tally[g] = Cardinality(S) /\ S # {}
    BY <1>1 DEF TallyOf
  <2>2. IsFiniteSet(S)
    BY <1>3, FS_Subset
  <2> HIDE DEF S
  <2>3. Cardinality(S) \in Nat /\ Cardinality(S) # 0
    BY <2>1, <2>2, FS_CardinalityType, FS_EmptySet
  <2> QED
    BY <2>1, <2>3
<1> QED
  BY <1>4 DEF tally

\* The program starts with typed counts and failures.
LEMMA TypesInit == ProgramInit => TypesInv
  BY DEF ProgramInit, Fresh, TypesInv, Counts, Running

\* Every step keeps them typed.
LEMMA TypesStep ==
  ASSUME ProgramBase, PointHolds, CountHolds, TypesInv, [ProgramNext]_allVars
  PROVE  TypesInv'
<1>1. /\ exit \in {Running, 0, 1, 2} /\ failure \in {"none", "load", "output", "sort run"}
      /\ Counts /\ loaded \in Nat
      /\ exit = 2 => loaded = 0
  <2>1. loaded \in 0 .. Len(traces) /\ Len(traces) \in Nat
    BY DEF ProgramBase, Progress, Inputs, TracesTyped
  <2>2. loaded \in Nat
    BY <2>1
  <2> QED
    BY <2>2, Zenon DEF TypesInv
<1>8. exit # Running \/ loaded > 0 => parsed
  BY DEF TypesInv
<1>2. CASE ParseArguments
  <2>1. /\ parsed' /\ exit' = ParseStatus(ParseCli(argv).verdict)
        /\ UNCHANGED <<loaded, count, groups, failure>>
    BY <1>2 DEF ParseArguments
  <2>2. loaded = 0
    <3>1. ~parsed
      BY <1>2 DEF ParseArguments
    <3>2. ~(loaded > 0)
      BY <1>8, <3>1, Zenon
    <3>3. loaded \in Nat
      BY <1>1, Zenon
    <3> QED
      BY <3>2, <3>3
  <2>3. exit' \in {Running, 0, 1, 2}
    BY <2>1, VerdictIs DEF ParseStatus
  <2> QED
    BY <1>1, <2>1, <2>2, <2>3 DEF TypesInv, Counts
<1>3. CASE RunCommand
  <2>1. /\ parsed /\ UNCHANGED <<loaded, groups, parsed>>
        /\ exit' \in {0, 1} /\ failure' \in {failure, "output"}
    BY <1>3 DEF RunCommand, Throw, ExitStatus
  <2>2. count' \in Nat
    <3>1. Len(ListedSources) \in Nat
      BY ListedAre DEF ProgramBase, Inputs
    <3>2. count' \in {Len(ListedSources), count}
      BY <1>3 DEF RunCommand
    <3> QED
      BY <1>1, <3>1, <3>2 DEF Counts
  <2>3. \A g \in DOMAIN groups' : groups'[g] \in Nat \ {0}
    BY <1>1, <2>1 DEF Counts
  <2>4. Counts' /\ exit' # 2
    BY <2>1, <2>2, <2>3 DEF Counts
  <2> QED
    BY <1>1, <2>1, <2>4 DEF TypesInv
<1>4. ASSUME Counts', parsed, UNCHANGED <<loaded, parsed>>,
             exit' \in {exit, 0, 1}, failure' \in {failure, "load", "output", "sort run"}
      PROVE  TypesInv'
  <2>1. exit' \in {Running, 0, 1, 2} /\ (exit' = 2 => loaded' = 0)
    <3>1. exit' = exit \/ exit' = 0 \/ exit' = 1
      BY <1>4
    <3>2. loaded' = loaded
      BY <1>4
    <3>3. exit \in {Running, 0, 1, 2} /\ (exit = 2 => loaded = 0)
      BY <1>1, Zenon
    <3> QED
      BY <3>1, <3>2, <3>3
  <2>2. failure' \in {"none", "load", "output", "sort run"}
    BY <1>1, <1>4
  <2>3. parsed'
    BY <1>4
  <2> QED
    BY <1>4, <2>1, <2>2, <2>3, Zenon DEF TypesInv
<1>5. CASE RunQuery
  <2>1. parsed /\ parsed' = parsed
    BY <1>5 DEF RunQuery, programVars
  <2>2. CASE Load
    <3>1. /\ exit = Running /\ loaded < Len(traces) /\ loaded' = loaded + 1
          /\ UNCHANGED <<count, groups, failure, exit>>
      BY <2>2 DEF Load
    <3>2. Counts'
      BY <1>1, <3>1 DEF Counts
    <3>3. exit' = Running /\ exit' # 2 /\ exit' \in {Running, 0, 1, 2}
      BY <3>1 DEF Running
    <3>4. failure' \in {"none", "load", "output", "sort run"}
      BY <1>1, <3>1
    <3>5. parsed'
      BY <2>1
    <3> QED
      BY <3>2, <3>3, <3>4, <3>5, Zenon DEF TypesInv
  <2>3. CASE LoadFails \/ Skip \/ FinishListing \/ FinishCount \/ List \/ Select
    <3>1. UNCHANGED <<loaded, count, groups>>
      BY <2>3 DEF LoadFails, Skip, FinishListing, FinishCount, List, Select
    <3>2. exit' \in {exit, 0, 1} /\ failure' \in {failure, "load", "output", "sort run"}
      BY <2>3 DEF LoadFails, Skip, FinishListing, FinishCount, List, Select, Throw, ExitStatus
    <3>3. Counts'
      BY <1>1, <3>1 DEF Counts
    <3> QED
      BY <1>4, <2>1, <3>1, <3>2, <3>3
  <2>4. CASE CountRecord
    <3>1. /\ UNCHANGED <<loaded, exit, failure>> /\ count' = count + 1
          /\ groups' = IF options.groupBy = <<>> THEN groups ELSE Tally(groups, visits[seen + 1])
      BY <2>4 DEF CountRecord
    <3>2. \A g \in DOMAIN groups' : groups'[g] \in Nat \ {0}
      BY <1>1, <3>1, TallyPositive DEF Counts
    <3>3. Counts'
      <4>1. count \in Nat
        BY <1>1 DEF Counts
      <4>2. count' \in Nat
        BY <3>1, <4>1
      <4> QED
        BY <3>2, <4>2, Zenon DEF Counts
    <3> QED
      BY <1>4, <2>1, <3>1, <3>3
  <2>5. CASE FinishPoint
    <3>1. UNCHANGED loaded /\ exit' \in {0, 1} /\ failure' \in {failure, "output"}
      BY <2>5 DEF FinishPoint, Throw, ExitStatus
    <3>2. exit = Running /\ PointMode(options) /\ truncated \in BOOLEAN
      BY <2>5 DEF FinishPoint, Visited, Querying, ProgramBase, IInv, SortTypeOK
    <3>3. groups = <<>> /\ LatestOk(latest, seen) /\ NextOk(next, seen) /\ ActiveOk(records, seen)
      BY <3>2 DEF CountHolds, PointHolds
    <3>4. records' \in Seq(Range(visits))
      BY <2>5, <3>3, FinishPointAnswers
    <3>5. CASE options.count
      <4>1. count' = Len(records') /\ groups' = IF options.groupBy = <<>> THEN <<>> ELSE Tallied(<<>>, records')
        BY <2>5, <3>2, <3>3, <3>5, PointOutcome
      <4>2. \A g \in DOMAIN groups' : groups'[g] \in Nat \ {0}
        BY <3>4, <4>1, TalliedPositive
      <4>3. count' \in Nat
        BY <3>4, <4>1
      <4> QED
        BY <1>4, <2>1, <3>1, <4>2, <4>3 DEF Counts
    <3>6. CASE ~options.count
      <4>1. UNCHANGED <<count, groups>>
        BY <2>5, <3>6 DEF FinishPoint
      <4>2. Counts'
        BY <1>1, <4>1 DEF Counts
      <4> QED
        BY <1>4, <2>1, <3>1, <4>2
    <3> QED
      BY <3>5, <3>6
  <2>6. CASE UNCHANGED vars
    <3>1. UNCHANGED <<loaded, count, groups, failure, exit>>
      BY <2>6 DEF vars, queryVars
    <3>2. Counts'
      BY <1>1, <3>1 DEF Counts
    <3> QED
      BY <1>4, <2>1, <3>1, <3>2
  <2> QED
    BY <1>5, <2>2, <2>3, <2>4, <2>5, <2>6 DEF RunQuery, Next, Done
<1>6. CASE UNCHANGED allVars
  <2>1. UNCHANGED <<loaded, count, groups, failure, exit, parsed>>
    BY <1>6 DEF allVars, vars, queryVars, programVars
  <2> QED
    BY <1>1, <2>1 DEF TypesInv, Counts
<1> QED
  BY <1>2, <1>3, <1>5, <1>6 DEF ProgramNext

\* With what point mode has selected, they are ProgramTypeOK.
LEMMA TypesFollow == ProgramBase /\ PointHolds /\ TypesInv => ProgramTypeOK
<1> SUFFICES ASSUME ProgramBase, PointHolds, TypesInv PROVE ProgramTypeOK
  OBVIOUS
<1>1. SortTypeOK
  BY DEF ProgramBase, IInv
<1>2. VisitsTyped
  <2>1. /\ TracesTyped /\ Len(visits) \in Nat /\ \A p \in 1 .. Len(visits) : RecordTyped(visits[p])
    BY VisitedTyped DEF ProgramBase, Inputs
  <2>2. \A p \in 1 .. Len(visits) : KeyOf(visits[p]) \in Keys
    BY <2>1, KeyTyped
  <2> QED
    BY <2>1, <2>2 DEF VisitsTyped
<1>3. loaded \in 0 .. Len(traces) /\ seen \in Nat /\ parsed \in BOOLEAN
  BY <1>2 DEF ProgramBase, Progress, VisitsTyped
<1>4. /\ \A k \in DOMAIN latest : PointKey(latest[k]) = k
      /\ \A k \in DOMAIN next : PointKey(next[k]) = k
  BY DEF PointHolds, LatestOk, NextOk
<1>5. exit # 2 => TypeOK
  BY <1>1, <1>2, <1>3, <1>4 DEF TypesInv, Counts, TypeOK
<1> QED
  BY <1>3, <1>5 DEF TypesInv, ProgramTypeOK

\* Every variable of the program has its type, from the arguments to the status; a
\* misuse of the command line ends it before anything is loaded.
THEOREM TypesHold == ProgramSpec => []ProgramTypeOK
<1>1. ProgramBase /\ PointHolds /\ TypesInv => ProgramTypeOK
  BY TypesFollow
<1>2. ProgramInit => ProgramBase /\ PointHolds /\ CountHolds /\ TypesInv
  BY BaseInit, PointInit, CountInit, TypesInit
<1>3. ProgramBase /\ PointHolds /\ CountHolds /\ TypesInv /\ [ProgramNext]_allVars =>
        (ProgramBase /\ PointHolds /\ CountHolds /\ TypesInv)'
  BY BaseStep, PointStep, CountStep, TypesStep
<1> QED
  BY <1>1, <1>2, <1>3, PTL DEF ProgramSpec
=============================================================================
