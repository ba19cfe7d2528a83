--------------------------- MODULE FsfsMergeProofs ---------------------------
(***************************************************************************)
(* Proofs about FsfsMerge for every set of transactions, every finite or   *)
(* infinite set of paths, every imported tree and every number of          *)
(* operations and revisions.                                               *)
(***************************************************************************)
EXTENDS FsfsMerge, SequenceTheorems, WellFoundedInduction, TLAPS

-----------------------------------------------------------------------------
(***************************************************************************)
(* Paths.                                                                  *)
(***************************************************************************)
\* The first n names of p.
Up(p, n) == SubSeq(p, 1, n)

\* A set of naturals has a least element.
LEMMA LeastNatural ==
  ASSUME NEW S \in SUBSET Nat, S # {}
  PROVE  \E n \in S : \A m \in S : n <= m
<1> DEFINE R == OpToRel(<, Nat)
<1>1. IsWellFoundedOn(R, Nat)
  BY NatLessThanWellFounded
<1>2. \A x, y \in Nat : y < x => <<y, x>> \in R
  BY DEF OpToRel
<1> HIDE DEF R
<1>3. PICK x \in S : \A y \in S : ~(<<y, x>> \in R)
  BY <1>1, WFMin
<1>4. \A y \in S : ~(y < x)
  BY <1>2, <1>3
<1> QED
  BY <1>4

\* What the prefixes of a path are.
LEMMA UpIs ==
  ASSUME NEW S, NEW p \in Seq(S), NEW n \in 0..Len(p)
  PROVE  /\ Up(p, n) \in Seq(S)
         /\ Len(Up(p, n)) = n
         /\ \A i \in 1..n : Up(p, n)[i] = p[i]
<1> DEFINE l == Len(p)
<1>1. l \in Nat /\ n \in Int /\ n \in Nat
  OBVIOUS
<1>2. \A i \in 1..l : p[i] \in S
  BY ElementOfSeq
<1> HIDE DEF l
<1>3. \A i \in 1..n : p[i] \in S
  BY <1>1, <1>2 DEF l
<1>4. /\ SubSeq(p, 1, n) \in Seq(S)
      /\ Len(SubSeq(p, 1, n)) = IF 1 <= n THEN n - 1 + 1 ELSE 0
      /\ \A i \in 1..(n - 1 + 1) : SubSeq(p, 1, n)[i] = p[1 + i - 1]
  <2> DEFINE one == 1
  <2>1. one \in Int /\ \A i \in one..n : p[i] \in S
    BY <1>3
  <2> HIDE DEF one
  <2>2. /\ SubSeq(p, one, n) \in Seq(S)
        /\ Len(SubSeq(p, one, n)) = IF one <= n THEN n - one + 1 ELSE 0
        /\ \A i \in 1..(n - one + 1) : SubSeq(p, one, n)[i] = p[one + i - 1]
    BY <1>1, <2>1, SubSeqProperties
  <2> QED
    BY <2>2 DEF one
<1> QED
  BY <1>1, <1>4 DEF Up

LEMMA UpOfUp ==
  ASSUME NEW S, NEW p \in Seq(S), NEW n \in 0..Len(p), NEW m \in 0..n
  PROVE  /\ Up(Up(p, n), m) = Up(p, m)
         /\ Up(p, Len(p)) = p
         /\ Up(p, 0) = <<>>
<1> DEFINE l == Len(p)
<1>1. l \in Nat /\ n \in 0..l /\ m \in 0..l /\ l \in 0..l
  OBVIOUS
<1>2. m \in 0..Len(Up(p, n)) /\ Up(p, n) \in Seq(S) /\ Len(Up(p, n)) = n
  BY UpIs
<1>3. /\ Up(p, m) \in Seq(S) /\ Len(Up(p, m)) = m
      /\ \A i \in 1..m : Up(p, m)[i] = p[i]
  BY <1>1, UpIs
<1>4. /\ Up(Up(p, n), m) \in Seq(S) /\ Len(Up(Up(p, n), m)) = m
      /\ \A i \in 1..m : Up(Up(p, n), m)[i] = Up(p, n)[i]
  <2> DEFINE q == Up(p, n)
  <2>1. q \in Seq(S) /\ m \in 0..Len(q)
    BY <1>2
  <2> HIDE DEF q
  <2>2. /\ Up(q, m) \in Seq(S) /\ Len(Up(q, m)) = m
        /\ \A i \in 1..m : Up(q, m)[i] = q[i]
    BY <2>1, UpIs
  <2> QED
    BY <2>2 DEF q
<1>5. \A i \in 1..m : Up(p, n)[i] = p[i]
  BY UpIs
<1>6. Up(Up(p, n), m) = Up(p, m)
  <2> DEFINE a == Up(Up(p, n), m)
             b == Up(p, m)
  <2>1. /\ a \in Seq(S) /\ b \in Seq(S) /\ Len(a) = m /\ Len(b) = m
        /\ \A i \in 1..m : a[i] = b[i]
    BY <1>3, <1>4, <1>5
  <2> HIDE DEF a, b
  <2>2. a = b
    BY <2>1, SeqEqual
  <2> QED
    BY <2>2 DEF a, b
<1>7. Up(p, Len(p)) = p
  BY SubSeqFull DEF Up
<1>8. Up(p, 0) = <<>>
  <2> DEFINE one == 1
             zero == 0
  <2>1. one \in Int /\ zero \in Int /\ zero < one
    OBVIOUS
  <2> HIDE DEF one, zero
  <2>2. SubSeq(p, one, zero) = <<>>
    BY <2>1, SubSeqEmpty
  <2> QED
    BY <2>2 DEF one, zero, Up
<1> QED
  BY <1>6, <1>7, <1>8

\* The paths that cover p are its prefixes.
LEMMA CoversIsUp ==
  ASSUME NEW S, NEW p \in Seq(S), NEW q \in Seq(S)
  PROVE  /\ Covers(q, p) <=> (Len(q) <= Len(p) /\ q = Up(p, Len(q)))
         /\ \A n \in 0..Len(p) : Covers(Up(p, n), p)
<1>1. Len(p) \in Nat /\ Len(q) \in Nat
  OBVIOUS
<1>2. Up(p, Len(p)) = p
  BY SubSeqFull DEF Up
<1>3. Covers(q, p) => (Len(q) <= Len(p) /\ q = Up(p, Len(q)))
  <2>1. CASE q = p
    BY <2>1, <1>2, <1>1
  <2>2. CASE IsAncestor(q, p)
    BY <2>2, <1>1 DEF IsAncestor, Up
  <2> QED
    BY <2>1, <2>2 DEF Covers
<1>4. (Len(q) <= Len(p) /\ q = Up(p, Len(q))) => Covers(q, p)
  <2> SUFFICES ASSUME Len(q) <= Len(p), q = Up(p, Len(q))
               PROVE  Covers(q, p)
    OBVIOUS
  <2>1. CASE Len(q) = Len(p)
    BY <2>1, <1>2 DEF Covers
  <2>2. CASE Len(q) < Len(p)
    BY <2>2 DEF Covers, IsAncestor, Up
  <2> QED
    BY <2>1, <2>2, <1>1
<1>5. ASSUME NEW n \in 0..Len(p)
      PROVE  Covers(Up(p, n), p)
  <2>1. Len(Up(p, n)) = n
    BY UpIs
  <2>2. CASE n = Len(p)
    BY <2>2, <1>2 DEF Covers
  <2>3. CASE n < Len(p)
    BY <2>1, <2>3 DEF Covers, IsAncestor, Up
  <2> QED
    BY <2>2, <2>3, <1>1
<1> QED
  BY <1>3, <1>4, <1>5

LEMMA CoversOrder ==
  ASSUME NEW S, NEW a \in Seq(S), NEW b \in Seq(S), NEW c \in Seq(S)
  PROVE  /\ Covers(a, a)
         /\ Covers(<<>>, a)
         /\ Covers(a, b) /\ Covers(b, c) => Covers(a, c)
         /\ Covers(a, b) /\ Covers(b, a) => a = b
         /\ Covers(a, c) /\ Covers(b, c) => Covers(a, b) \/ Covers(b, a)
         /\ Covers(a, <<>>) => a = <<>>
<1>1. Len(a) \in Nat /\ Len(b) \in Nat /\ Len(c) \in Nat
  OBVIOUS
<1>2. Covers(a, a)
  BY DEF Covers
<1>3. Covers(<<>>, a)
  <2>1. 0 \in 0..Len(a)
    BY <1>1
  <2>2. Covers(Up(a, 0), a)
    BY <2>1, CoversIsUp
  <2>3. Up(a, 0) = <<>>
    BY <2>1, UpOfUp
  <2> QED
    BY <2>2, <2>3
<1>4. Covers(a, b) /\ Covers(b, c) => Covers(a, c)
  <2> SUFFICES ASSUME Covers(a, b), Covers(b, c)
               PROVE  Covers(a, c)
    OBVIOUS
  <2>1. Len(a) <= Len(b) /\ a = Up(b, Len(a)) /\ Len(b) <= Len(c) /\ b = Up(c, Len(b))
    BY CoversIsUp
  <2>2. Len(a) \in 0..Len(b) /\ Len(b) \in 0..Len(c) /\ Len(a) <= Len(c)
    BY <1>1, <2>1
  <2>3. Up(Up(c, Len(b)), Len(a)) = Up(c, Len(a))
    BY <2>2, UpOfUp
  <2> QED
    BY <2>1, <2>2, <2>3, CoversIsUp
<1>5. Covers(a, b) /\ Covers(b, a) => a = b
  <2> SUFFICES ASSUME Covers(a, b), Covers(b, a)
               PROVE  a = b
    OBVIOUS
  <2>1. Len(a) <= Len(b) /\ a = Up(b, Len(a)) /\ Len(b) <= Len(a)
    BY CoversIsUp
  <2>2. Len(a) = Len(b)
    BY <1>1, <2>1
  <2> QED
    BY <2>1, <2>2, SubSeqFull DEF Up
<1>6. Covers(a, c) /\ Covers(b, c) => Covers(a, b) \/ Covers(b, a)
  <2> SUFFICES ASSUME Covers(a, c), Covers(b, c)
               PROVE  Covers(a, b) \/ Covers(b, a)
    OBVIOUS
  <2>1. /\ Len(a) <= Len(c) /\ a = Up(c, Len(a)) /\ Len(a) \in 0..Len(c)
        /\ Len(b) <= Len(c) /\ b = Up(c, Len(b)) /\ Len(b) \in 0..Len(c)
    BY <1>1, CoversIsUp
  <2>2. CASE Len(a) <= Len(b)
    <3>1. Len(a) \in 0..Len(b)
      BY <2>2, <1>1
    <3>2. Up(Up(c, Len(b)), Len(a)) = Up(c, Len(a))
      BY <2>1, <3>1, UpOfUp
    <3> QED
      BY <2>1, <2>2, <3>2, CoversIsUp
  <2>3. CASE Len(b) <= Len(a)
    <3>1. Len(b) \in 0..Len(a)
      BY <2>3, <1>1
    <3>2. Up(Up(c, Len(a)), Len(b)) = Up(c, Len(b))
      BY <2>1, <3>1, UpOfUp
    <3> QED
      BY <2>1, <2>3, <3>2, CoversIsUp
  <2> QED
    BY <1>1, <2>2, <2>3
<1>7. Covers(a, <<>>) => a = <<>>
  BY DEF Covers, IsAncestor
<1> QED
  BY <1>2, <1>3, <1>4, <1>5, <1>6, <1>7

\* A path above p is at or above its parent.
LEMMA CoversParent ==
  ASSUME NEW S, NEW p \in Seq(S), p # <<>>, NEW q \in Seq(S)
  PROVE  /\ Parent(p) \in Seq(S)
         /\ Len(Parent(p)) = Len(p) - 1
         /\ Len(p) > 0
         /\ Covers(Parent(p), p)
         /\ Covers(q, p) /\ q # p => Covers(q, Parent(p))
<1> DEFINE l == Len(p)
           m == l - 1
<1>1. l \in Nat /\ l > 0
  BY EmptySeq
<1>2. m \in 0..l /\ m \in Nat
  BY <1>1
<1>3. Parent(p) = Up(p, m)
  BY DEF Parent, Up
<1>4. Parent(p) \in Seq(S) /\ Len(Parent(p)) = m /\ Covers(Parent(p), p)
  BY <1>2, <1>3, UpIs, CoversIsUp
<1>5. ASSUME Covers(q, p), q # p
      PROVE  Covers(q, Parent(p))
  <2> DEFINE k == Len(q)
  <2>1. k <= l /\ q = Up(p, k) /\ k \in Nat
    BY <1>5, CoversIsUp
  <2>2. k # l
    BY <1>5, <2>1, SubSeqFull DEF Up
  <2>3. k \in 0..m
    BY <1>1, <2>1, <2>2
  <2>4. Up(Up(p, m), k) = Up(p, k)
    BY <1>2, <2>3, UpOfUp
  <2>5. k <= Len(Parent(p)) /\ q = Up(Parent(p), k)
    BY <1>3, <1>4, <2>1, <2>3, <2>4
  <2> QED
    BY <1>4, <2>5, CoversIsUp
<1> QED
  BY <1>1, <1>4, <1>5

LEMMA CoversElements ==
  ASSUME NEW S, NEW p \in Seq(S), NEW q \in Seq(S)
  PROVE  Covers(p, q) <=> (Len(p) <= Len(q) /\ \A i \in 1..Len(p) : p[i] = q[i])
<1> DEFINE n == Len(p)
<1>1. n \in Nat /\ Len(q) \in Nat
  OBVIOUS
<1>2. CASE n <= Len(q)
  <2>1. n \in 0..Len(q)
    BY <1>1, <1>2
  <2>2. Up(q, n) \in Seq(S) /\ Len(Up(q, n)) = n /\ \A i \in 1..n : Up(q, n)[i] = q[i]
    BY <2>1, UpIs
  <2>3. (\A i \in 1..n : p[i] = q[i]) => p = Up(q, n)
    <3> DEFINE u == Up(q, n)
    <3>1. u \in Seq(S) /\ Len(u) = n /\ \A i \in 1..n : u[i] = q[i]
      BY <2>2
    <3> HIDE DEF u
    <3>2. (\A i \in 1..n : p[i] = q[i]) => p = u
      BY <3>1, SeqEqual
    <3> QED
      BY <3>2 DEF u
  <2>4. p = Up(q, n) => \A i \in 1..n : p[i] = q[i]
    BY <2>2
  <2>5. Covers(p, q) <=> p = Up(q, n)
    BY <1>2, CoversIsUp
  <2> QED
    BY <1>2, <2>3, <2>4, <2>5
<1>3. CASE ~(n <= Len(q))
  BY <1>3, CoversIsUp
<1> QED
  BY <1>2, <1>3

LEMMA MovedElements ==
  ASSUME NEW S, NEW p \in Seq(S), NEW q \in Seq(S), NEW r \in Seq(S), Covers(p, q)
  PROVE  /\ Moved(q, p, r) \in Seq(S)
         /\ Len(Moved(q, p, r)) = Len(r) + Len(q) - Len(p)
         /\ \A i \in 1..(Len(r) + Len(q) - Len(p)) :
               Moved(q, p, r)[i] = IF i <= Len(r) THEN r[i] ELSE q[i - Len(r) + Len(p)]
<1> DEFINE np == Len(p)
           nq == Len(q)
           nr == Len(r)
           m == np + 1
           tail == SubSeq(q, m, nq)
<1>1. np \in Nat /\ nq \in Nat /\ nr \in Nat /\ np <= nq
  BY CoversElements
<1>2. \A i \in 1..nq : q[i] \in S
  BY ElementOfSeq
<1>3. /\ tail \in Seq(S)
      /\ Len(tail) = IF m <= nq THEN nq - m + 1 ELSE 0
      /\ \A i \in 1..(nq - m + 1) : tail[i] = q[m + i - 1]
  <2> HIDE DEF np, nq
  <2>1. m \in Int /\ nq \in Int
    BY <1>1
  <2>2. \A i \in m..nq : q[i] \in S
    BY <1>1, <1>2
  <2> HIDE DEF m
  <2> QED
    BY SMTT(60), <2>1, <2>2, SubSeqProperties
<1>4. Len(tail) = nq - np /\ \A i \in 1..(nq - np) : tail[i] = q[np + i]
  <2> HIDE DEF np, nq, tail
  <2> QED
    BY <1>1, <1>3
<1>5. Moved(q, p, r) = r \o tail
  BY DEF Moved
<1>6. /\ r \o tail \in Seq(S)
      /\ Len(r \o tail) = Len(r) + Len(tail)
      /\ \A i \in 1..(Len(r) + Len(tail)) :
            (r \o tail)[i] = IF i <= Len(r) THEN r[i] ELSE tail[i - Len(r)]
  <2> HIDE DEF tail
  <2> QED
    BY <1>3, ConcatProperties
<1>7. ASSUME NEW i \in 1..(nr + nq - np)
      PROVE  (r \o tail)[i] = IF i <= nr THEN r[i] ELSE q[i - nr + np]
  <2> DEFINE rt == r \o tail
  <2>1. rt[i] = IF i <= nr THEN r[i] ELSE tail[i - nr]
    <3> HIDE DEF np, nq
    <3>1. i \in 1..(nr + Len(tail))
      BY <1>1, <1>4
    <3> QED
      BY <1>6, <3>1
  <2> HIDE DEF np, nq, nr, tail, rt
  <2>2. ~(i <= nr) => i - nr \in 1..(nq - np) /\ np + (i - nr) = i - nr + np
    BY <1>1
  <2>3. ~(i <= nr) => tail[i - nr] = q[i - nr + np]
    BY <1>4, <2>2
  <2>4. rt[i] = IF i <= nr THEN r[i] ELSE q[i - nr + np]
    BY <2>1, <2>3
  <2> QED
    BY <2>4 DEF rt
<1>8. Len(r \o tail) = nr + nq - np
  <2> DEFINE n == Len(r \o tail)
  <2>1. n = nr + Len(tail)
    BY <1>6
  <2> HIDE DEF np, nq, nr, tail, n
  <2>2. n = nr + nq - np
    BY <1>1, <1>4, <2>1
  <2> QED
    BY <2>2 DEF n
<1> QED
  BY <1>5, <1>6, <1>7, <1>8

\* Moving a subtree keeps it in shape, and moving it back undoes it.
LEMMA MovedTree ==
  ASSUME NEW S, NEW p \in Seq(S), NEW q \in Seq(S), NEW r \in Seq(S), Covers(p, q)
  PROVE  /\ Moved(q, p, r) \in Seq(S)
         /\ Covers(r, Moved(q, p, r))
         /\ Moved(Moved(q, p, r), r, p) = q
         /\ \A b \in Seq(S) : Covers(p, b) /\ Covers(b, q) =>
               Covers(Moved(b, p, r), Moved(q, p, r))
<1> DEFINE np == Len(p)
           nq == Len(q)
           nr == Len(r)
           w == Moved(q, p, r)
<1>1. np \in Nat /\ nq \in Nat /\ nr \in Nat /\ np <= nq /\ \A i \in 1..np : p[i] = q[i]
  BY CoversElements
<1>2. /\ w \in Seq(S) /\ Len(w) = nr + nq - np
      /\ \A i \in 1..(nr + nq - np) : w[i] = IF i <= nr THEN r[i] ELSE q[i - nr + np]
  BY MovedElements
<1> HIDE DEF w
<1>3. Covers(r, w)
  <2>1. nr <= Len(w) /\ \A i \in 1..nr : r[i] = w[i]
    <3> HIDE DEF np, nq, nr
    <3> QED
      BY <1>1, <1>2
  <2> QED
    BY <1>2, <2>1, CoversElements
<1>4. Moved(w, r, p) = q
  <2> DEFINE v == Moved(w, r, p)
             nw == Len(w)
  <2>1. /\ v \in Seq(S) /\ Len(v) = np + nw - nr
        /\ \A i \in 1..(np + nw - nr) : v[i] = IF i <= np THEN p[i] ELSE w[i - np + nr]
    <3>1. w \in Seq(S) /\ Covers(r, w)
      BY <1>2, <1>3
    <3> HIDE DEF np, nr, nw, v
    <3>2. /\ Moved(w, r, p) \in Seq(S)
          /\ Len(Moved(w, r, p)) = Len(p) + Len(w) - Len(r)
          /\ \A i \in 1..(Len(p) + Len(w) - Len(r)) :
                Moved(w, r, p)[i] = IF i <= Len(p) THEN p[i] ELSE w[i - Len(p) + Len(r)]
      BY <3>1, MovedElements
    <3> QED
      BY <3>2 DEF np, nr, nw, v
  <2> HIDE DEF v
  <2>2. nw = nr + nq - np
    BY <1>2
  <2>3. Len(v) = nq /\ \A i \in 1..nq : v[i] = q[i]
    <3> DEFINE nv == Len(v)
    <3>0. nv = np + nw - nr
      BY <2>1
    <3> HIDE DEF np, nq, nr, nw, nv
    <3>1. np + nw - nr = nq
      BY <1>1, <2>2
    <3>2. ASSUME NEW i \in 1..nq
          PROVE  v[i] = q[i]
      <4>1. v[i] = IF i <= np THEN p[i] ELSE w[i - np + nr]
        BY <2>1, <3>1
      <4>2. CASE i <= np
        <5>1. i \in 1..np
          BY <4>2, <1>1
        <5> QED
          BY <1>1, <4>1, <4>2, <5>1
      <4>3. CASE ~(i <= np)
        <5> DEFINE j == i - np + nr
        <5>1. j \in 1..(nr + nq - np) /\ ~(j <= nr) /\ j - nr + np = i
          BY <4>3, <1>1
        <5>2. v[i] = w[j]
          BY <4>1, <4>3
        <5> HIDE DEF j
        <5>3. w[j] = q[j - nr + np]
          BY <1>2, <5>1
        <5> QED
          BY <5>1, <5>2, <5>3
      <4> QED
        BY <4>2, <4>3
    <3>3. nv = nq
      BY <3>0, <3>1
    <3> QED
      BY <3>2, <3>3 DEF nv
  <2>4. v = q
    BY <2>1, <2>3, SeqEqual
  <2> QED
    BY <2>4 DEF v
<1>5. ASSUME NEW b \in Seq(S), Covers(p, b), Covers(b, q)
      PROVE  Covers(Moved(b, p, r), w)
  <2> DEFINE nb == Len(b)
             y == Moved(b, p, r)
             ny == Len(y)
             nw == Len(w)
  <2>1. np <= nb /\ nb \in Nat /\ nb <= nq /\ \A i \in 1..nb : b[i] = q[i]
    BY <1>5, CoversElements
  <2>2. /\ y \in Seq(S) /\ ny = nr + nb - np
        /\ \A i \in 1..(nr + nb - np) : y[i] = IF i <= nr THEN r[i] ELSE b[i - nr + np]
    <3> HIDE DEF np, nr, nb, y, ny
    <3>1. /\ Moved(b, p, r) \in Seq(S)
          /\ Len(Moved(b, p, r)) = Len(r) + Len(b) - Len(p)
          /\ \A i \in 1..(Len(r) + Len(b) - Len(p)) :
                Moved(b, p, r)[i] = IF i <= Len(r) THEN r[i] ELSE b[i - Len(r) + Len(p)]
      BY <1>5, MovedElements
    <3> QED
      BY <3>1 DEF np, nr, nb, y, ny
  <2>3. nw = nr + nq - np
    BY <1>2
  <2>4. ny <= nw /\ \A i \in 1..ny : y[i] = w[i]
    <3> HIDE DEF np, nq, nr, nb, y, ny, nw
    <3>1. ny <= nw
      BY <1>1, <2>1, <2>2, <2>3
    <3>2. ASSUME NEW i \in 1..ny
          PROVE  y[i] = w[i]
      <4>1. i \in 1..(nr + nb - np) /\ i \in 1..(nr + nq - np)
        BY <1>1, <2>1, <2>2
      <4>2. ~(i <= nr) => i - nr + np \in 1..nb
        BY <1>1, <2>1, <4>1
      <4>3. ~(i <= nr) => b[i - nr + np] = q[i - nr + np]
        BY <2>1, <4>2
      <4>4. y[i] = IF i <= nr THEN r[i] ELSE b[i - nr + np]
        BY <2>2, <4>1
      <4>5. w[i] = IF i <= nr THEN r[i] ELSE q[i - nr + np]
        BY <1>2, <4>1
      <4> QED
        BY <4>3, <4>4, <4>5
    <3> QED
      BY <3>1, <3>2
  <2> HIDE DEF y
  <2> QED
    BY <1>2, <2>2, <2>4, CoversElements DEF y
<1> QED
  BY <1>2, <1>3, <1>4, <1>5 DEF w

\* A set of paths that has the parents of its members has all their prefixes.
LEMMA ParentsGivePrefixes ==
  ASSUME NEW S, NEW A \in SUBSET Seq(S), \A p \in A \ {<<>>} : Parent(p) \in A,
         NEW p \in A, NEW q \in Seq(S), Covers(q, p)
  PROVE  q \in A
<1> DEFINE l == Len(p)
           k == Len(q)
           Missing == {n \in Nat : n <= l /\ Up(p, l - n) \notin A}
<1>1. l \in Nat /\ k \in Nat /\ k <= l /\ q = Up(p, k) /\ Up(p, l) = p
  BY CoversIsUp, SubSeqFull DEF Up
<1>2. CASE Missing = {}
  <2>1. l - k \in Nat /\ l - k <= l /\ l - (l - k) = k
    <3> HIDE DEF l, k
    <3> QED
      BY <1>1
  <2>2. Up(p, l - (l - k)) \in A
    <3> HIDE DEF l, k
    <3> QED
      BY <1>2, <2>1
  <2> QED
    BY <1>1, <2>1, <2>2
<1>3. CASE Missing # {}
  <2>0. Missing \in SUBSET Nat
    OBVIOUS
  <2> HIDE DEF Missing
  <2>1. PICK n \in Missing : \A m \in Missing : n <= m
    BY <1>3, <2>0, LeastNatural
  <2>2. n \in Nat /\ n <= l /\ Up(p, l - n) \notin A
    BY <2>1 DEF Missing
  <2>3. n # 0
    <3>1. l - 0 = l
      BY <1>1
    <3> QED
      BY <1>1, <2>2, <3>1
  <2> DEFINE m == n - 1
             i == l - m
             a == Up(p, i)
  <2>4. /\ m \in Nat /\ m < n /\ m <= l /\ i \in 0..l /\ i > 0
        /\ i - 1 = l - n /\ i - 1 \in 0..i
    <3> HIDE DEF l
    <3> QED
      BY <1>1, <2>2, <2>3
  <2>5. a \in A
    <3>1. m \notin Missing
      <4> HIDE DEF m
      <4> QED
        BY <2>1, <2>2, <2>4
    <3> QED
      BY <2>4, <3>1 DEF Missing
  <2>6. Len(a) = i
    <3> HIDE DEF i
    <3> QED
      BY <2>4, UpIs
  <2>7. a # <<>>
    <3> HIDE DEF i, a
    <3>1. Len(<<>>) = 0
      OBVIOUS
    <3> QED
      BY <2>4, <2>6, <3>1
  <2>8. Parent(a) \in A
    <3> HIDE DEF a
    <3> QED
      BY <2>5, <2>7
  <2>9. Parent(a) = Up(p, l - n)
    <3>1. Parent(a) = Up(a, i - 1)
      <4> HIDE DEF i, a
      <4> QED
        BY <2>6 DEF Parent, Up
    <3>2. Up(a, i - 1) = Up(p, i - 1)
      <4> HIDE DEF i
      <4> DEFINE j == i - 1
      <4>1. j \in 0..i /\ i \in 0..Len(p)
        BY <2>4
      <4> HIDE DEF j
      <4>2. Up(Up(p, i), j) = Up(p, j)
        BY <4>1, UpOfUp
      <4> QED
        BY <4>2 DEF j
    <3> QED
      BY <2>4, <3>1, <3>2
  <2> QED
    BY <2>2, <2>8, <2>9
<1> QED
  BY <1>2, <1>3

LEMMA PathsClosed ==
  ASSUME NEW p \in Paths, NEW q \in Seq(Names), Covers(q, p)
  PROVE  q \in Paths
BY ParentsGivePrefixes, PathsAssumption

LEMMA ImportedClosed ==
  ASSUME NEW p \in DOMAIN Imported, NEW q \in Seq(Names), Covers(q, p)
  PROVE  q \in DOMAIN Imported
<1>1. DOMAIN Imported \in SUBSET Seq(Names)
  BY PathsAssumption
<1>2. \A a \in DOMAIN Imported \ {<<>>} : Parent(a) \in DOMAIN Imported
  BY PathsAssumption
<1> QED
  BY <1>1, <1>2, ParentsGivePrefixes

-----------------------------------------------------------------------------
(***************************************************************************)
(* Types.                                                                  *)
(***************************************************************************)
\* Functions on some of the paths.
Partial(S) == UNION {[D -> S] : D \in SUBSET Paths}

NodeRevision ==
  [kind : Kinds, text : Marks \cup {None}, props : SUBSET Marks, cpath : Paths]

TxnNode ==
  [node : NodeRevision, at : (Nat \cup {None}) \X Seq(Names), dirty : BOOLEAN,
   newNode : BOOLEAN, textModified : BOOLEAN, propsModified : BOOLEAN]

ChangeKinds == {"add", "delete", "replace", "modify"}

PathChange ==
  [kind : ChangeKinds, text : BOOLEAN, props : BOOLEAN, from : (Nat \X Paths) \cup {None}]

Texts == Marks \cup {None}

Revision ==
  [tree : Partial(NodeRevision), changes : Partial(PathChange), wrote : Partial(Texts),
   overText : Partial(Texts), overProps : Partial(SUBSET Marks)]

Transaction ==
  [base : Nat, tree : Partial(TxnNode), changes : Partial(PathChange), wrote : Partial(Texts),
   overText : Partial(Texts), overProps : Partial(SUBSET Marks)]

\* A tree has its root, and the parents of everything in it.
IsTree(f) ==
  /\ <<>> \in DOMAIN f
  /\ \A p \in DOMAIN f, q \in Paths : Covers(q, p) => q \in DOMAIN f

\* A transaction's tree: the root is not new, and what is not new was read
\* from a revision that exists.
IsTxnTree(f) ==
  /\ IsTree(f)
  /\ ~f[<<>>].newNode
  /\ \A p \in DOMAIN f : f[p].newNode \/ f[p].at[1] \in 0..youngest

Typed ==
  /\ youngest \in Nat
  /\ revision \in [0..youngest -> Revision]
  /\ open \in [Txns -> Transaction \cup {None}]
  /\ ops \in Nat
  /\ \A r \in 0..youngest : IsTree(Tree(r))
  /\ \A t \in Txns : open[t] # None => open[t].base <= youngest /\ IsTxnTree(open[t].tree)

\* What was written at the paths of wrote is in the tree, in nodes that a merge
\* keeps or descends to (all above them is dirty) and whose text it keeps.
Holds(tree, wrote) ==
  \A p \in DOMAIN wrote :
     /\ p \in DOMAIN tree
     /\ tree[p].node.text = wrote[p]
     /\ tree[p].newNode \/ tree[p].textModified
     /\ \A q \in Paths : Covers(q, p) => q \in DOMAIN tree /\ tree[q].dirty

WorkInv ==
  /\ Typed
  /\ \A t \in Txns : open[t] # None => Holds(open[t].tree, open[t].wrote)
  /\ WorkLands

LEMMA PartialIs ==
  ASSUME NEW S, NEW f
  PROVE  f \in Partial(S) <=>
           /\ DOMAIN f \subseteq Paths
           /\ f = [p \in DOMAIN f |-> f[p]]
           /\ \A p \in DOMAIN f : f[p] \in S
<1>1. ASSUME f \in Partial(S)
      PROVE  DOMAIN f \subseteq Paths /\ f \in [DOMAIN f -> S]
  BY <1>1 DEF Partial
<1>2. ASSUME DOMAIN f \subseteq Paths, f \in [DOMAIN f -> S]
      PROVE  f \in Partial(S)
  BY <1>2 DEF Partial
<1>3. f \in [DOMAIN f -> S] <=> (f = [p \in DOMAIN f |-> f[p]] /\ \A p \in DOMAIN f : f[p] \in S)
  OBVIOUS
<1> QED
  BY <1>1, <1>2, <1>3

LEMMA PutIs ==
  ASSUME NEW S, NEW f \in Partial(S), NEW k \in Paths, NEW v \in S
  PROVE  /\ Put(f, k, v) \in Partial(S)
         /\ \A p : p \in DOMAIN Put(f, k, v) <=> p \in DOMAIN f \/ p = k
         /\ Put(f, k, v)[k] = v
         /\ \A p \in DOMAIN f : p # k => Put(f, k, v)[p] = f[p]
<1>1. DOMAIN f \subseteq Paths /\ \A p \in DOMAIN f : f[p] \in S
  BY PartialIs
<1>2. /\ DOMAIN Put(f, k, v) = DOMAIN f \cup {k}
      /\ Put(f, k, v) = [p \in DOMAIN Put(f, k, v) |-> Put(f, k, v)[p]]
      /\ \A p \in DOMAIN Put(f, k, v) : Put(f, k, v)[p] = IF p = k THEN v ELSE f[p]
  BY DEF Put
<1> HIDE DEF Put
<1>3. \A p \in DOMAIN Put(f, k, v) : Put(f, k, v)[p] \in S
  BY <1>1, <1>2
<1>4. Put(f, k, v) \in Partial(S)
  BY <1>1, <1>2, <1>3, PartialIs
<1> QED
  BY <1>2, <1>4

LEMMA WithoutIs ==
  ASSUME NEW S, NEW f \in Partial(S), NEW A
  PROVE  /\ Without(f, A) \in Partial(S)
         /\ \A p : p \in DOMAIN Without(f, A) <=> p \in DOMAIN f \ A
         /\ \A p \in DOMAIN f \ A : Without(f, A)[p] = f[p]
<1>1. DOMAIN f \subseteq Paths /\ \A p \in DOMAIN f : f[p] \in S
  BY PartialIs
<1>2. /\ DOMAIN Without(f, A) = DOMAIN f \ A
      /\ Without(f, A) = [p \in DOMAIN Without(f, A) |-> Without(f, A)[p]]
      /\ \A p \in DOMAIN f \ A : Without(f, A)[p] = f[p]
  BY DEF Without
<1> HIDE DEF Without
<1>3. \A p \in DOMAIN Without(f, A) : Without(f, A)[p] \in S
  BY <1>1, <1>2
<1>4. Without(f, A) \in Partial(S)
  BY <1>1, <1>2, <1>3, PartialIs
<1> QED
  BY <1>2, <1>4

LEMMA MarkDirtyIs ==
  ASSUME NEW f \in Partial(TxnNode), NEW p
  PROVE  /\ MarkDirty(f, p) \in Partial(TxnNode)
         /\ \A q : q \in DOMAIN MarkDirty(f, p) <=> q \in DOMAIN f
         /\ \A q \in DOMAIN f :
               /\ MarkDirty(f, p)[q] \in TxnNode
               /\ MarkDirty(f, p)[q].node = f[q].node
               /\ MarkDirty(f, p)[q].at = f[q].at
               /\ MarkDirty(f, p)[q].newNode = f[q].newNode
               /\ MarkDirty(f, p)[q].textModified = f[q].textModified
               /\ MarkDirty(f, p)[q].propsModified = f[q].propsModified
               /\ MarkDirty(f, p)[q].dirty <=> (f[q].dirty \/ Covers(q, p))
<1>1. DOMAIN f \subseteq Paths /\ \A q \in DOMAIN f : f[q] \in TxnNode
  BY PartialIs
<1>2. /\ DOMAIN MarkDirty(f, p) = DOMAIN f
      /\ MarkDirty(f, p) = [q \in DOMAIN MarkDirty(f, p) |-> MarkDirty(f, p)[q]]
      /\ \A q \in DOMAIN f : MarkDirty(f, p)[q] =
            IF Covers(q, p) THEN [f[q] EXCEPT !.dirty = TRUE] ELSE f[q]
  BY DEF MarkDirty
<1> HIDE DEF MarkDirty
<1>3. ASSUME NEW n \in TxnNode
      PROVE  LET m == [n EXCEPT !.dirty = TRUE]
             IN  /\ m \in TxnNode /\ m.node = n.node /\ m.at = n.at /\ m.newNode = n.newNode
                 /\ m.textModified = n.textModified /\ m.propsModified = n.propsModified
                 /\ m.dirty = TRUE /\ n.dirty \in BOOLEAN
  BY DEF TxnNode
<1>4. ASSUME NEW q \in DOMAIN f
      PROVE  /\ MarkDirty(f, p)[q] \in TxnNode
             /\ MarkDirty(f, p)[q].node = f[q].node
             /\ MarkDirty(f, p)[q].at = f[q].at
             /\ MarkDirty(f, p)[q].newNode = f[q].newNode
             /\ MarkDirty(f, p)[q].textModified = f[q].textModified
             /\ MarkDirty(f, p)[q].propsModified = f[q].propsModified
             /\ MarkDirty(f, p)[q].dirty <=> (f[q].dirty \/ Covers(q, p))
  <2>0. Covers(q, p) \in BOOLEAN
    BY DEF Covers
  <2>1. CASE Covers(q, p)
    <3> DEFINE n == f[q]
               m == [n EXCEPT !.dirty = TRUE]
    <3>1. n \in TxnNode
      BY <1>1
    <3>2. MarkDirty(f, p)[q] = m
      BY <2>1, <1>2
    <3> HIDE DEF n
    <3>3. /\ m \in TxnNode /\ m.node = n.node /\ m.at = n.at /\ m.newNode = n.newNode
          /\ m.textModified = n.textModified /\ m.propsModified = n.propsModified
          /\ m.dirty
      BY <3>1, <1>3
    <3> HIDE DEF m
    <3> QED
      BY <2>1, <3>2, <3>3 DEF n
  <2>2. CASE ~Covers(q, p)
    <3>1. MarkDirty(f, p)[q] = f[q] /\ f[q].dirty \in BOOLEAN
      BY <2>2, <1>1, <1>2, <1>3
    <3> QED
      BY <2>0, <2>2, <3>1, <1>1
  <2> QED
    BY <2>1, <2>2
<1>5. MarkDirty(f, p) \in Partial(TxnNode)
  BY <1>1, <1>2, <1>4, PartialIs
<1> QED
  BY <1>2, <1>4, <1>5

LEMMA RecordChangeIs ==
  ASSUME NEW f \in Partial(PathChange), NEW p \in Paths, NEW c \in PathChange
  PROVE  /\ RecordChange(f, p, c) \in Partial(PathChange)
         /\ \A q : q \in DOMAIN RecordChange(f, p, c) <=> q \in DOMAIN f \/ q = p
         /\ \A q \in DOMAIN f : q # p => RecordChange(f, p, c)[q] = f[q]
         /\ RecordChange(f, p, c)[p] \in PathChange
<1> DEFINE prev == f[p]
           new == IF p \notin DOMAIN f THEN c
                  ELSE IF prev.kind = "delete" /\ c.kind = "add" THEN [c EXCEPT !.kind = "replace"]
                  ELSE IF prev.kind \in {"add", "replace"}
                  THEN [kind |-> prev.kind, text |-> c.text \/ prev.text,
                        props |-> c.props \/ prev.props,
                        from |-> IF c.from = None THEN prev.from ELSE c.from]
                  ELSE c
<1>1. p \in DOMAIN f => prev \in PathChange
  BY PartialIs
<1>2. new \in PathChange
  <2>1. CASE p \notin DOMAIN f
    BY <2>1
  <2>2. CASE p \in DOMAIN f
    <3> DEFINE o == prev
    <3>1. o \in PathChange
      BY <1>1, <2>2
    <3> HIDE DEF o
    <3>2. [c EXCEPT !.kind = "replace"] \in PathChange
      BY DEF PathChange, ChangeKinds
    <3>3. [kind |-> o.kind, text |-> c.text \/ o.text, props |-> c.props \/ o.props,
           from |-> IF c.from = None THEN o.from ELSE c.from] \in PathChange
      BY <3>1 DEF PathChange
    <3> QED
      BY <2>2, <3>2, <3>3 DEF o
  <2> QED
    BY <2>1, <2>2
<1>3. RecordChange(f, p, c) = Put(f, p, new)
  BY DEF RecordChange
<1> HIDE DEF new
<1>4. /\ Put(f, p, new) \in Partial(PathChange)
      /\ \A q : q \in DOMAIN Put(f, p, new) <=> q \in DOMAIN f \/ q = p
      /\ Put(f, p, new)[p] = new
      /\ \A q \in DOMAIN f : q # p => Put(f, p, new)[q] = f[q]
  BY <1>2, PutIs
<1> QED
  BY <1>2, <1>3, <1>4

-----------------------------------------------------------------------------
(***************************************************************************)
(* What the tree operations do to a tree.                                  *)
(***************************************************************************)
LEMMA PathTypes ==
  ASSUME NEW p \in Paths
  PROVE  /\ p \in Seq(Names)
         /\ p # <<>> => Parent(p) \in Paths
         /\ Covers(p, p) /\ Covers(<<>>, p)
<1>1. p \in Seq(Names)
  BY PathsAssumption
<1> QED
  BY <1>1, PathsAssumption, CoversOrder

\* Paths that cover p are at, or at or above the parent of, p.
LEMMA AboveParent ==
  ASSUME NEW p \in Paths, NEW q \in Paths, Covers(q, p), q # p
  PROVE  p # <<>> /\ Covers(q, Parent(p))
<1>1. p \in Seq(Names) /\ q \in Seq(Names)
  BY PathTypes
<1>2. p # <<>>
  BY <1>1, CoversOrder
<1> QED
  BY <1>1, <1>2, CoversParent

\* A node put at a path that is in the tree, or whose parent is.
LEMMA PutTree ==
  ASSUME NEW f \in Partial(TxnNode), IsTxnTree(f), NEW p \in Paths, NEW n \in TxnNode,
         p \in DOMAIN f \/ (p # <<>> /\ Parent(p) \in DOMAIN f),
         n.newNode \/ n.at[1] \in 0..youngest,
         p = <<>> => ~n.newNode
  PROVE  LET g == MarkDirty(Put(f, p, n), p)
         IN  /\ g \in Partial(TxnNode)
             /\ IsTxnTree(g)
             /\ \A q : q \in DOMAIN g <=> q \in DOMAIN f \/ q = p
             /\ g[p].node = n.node
             /\ g[p].newNode = n.newNode
             /\ g[p].textModified = n.textModified
             /\ g[p].dirty
             /\ \A q \in DOMAIN f :
                   /\ g[q].dirty <=> f[q].dirty \/ Covers(q, p)
                   /\ q # p =>
                        /\ g[q].node = f[q].node
                        /\ g[q].newNode = f[q].newNode
                        /\ g[q].textModified = f[q].textModified
<1> DEFINE h == Put(f, p, n)
           g == MarkDirty(h, p)
<1>1. /\ h \in Partial(TxnNode)
      /\ \A q : q \in DOMAIN h <=> q \in DOMAIN f \/ q = p
      /\ h[p] = n
      /\ \A q \in DOMAIN f : q # p => h[q] = f[q]
  BY PutIs
<1> HIDE DEF h
<1>2. /\ g \in Partial(TxnNode)
      /\ \A q : q \in DOMAIN g <=> q \in DOMAIN h
      /\ \A q \in DOMAIN h :
            /\ g[q] \in TxnNode
            /\ g[q].node = h[q].node
            /\ g[q].at = h[q].at
            /\ g[q].newNode = h[q].newNode
            /\ g[q].textModified = h[q].textModified
            /\ g[q].dirty <=> h[q].dirty \/ Covers(q, p)
  BY <1>1, MarkDirtyIs
<1> HIDE DEF g
<1>3. Covers(p, p) /\ p \in Seq(Names)
  BY PathTypes
<1>4. DOMAIN f \subseteq Paths
  BY PartialIs
<1>5. \A q \in Paths : q \in DOMAIN g <=> q \in DOMAIN f \/ q = p
  BY <1>1, <1>2
<1>6. IsTree(g)
  <2>1. ASSUME NEW a \in DOMAIN g, NEW q \in Paths, Covers(q, a)
        PROVE  q \in DOMAIN g
    <3>1. CASE a \in DOMAIN f
      BY <3>1, <1>5, <2>1 DEF IsTxnTree, IsTree
    <3>2. CASE a = p /\ p \notin DOMAIN f /\ q # p
      <4>1. Covers(q, Parent(p))
        BY <2>1, <3>2, AboveParent
      <4> QED
        BY <3>2, <4>1, <1>5 DEF IsTxnTree, IsTree
    <3>3. CASE q = p
      BY <3>3, <1>5
    <3> QED
      BY <3>1, <3>2, <3>3, <1>1, <1>2
  <2>2. <<>> \in DOMAIN g
    BY <1>1, <1>2 DEF IsTxnTree, IsTree
  <2> QED
    BY <2>1, <2>2 DEF IsTree
<1>7. IsTxnTree(g)
  <2>1. \A q \in DOMAIN g : h[q].newNode \/ h[q].at[1] \in 0..youngest
    BY <1>1, <1>2 DEF IsTxnTree
  <2>2. ~h[<<>>].newNode /\ <<>> \in DOMAIN h
    BY <1>1, PathsAssumption DEF IsTxnTree, IsTree
  <2> QED
    BY <1>2, <1>6, <2>1, <2>2 DEF IsTxnTree
<1>8. /\ g[p].node = n.node
      /\ g[p].newNode = n.newNode
      /\ g[p].textModified = n.textModified
      /\ g[p].dirty
  BY <1>1, <1>2, <1>3
<1>9. ASSUME NEW q \in DOMAIN f
      PROVE  /\ g[q].dirty <=> f[q].dirty \/ Covers(q, p)
             /\ q # p => /\ g[q].node = f[q].node
                         /\ g[q].newNode = f[q].newNode
                         /\ g[q].textModified = f[q].textModified
  BY <1>1, <1>2, <1>3
<1> QED
  BY <1>1, <1>2, <1>7, <1>8, <1>9 DEF g, h

\* A text written at p is held, and everything held before still is.
LEMMA WriteHolds ==
  ASSUME NEW f \in Partial(TxnNode), IsTxnTree(f), NEW w \in Partial(Texts), Holds(f, w),
         NEW p \in Paths, NEW n \in TxnNode,
         p \in DOMAIN f \/ (p # <<>> /\ Parent(p) \in DOMAIN f),
         n.newNode \/ n.at[1] \in 0..youngest,
         p = <<>> => ~n.newNode,
         n.newNode \/ n.textModified
  PROVE  Holds(MarkDirty(Put(f, p, n), p), Put(w, p, n.node.text))
<1> DEFINE g == MarkDirty(Put(f, p, n), p)
           v == n.node.text
           x == Put(w, p, v)
<1>1. v \in Texts
  BY DEF TxnNode, NodeRevision, Texts
<1>2. /\ IsTxnTree(g)
      /\ \A q : q \in DOMAIN g <=> q \in DOMAIN f \/ q = p
      /\ g[p].node = n.node
      /\ g[p].newNode = n.newNode
      /\ g[p].textModified = n.textModified
      /\ \A q \in DOMAIN f :
            /\ g[q].dirty <=> f[q].dirty \/ Covers(q, p)
            /\ q # p => /\ g[q].node = f[q].node
                        /\ g[q].newNode = f[q].newNode
                        /\ g[q].textModified = f[q].textModified
      /\ g[p].dirty
  BY PutTree
<1>3. /\ \A q : q \in DOMAIN x <=> q \in DOMAIN w \/ q = p
      /\ x[p] = v
      /\ \A q \in DOMAIN w : q # p => x[q] = w[q]
  <2> HIDE DEF v
  <2> QED
    BY <1>1, PutIs
<1> HIDE DEF g, x
<1>4. ASSUME NEW a \in DOMAIN x
      PROVE  /\ a \in DOMAIN g
             /\ g[a].node.text = x[a]
             /\ g[a].newNode \/ g[a].textModified
             /\ \A q \in Paths : Covers(q, a) => q \in DOMAIN g /\ g[q].dirty
  <2>1. CASE a = p
    <3>1. ASSUME NEW q \in Paths, Covers(q, p)
          PROVE  q \in DOMAIN g /\ g[q].dirty
      <4>1. q \in DOMAIN g
        BY <1>2, <3>1 DEF IsTxnTree, IsTree
      <4>2. q \in DOMAIN f \/ q = p
        BY <4>1, <1>2
      <4> QED
        BY <3>1, <4>1, <4>2, <1>2
    <3> QED
      BY <2>1, <3>1, <1>2, <1>3
  <2>2. CASE a # p
    <3>1. a \in DOMAIN w /\ x[a] = w[a]
      BY <2>2, <1>3
    <3>2. /\ a \in DOMAIN f
          /\ f[a].node.text = w[a]
          /\ f[a].newNode \/ f[a].textModified
          /\ \A q \in Paths : Covers(q, a) => q \in DOMAIN f /\ f[q].dirty
      BY <3>1 DEF Holds
    <3> QED
      BY <2>2, <3>1, <3>2, <1>2
  <2> QED
    BY <2>1, <2>2
<1> QED
  BY <1>4 DEF Holds, g, x

\* A node that changes in nothing but its properties.
LEMMA PropsHold ==
  ASSUME NEW f \in Partial(TxnNode), IsTxnTree(f), NEW w, Holds(f, w),
         NEW p \in DOMAIN f, NEW n \in TxnNode,
         n.newNode = f[p].newNode, n.at = f[p].at,
         n.textModified = f[p].textModified, n.node.text = f[p].node.text
  PROVE  /\ MarkDirty(Put(f, p, n), p) \in Partial(TxnNode)
         /\ IsTxnTree(MarkDirty(Put(f, p, n), p))
         /\ Holds(MarkDirty(Put(f, p, n), p), w)
<1> DEFINE g == MarkDirty(Put(f, p, n), p)
<1>1. p \in Paths
  BY PartialIs
<1>2. /\ n.newNode \/ n.at[1] \in 0..youngest
      /\ p = <<>> => ~n.newNode
  BY DEF IsTxnTree
<1>3. /\ g \in Partial(TxnNode)
      /\ IsTxnTree(g)
      /\ \A q : q \in DOMAIN g <=> q \in DOMAIN f \/ q = p
      /\ g[p].node = n.node
      /\ g[p].newNode = n.newNode
      /\ g[p].textModified = n.textModified
      /\ \A q \in DOMAIN f :
            /\ g[q].dirty <=> f[q].dirty \/ Covers(q, p)
            /\ q # p => /\ g[q].node = f[q].node
                        /\ g[q].newNode = f[q].newNode
                        /\ g[q].textModified = f[q].textModified
  BY <1>1, <1>2, PutTree
<1> HIDE DEF g
<1>4. ASSUME NEW a \in DOMAIN w
      PROVE  /\ a \in DOMAIN g
             /\ g[a].node.text = w[a]
             /\ g[a].newNode \/ g[a].textModified
             /\ \A q \in Paths : Covers(q, a) => q \in DOMAIN g /\ g[q].dirty
  <2>1. /\ a \in DOMAIN f
        /\ f[a].node.text = w[a]
        /\ f[a].newNode \/ f[a].textModified
        /\ \A q \in Paths : Covers(q, a) => q \in DOMAIN f /\ f[q].dirty
    BY DEF Holds
  <2>2. g[a].node.text = f[a].node.text
    BY <2>1, <1>3
  <2>3. g[a].newNode \/ g[a].textModified
    BY <2>1, <1>3
  <2> QED
    BY <2>1, <2>2, <2>3, <1>3
<1> QED
  BY <1>3, <1>4 DEF Holds, g

\* A subtree removed.
LEMMA DeleteHolds ==
  ASSUME NEW f \in Partial(TxnNode), IsTxnTree(f), NEW w \in Partial(Texts), Holds(f, w),
         NEW p \in Paths \ {<<>>}, NEW gone, gone = {q \in DOMAIN f : Covers(p, q)}
  PROVE  /\ MarkDirty(Without(f, gone), p) \in Partial(TxnNode)
         /\ IsTxnTree(MarkDirty(Without(f, gone), p))
         /\ Without(w, gone) \in Partial(Texts)
         /\ Holds(MarkDirty(Without(f, gone), p), Without(w, gone))
<1> DEFINE h == Without(f, gone)
           g == MarkDirty(h, p)
           x == Without(w, gone)
<1>1. /\ h \in Partial(TxnNode)
      /\ \A q : q \in DOMAIN h <=> q \in DOMAIN f \ gone
      /\ \A q \in DOMAIN f \ gone : h[q] = f[q]
  BY WithoutIs
<1>2. /\ x \in Partial(Texts)
      /\ \A q : q \in DOMAIN x <=> q \in DOMAIN w \ gone
      /\ \A q \in DOMAIN w \ gone : x[q] = w[q]
  BY WithoutIs
<1> HIDE DEF h
<1>3. /\ g \in Partial(TxnNode)
      /\ \A q : q \in DOMAIN g <=> q \in DOMAIN h
      /\ \A q \in DOMAIN h :
            /\ g[q].node = h[q].node
            /\ g[q].at = h[q].at
            /\ g[q].newNode = h[q].newNode
            /\ g[q].textModified = h[q].textModified
            /\ g[q].dirty <=> h[q].dirty \/ Covers(q, p)
  BY <1>1, MarkDirtyIs
<1> HIDE DEF g, x
<1>4. DOMAIN f \subseteq Paths /\ p \in Seq(Names)
  BY PartialIs, PathTypes
<1>5. ASSUME NEW a \in DOMAIN f \ gone, NEW q \in Paths, Covers(q, a)
      PROVE  q \in DOMAIN f \ gone
  <2>1. q \in DOMAIN f
    BY <1>5 DEF IsTxnTree, IsTree
  <2>2. ~Covers(p, q)
    <3>1. a \in Seq(Names) /\ q \in Seq(Names)
      BY <1>4, PathTypes
    <3>2. ~Covers(p, a)
      OBVIOUS
    <3> QED
      BY <1>4, <1>5, <3>1, <3>2, CoversOrder
  <2> QED
    BY <2>1, <2>2
<1>6. <<>> \in DOMAIN f \ gone
  <2>1. ~Covers(p, <<>>)
    BY <1>4, CoversOrder
  <2> QED
    BY <2>1 DEF IsTxnTree, IsTree
<1>7. IsTxnTree(g)
  <2>1. IsTree(g)
    BY <1>1, <1>3, <1>5, <1>6 DEF IsTree
  <2>2. ~g[<<>>].newNode
    BY <1>1, <1>3, <1>6 DEF IsTxnTree
  <2>3. \A q \in DOMAIN g : g[q].newNode \/ g[q].at[1] \in 0..youngest
    BY <1>1, <1>3 DEF IsTxnTree
  <2> QED
    BY <2>1, <2>2, <2>3 DEF IsTxnTree
<1>8. ASSUME NEW a \in DOMAIN x
      PROVE  /\ a \in DOMAIN g
             /\ g[a].node.text = x[a]
             /\ g[a].newNode \/ g[a].textModified
             /\ \A q \in Paths : Covers(q, a) => q \in DOMAIN g /\ g[q].dirty
  <2>1. a \in DOMAIN w \ gone /\ x[a] = w[a]
    BY <1>2
  <2>2. /\ a \in DOMAIN f \ gone
        /\ f[a].node.text = w[a]
        /\ f[a].newNode \/ f[a].textModified
        /\ \A q \in Paths : Covers(q, a) => q \in DOMAIN f /\ f[q].dirty
    BY <2>1 DEF Holds
  <2>3. \A q \in Paths : Covers(q, a) => q \in DOMAIN f \ gone
    BY <2>2, <1>5
  <2>4. a \in DOMAIN h /\ h[a] = f[a]
    BY <2>2, <1>1
  <2>5. \A q \in Paths : Covers(q, a) => q \in DOMAIN h /\ h[q].dirty
    BY <2>2, <2>3, <1>1
  <2> QED
    BY <2>1, <2>2, <2>4, <2>5, <1>3
<1> QED
  BY <1>2, <1>3, <1>7, <1>8 DEF Holds, g, h, x

\* The copy of a subtree of revision r.
CopyOf(r, src, dst) ==
  LET from == Tree(r)[src].cpath
  IN  [p \in {Moved(q, src, dst) : q \in {q \in DOMAIN Tree(r) : Covers(src, q)}} |->
          Clean(Tree(r)[Moved(p, dst, src)], r, Moved(p, dst, from))]

\* f with the subtree c in it.
Grafted(f, c) == [p \in DOMAIN f \cup DOMAIN c |-> IF p \in DOMAIN c THEN c[p] ELSE f[p]]

LEMMA RevisionTree ==
  ASSUME Typed, NEW r \in 0..youngest
  PROVE  /\ revision[r] \in Revision
         /\ Tree(r) \in Partial(NodeRevision)
         /\ DOMAIN Tree(r) \subseteq Paths
         /\ \A p \in DOMAIN Tree(r) : Tree(r)[p] \in NodeRevision
         /\ IsTree(Tree(r))
<1>1. revision[r] \in Revision
  BY DEF Typed
<1>2. Tree(r) \in Partial(NodeRevision)
  BY <1>1 DEF Revision, Tree
<1>3. DOMAIN Tree(r) \subseteq Paths /\ \A p \in DOMAIN Tree(r) : Tree(r)[p] \in NodeRevision
  BY <1>2, PartialIs
<1> QED
  BY <1>1, <1>2, <1>3 DEF Typed

\* What is in a copy: the subtree of src, each of its nodes below dst.
LEMMA CopyIs ==
  ASSUME Typed, NEW r \in 0..youngest, NEW src \in DOMAIN Tree(r), NEW dst \in Paths,
         DOMAIN CopyOf(r, src, dst) \subseteq Paths
  PROVE  LET c == CopyOf(r, src, dst)
         IN  /\ c \in Partial(TxnNode)
             /\ dst \in DOMAIN c
             /\ \A p \in DOMAIN c :
                   /\ Covers(dst, p)
                   /\ Moved(p, dst, src) \in DOMAIN Tree(r)
                   /\ c[p].node = Tree(r)[Moved(p, dst, src)]
                   /\ c[p].at[1] = r
                   /\ ~c[p].dirty /\ ~c[p].newNode /\ ~c[p].textModified /\ ~c[p].propsModified
                   /\ \A q \in Paths : Covers(dst, q) /\ Covers(q, p) => q \in DOMAIN c
<1> DEFINE c == CopyOf(r, src, dst)
           below == {q \in DOMAIN Tree(r) : Covers(src, q)}
           from == Tree(r)[src].cpath
<1>1. /\ DOMAIN Tree(r) \subseteq Paths
      /\ \A p \in DOMAIN Tree(r) : Tree(r)[p] \in NodeRevision
      /\ IsTree(Tree(r))
  BY RevisionTree
<1>2. src \in Paths /\ src \in Seq(Names) /\ dst \in Seq(Names) /\ Covers(src, src)
  BY <1>1, PathTypes
<1>3. from \in Paths /\ from \in Seq(Names)
  <2>1. Tree(r)[src] \in NodeRevision
    BY <1>1
  <2>2. \A n \in NodeRevision : n.cpath \in Paths
    BY DEF NodeRevision
  <2>3. from \in Paths
    BY <2>1, <2>2
  <2> QED
    BY <2>3, PathTypes
<1>4. /\ \A p : p \in DOMAIN c <=> \E q \in below : p = Moved(q, src, dst)
      /\ c = [p \in DOMAIN c |-> c[p]]
      /\ \A p \in DOMAIN c : c[p] = Clean(Tree(r)[Moved(p, dst, src)], r, Moved(p, dst, from))
  BY DEF CopyOf
<1> HIDE DEF c
<1>5. ASSUME NEW q \in below
      PROVE  /\ q \in Seq(Names)
             /\ Covers(dst, Moved(q, src, dst))
             /\ Moved(Moved(q, src, dst), dst, src) = q
             /\ Moved(q, src, dst) \in Seq(Names)
             /\ \A b \in Seq(Names) : Covers(src, b) /\ Covers(b, q) =>
                   Covers(Moved(b, src, dst), Moved(q, src, dst))
  <2>1. q \in Seq(Names) /\ Covers(src, q)
    BY <1>1, PathTypes
  <2> QED
    BY <1>2, <2>1, MovedTree
<1>6. dst \in DOMAIN c
  <2>1. src \in below
    BY <1>2
  <2>2. Moved(src, src, dst) = dst
    <3> DEFINE m == Moved(src, src, dst)
    <3>1. Covers(dst, m) /\ m \in Seq(Names)
      BY <2>1, <1>5
    <3>2. Len(m) = Len(dst) + Len(src) - Len(src)
      BY <1>2, MovedElements
    <3> HIDE DEF m
    <3>3. Len(m) = Len(dst)
      <4> DEFINE a == Len(dst)
                 b == Len(src)
                 n == Len(m)
      <4>1. a \in Nat /\ b \in Nat /\ n = a + b - b
        BY <1>2, <3>2
      <4> HIDE DEF a, b, n
      <4>2. n = a
        BY <4>1
      <4> QED
        BY <4>2 DEF a, n
    <3>4. dst = Up(m, Len(dst)) /\ m = Up(m, Len(m))
      BY <1>2, <3>1, CoversIsUp, UpOfUp, SubSeqFull DEF Up
    <3>5. m = dst
      BY <3>3, <3>4
    <3> QED
      BY <3>5 DEF m
  <2> QED
    BY <2>1, <2>2, <1>4
<1>7. ASSUME NEW p \in DOMAIN c
      PROVE  /\ c[p] \in TxnNode
             /\ Covers(dst, p)
             /\ Moved(p, dst, src) \in DOMAIN Tree(r)
             /\ c[p].node = Tree(r)[Moved(p, dst, src)]
             /\ c[p].at[1] = r
             /\ ~c[p].dirty /\ ~c[p].newNode /\ ~c[p].textModified /\ ~c[p].propsModified
             /\ \A q \in Paths : Covers(dst, q) /\ Covers(q, p) => q \in DOMAIN c
  <2>1. PICK o \in below : p = Moved(o, src, dst)
    BY <1>4
  <2>2. Moved(p, dst, src) = o /\ Covers(dst, p) /\ p \in Seq(Names)
    BY <2>1, <1>5
  <2>3. Moved(p, dst, from) \in Seq(Names)
    BY <1>2, <1>3, <2>2, MovedTree
  <2> DEFINE at == Moved(p, dst, from)
             n == Tree(r)[o]
  <2>4. c[p] = Clean(n, r, at)
    BY <1>4, <2>2
  <2>5. n \in NodeRevision /\ at \in Seq(Names) /\ r \in Nat
    BY <1>1, <2>3 DEF Typed
  <2> HIDE DEF at, n
  <2>6. /\ Clean(n, r, at) \in TxnNode
        /\ Clean(n, r, at).node = n
        /\ Clean(n, r, at).at[1] = r
        /\ ~Clean(n, r, at).dirty /\ ~Clean(n, r, at).newNode
        /\ ~Clean(n, r, at).textModified /\ ~Clean(n, r, at).propsModified
    BY <2>5 DEF Clean, TxnNode
  <2>7. ASSUME NEW q \in Paths, Covers(dst, q), Covers(q, p)
        PROVE  q \in DOMAIN c
    <3>1. q \in Seq(Names)
      BY PathTypes
    <3> DEFINE b == Moved(q, dst, src)
    <3>2. b \in Seq(Names) /\ Covers(src, b) /\ Moved(b, src, dst) = q
      BY <1>2, <2>7, <3>1, MovedTree
    <3>3. Covers(b, Moved(p, dst, src))
      BY <1>2, <2>2, <2>7, <3>1, MovedTree
    <3> HIDE DEF b
    <3>4. o \in Paths
      BY <1>1
    <3>5. b \in Paths
      BY <2>2, <3>2, <3>3, <3>4, PathsClosed
    <3>6. b \in DOMAIN Tree(r)
      BY <1>1, <2>2, <3>3, <3>5 DEF IsTree
    <3>7. b \in below
      BY <3>2, <3>6
    <3> QED
      BY <1>4, <3>2, <3>7
  <2> QED
    BY <2>2, <2>4, <2>6, <2>7 DEF n
<1>8. c \in Partial(TxnNode)
  <2>1. \A p \in DOMAIN c : c[p] \in TxnNode
    BY <1>7
  <2>2. DOMAIN c \subseteq Paths
    BY DEF c
  <2> QED
    BY <1>4, <2>1, <2>2, PartialIs
<1> QED
  BY <1>6, <1>7, <1>8 DEF c

\* A subtree grafted at a vacant path.
LEMMA GraftHolds ==
  ASSUME NEW f \in Partial(TxnNode), IsTxnTree(f), NEW w \in Partial(Texts), Holds(f, w),
         NEW dst \in Paths, Vacant(f, dst),
         NEW c \in Partial(TxnNode), dst \in DOMAIN c,
         \A p \in DOMAIN c : /\ Covers(dst, p)
                             /\ c[p].newNode \/ c[p].at[1] \in 0..youngest
                             /\ \A q \in Paths : Covers(dst, q) /\ Covers(q, p) => q \in DOMAIN c
  PROVE  LET g == MarkDirty(Grafted(f, c), dst)
         IN  /\ g \in Partial(TxnNode)
             /\ IsTxnTree(g)
             /\ Holds(g, w)
<1> DEFINE h == Grafted(f, c)
           g == MarkDirty(h, dst)
<1>1. /\ DOMAIN f \subseteq Paths /\ \A p \in DOMAIN f : f[p] \in TxnNode
      /\ DOMAIN c \subseteq Paths /\ \A p \in DOMAIN c : c[p] \in TxnNode
  BY PartialIs
<1>2. ASSUME NEW p \in DOMAIN c
      PROVE  p \notin DOMAIN f
  BY <1>1 DEF Vacant, IsTxnTree, IsTree
<1>3. /\ \A p : p \in DOMAIN h <=> p \in DOMAIN f \/ p \in DOMAIN c
      /\ h = [p \in DOMAIN h |-> h[p]]
      /\ \A p \in DOMAIN h : h[p] = IF p \in DOMAIN c THEN c[p] ELSE f[p]
  BY DEF Grafted
<1> HIDE DEF h
<1>4. h \in Partial(TxnNode)
  <2>1. DOMAIN h \subseteq Paths /\ \A p \in DOMAIN h : h[p] \in TxnNode
    BY <1>1, <1>3
  <2> QED
    BY <1>3, <2>1, PartialIs
<1>5. /\ g \in Partial(TxnNode)
      /\ \A q : q \in DOMAIN g <=> q \in DOMAIN h
      /\ \A q \in DOMAIN h :
            /\ g[q].node = h[q].node
            /\ g[q].at = h[q].at
            /\ g[q].newNode = h[q].newNode
            /\ g[q].textModified = h[q].textModified
            /\ g[q].dirty <=> h[q].dirty \/ Covers(q, dst)
  BY <1>4, MarkDirtyIs
<1> HIDE DEF g
<1>6. IsTree(g)
  <2>1. ASSUME NEW p \in DOMAIN g, NEW q \in Paths, Covers(q, p)
        PROVE  q \in DOMAIN g
    <3>1. CASE p \in DOMAIN f
      BY <2>1, <3>1, <1>3, <1>5 DEF IsTxnTree, IsTree
    <3>2. CASE p \in DOMAIN c
      <4>1. Covers(dst, p) /\ p \in Seq(Names) /\ dst \in Seq(Names) /\ q \in Seq(Names)
        BY <3>2, <1>1, PathTypes
      <4>2. Covers(dst, q) \/ Covers(q, dst)
        BY <2>1, <4>1, CoversOrder
      <4>3. CASE Covers(dst, q)
        BY <2>1, <3>2, <4>3, <1>3, <1>5
      <4>4. CASE Covers(q, dst) /\ q # dst
        <5>1. Covers(q, Parent(dst))
          BY <4>4, AboveParent
        <5> QED
          BY <5>1, <1>3, <1>5 DEF Vacant, IsTxnTree, IsTree
      <4> QED
        BY <4>2, <4>3, <4>4, <1>3, <1>5
    <3> QED
      BY <3>1, <3>2, <1>3, <1>5
  <2>2. <<>> \in DOMAIN g
    BY <1>3, <1>5 DEF IsTxnTree, IsTree
  <2> QED
    BY <2>1, <2>2 DEF IsTree
<1>7. IsTxnTree(g)
  <2>1. <<>> \in DOMAIN f
    BY DEF IsTxnTree, IsTree
  <2>2. h[<<>>] = f[<<>>]
    BY <2>1, <1>2, <1>3
  <2>3. ~g[<<>>].newNode
    BY <2>1, <2>2, <1>3, <1>5 DEF IsTxnTree
  <2>4. ASSUME NEW p \in DOMAIN h
        PROVE  h[p].newNode \/ h[p].at[1] \in 0..youngest
    <3>1. CASE p \in DOMAIN c
      BY <3>1, <1>3
    <3>2. CASE p \notin DOMAIN c
      BY <3>2, <1>3 DEF IsTxnTree
    <3> QED
      BY <3>1, <3>2
  <2> QED
    BY <2>3, <2>4, <1>5, <1>6 DEF IsTxnTree
<1>8. ASSUME NEW p \in DOMAIN f
      PROVE  p \in DOMAIN h /\ h[p] = f[p]
  BY <1>2, <1>3
<1>9. Holds(g, w)
  <2> SUFFICES ASSUME NEW a \in DOMAIN w
               PROVE  /\ a \in DOMAIN g
                      /\ g[a].node.text = w[a]
                      /\ g[a].newNode \/ g[a].textModified
                      /\ \A q \in Paths : Covers(q, a) => q \in DOMAIN g /\ g[q].dirty
    BY DEF Holds
  <2>1. /\ a \in DOMAIN f
        /\ f[a].node.text = w[a]
        /\ f[a].newNode \/ f[a].textModified
        /\ \A q \in Paths : Covers(q, a) => q \in DOMAIN f /\ f[q].dirty
    BY DEF Holds
  <2>2. a \in DOMAIN h /\ h[a] = f[a]
    BY <2>1, <1>8
  <2>3. \A q \in Paths : Covers(q, a) => q \in DOMAIN h /\ h[q].dirty
    BY <2>1, <1>8
  <2> QED
    BY <2>1, <2>2, <2>3, <1>5
<1> QED
  BY <1>5, <1>7, <1>9 DEF g, h

-----------------------------------------------------------------------------
(***************************************************************************)
(* The merge.                                                              *)
(***************************************************************************)
\* mergeTxnDirectory reaches a path only through all paths above it.
LEMMA VisitedDown ==
  ASSUME NEW t, NEW p \in Seq(Names)
  PROVE  /\ Visited(t, <<>>)
         /\ \A n \in 0..Len(p) : Visited(t, p) => Visited(t, Up(p, n))
         /\ \A q \in Seq(Names) : Covers(q, p) /\ Visited(t, p) => Visited(t, q)
         /\ Visited(t, p) /\ p # <<>> =>
              /\ p \in DOMAIN open[t].tree /\ p \in DOMAIN Tree(youngest)
              /\ open[t].tree[p].dirty /\ ~open[t].tree[p].newNode
<1> DEFINE On(q) == /\ q \in DOMAIN open[t].tree /\ q \in DOMAIN Tree(youngest)
                    /\ open[t].tree[q].dirty /\ ~open[t].tree[q].newNode
           l == Len(p)
<1>1. \A q : Visited(t, q) <=> \A n \in 1..Len(q) : On(Up(q, n))
  BY DEF Visited, Up
<1> HIDE DEF On
<1>2. l \in Nat /\ Up(p, l) = p
  BY SubSeqFull DEF Up
<1>3. Visited(t, <<>>)
  <2>1. \A n \in 1..Len(<<>>) : FALSE
    OBVIOUS
  <2> QED
    BY <1>1, <2>1
<1>4. ASSUME NEW n \in 0..l, Visited(t, p)
      PROVE  Visited(t, Up(p, n))
  <2>1. Len(Up(p, n)) = n
    BY UpIs
  <2>2. ASSUME NEW m \in 1..n
        PROVE  On(Up(Up(p, n), m))
    <3>1. m \in 0..n /\ m \in 1..l
      BY <1>2
    <3>2. Up(Up(p, n), m) = Up(p, m)
      BY <3>1, UpOfUp
    <3> QED
      BY <1>1, <1>4, <3>1, <3>2
  <2> QED
    BY <1>1, <2>1, <2>2
<1>5. ASSUME NEW q \in Seq(Names), Covers(q, p), Visited(t, p)
      PROVE  Visited(t, q)
  <2>1. Len(q) \in 0..l /\ q = Up(p, Len(q))
    BY <1>5, CoversIsUp
  <2> QED
    BY <1>4, <1>5, <2>1
<1>6. ASSUME Visited(t, p), p # <<>>
      PROVE  On(p)
  <2>1. l > 0
    BY <1>6, EmptySeq
  <2>2. l \in 1..l
    BY <1>2, <2>1
  <2> QED
    BY <1>1, <1>2, <1>6, <2>2
<1> QED
  BY <1>3, <1>4, <1>5, <1>6 DEF On

\* The descent towards a path ends at one place only.
LEMMA StopUnique ==
  ASSUME NEW t, NEW p \in Seq(Names), NEW n \in 1..Len(p),
         ~Visited(t, Up(p, n)), Visited(t, Up(p, n - 1))
  PROVE  Stop(t, p) = Up(p, n)
<1> DEFINE l == Len(p)
           Ends(m) == ~Visited(t, Up(p, m)) /\ Visited(t, Up(p, m - 1))
<1>1. ASSUME NEW m \in 1..l, NEW k \in 1..l, Ends(m), Ends(k), m < k
      PROVE  FALSE
  <2> DEFINE i == k - 1
  <2>1. i \in 0..l /\ m \in 0..i
    BY <1>1
  <2> HIDE DEF i
  <2>2. /\ Up(p, i) \in Seq(Names)
        /\ Len(Up(p, i)) = i
        /\ Up(Up(p, i), m) = Up(p, m)
    BY <2>1, UpIs, UpOfUp
  <2>3. Visited(t, Up(p, i)) => Visited(t, Up(Up(p, i), m))
    <3> DEFINE q == Up(p, i)
    <3>1. q \in Seq(Names) /\ m \in 0..Len(q)
      BY <2>1, <2>2
    <3> HIDE DEF q
    <3>2. Visited(t, q) => Visited(t, Up(q, m))
      BY <3>1, VisitedDown
    <3> QED
      BY <3>2 DEF q
  <2>4. Visited(t, Up(p, i))
    BY <1>1 DEF i
  <2> QED
    BY <1>1, <2>2, <2>3, <2>4
<1>2. Ends(n)
  OBVIOUS
<1>3. Stop(t, p) = Up(p, CHOOSE m \in 1..l : Ends(m))
  BY DEF Stop, Up
<1> HIDE DEF Ends
<1> DEFINE c == CHOOSE m \in 1..l : Ends(m)
<1>4. c \in 1..l /\ Ends(c)
  BY <1>2
<1> HIDE DEF c
<1>5. c = n
  <2>1. c \in Int /\ n \in Int /\ n \in 1..l
    BY <1>4
  <2>2. ~(c < n) /\ ~(n < c)
    BY <1>1, <1>2, <1>4, <2>1
  <2> QED
    BY <2>1, <2>2
<1> QED
  BY <1>3, <1>5 DEF c

\* It ends at the shortest prefix that is not visited, which is the same one
\* for every path below it.
LEMMA StopIs ==
  ASSUME NEW t, NEW p \in Seq(Names), ~Visited(t, p)
  PROVE  /\ Stop(t, p) \in Seq(Names)
         /\ Covers(Stop(t, p), p)
         /\ Stop(t, p) # <<>>
         /\ Visited(t, Parent(Stop(t, p)))
         /\ \A q \in Seq(Names) : Covers(q, p) =>
               /\ Visited(t, q) <=> ~Covers(Stop(t, p), q)
               /\ ~Visited(t, q) => Stop(t, q) = Stop(t, p)
<1> DEFINE l == Len(p)
           B == {m \in 1..l : ~Visited(t, Up(p, m))}
<1>1. l \in Nat /\ Up(p, l) = p /\ Up(p, 0) = <<>>
  <2>1. l \in 0..Len(p) /\ 0 \in 0..l
    OBVIOUS
  <2> QED
    BY <2>1, UpOfUp
<1>2. Visited(t, <<>>)
  BY VisitedDown
<1>3. l \in B
  <2>1. l # 0
    BY <1>1, <1>2
  <2>2. l \in 1..l
    BY <1>1, <2>1
  <2> QED
    BY <1>1, <2>2
<1>4. PICK n \in B : \A m \in B : n <= m
  <2>1. B \in SUBSET Nat
    OBVIOUS
  <2> HIDE DEF B
  <2> QED
    BY <1>3, <2>1, LeastNatural
<1>5. n \in 1..l /\ n \in Nat /\ ~Visited(t, Up(p, n))
  BY <1>4
<1>6. \A m \in 0..l : m < n => Visited(t, Up(p, m))
  <2> SUFFICES ASSUME NEW m \in 0..l, m < n
               PROVE  Visited(t, Up(p, m))
    OBVIOUS
  <2>1. CASE m = 0
    BY <2>1, <1>1, <1>2
  <2>2. CASE m # 0
    <3>1. m \in 1..l /\ ~(n <= m)
      BY <2>2, <1>5
    <3> QED
      BY <3>1, <1>4
  <2> QED
    BY <2>1, <2>2
<1> HIDE DEF B
<1> DEFINE s == Up(p, n)
           n1 == n - 1
<1>7. n1 \in 0..l /\ n1 < n /\ n \in 0..l /\ n1 \in 0..n /\ n > 0
  BY <1>5
<1>8. Stop(t, p) = s
  <2>1. Visited(t, Up(p, n - 1))
    BY <1>6, <1>7
  <2> QED
    BY <1>5, <2>1, StopUnique
<1>9. s \in Seq(Names) /\ Len(s) = n /\ Covers(s, p)
  BY <1>7, UpIs, CoversIsUp
<1>10. s # <<>>
  <2>1. Len(<<>>) = 0
    OBVIOUS
  <2> HIDE DEF s
  <2> QED
    BY <1>7, <1>9, <2>1
<1>11. Visited(t, Parent(s))
  <2>1. Parent(s) = Up(s, n1)
    <3> HIDE DEF s
    <3> QED
      BY <1>9 DEF Parent, Up
  <2>2. Up(Up(p, n), n1) = Up(p, n1)
    <3> HIDE DEF n1
    <3> QED
      BY <1>7, UpOfUp
  <2>3. Visited(t, Up(p, n1))
    <3> HIDE DEF n1
    <3> QED
      BY <1>6, <1>7
  <2> QED
    BY <2>1, <2>2, <2>3
<1>12. ASSUME NEW q \in Seq(Names), Covers(q, p)
       PROVE  /\ Visited(t, q) <=> ~Covers(s, q)
              /\ ~Visited(t, q) => Stop(t, q) = s
  <2> DEFINE k == Len(q)
  <2>1. k \in 0..l /\ k <= l /\ q = Up(p, k)
    BY <1>12, CoversIsUp
  <2>2. CASE k < n
    <3>1. Visited(t, q)
      BY <1>6, <2>1, <2>2
    <3>2. ~Covers(s, q)
      <4>1. Covers(s, q) => Len(s) <= Len(q)
        BY <1>9, CoversIsUp
      <4> HIDE DEF s
      <4> QED
        BY <2>1, <2>2, <4>1, <1>9, <1>5
    <3> QED
      BY <3>1, <3>2
  <2>3. CASE n <= k
    <3>1. n \in 0..k /\ n1 \in 0..k /\ n \in 1..k
      BY <2>1, <2>3, <1>7
    <3>2. Up(q, n) = Up(p, n) /\ Up(q, n1) = Up(p, n1)
      <4> HIDE DEF n1, k
      <4>1. Up(Up(p, k), n) = Up(p, n) /\ Up(Up(p, k), n1) = Up(p, n1)
        BY <2>1, <3>1, UpOfUp
      <4> QED
        BY <2>1, <4>1
    <3>3. Covers(s, q)
      BY <3>1, <3>2, CoversIsUp
    <3>4. ~Visited(t, q)
      BY <3>3, <1>5, <1>9, VisitedDown
    <3>5. Stop(t, q) = s
      <4>1. Visited(t, Up(q, n - 1)) /\ ~Visited(t, Up(q, n))
        BY <1>5, <1>6, <1>7, <3>2
      <4>2. Stop(t, q) = Up(q, n)
        BY <3>1, <4>1, StopUnique
      <4> QED
        BY <3>2, <4>2
    <3> QED
      BY <3>3, <3>4, <3>5
  <2> QED
    BY <2>1, <2>2, <2>3, <1>5
<1> HIDE DEF s
<1> QED
  BY <1>8, <1>9, <1>10, <1>11, <1>12

LEMMA TransactionIs ==
  ASSUME Typed, NEW t \in Txns, open[t] # None
  PROVE  /\ open[t] \in Transaction
         /\ open[t].base \in 0..youngest
         /\ open[t].tree \in Partial(TxnNode)
         /\ open[t].changes \in Partial(PathChange)
         /\ open[t].wrote \in Partial(Texts)
         /\ DOMAIN open[t].tree \subseteq Paths
         /\ \A p \in DOMAIN open[t].tree : open[t].tree[p] \in TxnNode
         /\ IsTxnTree(open[t].tree)
         /\ IsTree(open[t].tree)
         /\ <<>> \in DOMAIN open[t].tree
<1>1. open[t] \in Transaction
  BY DEF Typed
<1>2. open[t].base <= youngest /\ IsTxnTree(open[t].tree)
  BY DEF Typed
<1>3. /\ open[t].base \in Nat
      /\ open[t].tree \in Partial(TxnNode)
      /\ open[t].changes \in Partial(PathChange)
      /\ open[t].wrote \in Partial(Texts)
  BY <1>1 DEF Transaction
<1>4. DOMAIN open[t].tree \subseteq Paths /\ \A p \in DOMAIN open[t].tree : open[t].tree[p] \in TxnNode
  BY <1>3, PartialIs
<1>5. youngest \in Nat
  BY DEF Typed
<1>6. open[t].base \in 0..youngest
  BY <1>2, <1>3, <1>5
<1> QED
  BY <1>1, <1>2, <1>3, <1>4, <1>6 DEF IsTxnTree, IsTree

\* A node that the merge has visited.
LEMMA RebasedIs ==
  ASSUME NEW t, NEW p \in Paths, open[t].tree[p] \in TxnNode, Tree(youngest)[p] \in NodeRevision,
         youngest \in Nat
  PROVE  LET n == open[t].tree[p]
             latest == Tree(youngest)[p]
             m == RebasedNode(t, p)
         IN  /\ m \in TxnNode
             /\ m.at[1] = youngest
             /\ m.dirty = n.dirty /\ m.newNode = n.newNode
             /\ m.textModified = n.textModified /\ m.propsModified = n.propsModified
             /\ m.node.kind = n.node.kind
             /\ n.textModified => m.node.text = n.node.text
             /\ ~n.textModified => m.node.text = latest.text
             /\ n.propsModified => m.node.props = n.node.props
             /\ ~n.propsModified => m.node.props = latest.props
<1> DEFINE n == open[t].tree[p]
           latest == Tree(youngest)[p]
           text == IF n.textModified THEN n.node.text ELSE latest.text
           props == IF n.propsModified THEN n.node.props ELSE latest.props
<1>1. n \in TxnNode /\ latest \in NodeRevision /\ p \in Seq(Names)
  BY PathTypes
<1>2. RebasedNode(t, p) =
        [n EXCEPT !.at = <<youngest, p>>, !.node.text = text, !.node.props = props,
                  !.node.cpath = latest.cpath]
  BY DEF RebasedNode
<1> HIDE DEF n, latest
<1>3. n.node \in NodeRevision
  BY <1>1 DEF TxnNode
<1>4. text \in Texts /\ props \in SUBSET Marks /\ latest.cpath \in Paths
  BY <1>1, <1>3 DEF NodeRevision, Texts
<1> HIDE DEF text, props
<1> DEFINE node == [n.node EXCEPT !.text = text, !.props = props, !.cpath = latest.cpath]
           m == [n EXCEPT !.at = <<youngest, p>>, !.node = node]
<1>5. RebasedNode(t, p) = m
  BY <1>1, <1>2 DEF TxnNode, NodeRevision
<1>6. /\ node \in NodeRevision /\ node.kind = n.node.kind
      /\ node.text = text /\ node.props = props
  BY <1>3, <1>4 DEF NodeRevision, Texts
<1> HIDE DEF node
<1>7. /\ m \in TxnNode /\ m.at = <<youngest, p>> /\ m.node = node
      /\ m.dirty = n.dirty /\ m.newNode = n.newNode
      /\ m.textModified = n.textModified /\ m.propsModified = n.propsModified
  BY <1>1, <1>6 DEF TxnNode
<1> HIDE DEF m
<1>8. /\ n.textModified => text = n.node.text
      /\ ~n.textModified => text = latest.text
      /\ n.propsModified => props = n.node.props
      /\ ~n.propsModified => props = latest.props
  BY DEF text, props
<1> QED
  BY <1>5, <1>6, <1>7, <1>8 DEF n, latest

LEMMA MergedIs ==
  ASSUME Typed, NEW t \in Txns, open[t] # None
  PROVE  LET mine == open[t].tree
             latest == Tree(youngest)
             m == MergedTree(t)
         IN  /\ m \in Partial(TxnNode)
             /\ \A p \in Paths :
                   /\ Visited(t, p) =>
                        /\ p \in DOMAIN m /\ p \in DOMAIN mine /\ p \in DOMAIN latest
                        /\ m[p] = RebasedNode(t, p)
                   /\ ~Visited(t, p) /\ Kept(t, p) =>
                        /\ p \in DOMAIN m <=> p \in DOMAIN mine
                        /\ p \in DOMAIN mine => m[p] = mine[p]
                   /\ ~Visited(t, p) /\ ~Kept(t, p) =>
                        /\ p \in DOMAIN m <=> p \in DOMAIN latest
                        /\ p \in DOMAIN latest => m[p] = Clean(latest[p], youngest, p)
<1> DEFINE mine == open[t].tree
           latest == Tree(youngest)
           m == MergedTree(t)
<1>1. /\ mine \in Partial(TxnNode) /\ DOMAIN mine \subseteq Paths
      /\ \A p \in DOMAIN mine : mine[p] \in TxnNode
      /\ <<>> \in DOMAIN mine
  BY TransactionIs
<1>2. youngest \in Nat /\ youngest \in 0..youngest
  BY DEF Typed
<1>3. /\ DOMAIN latest \subseteq Paths
      /\ \A p \in DOMAIN latest : latest[p] \in NodeRevision
      /\ <<>> \in DOMAIN latest
  BY <1>2, RevisionTree DEF IsTree
<1>4. /\ DOMAIN m \subseteq Paths
      /\ m = [p \in DOMAIN m |-> m[p]]
      /\ \A p \in Paths :
            /\ Visited(t, p) => p \in DOMAIN m /\ m[p] = RebasedNode(t, p)
            /\ ~Visited(t, p) /\ Kept(t, p) =>
                  /\ p \in DOMAIN m <=> p \in DOMAIN mine
                  /\ p \in DOMAIN mine => m[p] = mine[p]
            /\ ~Visited(t, p) /\ ~Kept(t, p) =>
                  /\ p \in DOMAIN m <=> p \in DOMAIN latest
                  /\ p \in DOMAIN latest => m[p] = Clean(latest[p], youngest, p)
  <2> DEFINE Stays(p) == IF Visited(t, p) THEN TRUE
                         ELSE IF Kept(t, p) THEN p \in DOMAIN mine ELSE p \in DOMAIN latest
             New(p) == IF Visited(t, p) THEN RebasedNode(t, p)
                       ELSE IF Kept(t, p) THEN mine[p]
                       ELSE Clean(latest[p], youngest, p)
  <2>1. m = [p \in {q \in Paths : Stays(q)} |-> New(p)]
    BY DEF MergedTree
  <2>2. /\ \A p \in Paths : /\ Visited(t, p) => (Stays(p) <=> TRUE)
                            /\ ~Visited(t, p) /\ Kept(t, p) => (Stays(p) <=> p \in DOMAIN mine)
                            /\ ~Visited(t, p) /\ ~Kept(t, p) => (Stays(p) <=> p \in DOMAIN latest)
        /\ \A p \in Paths : /\ Visited(t, p) => New(p) = RebasedNode(t, p)
                            /\ ~Visited(t, p) /\ Kept(t, p) => New(p) = mine[p]
                            /\ ~Visited(t, p) /\ ~Kept(t, p) => New(p) = Clean(latest[p], youngest, p)
    OBVIOUS
  <2> HIDE DEF m, mine, latest, Stays, New
  <2>3. /\ DOMAIN m \subseteq Paths
        /\ m = [p \in DOMAIN m |-> m[p]]
        /\ \A p \in Paths : p \in DOMAIN m <=> Stays(p)
        /\ \A p \in Paths : Stays(p) => m[p] = New(p)
    BY <2>1
  <2> QED
    BY <2>2, <2>3
<1> HIDE DEF m
<1>5. ASSUME NEW p \in Paths, Visited(t, p)
      PROVE  p \in DOMAIN mine /\ p \in DOMAIN latest
  BY <1>1, <1>3, <1>5, PathTypes, VisitedDown
<1>6. ASSUME NEW p \in DOMAIN m
      PROVE  m[p] \in TxnNode
  <2>0. p \in Paths
    BY <1>4
  <2>1. CASE Visited(t, p)
    <3>1. mine[p] \in TxnNode /\ latest[p] \in NodeRevision
      BY <2>0, <2>1, <1>1, <1>3, <1>5
    <3>2. RebasedNode(t, p) \in TxnNode
      BY <2>0, <3>1, <1>2, RebasedIs
    <3> QED
      BY <2>0, <2>1, <3>2, <1>4
  <2>2. CASE ~Visited(t, p) /\ Kept(t, p)
    BY <2>0, <2>2, <1>1, <1>4
  <2>3. CASE ~Visited(t, p) /\ ~Kept(t, p)
    <3> DEFINE n == latest[p]
    <3>1. n \in NodeRevision /\ m[p] = Clean(n, youngest, p) /\ p \in Seq(Names)
      BY <2>0, <2>3, <1>3, <1>4, PathTypes
    <3> HIDE DEF n
    <3>2. Clean(n, youngest, p) \in TxnNode
      BY <1>2, <3>1 DEF Clean, TxnNode
    <3> QED
      BY <3>1, <3>2
  <2> QED
    BY <2>1, <2>2, <2>3
<1>7. m \in Partial(TxnNode)
  BY <1>4, <1>6, PartialIs
<1> HIDE DEF mine, latest
<1> QED
  BY <1>4, <1>5, <1>7 DEF m, mine, latest

\* What the merge does at p it does at all paths between p and where the
\* descent towards p ended.
LEMMA KeptAlike ==
  ASSUME NEW t, NEW p \in Paths, NEW q \in Paths, Covers(q, p), ~Visited(t, q)
  PROVE  ~Visited(t, p) /\ (Kept(t, q) <=> Kept(t, p))
<1>1. p \in Seq(Names) /\ q \in Seq(Names)
  BY PathTypes
<1>2. ~Visited(t, p)
  BY <1>1, VisitedDown
<1>3. Stop(t, q) = Stop(t, p)
  BY <1>1, <1>2, StopIs
<1> QED
  BY <1>2, <1>3 DEF Kept

LEMMA MergedTxnTree ==
  ASSUME Typed, NEW t \in Txns, open[t] # None
  PROVE  IsTxnTree(MergedTree(t))
<1> DEFINE mine == open[t].tree
           latest == Tree(youngest)
           m == MergedTree(t)
<1>1. /\ DOMAIN mine \subseteq Paths
      /\ \A p \in DOMAIN mine : mine[p] \in TxnNode
      /\ IsTxnTree(mine) /\ IsTree(mine)
  BY TransactionIs
<1>2. youngest \in Nat /\ youngest \in 0..youngest
  BY DEF Typed
<1>3. /\ DOMAIN latest \subseteq Paths
      /\ \A p \in DOMAIN latest : latest[p] \in NodeRevision
      /\ IsTree(latest)
  BY <1>2, RevisionTree
<1>4. /\ DOMAIN m \subseteq Paths
      /\ \A p \in Paths :
            /\ Visited(t, p) =>
                 /\ p \in DOMAIN m /\ p \in DOMAIN mine /\ p \in DOMAIN latest
                 /\ m[p] = RebasedNode(t, p)
            /\ ~Visited(t, p) /\ Kept(t, p) =>
                 /\ p \in DOMAIN m <=> p \in DOMAIN mine
                 /\ p \in DOMAIN mine => m[p] = mine[p]
            /\ ~Visited(t, p) /\ ~Kept(t, p) =>
                 /\ p \in DOMAIN m <=> p \in DOMAIN latest
                 /\ p \in DOMAIN latest => m[p] = Clean(latest[p], youngest, p)
  BY MergedIs, PartialIs
<1> HIDE DEF m
<1>5. ASSUME NEW p \in DOMAIN m, NEW q \in Paths, Covers(q, p)
      PROVE  q \in DOMAIN m
  <2>0. p \in Paths
    BY <1>4
  <2>1. CASE Visited(t, q)
    BY <2>1, <1>4
  <2>2. CASE ~Visited(t, q)
    <3>1. ~Visited(t, p) /\ (Kept(t, q) <=> Kept(t, p))
      BY <2>0, <2>2, <1>5, KeptAlike
    <3>2. CASE Kept(t, p)
      <4>1. p \in DOMAIN mine
        BY <2>0, <3>1, <3>2, <1>4
      <4>2. q \in DOMAIN mine
        BY <4>1, <1>1, <1>5 DEF IsTree
      <4> QED
        BY <2>2, <3>1, <3>2, <4>2, <1>4
    <3>3. CASE ~Kept(t, p)
      <4>1. p \in DOMAIN latest
        BY <2>0, <3>1, <3>3, <1>4
      <4>2. q \in DOMAIN latest
        BY <4>1, <1>3, <1>5 DEF IsTree
      <4> QED
        BY <2>2, <3>1, <3>3, <4>2, <1>4
    <3> QED
      BY <3>2, <3>3
  <2> QED
    BY <2>1, <2>2
<1>6. ASSUME NEW p \in DOMAIN m
      PROVE  /\ m[p].newNode \/ m[p].at[1] \in 0..youngest
             /\ Visited(t, p) => m[p].newNode = mine[p].newNode
  <2>0. p \in Paths
    BY <1>4
  <2>1. CASE Visited(t, p)
    <3>1. mine[p] \in TxnNode /\ latest[p] \in NodeRevision /\ m[p] = RebasedNode(t, p)
      BY <2>0, <2>1, <1>1, <1>3, <1>4
    <3>2. RebasedNode(t, p).at[1] = youngest /\ RebasedNode(t, p).newNode = mine[p].newNode
      BY <2>0, <3>1, <1>2, RebasedIs
    <3> QED
      BY <3>1, <3>2, <1>2
  <2>2. CASE ~Visited(t, p) /\ Kept(t, p)
    <3>1. p \in DOMAIN mine /\ m[p] = mine[p]
      BY <2>0, <2>2, <1>4
    <3> QED
      BY <2>2, <3>1, <1>1 DEF IsTxnTree
  <2>3. CASE ~Visited(t, p) /\ ~Kept(t, p)
    <3>1. m[p] = Clean(latest[p], youngest, p)
      BY <2>0, <2>3, <1>4
    <3>2. Clean(latest[p], youngest, p).at[1] = youngest
      BY DEF Clean
    <3> QED
      BY <2>3, <3>1, <3>2, <1>2
  <2> QED
    BY <2>1, <2>2, <2>3
<1>7. <<>> \in DOMAIN m /\ m[<<>>].newNode = mine[<<>>].newNode
  <2>1. <<>> \in Paths /\ Visited(t, <<>>)
    BY PathsAssumption, EmptySeq, VisitedDown
  <2> QED
    BY <2>1, <1>4, <1>6
<1>8. IsTree(m)
  BY <1>5, <1>7 DEF IsTree
<1> QED
  BY <1>1, <1>6, <1>7, <1>8 DEF IsTxnTree, m

\* The merge keeps what was written, and keeps it safe for the next merge.
LEMMA MergedHolds ==
  ASSUME Typed, NEW t \in Txns, open[t] # None, Holds(open[t].tree, open[t].wrote)
  PROVE  Holds(MergedTree(t), open[t].wrote)
<1> DEFINE mine == open[t].tree
           latest == Tree(youngest)
           w == open[t].wrote
           m == MergedTree(t)
<1>1. /\ DOMAIN mine \subseteq Paths
      /\ \A p \in DOMAIN mine : mine[p] \in TxnNode
      /\ IsTxnTree(mine)
  BY TransactionIs
<1>2. youngest \in Nat /\ youngest \in 0..youngest
  BY DEF Typed
<1>3. /\ DOMAIN latest \subseteq Paths
      /\ \A p \in DOMAIN latest : latest[p] \in NodeRevision
  BY <1>2, RevisionTree
<1>4. \A p \in Paths :
         /\ Visited(t, p) =>
              /\ p \in DOMAIN m /\ p \in DOMAIN mine /\ p \in DOMAIN latest
              /\ m[p] = RebasedNode(t, p)
         /\ ~Visited(t, p) /\ Kept(t, p) =>
              /\ p \in DOMAIN m <=> p \in DOMAIN mine
              /\ p \in DOMAIN mine => m[p] = mine[p]
  BY MergedIs
<1> HIDE DEF m
<1>5. ASSUME NEW p \in Paths, Visited(t, p)
      PROVE  /\ p \in DOMAIN m
             /\ m[p].dirty = mine[p].dirty
             /\ m[p].newNode = mine[p].newNode
             /\ m[p].textModified = mine[p].textModified
             /\ mine[p].textModified => m[p].node.text = mine[p].node.text
  <2>1. mine[p] \in TxnNode /\ latest[p] \in NodeRevision /\ m[p] = RebasedNode(t, p)
    BY <1>5, <1>1, <1>3, <1>4
  <2> QED
    BY <2>1, <1>2, <1>4, <1>5, RebasedIs
<1>6. ASSUME NEW a \in DOMAIN w
      PROVE  /\ a \in DOMAIN m
             /\ m[a].node.text = w[a]
             /\ m[a].newNode \/ m[a].textModified
             /\ \A q \in Paths : Covers(q, a) => q \in DOMAIN m /\ m[q].dirty
  <2>1. /\ a \in DOMAIN mine
        /\ mine[a].node.text = w[a]
        /\ mine[a].newNode \/ mine[a].textModified
        /\ \A q \in Paths : Covers(q, a) => q \in DOMAIN mine /\ mine[q].dirty
    BY DEF Holds
  <2>2. a \in Paths /\ a \in Seq(Names)
    BY <2>1, <1>1, PathTypes
  <2>3. ASSUME NEW q \in Paths, Covers(q, a), ~Visited(t, q)
        PROVE  Kept(t, q) /\ q \in DOMAIN m /\ m[q] = mine[q]
    <3>1. q \in Seq(Names)
      BY PathTypes
    <3>2. /\ Stop(t, q) \in Seq(Names) /\ Covers(Stop(t, q), q)
      BY <2>3, <3>1, StopIs
    <3>3. Covers(Stop(t, q), a)
      BY <2>2, <2>3, <3>1, <3>2, CoversOrder
    <3>4. Stop(t, q) \in Paths
      BY <3>2, PathsClosed
    <3>5. Kept(t, q)
      BY <2>1, <3>3, <3>4 DEF Kept
    <3> QED
      BY <2>1, <2>3, <3>5, <1>4
  <2>4. ASSUME NEW q \in Paths, Covers(q, a)
        PROVE  q \in DOMAIN m /\ m[q].dirty
    <3>1. q \in DOMAIN mine /\ mine[q].dirty
      BY <2>1, <2>4
    <3> QED
      BY <2>3, <2>4, <3>1, <1>5
  <2>5. Covers(a, a)
    BY <2>2, PathTypes
  <2>6. CASE Visited(t, a)
    <3>1. ~mine[a].newNode
      <4>1. CASE a = <<>>
        BY <4>1, <1>1 DEF IsTxnTree
      <4>2. CASE a # <<>>
        BY <4>2, <2>2, <2>6, VisitedDown
      <4> QED
        BY <4>1, <4>2
    <3>2. mine[a].textModified
      BY <2>1, <3>1
    <3> QED
      BY <2>1, <2>2, <2>4, <2>6, <3>2, <1>5
  <2>7. CASE ~Visited(t, a)
    <3>1. a \in DOMAIN m /\ m[a] = mine[a]
      BY <2>2, <2>3, <2>5, <2>7
    <3> QED
      BY <2>1, <2>4, <3>1
  <2> QED
    BY <2>6, <2>7
<1> QED
  BY <1>6 DEF Holds, m

\* mergeTxnDirectory has failed: of the children beside its way some are merged.
Mixed(t, done) ==
  LET Done(p) == \E c \in done : Covers(c, p)
  IN  [p \in {q \in DOMAIN open[t].tree : ~Done(q)} \cup {q \in DOMAIN MergedTree(t) : Done(q)} |->
          IF Done(p) THEN MergedTree(t)[p] ELSE open[t].tree[p]]

LEMMA MixedHolds ==
  ASSUME Typed, NEW t \in Txns, open[t] # None, Holds(open[t].tree, open[t].wrote),
         NEW done \in SUBSET (DOMAIN open[t].tree \ {<<>>})
  PROVE  /\ Mixed(t, done) \in Partial(TxnNode)
         /\ IsTxnTree(Mixed(t, done))
         /\ Holds(Mixed(t, done), open[t].wrote)
<1> DEFINE mine == open[t].tree
           w == open[t].wrote
           m == MergedTree(t)
           Done(p) == \E c \in done : Covers(c, p)
           x == Mixed(t, done)
<1>1. /\ DOMAIN mine \subseteq Paths
      /\ \A p \in DOMAIN mine : mine[p] \in TxnNode
      /\ IsTxnTree(mine) /\ IsTree(mine)
  BY TransactionIs
<1>2. m \in Partial(TxnNode) /\ IsTxnTree(m) /\ IsTree(m)
  BY MergedIs, MergedTxnTree DEF IsTxnTree
<1>3. DOMAIN m \subseteq Paths /\ \A p \in DOMAIN m : m[p] \in TxnNode
  BY <1>2, PartialIs
<1>4. Holds(m, w) /\ Holds(mine, w)
  BY MergedHolds
<1>5. x = [p \in {q \in DOMAIN mine : ~Done(q)} \cup {q \in DOMAIN m : Done(q)} |->
              IF Done(p) THEN m[p] ELSE mine[p]]
  BY DEF Mixed
<1>6. done \subseteq DOMAIN mine /\ <<>> \notin done
  OBVIOUS
<1> HIDE DEF m, mine, w, x
<1>7. ASSUME NEW p \in Paths, NEW q \in Paths, Covers(q, p), Done(q)
      PROVE  Done(p)
  <2>1. PICK c \in done : Covers(c, q)
    BY <1>7
  <2>2. c \in Seq(Names) /\ p \in Seq(Names) /\ q \in Seq(Names)
    BY <1>1, <1>6, PathTypes
  <2> QED
    BY <1>7, <2>1, <2>2, CoversOrder
<1>8. ASSUME NEW p \in Paths, NEW q \in Paths, Covers(q, p), Done(p), ~Done(q)
      PROVE  q \in DOMAIN mine
  <2>1. PICK c \in done : Covers(c, p)
    BY <1>8
  <2>2. c \in Seq(Names) /\ p \in Seq(Names) /\ q \in Seq(Names) /\ c \in DOMAIN mine
    BY <1>1, <1>6, <2>1, PathTypes
  <2>3. Covers(q, c)
    BY <1>8, <2>1, <2>2, CoversOrder
  <2> QED
    BY <2>2, <2>3, <1>1 DEF IsTree
<1>9. ~Done(<<>>)
  <2>1. ASSUME NEW c \in done, Covers(c, <<>>)
        PROVE  FALSE
    <3>1. c \in Seq(Names)
      BY <1>1, <1>6, PathTypes
    <3> QED
      BY <1>6, <2>1, <3>1, CoversOrder
  <2> QED
    BY <2>1
<1> HIDE DEF Done
<1>10. /\ \A p : p \in DOMAIN x <=> (p \in DOMAIN mine /\ ~Done(p)) \/ (p \in DOMAIN m /\ Done(p))
       /\ x = [p \in DOMAIN x |-> x[p]]
       /\ \A p \in DOMAIN x : x[p] = IF Done(p) THEN m[p] ELSE mine[p]
  BY <1>5
<1>11. x \in Partial(TxnNode)
  <2>1. DOMAIN x \subseteq Paths
    BY <1>1, <1>3, <1>10
  <2>2. \A p \in DOMAIN x : x[p] \in TxnNode
    BY <1>1, <1>3, <1>10
  <2> QED
    BY <1>10, <2>1, <2>2, PartialIs
<1>12. IsTree(x)
  <2>1. ASSUME NEW p \in DOMAIN x, NEW q \in Paths, Covers(q, p)
        PROVE  q \in DOMAIN x
    <3>0. p \in Paths
      BY <1>1, <1>3, <1>10
    <3>1. CASE Done(q)
      <4>1. Done(p)
        BY <2>1, <3>0, <3>1, <1>7
      <4>2. q \in DOMAIN m
        BY <2>1, <4>1, <1>2, <1>10 DEF IsTree
      <4> QED
        BY <3>1, <4>2, <1>10
    <3>2. CASE ~Done(q) /\ Done(p)
      BY <2>1, <3>0, <3>2, <1>8, <1>10
    <3>3. CASE ~Done(q) /\ ~Done(p)
      <4>1. p \in DOMAIN mine
        BY <3>3, <1>10
      <4>2. q \in DOMAIN mine
        BY <2>1, <4>1, <1>1 DEF IsTree
      <4> QED
        BY <3>3, <4>2, <1>10
    <3> QED
      BY <3>1, <3>2, <3>3
  <2>2. <<>> \in DOMAIN x
    BY <1>1, <1>9, <1>10 DEF IsTree
  <2> QED
    BY <2>1, <2>2 DEF IsTree
<1>13. IsTxnTree(x)
  <2>1. ~x[<<>>].newNode
    BY <1>1, <1>9, <1>10, <1>12 DEF IsTxnTree, IsTree
  <2>2. \A p \in DOMAIN x : x[p].newNode \/ x[p].at[1] \in 0..youngest
    BY <1>1, <1>2, <1>10 DEF IsTxnTree
  <2> QED
    BY <1>12, <2>1, <2>2 DEF IsTxnTree
<1>14. ASSUME NEW a \in DOMAIN w
       PROVE  /\ a \in DOMAIN x
              /\ x[a].node.text = w[a]
              /\ x[a].newNode \/ x[a].textModified
              /\ \A q \in Paths : Covers(q, a) => q \in DOMAIN x /\ x[q].dirty
  <2>1. /\ a \in DOMAIN mine
        /\ mine[a].node.text = w[a]
        /\ mine[a].newNode \/ mine[a].textModified
        /\ \A q \in Paths : Covers(q, a) => q \in DOMAIN mine /\ mine[q].dirty
    BY <1>4 DEF Holds
  <2>2. /\ a \in DOMAIN m
        /\ m[a].node.text = w[a]
        /\ m[a].newNode \/ m[a].textModified
        /\ \A q \in Paths : Covers(q, a) => q \in DOMAIN m /\ m[q].dirty
    BY <1>4 DEF Holds
  <2>3. \A q : q \in DOMAIN mine /\ q \in DOMAIN m => q \in DOMAIN x /\ (x[q] = m[q] \/ x[q] = mine[q])
    BY <1>10
  <2>4. x[a].node.text = w[a] /\ (x[a].newNode \/ x[a].textModified)
    BY <2>1, <2>2, <2>3
  <2>5. ASSUME NEW q \in Paths, Covers(q, a)
        PROVE  q \in DOMAIN x /\ x[q].dirty
    BY <2>1, <2>2, <2>3, <2>5
  <2> QED
    BY <2>1, <2>2, <2>3, <2>4, <2>5
<1> QED
  BY <1>11, <1>13, <1>14 DEF Holds, x, w

-----------------------------------------------------------------------------
(***************************************************************************)
(* Every step keeps the invariant.                                         *)
(***************************************************************************)
\* An open transaction as it should be.
Sound(x) ==
  /\ x \in Transaction
  /\ x.base <= youngest
  /\ IsTxnTree(x.tree)
  /\ Holds(x.tree, x.wrote)

\* The committed part and the open part of the invariant.
CommittedInv ==
  /\ youngest \in Nat
  /\ revision \in [0..youngest -> Revision]
  /\ \A r \in 0..youngest : IsTree(Tree(r))
  /\ WorkLands

OpenInv ==
  /\ open \in [Txns -> Transaction \cup {None}]
  /\ \A t \in Txns : open[t] # None => Sound(open[t])
  /\ ops \in Nat

LEMMA WorkInvParts ==
  WorkInv <=> CommittedInv /\ OpenInv
BY SMTT(60) DEF WorkInv, Typed, CommittedInv, OpenInv, Sound

\* A step that changes the state of one transaction.
LEMMA OpenStep ==
  ASSUME OpenInv, youngest \in Nat, youngest' \in Nat, youngest <= youngest', ops' \in Nat,
         NEW t \in Txns, NEW x, open' = [open EXCEPT ![t] = x], x = None \/ Sound(x)
  PROVE  OpenInv'
<1>1. open' \in [Txns -> Transaction \cup {None}]
  BY DEF OpenInv, Sound
<1>2. ASSUME NEW y, Sound(y)
      PROVE  /\ y \in Transaction
             /\ y.base <= youngest'
             /\ IsTree(y.tree) /\ ~y.tree[<<>>].newNode
             /\ \A p \in DOMAIN y.tree : y.tree[p].newNode \/ y.tree[p].at[1] \in 0..youngest'
             /\ Holds(y.tree, y.wrote)
  <2>1. y \in Transaction /\ y.base <= youngest /\ y.base \in Nat
    BY <1>2 DEF Sound, Transaction
  <2>2. y.base <= youngest'
    <3> DEFINE b == y.base
    <3>1. b <= youngest /\ b \in Nat
      BY <2>1
    <3> HIDE DEF b
    <3>2. b <= youngest'
      BY <3>1
    <3> QED
      BY <3>2 DEF b
  <2>3. 0..youngest \subseteq 0..youngest'
    BY SMTT(60)
  <2> QED
    BY <1>2, <2>1, <2>2, <2>3 DEF Sound, IsTxnTree
<1>3. ASSUME NEW u \in Txns, open'[u] # None
      PROVE  Sound(open[u])'
  <2>1. Sound(open'[u])
    BY <1>3 DEF OpenInv
  <2> DEFINE y == open'[u]
  <2>2. /\ y \in Transaction
        /\ y.base <= youngest'
        /\ IsTree(y.tree) /\ ~y.tree[<<>>].newNode
        /\ \A p \in DOMAIN y.tree : y.tree[p].newNode \/ y.tree[p].at[1] \in 0..youngest'
        /\ Holds(y.tree, y.wrote)
    BY <1>2, <2>1
  <2> QED
    BY <2>2 DEF Sound, IsTxnTree
<1>4. ops' \in Nat
  OBVIOUS
<1> QED
  BY <1>1, <1>3, <1>4 DEF OpenInv, Sound, IsTxnTree

LEMMA CommittedStep ==
  ASSUME CommittedInv, UNCHANGED <<youngest, revision>>
  PROVE  CommittedInv'
BY DEF CommittedInv, WorkLands, Tree, IsTree

LEMMA OperateStep ==
  ASSUME WorkInv, NEW t \in Txns, NEW x, Operate(t, x), Sound(x)
  PROVE  WorkInv'
<1>1. CommittedInv /\ OpenInv
  BY WorkInvParts
<1>2. youngest \in Nat /\ ops \in Nat
  BY <1>1 DEF CommittedInv, OpenInv
<1>3. /\ UNCHANGED <<youngest, revision>>
      /\ ops' = ops + 1
      /\ open' = [open EXCEPT ![t] = x]
  BY DEF Operate
<1>4. CommittedInv'
  BY <1>1, <1>3, CommittedStep
<1>5. youngest' \in Nat /\ youngest <= youngest' /\ ops' \in Nat
  BY <1>2, <1>3
<1>6. OpenInv'
  BY <1>1, <1>2, <1>3, <1>5, OpenStep
<1> QED
  BY <1>4, <1>6, WorkInvParts, PTL

\* The fields of a transaction, and what an operation changes of them.
LEMMA TransactionFields ==
  ASSUME NEW x \in Transaction
  PROVE  /\ x.base \in Nat
         /\ x.tree \in Partial(TxnNode)
         /\ x.changes \in Partial(PathChange)
         /\ x.wrote \in Partial(Texts)
         /\ x.overText \in Partial(Texts)
         /\ x.overProps \in Partial(SUBSET Marks)
BY DEF Transaction

LEMMA SoundAfter ==
  ASSUME NEW x \in Transaction, Sound(x),
         NEW f \in Partial(TxnNode), NEW c \in Partial(PathChange),
         NEW w \in Partial(Texts), NEW ot \in Partial(Texts), NEW op \in Partial(SUBSET Marks),
         IsTxnTree(f), Holds(f, w)
  PROVE  Sound([x EXCEPT !.tree = f, !.changes = c, !.wrote = w,
                         !.overText = ot, !.overProps = op])
<1> DEFINE y == [x EXCEPT !.tree = f, !.changes = c, !.wrote = w,
                          !.overText = ot, !.overProps = op]
<1>1. y \in Transaction /\ y.base = x.base /\ y.tree = f /\ y.wrote = w
  BY DEF Transaction
<1> HIDE DEF y
<1>2. Sound(y)
  BY <1>1 DEF Sound
<1> QED
  BY <1>2 DEF y

LEMMA MakeNodeStep ==
  ASSUME WorkInv, NEW t \in Txns, NEW p \in Paths, NEW kind \in Kinds, MakeNode(t, p, kind)
  PROVE  WorkInv'
<1> DEFINE x == open[t]
           n == [Clean(Node(kind, p, t), None, p) EXCEPT
                    !.dirty = TRUE, !.newNode = TRUE, !.textModified = (kind = "file")]
           f == MarkDirty(Put(x.tree, p, n), p)
           c == RecordChange(x.changes, p, Change("add", TRUE, FALSE, None))
           w == Put(x.wrote, p, n.node.text)
           y == [x EXCEPT !.tree = f, !.changes = c, !.wrote = w]
<1>1. open[t] # None /\ Vacant(x.tree, p) /\ Operate(t, y)
  BY DEF MakeNode
<1>2. Sound(x) /\ x \in Transaction
  BY <1>1, WorkInvParts DEF OpenInv, Sound
<1>3. /\ x.tree \in Partial(TxnNode) /\ x.changes \in Partial(PathChange)
      /\ x.wrote \in Partial(Texts) /\ x.overText \in Partial(Texts)
      /\ x.overProps \in Partial(SUBSET Marks)
  BY <1>2, TransactionFields
<1>4. IsTxnTree(x.tree) /\ Holds(x.tree, x.wrote)
  BY <1>2 DEF Sound
<1>5. n \in TxnNode /\ n.newNode
  <2> DEFINE node == Node(kind, p, t)
             isFile == kind = "file"
             m == [Clean(node, None, p) EXCEPT
                     !.dirty = TRUE, !.newNode = TRUE, !.textModified = isFile]
  <2>1. node \in NodeRevision
    BY DEF Node, NodeRevision, Kinds, Marks
  <2>2. p \in Seq(Names) /\ isFile \in BOOLEAN
    BY PathTypes
  <2> HIDE DEF node, isFile
  <2>3. m \in TxnNode /\ m.newNode
    BY <2>1, <2>2 DEF Clean, TxnNode
  <2> QED
    BY <2>3 DEF node, isFile
<1>6. n.node.text \in Texts
  BY <1>5 DEF TxnNode, NodeRevision, Texts
<1> HIDE DEF n
<1>7. Change("add", TRUE, FALSE, None) \in PathChange
  BY DEF Change, PathChange, ChangeKinds
<1>8. c \in Partial(PathChange)
  BY <1>3, <1>7, RecordChangeIs
<1>9. p # <<>> /\ Parent(p) \in DOMAIN x.tree
  BY <1>1 DEF Vacant
<1>10. f \in Partial(TxnNode) /\ IsTxnTree(f) /\ Holds(f, w)
  BY <1>3, <1>4, <1>5, <1>9, PutTree, WriteHolds
<1>11. w \in Partial(Texts)
  BY <1>3, <1>6, PutIs
<1>12. y = [x EXCEPT !.tree = f, !.changes = c, !.wrote = w,
                     !.overText = x.overText, !.overProps = x.overProps]
  <2> HIDE DEF x, f, c, w
  <2> QED
    BY <1>2 DEF Transaction
<1>13. Sound(y)
  <2> HIDE DEF x, f, c, w, y
  <2> QED
    BY <1>2, <1>3, <1>8, <1>10, <1>11, <1>12, SoundAfter
<1> HIDE DEF y
<1> QED
  BY <1>1, <1>13, OperateStep

LEMMA DeleteStep ==
  ASSUME WorkInv, NEW t \in Txns, NEW p \in Paths, Delete(t, p)
  PROVE  WorkInv'
<1> DEFINE x == open[t]
           gone == {q \in DOMAIN x.tree : Covers(p, q)}
           f == MarkDirty(Without(x.tree, gone), p)
           c == RecordChange(x.changes, p, Change("delete", FALSE, FALSE, None))
           w == Without(x.wrote, gone)
           y == [x EXCEPT !.tree = f, !.changes = c, !.wrote = w]
<1>1. open[t] # None /\ p # <<>> /\ Operate(t, y)
  BY DEF Delete
<1>2. Sound(x) /\ x \in Transaction
  BY <1>1, WorkInvParts DEF OpenInv, Sound
<1>3. /\ x.tree \in Partial(TxnNode) /\ x.changes \in Partial(PathChange)
      /\ x.wrote \in Partial(Texts) /\ x.overText \in Partial(Texts)
      /\ x.overProps \in Partial(SUBSET Marks)
  BY <1>2, TransactionFields
<1>4. IsTxnTree(x.tree) /\ Holds(x.tree, x.wrote)
  BY <1>2 DEF Sound
<1>5. Change("delete", FALSE, FALSE, None) \in PathChange
  BY DEF Change, PathChange, ChangeKinds
<1>6. c \in Partial(PathChange)
  BY <1>3, <1>5, RecordChangeIs
<1>7. /\ f \in Partial(TxnNode) /\ IsTxnTree(f)
      /\ w \in Partial(Texts) /\ Holds(f, w)
  BY <1>1, <1>3, <1>4, DeleteHolds
<1>8. y = [x EXCEPT !.tree = f, !.changes = c, !.wrote = w,
                    !.overText = x.overText, !.overProps = x.overProps]
  <2> HIDE DEF x, f, c, w
  <2> QED
    BY <1>2 DEF Transaction
<1>9. Sound(y)
  <2> HIDE DEF x, f, c, w, y
  <2> QED
    BY <1>2, <1>3, <1>6, <1>7, <1>8, SoundAfter
<1> HIDE DEF y
<1> QED
  BY <1>1, <1>9, OperateStep

LEMMA CopyStep ==
  ASSUME WorkInv, NEW t \in Txns, NEW r \in 0..youngest, NEW src \in Paths, NEW dst \in Paths,
         Copy(t, r, src, dst)
  PROVE  WorkInv'
<1> DEFINE x == open[t]
           from == Tree(r)[src].cpath
           copy == CopyOf(r, src, dst)
           f == MarkDirty(Grafted(x.tree, copy), dst)
           c == RecordChange(x.changes, dst, Change("add", FALSE, FALSE, <<r, from>>))
           y == [x EXCEPT !.tree = f, !.changes = c]
<1>1. /\ open[t] # None /\ src \in DOMAIN Tree(r) /\ Vacant(x.tree, dst)
      /\ DOMAIN copy \subseteq Paths /\ Operate(t, y)
  BY DEF Copy, CopyOf, Grafted
<1>2. Sound(x) /\ x \in Transaction /\ Typed
  BY <1>1, WorkInvParts DEF OpenInv, Sound, WorkInv
<1>3. /\ x.tree \in Partial(TxnNode) /\ x.changes \in Partial(PathChange)
      /\ x.wrote \in Partial(Texts) /\ x.overText \in Partial(Texts)
      /\ x.overProps \in Partial(SUBSET Marks)
  BY <1>2, TransactionFields
<1>4. IsTxnTree(x.tree) /\ Holds(x.tree, x.wrote)
  BY <1>2 DEF Sound
<1>5. Change("add", FALSE, FALSE, <<r, from>>) \in PathChange
  <2>1. Tree(r)[src] \in NodeRevision
    BY <1>1, <1>2, RevisionTree
  <2>2. from \in Paths
    BY <2>1 DEF NodeRevision
  <2>3. r \in Nat
    BY <1>2 DEF Typed
  <2> HIDE DEF from
  <2> QED
    BY <2>2, <2>3 DEF Change, PathChange, ChangeKinds
<1>6. c \in Partial(PathChange)
  BY <1>3, <1>5, RecordChangeIs
<1>7. /\ copy \in Partial(TxnNode) /\ dst \in DOMAIN copy
      /\ \A p \in DOMAIN copy :
            /\ Covers(dst, p)
            /\ copy[p].newNode \/ copy[p].at[1] \in 0..youngest
            /\ \A q \in Paths : Covers(dst, q) /\ Covers(q, p) => q \in DOMAIN copy
  BY <1>1, <1>2, CopyIs
<1>8. f \in Partial(TxnNode) /\ IsTxnTree(f) /\ Holds(f, x.wrote)
  <2> HIDE DEF copy, x
  <2> QED
    BY <1>1, <1>3, <1>4, <1>7, GraftHolds
<1>9. y = [x EXCEPT !.tree = f, !.changes = c, !.wrote = x.wrote,
                    !.overText = x.overText, !.overProps = x.overProps]
  <2> HIDE DEF x, f, c
  <2> QED
    BY <1>2 DEF Transaction
<1>10. Sound(y)
  <2> HIDE DEF x, f, c, y
  <2> QED
    BY <1>2, <1>3, <1>6, <1>8, <1>9, SoundAfter
<1> HIDE DEF y
<1> QED
  BY <1>1, <1>10, OperateStep

LEMMA BaseOfIs ==
  ASSUME WorkInv, NEW t \in Txns, open[t] # None, NEW p \in DOMAIN open[t].tree, p \in Paths
  PROVE  BaseOf(open[t], p) \in NodeRevision
<1> DEFINE n == open[t].tree[p]
<1>1. Typed
  BY DEF WorkInv
<1>2. open[t].base \in 0..youngest /\ IsTxnTree(open[t].tree)
  BY <1>1, TransactionIs
<1>3. CASE p \in DOMAIN Tree(open[t].base)
  <2>1. Tree(open[t].base)[p] \in NodeRevision
    BY <1>1, <1>2, <1>3, RevisionTree
  <2> QED
    BY <1>3, <2>1 DEF BaseOf
<1>4. CASE /\ p \notin DOMAIN Tree(open[t].base)
           /\ ~n.newNode /\ n.at[2] = p /\ Readable(n)
  <2>1. n.at[1] \in 0..youngest /\ p \in DOMAIN Tree(n.at[1])
    BY <1>2, <1>4 DEF IsTxnTree, Readable
  <2>2. Tree(n.at[1])[p] \in NodeRevision
    BY SMTT(60), <1>1, <2>1, RevisionTree
  <2> QED
    BY <1>4, <2>2 DEF BaseOf
<1>5. CASE /\ p \notin DOMAIN Tree(open[t].base)
           /\ ~(~n.newNode /\ n.at[2] = p /\ Readable(n))
  BY <1>5 DEF BaseOf, Node, NodeRevision, Kinds
<1> QED
  BY <1>3, <1>4, <1>5

LEMMA NotedIs ==
  ASSUME NEW S, NEW over \in Partial(S), NEW x, NEW p \in Paths, NEW v \in S
  PROVE  Noted(over, x, p, v) \in Partial(S)
<1>1. Put(over, p, v) \in Partial(S)
  BY PutIs
<1>2. Without(over, {p}) \in Partial(S)
  BY WithoutIs
<1> QED
  BY <1>1, <1>2 DEF Noted

LEMMA ApplyTextStep ==
  ASSUME WorkInv, NEW t \in Txns, NEW p \in Paths, ApplyText(t, p)
  PROVE  WorkInv'
<1> DEFINE x == open[t]
           n == [x.tree[p] EXCEPT !.node.text = t, !.textModified = TRUE]
           f == MarkDirty(Put(x.tree, p, n), p)
           c == RecordChange(x.changes, p, Change("modify", TRUE, FALSE, None))
           w == Put(x.wrote, p, t)
           ot == Noted(x.overText, x, p, BaseOf(x, p).text)
           y == [x EXCEPT !.tree = f, !.changes = c, !.wrote = w, !.overText = ot]
<1>1. open[t] # None /\ p \in DOMAIN x.tree
  BY DEF ApplyText
<1>2. Sound(x) /\ x \in Transaction /\ Typed
  BY <1>1, WorkInvParts DEF OpenInv, Sound, WorkInv
<1>3. /\ x.tree \in Partial(TxnNode) /\ x.changes \in Partial(PathChange)
      /\ x.wrote \in Partial(Texts) /\ x.overText \in Partial(Texts)
      /\ x.overProps \in Partial(SUBSET Marks)
  BY <1>2, TransactionFields
<1>4. IsTxnTree(x.tree) /\ Holds(x.tree, x.wrote) /\ x.tree[p] \in TxnNode
  BY <1>1, <1>2, TransactionIs DEF Sound
<1>5. [x.tree EXCEPT ![p].node.text = t, ![p].textModified = TRUE] = Put(x.tree, p, n)
  <2> DEFINE h == x.tree
             a == [h EXCEPT ![p].node.text = t, ![p].textModified = TRUE]
             b == Put(h, p, n)
  <2>1. h = [q \in DOMAIN h |-> h[q]] /\ p \in DOMAIN h
    BY SMTT(60), <1>1, <1>3, PartialIs
  <2>2. DOMAIN a = DOMAIN h /\ a = [q \in DOMAIN h |-> a[q]]
    OBVIOUS
  <2>3. DOMAIN b = DOMAIN h /\ b = [q \in DOMAIN h |-> b[q]]
    BY <2>1 DEF Put
  <2>4. \A q \in DOMAIN h : a[q] = b[q]
    BY <2>1, <1>4 DEF Put, TxnNode, NodeRevision
  <2> HIDE DEF a, b, h
  <2>5. a = b
    BY <2>2, <2>3, <2>4
  <2> QED
    BY <2>5 DEF a, b, h
<1>6. Operate(t, y)
  BY <1>5 DEF ApplyText
<1>7. /\ n \in TxnNode /\ n.textModified /\ n.node.text = t
      /\ n.newNode = x.tree[p].newNode /\ n.at = x.tree[p].at
  <2> DEFINE o == x.tree[p]
             nn == [o EXCEPT !.node.text = t, !.textModified = TRUE]
  <2>1. o \in TxnNode /\ t \in Marks
    BY <1>4 DEF Marks
  <2> HIDE DEF o
  <2>2. /\ nn \in TxnNode /\ nn.textModified /\ nn.node.text = t
        /\ nn.newNode = o.newNode /\ nn.at = o.at
    BY <2>1 DEF TxnNode, NodeRevision
  <2> QED
    BY <2>2 DEF o
<1>8. /\ n.newNode \/ n.at[1] \in 0..youngest
      /\ p = <<>> => ~n.newNode
  BY <1>1, <1>4, <1>7 DEF IsTxnTree
<1> HIDE DEF n
<1>9. t \in Texts
  BY DEF Texts, Marks
<1>10. w \in Partial(Texts)
  BY <1>3, <1>9, PutIs
<1>11. f \in Partial(TxnNode) /\ IsTxnTree(f) /\ Holds(f, w)
  BY <1>1, <1>3, <1>4, <1>7, <1>8, PutTree, WriteHolds
<1>12. c \in Partial(PathChange)
  <2>1. Change("modify", TRUE, FALSE, None) \in PathChange
    BY DEF Change, PathChange, ChangeKinds
  <2> QED
    BY <1>3, <2>1, RecordChangeIs
<1>13. ot \in Partial(Texts)
  <2> DEFINE v == BaseOf(x, p).text
  <2>1. v \in Texts
    BY <1>1, BaseOfIs DEF NodeRevision, Texts
  <2> HIDE DEF v
  <2>2. Noted(x.overText, x, p, v) \in Partial(Texts)
    BY <1>3, <2>1, NotedIs
  <2> QED
    BY <2>2 DEF v
<1>14. y = [x EXCEPT !.tree = f, !.changes = c, !.wrote = w,
                     !.overText = ot, !.overProps = x.overProps]
  <2> HIDE DEF x, f, c, w, ot
  <2> QED
    BY <1>2 DEF Transaction
<1>15. Sound(y)
  <2> HIDE DEF x, f, c, w, ot, y
  <2> QED
    BY <1>2, <1>3, <1>10, <1>11, <1>12, <1>13, <1>14, SoundAfter
<1> HIDE DEF y
<1> QED
  BY <1>6, <1>15, OperateStep

LEMMA ChangeNodePropStep ==
  ASSUME WorkInv, NEW t \in Txns, NEW p \in Paths, ChangeNodeProp(t, p)
  PROVE  WorkInv'
<1> DEFINE x == open[t]
           o == x.tree[p]
<1>1. open[t] # None /\ p \in DOMAIN x.tree /\ (~o.propsModified => Readable(o))
  BY DEF ChangeNodeProp
<1>2. Sound(x) /\ x \in Transaction /\ Typed
  BY <1>1, WorkInvParts DEF OpenInv, Sound, WorkInv
<1>3. /\ x.tree \in Partial(TxnNode) /\ x.changes \in Partial(PathChange)
      /\ x.wrote \in Partial(Texts) /\ x.overText \in Partial(Texts)
      /\ x.overProps \in Partial(SUBSET Marks)
  BY <1>2, TransactionFields
<1>4. IsTxnTree(x.tree) /\ Holds(x.tree, x.wrote) /\ o \in TxnNode
  BY <1>1, <1>2, TransactionIs DEF Sound
<1>5. LoadedProps(o) \in SUBSET Marks
  <2>1. CASE o.newNode \/ o.propsModified
    BY SMTT(60), <2>1, <1>4 DEF LoadedProps, TxnNode, NodeRevision
  <2>2. CASE ~(o.newNode \/ o.propsModified)
    <3> DEFINE r == o.at[1]
               q == o.at[2]
    <3>1. r \in 0..youngest /\ q \in DOMAIN Tree(r)
      BY <2>2, <1>1, <1>4 DEF IsTxnTree, Readable
    <3>2. Tree(r)[q] \in NodeRevision
      BY SMTT(60), <3>1, <1>2, RevisionTree
    <3>3. Tree(r)[q].props \in SUBSET Marks
      BY <3>2 DEF NodeRevision
    <3> QED
      BY <2>2, <3>3 DEF LoadedProps
  <2> QED
    BY SMTT(60), <2>1, <2>2
<1> DEFINE n(props) == [o EXCEPT !.node.props = props, !.propsModified = TRUE]
           f(props) == MarkDirty(Put(x.tree, p, n(props)), p)
           c == RecordChange(x.changes, p, Change("modify", FALSE, TRUE, None))
           op == Noted(x.overProps, x, p, BaseOf(x, p).props)
           y(props) == [x EXCEPT !.tree = f(props), !.changes = c, !.overProps = op]
<1>6. PICK props \in {LoadedProps(o) \cup {t}, LoadedProps(o) \ {Original}} :
         Operate(t, [x EXCEPT
            !.tree = MarkDirty([x.tree EXCEPT ![p].node.props = props,
                                              ![p].propsModified = TRUE], p),
            !.changes = c, !.overProps = op])
  BY DEF ChangeNodeProp
<1>7. props \in SUBSET Marks
  BY <1>5, <1>6 DEF Marks
<1>8. [x.tree EXCEPT ![p].node.props = props, ![p].propsModified = TRUE] = Put(x.tree, p, n(props))
  <2> DEFINE h == x.tree
             a == [h EXCEPT ![p].node.props = props, ![p].propsModified = TRUE]
             b == Put(h, p, n(props))
  <2>1. h = [q \in DOMAIN h |-> h[q]] /\ p \in DOMAIN h
    BY SMTT(60), <1>1, <1>3, PartialIs
  <2>2. DOMAIN a = DOMAIN h /\ a = [q \in DOMAIN h |-> a[q]]
    OBVIOUS
  <2>3. DOMAIN b = DOMAIN h /\ b = [q \in DOMAIN h |-> b[q]]
    BY <2>1 DEF Put
  <2>4. \A q \in DOMAIN h : a[q] = b[q]
    BY <2>1, <1>4 DEF Put, TxnNode, NodeRevision
  <2> HIDE DEF a, b, h
  <2>5. a = b
    BY <2>2, <2>3, <2>4
  <2> QED
    BY <2>5 DEF a, b, h
<1>9. Operate(t, y(props))
  BY <1>6, <1>8
<1> DEFINE m == n(props)
<1>10. /\ m \in TxnNode /\ m.newNode = o.newNode /\ m.at = o.at
       /\ m.textModified = o.textModified /\ m.node.text = o.node.text
  <2> HIDE DEF o
  <2> QED
    BY <1>4, <1>7 DEF TxnNode, NodeRevision
<1>11. f(props) = MarkDirty(Put(x.tree, p, m), p)
  OBVIOUS
<1> HIDE DEF m, n
<1>12. f(props) \in Partial(TxnNode) /\ IsTxnTree(f(props)) /\ Holds(f(props), x.wrote)
  BY <1>1, <1>3, <1>4, <1>10, <1>11, PropsHold
<1>13. c \in Partial(PathChange)
  <2>1. Change("modify", FALSE, TRUE, None) \in PathChange
    BY DEF Change, PathChange, ChangeKinds
  <2>2. p \in Paths
    OBVIOUS
  <2> QED
    BY <1>3, <2>1, RecordChangeIs
<1>14. op \in Partial(SUBSET Marks)
  <2> DEFINE v == BaseOf(x, p).props
  <2>1. v \in SUBSET Marks
    BY <1>1, BaseOfIs DEF NodeRevision
  <2> HIDE DEF v
  <2>2. Noted(x.overProps, x, p, v) \in Partial(SUBSET Marks)
    BY <1>3, <2>1, NotedIs
  <2> QED
    BY <2>2 DEF v
<1> DEFINE g == f(props)
           z == [x EXCEPT !.tree = g, !.changes = c, !.overProps = op]
<1>15. z = [x EXCEPT !.tree = g, !.changes = c, !.wrote = x.wrote,
                     !.overText = x.overText, !.overProps = op]
  <2> HIDE DEF x, g, c, op
  <2> QED
    BY <1>2 DEF Transaction
<1>16. g \in Partial(TxnNode) /\ IsTxnTree(g) /\ Holds(g, x.wrote)
  BY <1>12
<1>17. Operate(t, z)
  BY <1>9
<1>18. Sound(z)
  <2> HIDE DEF x, g, c, op, z
  <2> QED
    BY <1>2, <1>3, <1>13, <1>14, <1>15, <1>16, SoundAfter
<1> HIDE DEF z
<1> QED
  BY <1>17, <1>18, OperateStep

LEMMA NothingIs ==
  ASSUME NEW S
  PROVE  Nothing \in Partial(S) /\ \A p : p \notin DOMAIN Nothing
<1>1. /\ \A p : p \notin DOMAIN Nothing
      /\ Nothing = [p \in DOMAIN Nothing |-> Nothing[p]]
  BY DEF Nothing
<1> HIDE DEF Nothing
<1>2. Nothing \in Partial(S)
  BY <1>1, PartialIs
<1> QED
  BY <1>1, <1>2

LEMMA BeginStep ==
  ASSUME WorkInv, NEW t \in Txns, NEW r \in 0..youngest, Begin(t, r)
  PROVE  WorkInv'
<1> DEFINE f == [p \in DOMAIN Tree(r) |-> Clean(Tree(r)[p], r, p)]
           x == [base |-> r, tree |-> f, changes |-> Nothing, wrote |-> Nothing,
                 overText |-> Nothing, overProps |-> Nothing]
<1>1. open' = [open EXCEPT ![t] = x] /\ UNCHANGED <<youngest, revision, ops>>
  BY DEF Begin
<1>2. CommittedInv /\ OpenInv /\ Typed
  BY WorkInvParts DEF WorkInv
<1>3. youngest \in Nat /\ r \in Nat /\ r <= youngest /\ ops \in Nat
  BY <1>2 DEF CommittedInv, OpenInv
<1>4. /\ DOMAIN Tree(r) \subseteq Paths
      /\ \A p \in DOMAIN Tree(r) : Tree(r)[p] \in NodeRevision
      /\ IsTree(Tree(r))
  BY <1>2, RevisionTree
<1>5. ASSUME NEW p \in DOMAIN Tree(r)
      PROVE  f[p] \in TxnNode /\ ~f[p].newNode /\ f[p].at[1] = r
  <2> DEFINE n == Tree(r)[p]
  <2>1. n \in NodeRevision /\ p \in Seq(Names) /\ f[p] = Clean(n, r, p)
    BY <1>4, PathTypes
  <2> HIDE DEF n, f
  <2>2. /\ Clean(n, r, p) \in TxnNode /\ ~Clean(n, r, p).newNode
        /\ Clean(n, r, p).at[1] = r
    BY <1>3, <2>1 DEF Clean, TxnNode
  <2> QED
    BY <2>1, <2>2
<1>6. DOMAIN f = DOMAIN Tree(r) /\ f = [p \in DOMAIN f |-> f[p]]
  OBVIOUS
<1> HIDE DEF f
<1>7. f \in Partial(TxnNode)
  BY <1>4, <1>5, <1>6, PartialIs
<1>8. IsTxnTree(f)
  BY <1>4, <1>5, <1>6 DEF IsTxnTree, IsTree
<1>9. x \in Transaction
  <2>1. /\ Nothing \in Partial(PathChange) /\ Nothing \in Partial(Texts)
        /\ Nothing \in Partial(SUBSET Marks)
    BY NothingIs
  <2> QED
    BY <1>3, <1>7, <2>1 DEF Transaction
<1>10. Holds(f, Nothing)
  BY NothingIs DEF Holds
<1>11. Sound(x)
  BY <1>3, <1>8, <1>9, <1>10 DEF Sound
<1> HIDE DEF x
<1>12. CommittedInv'
  BY <1>1, <1>2, CommittedStep
<1>13. youngest' \in Nat /\ youngest <= youngest' /\ ops' \in Nat
  BY <1>1, <1>3
<1>14. OpenInv'
  BY <1>1, <1>2, <1>3, <1>11, <1>13, OpenStep
<1> QED
  BY <1>12, <1>14, WorkInvParts, PTL

\* A step that gives one transaction another tree and base, or ends it.
LEMMA RetreeStep ==
  ASSUME WorkInv, NEW t \in Txns, NEW x, open' = [open EXCEPT ![t] = x],
         x = None \/ Sound(x), UNCHANGED <<youngest, revision, ops>>
  PROVE  WorkInv'
<1>1. CommittedInv /\ OpenInv
  BY WorkInvParts
<1>2. youngest \in Nat /\ ops \in Nat
  BY <1>1 DEF CommittedInv, OpenInv
<1>3. CommittedInv'
  BY <1>1, CommittedStep
<1>4. youngest' \in Nat /\ youngest <= youngest' /\ ops' \in Nat
  BY <1>2
<1>5. OpenInv'
  BY <1>1, <1>2, <1>4, OpenStep
<1> QED
  BY <1>3, <1>5, WorkInvParts, PTL

LEMMA RebasedSound ==
  ASSUME WorkInv, NEW t \in Txns, open[t] # None
  PROVE  /\ Sound(Rebased(t))
         /\ Rebased(t).base = youngest
         /\ Rebased(t).wrote = open[t].wrote
         /\ Rebased(t).changes = open[t].changes
<1> DEFINE x == open[t]
           m == MergedTree(t)
           y == [x EXCEPT !.base = youngest, !.tree = m]
<1>1. Sound(x) /\ x \in Transaction /\ Typed /\ youngest \in Nat
  BY WorkInvParts DEF OpenInv, Sound, WorkInv, Typed
<1>2. m \in Partial(TxnNode) /\ IsTxnTree(m)
  BY <1>1, MergedIs, MergedTxnTree
<1>3. Holds(m, x.wrote)
  BY <1>1, MergedHolds DEF Sound
<1>4. CASE x.base = youngest
  BY <1>1, <1>4 DEF Rebased
<1>5. CASE x.base # youngest
  <2>1. Rebased(t) = y
    BY <1>5 DEF Rebased
  <2> HIDE DEF x, m
  <2>2. /\ y \in Transaction /\ y.base = youngest /\ y.tree = m /\ y.wrote = x.wrote
        /\ y.changes = x.changes
    BY <1>1, <1>2 DEF Transaction
  <2> HIDE DEF y
  <2>3. youngest <= youngest
    BY <1>1
  <2>4. Sound(y)
    BY <1>2, <1>3, <2>2, <2>3 DEF Sound
  <2> QED
    BY <2>1, <2>2, <2>4 DEF x
<1> QED
  BY <1>4, <1>5

LEMMA CommitFailsStep ==
  ASSUME WorkInv, NEW t \in Txns, CommitFails(t)
  PROVE  WorkInv'
<1>1. /\ open[t] # None /\ open' = [open EXCEPT ![t] = Rebased(t)]
      /\ UNCHANGED <<youngest, revision, ops>>
  BY DEF CommitFails
<1>2. Sound(Rebased(t))
  BY <1>1, RebasedSound
<1> QED
  BY <1>1, <1>2, RetreeStep

LEMMA MergeFailsStep ==
  ASSUME WorkInv, NEW t \in Txns, MergeFails(t)
  PROVE  WorkInv'
<1> DEFINE x == open[t]
<1>1. open[t] # None /\ UNCHANGED <<youngest, revision, ops>>
  BY DEF MergeFails
<1>2. Sound(x) /\ x \in Transaction /\ Typed
  BY <1>1, WorkInvParts DEF OpenInv, Sound, WorkInv
<1>3. PICK done \in SUBSET (DOMAIN x.tree \ {<<>>}) :
         open' = [open EXCEPT ![t].tree = Mixed(t, done)]
  BY DEF MergeFails, Mixed
<1> DEFINE m == Mixed(t, done)
           y == [x EXCEPT !.tree = m]
<1>4. m \in Partial(TxnNode) /\ IsTxnTree(m) /\ Holds(m, x.wrote)
  BY <1>1, <1>2, <1>3, MixedHolds DEF Sound
<1>5. open' = [open EXCEPT ![t] = y]
  BY <1>3 DEF x
<1> HIDE DEF m, x
<1>6. y \in Transaction /\ y.base = x.base /\ y.tree = m /\ y.wrote = x.wrote
  BY <1>2, <1>4 DEF Transaction
<1> HIDE DEF y
<1>7. Sound(y)
  BY <1>2, <1>4, <1>6 DEF Sound
<1> QED
  BY <1>1, <1>5, <1>7, RetreeStep

\* What the new revision's tree is built from.
LEMMA BuiltIs ==
  ASSUME NEW f \in Partial(TxnNode)
  PROVE  /\ Built(f) \in Partial(NodeRevision)
         /\ \A p : p \in DOMAIN Built(f) <=> p \in DOMAIN f
         /\ \A p \in DOMAIN f : /\ Built(f)[p].text = f[p].node.text
                                /\ Built(f)[p].kind = f[p].node.kind
                                /\ Built(f)[p].props = f[p].node.props
<1> DEFINE b == Built(f)
<1>1. DOMAIN f \subseteq Paths /\ \A p \in DOMAIN f : f[p] \in TxnNode
  BY PartialIs
<1>2. /\ DOMAIN b = DOMAIN f /\ b = [p \in DOMAIN b |-> b[p]]
      /\ \A p \in DOMAIN f :
            b[p] = IF f[p].dirty \/ p = <<>> THEN [f[p].node EXCEPT !.cpath = p] ELSE f[p].node
  BY DEF Built
<1> HIDE DEF b
<1>3. ASSUME NEW p \in DOMAIN f
      PROVE  /\ b[p] \in NodeRevision /\ b[p].text = f[p].node.text
             /\ b[p].kind = f[p].node.kind /\ b[p].props = f[p].node.props
  <2> DEFINE n == f[p].node
             m == [n EXCEPT !.cpath = p]
  <2>1. n \in NodeRevision /\ p \in Paths
    BY <1>1 DEF TxnNode
  <2> HIDE DEF n
  <2>2. m \in NodeRevision /\ m.text = n.text /\ m.kind = n.kind /\ m.props = n.props
    BY <2>1 DEF NodeRevision
  <2>3. b[p] = m \/ b[p] = n
    BY <1>2 DEF n
  <2> HIDE DEF m
  <2> QED
    BY <2>1, <2>2, <2>3 DEF n
<1>4. b \in Partial(NodeRevision)
  BY <1>1, <1>2, <1>3, PartialIs
<1> QED
  BY <1>2, <1>3, <1>4 DEF b

LEMMA CommitStep ==
  ASSUME WorkInv, NEW t \in Txns, Commit(t)
  PROVE  WorkInv'
<1> DEFINE x == Rebased(t)
           b == Built(x.tree)
           new == [tree |-> b, changes |-> x.changes, wrote |-> x.wrote,
                   overText |-> x.overText, overProps |-> x.overProps]
           y == youngest + 1
<1>1. /\ open[t] # None
      /\ revision' = [r \in 0..y |-> IF r <= youngest THEN revision[r] ELSE new]
      /\ youngest' = y
      /\ open' = [open EXCEPT ![t] = None]
      /\ ops' = ops
  BY DEF Commit
<1>2. CommittedInv /\ OpenInv /\ Typed
  BY WorkInvParts DEF WorkInv
<1>3. youngest \in Nat /\ ops \in Nat /\ y \in Nat /\ ~(y <= youngest) /\ youngest <= y
  BY <1>2 DEF CommittedInv, OpenInv
<1>4. Sound(x) /\ x \in Transaction
  BY <1>1, RebasedSound DEF Sound
<1> HIDE DEF x
<1>5. /\ x.tree \in Partial(TxnNode) /\ x.changes \in Partial(PathChange)
      /\ x.wrote \in Partial(Texts) /\ x.overText \in Partial(Texts)
      /\ x.overProps \in Partial(SUBSET Marks)
  BY <1>4, TransactionFields
<1>6. /\ b \in Partial(NodeRevision)
      /\ \A p : p \in DOMAIN b <=> p \in DOMAIN x.tree
      /\ \A p \in DOMAIN x.tree : b[p].text = x.tree[p].node.text
  BY <1>5, BuiltIs
<1> HIDE DEF b
<1>7. new \in Revision
  BY <1>5, <1>6 DEF Revision
<1>8. new.tree = b /\ new.wrote = x.wrote
  OBVIOUS
<1> HIDE DEF new
<1>9. \A r \in 0..y : revision'[r] = IF r <= youngest THEN revision[r] ELSE new
  <2> HIDE DEF y
  <2> QED
    BY <1>1
<1>10. ASSUME NEW r \in 0..y
       PROVE  /\ r \in 0..youngest => revision'[r] = revision[r]
              /\ r \notin 0..youngest => revision'[r] = new
              /\ r \in 0..youngest \/ r = y
  <2>1. r \in 0..youngest => r <= youngest
    BY <1>3
  <2>2. r \notin 0..youngest => ~(r <= youngest) /\ r = y
    BY <1>3
  <2> HIDE DEF y
  <2> QED
    BY <1>9, <2>1, <2>2
<1>11. revision' \in [0..youngest' -> Revision]
  <2>1. ASSUME NEW r \in 0..y
        PROVE  revision'[r] \in Revision
    <3>1. \A k \in 0..youngest : revision[k] \in Revision
      BY <1>2 DEF CommittedInv
    <3> HIDE DEF y
    <3> QED
      BY <1>7, <1>10, <3>1
  <2>2. revision' = [r \in 0..y |-> revision'[r]]
    <3> HIDE DEF y
    <3> QED
      BY <1>1
  <2> HIDE DEF y
  <2> QED
    BY <1>1, <2>1, <2>2
<1>12. IsTree(b)
  BY <1>4, <1>6 DEF Sound, IsTxnTree, IsTree
<1>13. \A r \in 0..youngest' : IsTree(Tree(r)')
  <2>1. ASSUME NEW r \in 0..y
        PROVE  IsTree(revision'[r].tree)
    <3>1. \A k \in 0..youngest : IsTree(revision[k].tree)
      BY <1>2 DEF CommittedInv, Tree
    <3> HIDE DEF y
    <3> QED
      BY <1>8, <1>10, <1>12, <3>1
  <2> HIDE DEF y
  <2> QED
    BY <1>1, <2>1 DEF Tree
<1>14. ASSUME NEW r \in 2..y, NEW p \in DOMAIN revision'[r].wrote
       PROVE  /\ p \in DOMAIN revision'[r].tree
              /\ revision'[r].tree[p].text = revision'[r].wrote[p]
  <2>1. CASE r \in 0..youngest
    <3>1. r \in 2..youngest /\ r \in 0..y
      BY <2>1, <1>3
    <3>2. revision'[r] = revision[r]
      <4> HIDE DEF y
      <4> QED
        BY <1>10, <2>1, <3>1
    <3> QED
      BY <1>2, <1>14, <3>1, <3>2 DEF CommittedInv, WorkLands, Tree
  <2>2. CASE r \notin 0..youngest
    <3>1. r \in 0..y
      BY <1>3
    <3>2. revision'[r] = new
      <4> HIDE DEF y
      <4> QED
        BY <1>10, <2>2, <3>1
    <3>3. p \in DOMAIN x.wrote
      BY <1>8, <1>14, <3>2
    <3>4. p \in DOMAIN x.tree /\ x.tree[p].node.text = x.wrote[p]
      BY <1>4, <3>3 DEF Sound, Holds
    <3> QED
      BY <1>6, <1>8, <3>2, <3>4
  <2> QED
    BY <2>1, <2>2
<1>15. WorkLands'
  <2> HIDE DEF y
  <2> QED
    BY <1>1, <1>14 DEF WorkLands, Tree
<1>16. CommittedInv'
  <2>1. youngest' \in Nat
    BY <1>1, <1>3
  <2> HIDE DEF y
  <2> QED
    BY <1>11, <1>13, <1>15, <2>1 DEF CommittedInv, IsTree
<1>17. OpenInv'
  <2>1. youngest' \in Nat /\ youngest <= youngest' /\ ops' \in Nat
    BY <1>1, <1>3
  <2> HIDE DEF y
  <2> QED
    BY <1>1, <1>2, <1>3, <2>1, OpenStep
<1> QED
  BY <1>16, <1>17, WorkInvParts, PTL

LEMMA InitialWork ==
  Init => WorkInv
<1> SUFFICES ASSUME Init
             PROVE  WorkInv
  OBVIOUS
<1> DEFINE zero == [p \in {<<>>} |-> Node("dir", p, None)]
           one == [p \in DOMAIN Imported |-> Node(Imported[p], p, Original)]
<1>1. /\ youngest = 1 /\ ops = 0 /\ open = [t \in Txns |-> None]
      /\ DOMAIN revision = 0..1
      /\ revision = [r \in 0..1 |-> revision[r]]
      /\ revision[0] = [tree |-> zero, changes |-> Nothing, wrote |-> Nothing,
                        overText |-> Nothing, overProps |-> Nothing]
      /\ revision[1] = [tree |-> one,
                        changes |-> [p \in DOMAIN Imported \ {<<>>} |-> Change("add", TRUE, FALSE, None)],
                        wrote |-> Nothing, overText |-> Nothing, overProps |-> Nothing]
  BY DEF Init
<1>2. <<>> \in Paths /\ DOMAIN Imported \subseteq Paths
  BY PathsAssumption
<1>3. zero \in Partial(NodeRevision) /\ IsTree(zero)
  <2>1. Node("dir", <<>>, None) \in NodeRevision
    BY <1>2 DEF Node, NodeRevision, Kinds
  <2>2. \A p : p \in DOMAIN zero <=> p = <<>>
    OBVIOUS
  <2>3. zero = [p \in DOMAIN zero |-> zero[p]] /\ \A p \in DOMAIN zero : zero[p] \in NodeRevision
    BY <2>1
  <2> HIDE DEF zero
  <2>4. ASSUME NEW q \in Paths, Covers(q, <<>>)
        PROVE  q = <<>>
    BY <2>4, PathTypes, CoversOrder
  <2> QED
    BY <1>2, <2>2, <2>3, <2>4, PartialIs DEF IsTree
<1>4. one \in Partial(NodeRevision) /\ IsTree(one)
  <2>1. ASSUME NEW p \in DOMAIN Imported
        PROVE  Node(Imported[p], p, Original) \in NodeRevision
    <3>1. Imported[p] \in Kinds /\ p \in Paths
      BY <1>2, PathsAssumption
    <3> QED
      BY <3>1 DEF Node, NodeRevision, Marks
  <2>2. DOMAIN one = DOMAIN Imported
    OBVIOUS
  <2>3. one = [p \in DOMAIN one |-> one[p]] /\ \A p \in DOMAIN one : one[p] \in NodeRevision
    BY <2>1
  <2> HIDE DEF one
  <2>4. ASSUME NEW p \in DOMAIN Imported, NEW q \in Paths, Covers(q, p)
        PROVE  q \in DOMAIN Imported
    BY <2>4, PathTypes, ImportedClosed
  <2>5. <<>> \in DOMAIN Imported
    BY PathsAssumption
  <2> QED
    BY <1>2, <2>2, <2>3, <2>4, <2>5, PartialIs DEF IsTree
<1> HIDE DEF zero, one
<1>5. /\ Nothing \in Partial(PathChange) /\ Nothing \in Partial(Texts)
      /\ Nothing \in Partial(SUBSET Marks)
  BY NothingIs
<1>6. [p \in DOMAIN Imported \ {<<>>} |-> Change("add", TRUE, FALSE, None)] \in Partial(PathChange)
  <2> DEFINE D == DOMAIN Imported \ {<<>>}
             v == Change("add", TRUE, FALSE, None)
             a == [p \in D |-> v]
  <2>1. v \in PathChange
    BY DEF Change, PathChange, ChangeKinds
  <2> HIDE DEF v
  <2>2. D \subseteq Paths
    BY <1>2
  <2> HIDE DEF D
  <2>3. DOMAIN a = D /\ a = [p \in DOMAIN a |-> a[p]] /\ \A p \in DOMAIN a : a[p] \in PathChange
    BY <2>1
  <2> HIDE DEF a
  <2>4. a \in Partial(PathChange)
    BY <2>2, <2>3, PartialIs
  <2> QED
    BY <2>4 DEF a, D, v
<1>7. revision[0] \in Revision /\ revision[1] \in Revision
  <2> DEFINE c == [p \in DOMAIN Imported \ {<<>>} |-> Change("add", TRUE, FALSE, None)]
  <2>1. c \in Partial(PathChange)
    BY <1>6
  <2>2. revision[1] = [tree |-> one, changes |-> c, wrote |-> Nothing,
                       overText |-> Nothing, overProps |-> Nothing]
    BY <1>1
  <2> HIDE DEF c
  <2>3. [tree |-> one, changes |-> c, wrote |-> Nothing,
         overText |-> Nothing, overProps |-> Nothing] \in Revision
    BY <1>4, <1>5, <2>1 DEF Revision
  <2>4. [tree |-> zero, changes |-> Nothing, wrote |-> Nothing,
         overText |-> Nothing, overProps |-> Nothing] \in Revision
    BY <1>3, <1>5 DEF Revision
  <2> QED
    BY <1>1, <2>2, <2>3, <2>4
<1>8. revision \in [0..youngest -> Revision]
  <2>1. \A r \in 0..1 : r = 0 \/ r = 1
    OBVIOUS
  <2>2. \A r \in 0..1 : revision[r] \in Revision
    BY <1>7, <2>1
  <2> QED
    BY <1>1, <2>2
<1>9. \A r \in 0..youngest : IsTree(Tree(r))
  <2>1. \A r \in 0..1 : r = 0 \/ r = 1
    OBVIOUS
  <2>2. Tree(0) = zero /\ Tree(1) = one
    BY <1>1 DEF Tree
  <2> QED
    BY <1>1, <1>3, <1>4, <2>1, <2>2
<1>10. WorkLands
  <2>1. \A r \in 2..youngest : FALSE
    BY <1>1
  <2> QED
    BY <2>1 DEF WorkLands
<1>11. CommittedInv
  BY <1>1, <1>8, <1>9, <1>10 DEF CommittedInv
<1>12. OpenInv
  BY <1>1 DEF OpenInv
<1> QED
  BY <1>11, <1>12, WorkInvParts

\* The invariant is inductive.
LEMMA WorkInductive ==
  WorkInv /\ [Next]_vars => WorkInv'
<1> SUFFICES ASSUME WorkInv, [Next]_vars
             PROVE  WorkInv'
  OBVIOUS
<1>1. CASE UNCHANGED vars
  <2>1. CommittedInv /\ OpenInv
    BY WorkInvParts
  <2>2. UNCHANGED <<youngest, revision, open, ops>>
    BY <1>1 DEF vars
  <2>3. CommittedInv'
    BY <2>1, <2>2, CommittedStep
  <2>4. OpenInv'
    BY <2>1, <2>2 DEF OpenInv, Sound, IsTxnTree
  <2> QED
    BY <2>3, <2>4, WorkInvParts, PTL
<1>2. CASE Next
  <2>1. PICK t \in Txns :
          \/ \E r \in 0..youngest : Begin(t, r)
          \/ Abort(t)
          \/ \E p \in Paths :
                \/ \E kind \in Kinds : MakeNode(t, p, kind)
                \/ Delete(t, p)
                \/ ChangeNodeProp(t, p)
                \/ ApplyText(t, p)
                \/ ApplyTextDelta(t, p)
          \/ \E r \in 0..youngest, src \in Paths, dst \in Paths : Copy(t, r, src, dst)
          \/ Commit(t)
          \/ CommitFails(t)
          \/ MergeFails(t)
    BY <1>2 DEF Next
  <2>2. CASE \E r \in 0..youngest : Begin(t, r)
    BY <2>2, BeginStep
  <2>3. CASE Abort(t)
    <3>1. open' = [open EXCEPT ![t] = None] /\ UNCHANGED <<youngest, revision, ops>>
      BY <2>3 DEF Abort
    <3> QED
      BY <3>1, RetreeStep
  <2>4. CASE \E p \in Paths : \E kind \in Kinds : MakeNode(t, p, kind)
    BY <2>4, MakeNodeStep
  <2>5. CASE \E p \in Paths : Delete(t, p)
    BY <2>5, DeleteStep
  <2>6. CASE \E p \in Paths : ChangeNodeProp(t, p)
    BY <2>6, ChangeNodePropStep
  <2>7. CASE \E p \in Paths : ApplyText(t, p) \/ ApplyTextDelta(t, p)
    BY <2>7, ApplyTextStep DEF ApplyTextDelta
  <2>8. CASE \E r \in 0..youngest, src \in Paths, dst \in Paths : Copy(t, r, src, dst)
    BY <2>8, CopyStep
  <2>9. CASE Commit(t)
    BY <2>9, CommitStep
  <2>10. CASE CommitFails(t)
    BY <2>10, CommitFailsStep
  <2>11. CASE MergeFails(t)
    BY <2>11, MergeFailsStep
  <2> QED
    BY <2>1, <2>2, <2>3, <2>4, <2>5, <2>6, <2>7, <2>8, <2>9, <2>10, <2>11
<1> QED
  BY <1>1, <1>2

\* Every node a transaction made and every text it wrote is in the revision it
\* becomes, through any number of merges, failed commits and failed merges
\* (mergeTxnDirectory, mergeYoungest, Commit).
THEOREM WorkAlwaysLands == Spec => []WorkLands
<1>1. Spec => []WorkInv
  BY InitialWork, WorkInductive, PTL DEF Spec
<1>2. WorkInv => WorkLands
  BY DEF WorkInv
<1> QED
  BY <1>1, <1>2, PTL

=============================================================================
