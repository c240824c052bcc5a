----------------------------- MODULE SeqLemmas -----------------------------
(***************************************************************************)
(* Facts about recursion over positions, and about the sequences the       *)
(* models build that way, which the proofs about several modules need.     *)
(* They are stated for sets and functions in place of operators, so that   *)
(* they can be cited.                                                      *)
(***************************************************************************)
EXTENDS Integers, Sequences, FiniteSetsExt, SequencesExt, NaturalsInduction, WellFoundedInduction, TLAPS

(* A set of natural numbers that is not empty has a least element.         *)
LEMMA LeastElement ==
  ASSUME NEW T \in SUBSET Nat, T # {}
  PROVE  \E x \in T : \A y \in T : x <= y
<1>1. PICK R : R = OpToRel(<, Nat)
  OBVIOUS
<1>2. IsWellFoundedOn(R, Nat)
  BY <1>1, NatLessThanWellFounded
<1>3. PICK x \in T : \A y \in T : ~ (<<y, x>> \in R)
  BY <1>2, WFMin
<1>4. \A m, n \in Nat : <<n, m>> \in R <=> n < m
  BY <1>1 DEF OpToRel
<1>5. ASSUME NEW y \in T PROVE x <= y
  <2>1. x \in Nat /\ y \in Nat /\ <<y, x>> \notin R
    BY <1>3
  <2>2. ~(y < x)
    BY <1>4, <2>1
  <2> QED BY <2>1, <2>2
<1> QED BY <1>5

(* Min of such a set is it.                                                *)
LEMMA MinLeast ==
  ASSUME NEW T \in SUBSET Nat, T # {}
  PROVE  Min(T) \in T /\ \A y \in T : Min(T) <= y
BY LeastElement DEF Min

(* No element of T is above n.                                             *)
BoundedBy(T, n) == \A y \in T : y <= n

(* Max of a bounded set of natural numbers is its greatest element.        *)
LEMMA MaxGreatest ==
  ASSUME NEW T \in SUBSET Nat, T # {}, NEW n \in Nat, BoundedBy(T, n)
  PROVE  Max(T) \in T /\ \A y \in T : y <= Max(T)
<1>1. PICK D : D = {n - y : y \in T}
  OBVIOUS
<1>2. D \in SUBSET Nat /\ D # {}
  <2>1. \A y \in T : n - y \in Nat
    BY DEF BoundedBy
  <2> QED BY <1>1, <2>1
<1>3. PICK d \in D : \A e \in D : d <= e
  BY <1>2, LeastElement
<1>4. PICK x \in T : d = n - x
  BY <1>1, <1>3
<1>5. ASSUME NEW y \in T PROVE y <= x
  <2>1. n - y \in D /\ d <= n - y
    BY <1>1, <1>3
  <2> QED BY <1>4, <2>1
<1> QED BY <1>5 DEF Max

(* Induction over the natural numbers, for a set in place of a predicate.  *)
LEMMA SetInduction ==
  ASSUME NEW S, 0 \in S, \A n \in Nat : n \in S => n + 1 \in S
  PROVE  Nat \subseteq S
<1> SUFFICES ASSUME Nat \ S # {} PROVE FALSE
  OBVIOUS
<1>1. PICK T : T = Nat \ S
  OBVIOUS
<1>2. T \in SUBSET Nat /\ T # {}
  BY <1>1
<1>3. PICK x \in T : \A y \in T : x <= y
  BY <1>2, LeastElement
<1>4. x \in Nat /\ x # 0 /\ x \notin S
  BY <1>1, <1>3
<1>5. x - 1 \in Nat /\ ~(x <= x - 1) /\ (x - 1) + 1 = x
  BY <1>4
<1>6. x - 1 \notin T
  BY <1>3, <1>5
<1>7. x - 1 \in S
  BY <1>1, <1>5, <1>6
<1> QED BY <1>4, <1>5, <1>7

(* What holds at 0, and goes from each position to the next, holds up to n *)
LEMMA UpTo ==
  ASSUME NEW n \in Nat, NEW S, 0 \in S, \A i \in 1..n : i - 1 \in S => i \in S
  PROVE  0..n \subseteq S
<1>1. PICK R : R = {i \in Nat : i <= n => i \in S}
  OBVIOUS
<1>2. 0 \in R
  BY <1>1
<1>3. ASSUME NEW k \in Nat, k \in R PROVE k + 1 \in R
  <2>1. CASE k + 1 <= n
    <3>1. k + 1 \in 1..n /\ (k + 1) - 1 = k /\ k <= n
      BY <2>1
    <3>2. k \in S
      BY <1>1, <1>3, <3>1
    <3>3. k + 1 \in S
      BY <3>1, <3>2
    <3> QED BY <1>1, <3>3
  <2>2. CASE ~(k + 1 <= n)
    BY <1>1, <2>2
  <2> QED BY <2>1, <2>2
<1>4. Nat \subseteq R
  BY <1>2, <1>3, SetInduction
<1>5. ASSUME NEW i \in 0..n PROVE i \in S
  <2>1. i \in Nat /\ i <= n
    OBVIOUS
  <2> QED BY <1>1, <1>4, <2>1
<1> QED BY <1>5

(* What becomes of a value of T at each of n positions.                    *)
Steps(T, n) == [1..n -> [T -> T]]

(* f follows the value t through the steps G.                              *)
Carried(f, t, n, G) == f[0] = t /\ \A i \in 1..n : f[i] = G[i][f[i - 1]]

(* A value carried from position to position can be followed to position n *)
LEMMA CarriedExists ==
  ASSUME NEW T, NEW t \in T, NEW n \in Nat, NEW G \in Steps(T, n)
  PROVE  \E f \in [0..n -> T] : Carried(f, t, n, G)
<1>1. PICK S : S = {m \in Nat : m <= n => \E f \in [0..m -> T] : Carried(f, t, m, G)}
  OBVIOUS
<1>2. 0 \in S
  <2>1. PICK f : f = [i \in 0..0 |-> t]
    OBVIOUS
  <2>2. f \in [0..0 -> T] /\ Carried(f, t, 0, G)
    BY <2>1 DEF Carried
  <2> QED BY <1>1, <2>2
<1>3. ASSUME NEW k \in Nat, k \in S PROVE k + 1 \in S
  <2>1. CASE k + 1 <= n
    <3>1. k <= n /\ k + 1 \in 1..n /\ k + 1 \in Nat
      BY <2>1
    <3>2. PICK f \in [0..k -> T] : Carried(f, t, k, G)
      BY <1>1, <1>3, <3>1
    <3>3. PICK h : h = [i \in 0..(k + 1) |-> IF i = k + 1 THEN G[k + 1][f[k]] ELSE f[i]]
      OBVIOUS
    <3>4. f[k] \in T /\ G[k + 1] \in [T -> T]
      BY <3>1, <3>2 DEF Steps
    <3>5. h \in [0..(k + 1) -> T] /\ h[0] = t
      BY <3>2, <3>3, <3>4 DEF Carried
    <3>6. ASSUME NEW i \in 1..(k + 1) PROVE h[i] = G[i][h[i - 1]]
      <4>1. i - 1 \in 0..k /\ i - 1 # k + 1 /\ i - 1 \in 0..(k + 1) /\ i \in 0..(k + 1)
        OBVIOUS
      <4>2. h[i - 1] = f[i - 1]
        BY <3>3, <4>1
      <4>3. CASE i = k + 1
        BY <3>3, <4>1, <4>2, <4>3
      <4>4. CASE i # k + 1
        BY <3>2, <3>3, <4>1, <4>2, <4>4 DEF Carried
      <4> QED BY <4>3, <4>4
    <3>7. Carried(h, t, k + 1, G)
      BY <3>5, <3>6 DEF Carried
    <3> QED BY <1>1, <3>1, <3>5, <3>7
  <2>2. CASE ~(k + 1 <= n)
    BY <1>1, <2>2
  <2> QED BY <2>1, <2>2
<1>4. n \in S
  BY <1>2, <1>3, SetInduction
<1> QED BY <1>1, <1>4

-----------------------------------------------------------------------------
(* What SubSeq takes out.                                                  *)
LEMMA SubSeqShape ==
  ASSUME NEW S, NEW s \in Seq(S), NEW m \in Nat, NEW n \in Nat, 1 <= m, n <= Len(s), m <= n + 1
  PROVE  /\ SubSeq(s, m, n) \in Seq(S)
         /\ Len(SubSeq(s, m, n)) = (n + 1) - m
         /\ \A j \in 1..((n + 1) - m) : SubSeq(s, m, n)[j] = s[m + j - 1]
<1>1. Len(SubSeq(s, m, n)) = (n + 1) - m
  OBVIOUS
<1>2. \A j \in 1..((n + 1) - m) : SubSeq(s, m, n)[j] = s[m + j - 1]
  OBVIOUS
<1>3. SubSeq(s, m, n) \in Seq(S)
  OBVIOUS
<1> QED BY <1>1, <1>2, <1>3

(* What a sequence put behind another is.                                  *)
LEMMA ConcatShape ==
  ASSUME NEW S, NEW s \in Seq(S), NEW t \in Seq(S)
  PROVE  /\ s \o t \in Seq(S)
         /\ Len(s \o t) = Len(s) + Len(t)
         /\ \A i \in 1..Len(s) : (s \o t)[i] = s[i]
         /\ \A i \in 1..Len(t) : (s \o t)[Len(s) + i] = t[i]
<1>1. s \o t \in Seq(S)
  OBVIOUS
<1>2. Len(s \o t) = Len(s) + Len(t)
  OBVIOUS
<1>3. \A i \in 1..Len(s) : (s \o t)[i] = s[i]
  OBVIOUS
<1>4. \A i \in 1..Len(t) : (s \o t)[Len(s) + i] = t[i]
  OBVIOUS
<1> QED BY <1>1, <1>2, <1>3, <1>4

-----------------------------------------------------------------------------
(* The texts put together so far.                                          *)
IsFlatten(f, s) ==
  f = [i \in 1..Len(s) |-> IF i = 1 THEN s[i] ELSE f[i - 1] \o s[i]]

(* A sequence of sequences can be put together.                            *)
LEMMA FlattenExists ==
  ASSUME NEW S, NEW s \in Seq(Seq(S)), Len(s) > 0
  PROVE  \E f : IsFlatten(f, s)
<1>1. PICK n : n = Len(s) - 1
  OBVIOUS
<1>2. n \in Nat /\ s[1] \in Seq(S) /\ \A i \in 1..n : s[i + 1] \in Seq(S)
  BY <1>1
<1>3. PICK T : T = Seq(S)
  OBVIOUS
<1>4. PICK G : G = [i \in 1..n |-> [x \in T |-> x \o s[i + 1]]]
  OBVIOUS
<1>5. \A i \in 1..n, x \in T : x \o s[i + 1] \in T
  BY <1>2, <1>3
<1>6. G \in Steps(T, n)
  BY <1>4, <1>5 DEF Steps
<1>7. PICK t : t = s[1] /\ t \in T
  BY <1>2, <1>3
<1>8. PICK f \in [0..n -> T] : Carried(f, t, n, G)
  BY <1>2, <1>6, <1>7, CarriedExists
<1>9. PICK h : h = [i \in 1..Len(s) |-> f[i - 1]]
  OBVIOUS
<1>10. ASSUME NEW i \in 1..Len(s)
       PROVE  h[i] = IF i = 1 THEN s[i] ELSE h[i - 1] \o s[i]
  <2>1. h[i] = f[i - 1]
    BY <1>9
  <2>2. CASE i = 1
    BY <1>7, <1>8, <2>1, <2>2 DEF Carried
  <2>3. CASE i # 1
    <3>1. i - 1 \in 1..n /\ i - 1 \in 1..Len(s) /\ (i - 1) - 1 \in 0..n /\ (i - 1) + 1 = i
      BY <1>1, <2>3
    <3>2. h[i - 1] = f[(i - 1) - 1]
      BY <1>9, <3>1
    <3>3. f[i - 1] = G[i - 1][f[(i - 1) - 1]] /\ f[(i - 1) - 1] \in T
      BY <1>8, <3>1 DEF Carried
    <3>4. f[i - 1] = f[(i - 1) - 1] \o s[(i - 1) + 1]
      BY <1>4, <3>1, <3>3
    <3> QED BY <2>1, <2>3, <3>1, <3>2, <3>4
  <2> QED BY <2>2, <2>3
<1>11. h = [i \in 1..Len(s) |-> IF i = 1 THEN s[i] ELSE h[i - 1] \o s[i]]
  BY <1>9, <1>10
<1> QED BY <1>11 DEF IsFlatten

(* FlattenSeq is the last of the texts put together.                       *)
LEMMA FlattenIsLast ==
  ASSUME NEW S, NEW s \in Seq(Seq(S)), Len(s) > 0
  PROVE  \E f : IsFlatten(f, s) /\ FlattenSeq(s) = f[Len(s)]
<1>1. PICK f : f = CHOOSE x : IsFlatten(x, s)
  OBVIOUS
<1>2. IsFlatten(f, s)
  BY <1>1, FlattenExists
<1>3. FlattenSeq(s) = f[Len(s)]
  BY <1>1 DEF FlattenSeq, IsFlatten
<1> QED BY <1>2, <1>3

(* The elements of z are those of the first n parts of s, each once: at k  *)
(* is that at column col[k] of row row[k].                                 *)
Sources(row, col, s, n, z) ==
  /\ \A k \in 1..Len(z) :
       row[k] \in 1..n /\ col[k] \in 1..Len(s[row[k]]) /\ z[k] = s[row[k]][col[k]]
  /\ \A k, l \in 1..Len(z) : row[k] = row[l] /\ col[k] = col[l] => k = l
  /\ \A i \in 1..n : \A j \in 1..Len(s[i]) : \E k \in 1..Len(z) : row[k] = i /\ col[k] = j

(* The elements of z are those of the first n parts of s, each once.       *)
Composed(s, n, z) == \E row, col : Sources(row, col, s, n, z)

(* One more part.                                                          *)
LEMMA ComposedNext ==
  ASSUME NEW S, NEW s, NEW m \in Nat, NEW x \in Seq(S), s[m + 1] \in Seq(S), Composed(s, m, x)
  PROVE  Composed(s, m + 1, x \o s[m + 1])
<1>1. PICK row, col : Sources(row, col, s, m, x)
  BY DEF Composed
<1>2. PICK y : y = s[m + 1] /\ y \in Seq(S)
  OBVIOUS
<1>3. PICK z : z = x \o y
  OBVIOUS
<1>4. /\ z \in Seq(S) /\ Len(z) = Len(x) + Len(y) /\ Len(x) \in Nat /\ Len(y) \in Nat
      /\ \A k \in 1..Len(x) : z[k] = x[k]
      /\ \A k \in 1..Len(y) : z[Len(x) + k] = y[k]
  BY <1>2, <1>3
<1>5. PICK r : r = [k \in 1..Len(z) |-> IF k <= Len(x) THEN row[k] ELSE m + 1]
  OBVIOUS
<1>6. PICK c : c = [k \in 1..Len(z) |-> IF k <= Len(x) THEN col[k] ELSE k - Len(x)]
  OBVIOUS
<1>7. ASSUME NEW k \in 1..Len(z), k <= Len(x)
      PROVE  /\ k \in 1..Len(x) /\ r[k] = row[k] /\ c[k] = col[k] /\ r[k] \in 1..m
             /\ c[k] \in 1..Len(s[r[k]]) /\ z[k] = s[r[k]][c[k]]
  <2>1. k \in 1..Len(x)
    BY <1>4, <1>7
  <2>2. r[k] = row[k] /\ c[k] = col[k] /\ z[k] = x[k]
    BY <1>4, <1>5, <1>6, <1>7, <2>1
  <2>3. row[k] \in 1..m /\ col[k] \in 1..Len(s[row[k]]) /\ x[k] = s[row[k]][col[k]]
    BY <1>1, <2>1 DEF Sources
  <2> QED BY <2>1, <2>2, <2>3
<1>8. ASSUME NEW k \in 1..Len(z), ~(k <= Len(x))
      PROVE  /\ k - Len(x) \in 1..Len(y) /\ r[k] = m + 1 /\ c[k] = k - Len(x)
             /\ z[k] = y[k - Len(x)]
  <2>1. k - Len(x) \in 1..Len(y) /\ Len(x) + (k - Len(x)) = k
    BY <1>4, <1>8
  <2>2. z[k] = y[k - Len(x)]
    BY <1>4, <2>1
  <2> QED BY <1>5, <1>6, <1>8, <2>1, <2>2
<1>9. ASSUME NEW k \in 1..Len(z)
      PROVE  r[k] \in 1..(m + 1) /\ c[k] \in 1..Len(s[r[k]]) /\ z[k] = s[r[k]][c[k]]
  <2>1. CASE k <= Len(x)
    <3>1. r[k] \in 1..m /\ c[k] \in 1..Len(s[r[k]]) /\ z[k] = s[r[k]][c[k]]
      BY <1>7, <2>1
    <3> QED BY <3>1
  <2>2. CASE ~(k <= Len(x))
    <3>1. k - Len(x) \in 1..Len(y) /\ r[k] = m + 1 /\ c[k] = k - Len(x) /\ z[k] = y[k - Len(x)]
      BY <1>8, <2>2
    <3>2. m + 1 \in 1..(m + 1)
      OBVIOUS
    <3> QED BY <1>2, <3>1, <3>2
  <2> QED BY <2>1, <2>2
<1>10. ASSUME NEW k \in 1..Len(z), NEW l \in 1..Len(z), r[k] = r[l], c[k] = c[l]
       PROVE  k = l
  <2>1. CASE k <= Len(x) /\ l <= Len(x)
    <3>1. k \in 1..Len(x) /\ l \in 1..Len(x) /\ row[k] = row[l] /\ col[k] = col[l]
      BY <1>7, <1>10, <2>1
    <3> QED BY <1>1, <3>1 DEF Sources
  <2>2. CASE ~(k <= Len(x)) /\ ~(l <= Len(x))
    <3>1. k - Len(x) = l - Len(x)
      BY <1>8, <1>10, <2>2
    <3> QED BY <1>4, <3>1
  <2>3. CASE k <= Len(x) /\ ~(l <= Len(x))
    <3>1. r[k] \in 1..m /\ r[l] = m + 1
      BY <1>7, <1>8, <2>3
    <3> QED BY <1>10, <3>1
  <2>4. CASE ~(k <= Len(x)) /\ l <= Len(x)
    <3>1. r[l] \in 1..m /\ r[k] = m + 1
      BY <1>7, <1>8, <2>4
    <3> QED BY <1>10, <3>1
  <2> QED BY <2>1, <2>2, <2>3, <2>4
<1>11. ASSUME NEW i \in 1..(m + 1), NEW j \in 1..Len(s[i])
       PROVE  \E k \in 1..Len(z) : r[k] = i /\ c[k] = j
  <2>1. CASE i = m + 1
    <3>1. Len(x) + j \in 1..Len(z) /\ ~(Len(x) + j <= Len(x)) /\ (Len(x) + j) - Len(x) = j
      BY <1>2, <1>4, <2>1
    <3>2. r[Len(x) + j] = i /\ c[Len(x) + j] = j
      BY <1>8, <2>1, <3>1
    <3> QED BY <3>1, <3>2
  <2>2. CASE i # m + 1
    <3>1. i \in 1..m
      BY <2>2
    <3>2. PICK k \in 1..Len(x) : row[k] = i /\ col[k] = j
      BY <1>1, <3>1 DEF Sources
    <3>3. k \in 1..Len(z) /\ k <= Len(x)
      BY <1>4
    <3> QED BY <1>7, <3>2, <3>3
  <2> QED BY <2>1, <2>2
<1>12. Sources(r, c, s, m + 1, z)
  BY <1>9, <1>10, <1>11 DEF Sources
<1> QED BY <1>2, <1>3, <1>12 DEF Composed

(* What FlattenSeq makes holds the elements of the parts, each once.       *)
LEMMA FlattenComposed ==
  ASSUME NEW S, NEW s \in Seq(Seq(S))
  PROVE  FlattenSeq(s) \in Seq(S) /\ Composed(s, Len(s), FlattenSeq(s))
<1>1. CASE Len(s) = 0
  <2>1. s = <<>>
    BY <1>1
  <2>2. FlattenSeq(s) = <<>>
    BY <1>1, <2>1 DEF FlattenSeq
  <2>3. Len(FlattenSeq(s)) = 0 /\ FlattenSeq(s) \in Seq(S)
    BY <2>2
  <2>4. 1..0 = {}
    OBVIOUS
  <2>5. Sources(<<>>, <<>>, s, Len(s), FlattenSeq(s))
    BY <1>1, <2>3, <2>4 DEF Sources
  <2> QED BY <2>3, <2>5 DEF Composed
<1>2. CASE Len(s) > 0
  <2>1. PICK f : IsFlatten(f, s) /\ FlattenSeq(s) = f[Len(s)]
    BY <1>2, FlattenIsLast
  <2>2. PICK n : n = Len(s) - 1
    OBVIOUS
  <2>3. n \in Nat /\ Len(s) = n + 1 /\ \A i \in 0..n : i + 1 \in 1..Len(s) /\ s[i + 1] \in Seq(S)
    BY <1>2, <2>2
  <2>4. PICK R : R = {m \in 0..n : f[m + 1] \in Seq(S) /\ Composed(s, m + 1, f[m + 1])}
    OBVIOUS
  <2>5. 0 \in R
    <3>1. f[0 + 1] = s[0 + 1] /\ s[0 + 1] \in Seq(S)
      BY <1>2, <2>1, <2>3 DEF IsFlatten
    <3>2. PICK x : x = <<>> /\ x \in Seq(S) /\ Len(x) = 0
      <4>1. <<>> \in Seq(S) /\ Len(<<>>) = 0
        OBVIOUS
      <4> QED BY <4>1, Zenon
    <3>3. 1..0 = {}
      OBVIOUS
    <3>4. Sources(x, x, s, 0, x)
      BY <3>2, <3>3 DEF Sources
    <3>5. Composed(s, 0, x)
      BY <3>4 DEF Composed
    <3>6. Composed(s, 0 + 1, x \o s[0 + 1])
      BY <3>1, <3>2, <3>5, ComposedNext
    <3>7. x \o s[0 + 1] = f[0 + 1]
      BY <3>1, <3>2
    <3> QED BY <2>3, <2>4, <3>1, <3>6, <3>7
  <2>6. ASSUME NEW m \in 1..n, m - 1 \in R PROVE m \in R
    <3>1. m + 1 \in 1..Len(s) /\ m + 1 # 1 /\ (m + 1) - 1 = m /\ (m - 1) + 1 = m /\ m \in 0..n /\ m \in Nat
      BY <2>3
    <3>2. f[m + 1] = f[m] \o s[m + 1]
      BY <2>1, <3>1 DEF IsFlatten
    <3>3. s[m + 1] \in Seq(S) /\ f[m] \in Seq(S) /\ Composed(s, m, f[m])
      BY <2>3, <2>4, <2>6, <3>1
    <3>4. Composed(s, m + 1, f[m] \o s[m + 1])
      BY <3>1, <3>3, ComposedNext
    <3>5. f[m] \o s[m + 1] \in Seq(S)
      BY <3>3
    <3> QED BY <2>4, <3>1, <3>2, <3>4, <3>5
  <2>7. 0..n \subseteq R
    BY <2>3, <2>5, <2>6, UpTo
  <2>8. n \in R /\ n + 1 = Len(s)
    BY <2>3, <2>7
  <2> QED BY <2>1, <2>4, <2>8
<1>3. Len(s) \in Nat
  OBVIOUS
<1> QED BY <1>1, <1>2, <1>3
=============================================================================
