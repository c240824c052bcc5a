-------------------------- MODULE MallocTinyProofs --------------------------
(***************************************************************************)
(* The proofs about the allocator, in three parts: lemmas about memories,  *)
(* the inductive invariant, and the refinement of Heap.                    *)
(*                                                                         *)
(* What the writes of malloc, free and realloc do to a heap that is whole: *)
(* lemmas about a memory and the blocks in it, with no state.  An arena is *)
(* a memory cut into blocks, some on the list and some in use; each lemma  *)
(* takes one, changes the words one path of MallocTiny.c changes, and has  *)
(* an arena again, with what its blocks keep.                              *)
(***************************************************************************)
EXTENDS MallocTiny, WellFoundedInduction, TLAPS

(* The clauses of HeapOK for a memory m, the list's head h and the end e   *)
(* of the heap.                                                            *)
TilesIn(m, e, B) ==
  /\ DataStart \in B \cup {e}
  /\ \A b \in B :
       /\ DataStart <= b /\ m[b] >= 2 /\ b + m[b] <= e
       /\ b + m[b] \in B \cup {e}
       /\ \A c \in B : b < c => b + m[b] <= c

ThreadsIn(m, h, F) ==
  /\ IF F = {} THEN h = 0 ELSE h \in F /\ \A g \in F : h <= g
  /\ \A f \in F :
       \/ m[f + 1] = 0 /\ \A g \in F : g <= f
       \/ /\ m[f + 1] \in F /\ f < m[f + 1]
          /\ \A g \in F : g <= f \/ m[f + 1] <= g

MergedIn(m, F) == \A f, g \in F : f + m[f] # g

(* q is a place in the list and c what its link holds.                     *)
PlaceIn(m, h, F, q, c) ==
  /\ q \in F \cup {0}
  /\ c = IF q = 0 THEN h ELSE m[q + 1]

-----------------------------------------------------------------------------
LEMMA ModSmall ==
  ASSUME NEW a \in Nat, NEW n \in Nat, a < n
  PROVE  a % n = a
BY SMT

LEMMA AddrIsNat == /\ \A a \in Addr : a \in Nat /\ a > 0 /\ DataStart <= a /\ a < HeapMax
                   /\ \A a \in Nat : DataStart <= a /\ a < HeapMax => a \in Addr
                   /\ DataStart \in Nat /\ HeapMax \in Nat /\ DataStart > 0 /\ DataStart <= HeapMax
                   /\ 0 \notin Addr
BY AddressAssumption DEF Addr

(* A block has its two words in the heap, and ends in it.                  *)
LEMMA BlockRoom ==
  ASSUME NEW m \in [Addr -> Int], NEW e \in DataStart..HeapMax, NEW B \in SUBSET Addr,
         TilesIn(m, e, B), NEW b \in B
  PROVE  /\ b \in Nat /\ b > 0 /\ m[b] \in Nat /\ m[b] >= 2
         /\ e \in Nat /\ b + m[b] <= e /\ e <= HeapMax
         /\ b \in Addr /\ b + 1 \in Addr
BY AddrIsNat DEF TilesIn

(* Two blocks have no word in common.                                      *)
LEMMA BlocksApart ==
  ASSUME NEW m \in [Addr -> Int], NEW e \in DataStart..HeapMax, NEW B \in SUBSET Addr,
         TilesIn(m, e, B), NEW b \in B, NEW c \in B, NEW x \in Int,
         b <= x, x < b + m[b], c <= x, x < c + m[c]
  PROVE  b = c
BY AddrIsNat DEF TilesIn

-----------------------------------------------------------------------------
(***************************************************************************)
(* The blocks of B tile the heap: one is cut in two, two become one, the   *)
(* last one grows, one is added behind it.                                 *)
(***************************************************************************)
LEMMA TilesSplit ==
  ASSUME NEW m \in [Addr -> Int], NEW e \in DataStart..HeapMax, NEW B \in SUBSET Addr,
         TilesIn(m, e, B),
         NEW b \in B, NEW n \in Nat, n >= 2, m[b] - n >= 2,
         NEW w \in [Addr -> Int],
         \A c \in B \ {b} : w[c] = m[c],
         w[b] = n, w[b + n] = m[b] - n
  PROVE  /\ TilesIn(w, e, B \cup {b + n})
         /\ b + n \in Addr /\ b + n \notin B /\ b + n + 1 \in Addr
<1> DEFINE r == b + n
<1>1. /\ b \in Nat /\ m[b] \in Nat /\ e \in Nat /\ r \in Nat
      /\ \A c \in B : c \in Nat /\ m[c] \in Nat
  BY BlockRoom
<1>2. r \in Addr /\ r + 1 \in Addr /\ DataStart <= r
  BY <1>1, BlockRoom, AddrIsNat
<1>3. \A c \in B : c <= b \/ r + (m[b] - n) <= c
  BY <1>1 DEF TilesIn
<1>4. r \notin B
  BY <1>1, <1>3
<1>5. \A c \in B \ {b} : c < b => c + m[c] <= b
  BY DEF TilesIn
<1>6. ASSUME NEW c \in B \cup {r}
      PROVE  /\ DataStart <= c /\ w[c] >= 2 /\ c + w[c] <= e
             /\ c + w[c] \in B \cup {r} \cup {e}
             /\ \A d \in B \cup {r} : c < d => c + w[c] <= d
  <2>1. CASE c = r
    BY <2>1, <1>1, <1>2, <1>3, <1>4 DEF TilesIn
  <2>2. CASE c = b
    BY <2>2, <1>1, <1>2, <1>3, <1>4 DEF TilesIn
  <2>3. CASE c \in B \ {b}
    BY <2>3, <1>1, <1>2, <1>3, <1>4, <1>5 DEF TilesIn
  <2> QED BY <2>1, <2>2, <2>3
<1> QED BY <1>2, <1>4, <1>6 DEF TilesIn

LEMMA TilesJoin ==
  ASSUME NEW m \in [Addr -> Int], NEW e \in DataStart..HeapMax, NEW B \in SUBSET Addr,
         TilesIn(m, e, B),
         NEW b \in B, NEW c \in B, b + m[b] = c,
         NEW w \in [Addr -> Int],
         \A d \in B \ {b, c} : w[d] = m[d],
         w[b] = m[b] + m[c]
  PROVE  TilesIn(w, e, B \ {c})
<1>1. /\ \A d \in B : d \in Nat /\ m[d] \in Nat /\ m[d] >= 2
      /\ e \in Nat /\ b < c
  BY BlockRoom
<1>2. DataStart \in (B \ {c}) \cup {e}
  BY <1>1, AddrIsNat DEF TilesIn
<1>3. ASSUME NEW d \in B \ {c}
      PROVE  /\ DataStart <= d /\ w[d] >= 2 /\ d + w[d] <= e
             /\ d + w[d] \in (B \ {c}) \cup {e}
             /\ \A g \in B \ {c} : d < g => d + w[d] <= g
  <2>1. CASE d = b
    BY <2>1, <1>1 DEF TilesIn
  <2>2. CASE d \in B \ {b, c}
    <3>1. d + w[d] # c
      BY <2>2, <1>1 DEF TilesIn
    <3> QED BY <2>2, <3>1, <1>1 DEF TilesIn
  <2> QED BY <2>1, <2>2
<1> QED BY <1>2, <1>3 DEF TilesIn

LEMMA TilesSame ==
  ASSUME NEW m, NEW w, NEW e, NEW B, TilesIn(m, e, B), \A b \in B : w[b] = m[b]
  PROVE  TilesIn(w, e, B)
BY DEF TilesIn

LEMMA TilesStretch ==
  ASSUME NEW m \in [Addr -> Int], NEW e \in DataStart..HeapMax, NEW B \in SUBSET Addr,
         TilesIn(m, e, B),
         NEW b \in B, b + m[b] = e, NEW n \in Nat, n >= m[b], b + n <= HeapMax,
         NEW w \in [Addr -> Int],
         \A c \in B \ {b} : w[c] = m[c],
         w[b] = n
  PROVE  TilesIn(w, b + n, B)
<1>1. /\ \A d \in B : d \in Nat /\ m[d] \in Nat /\ m[d] >= 2
      /\ e \in Nat /\ e \notin B
  BY BlockRoom
<1>2. DataStart \in B
  BY <1>1, AddrIsNat DEF TilesIn
<1>3. \A d \in B : d <= b
  BY <1>1 DEF TilesIn
<1>4. ASSUME NEW d \in B
      PROVE  /\ DataStart <= d /\ w[d] >= 2 /\ d + w[d] <= b + n
             /\ d + w[d] \in B \cup {b + n}
             /\ \A g \in B : d < g => d + w[d] <= g
  <2>1. CASE d = b
    BY <2>1, <1>1, <1>3 DEF TilesIn
  <2>2. CASE d \in B \ {b}
    <3>1. d + m[d] <= b
      BY <2>2, <1>1, <1>3 DEF TilesIn
    <3>2. d + m[d] \in B
      BY <2>2, <3>1, <1>1 DEF TilesIn
    <3> QED BY <2>2, <3>1, <3>2, <1>1 DEF TilesIn
  <2> QED BY <2>1, <2>2
<1> QED BY <1>2, <1>4 DEF TilesIn

LEMMA TilesAppend ==
  ASSUME NEW m \in [Addr -> Int], NEW e \in DataStart..HeapMax, NEW B \in SUBSET Addr,
         TilesIn(m, e, B),
         NEW n \in Nat, n >= 2, e + n <= HeapMax,
         NEW w \in [Addr -> Int],
         \A c \in B : w[c] = m[c],
         w[e] = n
  PROVE  TilesIn(w, e + n, B \cup {e}) /\ e \in Addr /\ e \notin B
<1>1. /\ \A d \in B : d \in Nat /\ m[d] \in Nat /\ m[d] >= 2 /\ d + m[d] <= e
      /\ e \in Nat /\ e \notin B /\ e \in Addr
  BY BlockRoom, AddrIsNat
<1>2. ASSUME NEW d \in B \cup {e}
      PROVE  /\ DataStart <= d /\ w[d] >= 2 /\ d + w[d] <= e + n
             /\ d + w[d] \in (B \cup {e}) \cup {e + n}
             /\ \A g \in B \cup {e} : d < g => d + w[d] <= g
  BY <1>1, AddrIsNat DEF TilesIn
<1> QED BY <1>1, <1>2 DEF TilesIn

-----------------------------------------------------------------------------
(* Where a loop stands: between its two places lies no free block.         *)
LEMMA PlaceFacts ==
  ASSUME NEW m, NEW h, NEW F \in SUBSET Addr, ThreadsIn(m, h, F),
         NEW q, NEW c, PlaceIn(m, h, F, q, c)
  PROVE  /\ q \in Nat /\ c \in F \cup {0} /\ c \in Nat
         /\ q # 0 => q \in F
         /\ c # 0 => q < c /\ c \in F
         /\ \A g \in F : g <= q \/ (c # 0 /\ c <= g)
<1>1. \A g \in F : g \in Nat /\ g > 0
  BY AddrIsNat
<1>2. CASE q = 0
  <2>1. c = h
    BY <1>2 DEF PlaceIn
  <2>2. CASE F = {}
    BY <1>2, <2>1, <2>2 DEF ThreadsIn
  <2>3. CASE F # {}
    <3>1. h \in F /\ \A g \in F : h <= g
      BY <2>3 DEF ThreadsIn
    <3>2. h \in Nat /\ h > 0
      BY <1>1, <3>1
    <3> QED BY <1>2, <2>1, <3>1, <3>2
  <2> QED BY <2>2, <2>3
<1>3. CASE q \in F
  BY <1>1, <1>3 DEF PlaceIn, ThreadsIn
<1> QED BY <1>2, <1>3 DEF PlaceIn

LEMMA PlaceNext ==
  ASSUME NEW m, NEW h, NEW F \in SUBSET Addr, ThreadsIn(m, h, F),
         NEW q, NEW c, PlaceIn(m, h, F, q, c), c # 0
  PROVE  PlaceIn(m, h, F, c, m[c + 1])
BY PlaceFacts DEF PlaceIn

LEMMA ThreadsSame ==
  ASSUME NEW m, NEW w, NEW h, NEW F, ThreadsIn(m, h, F), \A f \in F : w[f + 1] = m[f + 1]
  PROVE  ThreadsIn(w, h, F)
BY DEF ThreadsIn

LEMMA ThreadsRemove ==
  ASSUME NEW m, NEW h, NEW F \in SUBSET Addr, ThreadsIn(m, h, F),
         NEW q, NEW c, PlaceIn(m, h, F, q, c), c # 0,
         NEW w, NEW k,
         \A f \in F \ {q, c} : w[f + 1] = m[f + 1],
         q # 0 => w[q + 1] = m[c + 1] /\ k = h,
         q = 0 => k = m[c + 1]
  PROVE  ThreadsIn(w, k, F \ {c})
<1>1. /\ \A g \in F : g \in Nat /\ g > 0
      /\ q \in Nat /\ c \in F /\ q < c /\ (q # 0 => q \in F)
      /\ \A g \in F : g <= q \/ c <= g
  BY AddrIsNat, PlaceFacts
<1>2. \/ m[c + 1] = 0 /\ \A g \in F : g <= c
      \/ m[c + 1] \in F /\ c < m[c + 1] /\ \A g \in F : g <= c \/ m[c + 1] <= g
  BY <1>1 DEF ThreadsIn
<1>3. IF F \ {c} = {} THEN k = 0 ELSE k \in F \ {c} /\ \A g \in F \ {c} : k <= g
  <2>1. CASE q = 0
    BY <2>1, <1>1, <1>2
  <2>2. CASE q # 0
    BY <2>2, <1>1 DEF ThreadsIn
  <2> QED BY <2>1, <2>2
<1>4. ASSUME NEW f \in F \ {c}
      PROVE  \/ w[f + 1] = 0 /\ \A g \in F \ {c} : g <= f
             \/ /\ w[f + 1] \in F \ {c} /\ f < w[f + 1]
                /\ \A g \in F \ {c} : g <= f \/ w[f + 1] <= g
  <2>1. CASE f = q
    <3>1. w[f + 1] = m[c + 1]
      BY <2>1, <1>1
    <3>2. CASE m[c + 1] = 0 /\ \A g \in F : g <= c
      <4>1. ASSUME NEW g \in F \ {c} PROVE g <= f
        <5>1. g \in Nat /\ c \in Nat /\ g # c /\ g <= c
          BY <3>2, <1>1
        <5> QED BY <5>1, <2>1, <1>1
      <4> QED BY <3>1, <3>2, <4>1
    <3>3. CASE m[c + 1] \in F /\ c < m[c + 1] /\ \A g \in F : g <= c \/ m[c + 1] <= g
      <4>0. m[c + 1] \in Nat /\ c \in Nat /\ f \in Nat /\ f < c
        BY <2>1, <3>3, <1>1
      <4>1. f < m[c + 1] /\ m[c + 1] # c
        BY <4>0, <3>3
      <4>2. ASSUME NEW g \in F \ {c} PROVE g <= f \/ m[c + 1] <= g
        <5>1. g \in Nat /\ c \in Nat /\ g # c
          BY <1>1
        <5>2. g <= f \/ c <= g
          BY <2>1, <1>1
        <5>3. g <= c \/ m[c + 1] <= g
          BY <3>3
        <5> QED BY <5>1, <5>2, <5>3
      <4> QED BY <3>1, <3>3, <4>1, <4>2
    <3> QED BY <3>2, <3>3, <1>2
  <2>2. CASE f # q
    <3>1. w[f + 1] = m[f + 1]
      BY <2>2
    <3>2. m[f + 1] # c
      BY <2>2, <1>1 DEF ThreadsIn, PlaceIn
    <3> QED BY <3>1, <3>2 DEF ThreadsIn
  <2> QED BY <2>1, <2>2
<1> QED BY <1>3, <1>4 DEF ThreadsIn

LEMMA ThreadsInsert ==
  ASSUME NEW m, NEW h, NEW F \in SUBSET Addr, ThreadsIn(m, h, F),
         NEW q, NEW c, PlaceIn(m, h, F, q, c),
         NEW b \in Addr, b \notin F, q < b, c = 0 \/ b < c,
         NEW w, NEW k,
         \A f \in F \ {q} : w[f + 1] = m[f + 1],
         w[b + 1] = c,
         q # 0 => w[q + 1] = b /\ k = h,
         q = 0 => k = b
  PROVE  ThreadsIn(w, k, F \cup {b})
<1>1. /\ \A g \in F : g \in Nat /\ g > 0
      /\ q \in Nat /\ (q # 0 => q \in F) /\ c \in Nat /\ (c # 0 => c \in F)
      /\ \A g \in F : g <= q \/ (c # 0 /\ c <= g)
      /\ b \in Nat /\ b > 0
  BY AddrIsNat, PlaceFacts
<1>2. k \in F \cup {b} /\ \A g \in F \cup {b} : k <= g
  <2>1. CASE q = 0
    BY <2>1, <1>1
  <2>2. CASE q # 0
    <3>1. k = h /\ h \in F /\ \A g \in F : h <= g
      BY <2>2, <1>1 DEF ThreadsIn
    <3>2. h \in Nat /\ h <= q
      BY <2>2, <3>1, <1>1
    <3>3. h <= b
      BY <3>2, <1>1
    <3> QED BY <3>1, <3>3
  <2> QED BY <2>1, <2>2
<1>3. ASSUME NEW f \in F \cup {b}
      PROVE  \/ w[f + 1] = 0 /\ \A g \in F \cup {b} : g <= f
             \/ /\ w[f + 1] \in F \cup {b} /\ f < w[f + 1]
                /\ \A g \in F \cup {b} : g <= f \/ w[f + 1] <= g
  <2>1. CASE f = b
    BY <2>1, <1>1
  <2>2. CASE f = q /\ f # b
    BY <2>2, <1>1
  <2>3. CASE f # b /\ f # q
    <3>1. f \in F /\ w[f + 1] = m[f + 1]
      BY <2>3
    <3>2. \/ m[f + 1] = 0 /\ \A g \in F : g <= f
          \/ m[f + 1] \in F /\ f < m[f + 1] /\ \A g \in F : g <= f \/ m[f + 1] <= g
      BY <3>1 DEF ThreadsIn
    <3>3. CASE f <= q
      <4>1. q # 0 /\ m[f + 1] \in F /\ m[f + 1] <= q
        BY <2>3, <3>1, <3>2, <3>3, <1>1
      <4>2. f < m[f + 1] /\ \A g \in F : g <= f \/ m[f + 1] <= g
        BY <4>1, <3>2, AddrIsNat
      <4>3. m[f + 1] \in Nat
        BY <4>1, <1>1
      <4>4. m[f + 1] <= b
        BY <4>1, <4>3, <1>1
      <4> QED BY <4>1, <4>2, <4>4, <3>1
    <3>4. CASE c # 0 /\ c <= f
      BY <3>1, <3>2, <3>4, <1>1
    <3> QED BY <3>1, <3>3, <3>4, <1>1
  <2> QED BY <2>1, <2>2, <2>3
<1> QED BY <1>2, <1>3 DEF ThreadsIn

LEMMA ThreadsMove ==
  ASSUME NEW m, NEW h, NEW F \in SUBSET Addr, ThreadsIn(m, h, F),
         NEW q, NEW c, PlaceIn(m, h, F, q, c), c # 0,
         NEW r \in Addr, c < r, \A g \in F : g <= c \/ r < g,
         NEW w, NEW k,
         \A f \in F \ {q, c} : w[f + 1] = m[f + 1],
         w[r + 1] = m[c + 1],
         q # 0 => w[q + 1] = r /\ k = h,
         q = 0 => k = r
  PROVE  ThreadsIn(w, k, (F \ {c}) \cup {r})
<1>1. /\ \A g \in F : g \in Nat /\ g > 0
      /\ q \in Nat /\ c \in F /\ q < c /\ (q # 0 => q \in F)
      /\ r \in Nat /\ r > 0 /\ r \notin F
  BY AddrIsNat, PlaceFacts
<1> DEFINE n == m[c + 1]
           v == [x \in Nat |-> IF x = q + 1 THEN n ELSE w[x]]
           l == IF q = 0 THEN n ELSE h
<1>2. \A f \in F \ {q, c} : v[f + 1] = m[f + 1]
  BY <1>1
<1>3. v[q + 1] = n
  BY <1>1
<1>4. n = 0 \/ (n \in F /\ c < n)
  BY <1>1 DEF ThreadsIn
<1>5. /\ \A f \in (F \ {c}) \ {q} : w[f + 1] = v[f + 1]
      /\ w[r + 1] = n
  BY <1>1
<1> HIDE DEF v, n
<1>6. ThreadsIn(v, l, F \ {c})
  BY <1>2, <1>3, ThreadsRemove DEF n
<1>7. PlaceIn(v, l, F \ {c}, q, n)
  BY <1>1, <1>3 DEF PlaceIn
<1>8. n = 0 \/ r < n
  <2>1. CASE n = 0
    BY <2>1
  <2>2. CASE n \in F /\ c < n
    <3>1. n \in Nat /\ c \in Nat /\ (n <= c \/ r < n)
      BY <2>2, <1>1
    <3> QED BY <2>2, <3>1
  <2> QED BY <2>1, <2>2, <1>4
<1>9. F \ {c} \in SUBSET Addr /\ r \notin F \ {c} /\ q < r
  BY <1>1
<1> HIDE DEF l
<1>10. (q # 0 => w[q + 1] = r /\ k = l) /\ (q = 0 => k = r)
  BY DEF l
<1> QED BY <1>5, <1>6, <1>7, <1>8, <1>9, <1>10, ThreadsInsert

-----------------------------------------------------------------------------
(* The heap with the memory m, the list's head h and the end e: the blocks *)
(* of F are free, those of U in use.                                       *)
Arena(m, h, e, F, U) ==
  /\ m \in [Addr -> Int]
  /\ e \in DataStart..HeapMax
  /\ F \in SUBSET Addr
  /\ U \in SUBSET Addr
  /\ F \cap U = {}
  /\ TilesIn(m, e, F \cup U)
  /\ ThreadsIn(m, h, F)
  /\ MergedIn(m, F)

(* From m to w no word of the blocks U changes.                            *)
Keeps(m, w, U) == \A u \in U : \A x \in u..(u + m[u] - 1) : w[x] = m[x]

(* The word at x holds v.                                                  *)
Holds(w, x, v) == w[x] = v

(* w is m but for words of X, or of the payload of b.                      *)
Written(m, w, X) == w \in [Addr -> Int] /\ \A x \in Addr \ X : w[x] = m[x]
WrittenIn(m, w, b) ==
  w \in [Addr -> Int] /\ \A x \in Addr : ~(b < x /\ x < b + m[b]) => w[x] = m[x]

(* The headers of B, the payload of b, are the same in m and in w.         *)
SameHeads(m, w, B) == \A b \in B : w[b] = m[b]
SamePayload(m, w, b) == \A x \in (b + 1)..(b + m[b] - 1) : w[x] = m[x]

(* Linked and LinkedHead for a place q.                                    *)
LinkIn(m, q, v) == IF q = 0 THEN m ELSE [m EXCEPT ![q + 1] = v]
HeadIn(h, q, v) == IF q = 0 THEN v ELSE h

LEMMA ArenaBlock ==
  ASSUME NEW m, NEW h, NEW e, NEW F, NEW U, Arena(m, h, e, F, U), NEW b \in F \cup U
  PROVE  /\ b \in Nat /\ b > 0 /\ m[b] \in Nat /\ m[b] >= 2
         /\ e \in Nat /\ b + m[b] <= e /\ e <= HeapMax
         /\ b \in Addr /\ b + 1 \in Addr
         /\ b + m[b] \in F \cup U \cup {e}
         /\ \A c \in F \cup U : b < c => b + m[b] <= c
<1>1. /\ m \in [Addr -> Int] /\ e \in DataStart..HeapMax /\ F \cup U \in SUBSET Addr
      /\ TilesIn(m, e, F \cup U)
  BY DEF Arena
<1>2. /\ b + m[b] \in F \cup U \cup {e}
      /\ \A c \in F \cup U : b < c => b + m[b] <= c
  BY <1>1 DEF TilesIn
<1> QED BY <1>1, <1>2, BlockRoom

(* The words of one block are no words of another.                         *)
LEMMA ArenaApart ==
  ASSUME NEW m, NEW h, NEW e, NEW F, NEW U, Arena(m, h, e, F, U),
         NEW b \in F \cup U, NEW c \in F \cup U, b # c
  PROVE  /\ \A x \in b..(b + m[b] - 1) : x < c \/ c + m[c] <= x
         /\ b + 1 # c /\ b # c + 1
<1>1. /\ m \in [Addr -> Int] /\ e \in DataStart..HeapMax /\ F \cup U \in SUBSET Addr
      /\ TilesIn(m, e, F \cup U)
  BY DEF Arena
<1>2. /\ b \in Nat /\ m[b] \in Nat /\ c \in Nat /\ m[c] \in Nat /\ m[b] >= 2 /\ m[c] >= 2
      /\ b < c => b + m[b] <= c
      /\ c < b => c + m[c] <= b
  BY ArenaBlock
<1> QED BY <1>2

(* The link of a place is a word of a free block.                          *)
LEMMA LinkFacts ==
  ASSUME NEW m, NEW h, NEW e, NEW F, NEW U, Arena(m, h, e, F, U),
         NEW q, NEW c, PlaceIn(m, h, F, q, c),
         NEW z \in [Addr -> Int], NEW v \in Int
  PROVE  /\ LinkIn(z, q, v) \in [Addr -> Int]
         /\ \A x \in Addr : q = 0 \/ x # q + 1 => LinkIn(z, q, v)[x] = z[x]
         /\ q # 0 => LinkIn(z, q, v)[q + 1] = v
         /\ q # 0 => q \in F /\ q + 1 \in Addr /\ q + 1 \notin F \cup U
         /\ \A b \in (F \cup U) \ {q} : \A x \in b..(b + m[b] - 1) : q = 0 \/ x # q + 1
<1>1. CASE q = 0
  BY <1>1 DEF LinkIn
<1>2. CASE q # 0
  <2>1. q \in F
    BY <1>2 DEF PlaceIn
  <2>2. q + 1 \in Addr /\ q \in Nat /\ m[q] \in Nat /\ m[q] >= 2
    BY <2>1, ArenaBlock
  <2>3. LinkIn(z, q, v) = [z EXCEPT ![q + 1] = v]
    BY <1>2 DEF LinkIn
  <2>4. \A b \in (F \cup U) \ {q} : b # q + 1
    BY <2>1, ArenaApart
  <2>5. \A b \in (F \cup U) \ {q} : \A x \in b..(b + m[b] - 1) : x # q + 1
    <3> SUFFICES ASSUME NEW b \in (F \cup U) \ {q}, NEW x \in b..(b + m[b] - 1)
                 PROVE  x # q + 1
      OBVIOUS
    <3>1. b \in Nat /\ m[b] \in Nat
      BY ArenaBlock
    <3>2. x < q \/ q + m[q] <= x
      BY <2>1, ArenaApart
    <3> QED BY <3>1, <3>2, <2>2
  <2>6. q + 1 # q
    BY <2>2
  <2>7. q + 1 \notin F \cup U
    BY <2>4, <2>6
  <2>8. /\ [z EXCEPT ![q + 1] = v] \in [Addr -> Int]
        /\ \A x \in Addr : x # q + 1 => [z EXCEPT ![q + 1] = v][x] = z[x]
        /\ [z EXCEPT ![q + 1] = v][q + 1] = v
    BY <2>2
  <2> QED BY <1>2, <2>1, <2>2, <2>3, <2>5, <2>7, <2>8
<1> QED BY <1>1, <1>2

-----------------------------------------------------------------------------
(* What is written into the payload of a block in use disturbs nothing.    *)
LEMMA ArenaOverwrite ==
  ASSUME NEW m, NEW h, NEW e, NEW F, NEW U, Arena(m, h, e, F, U),
         NEW b \in U, NEW w, WrittenIn(m, w, b)
  PROVE  /\ Arena(w, h, e, F, U)
         /\ SameHeads(m, w, F \cup U)
         /\ \A f \in F : w[f + 1] = m[f + 1]
         /\ Keeps(m, w, U \ {b})
<1> USE DEF WrittenIn, SameHeads
<1>1. ASSUME NEW c \in (F \cup U) \ {b}, NEW x \in c..(c + m[c] - 1)
      PROVE  w[x] = m[x]
  <2>1. x < b \/ b + m[b] <= x
    BY ArenaApart
  <2>2. c \in Nat /\ m[c] \in Nat /\ c > 0 /\ c + m[c] <= e /\ e <= HeapMax /\ e \in Nat /\ b \in Nat
        /\ m[b] \in Nat /\ c \in Addr
    BY ArenaBlock
  <2>3. x \in Nat /\ DataStart <= x /\ x < HeapMax
    BY <2>2, AddrIsNat
  <2>4. x \in Addr
    BY <2>3, AddrIsNat
  <2> QED BY <2>1, <2>2, <2>3, <2>4
<1>2. \A c \in F \cup U : w[c] = m[c]
  <2> SUFFICES ASSUME NEW c \in F \cup U PROVE w[c] = m[c]
    OBVIOUS
  <2>1. CASE c = b
    BY <2>1, ArenaBlock
  <2>2. CASE c # b
    <3>1. c \in c..(c + m[c] - 1)
      BY ArenaBlock
    <3> QED BY <2>2, <3>1, <1>1
  <2> QED BY <2>1, <2>2
<1>3. \A f \in F : w[f + 1] = m[f + 1]
  <2> SUFFICES ASSUME NEW f \in F PROVE w[f + 1] = m[f + 1]
    OBVIOUS
  <2>1. f # b
    BY DEF Arena
  <2>2. f + 1 \in f..(f + m[f] - 1)
    BY ArenaBlock
  <2> QED BY <2>1, <2>2, <1>1
<1>4. Keeps(m, w, U \ {b})
  BY <1>1 DEF Keeps
<1>5. TilesIn(w, e, F \cup U)
  BY <1>2, TilesSame DEF Arena
<1>6. ThreadsIn(w, h, F)
  BY <1>3, ThreadsSame DEF Arena
<1>7. MergedIn(w, F)
  BY <1>2 DEF Arena, MergedIn
<1> QED BY <1>2, <1>3, <1>4, <1>5, <1>6, <1>7 DEF Arena

(* A free block is taken off the list.                                     *)
LEMMA ArenaTake ==
  ASSUME NEW m, NEW h, NEW e, NEW F, NEW U, Arena(m, h, e, F, U),
         NEW q, NEW c, PlaceIn(m, h, F, q, c), c # 0,
         NEW w, w = LinkIn(m, q, m[c + 1]),
         NEW k, k = HeadIn(h, q, m[c + 1])
  PROVE  /\ Arena(w, k, e, F \ {c}, U \cup {c})
         /\ Holds(w, c, m[c])
         /\ Keeps(m, w, U)
<1>1. /\ m \in [Addr -> Int] /\ F \in SUBSET Addr /\ U \in SUBSET Addr /\ F \cap U = {}
      /\ ThreadsIn(m, h, F) /\ TilesIn(m, e, F \cup U) /\ MergedIn(m, F)
      /\ e \in DataStart..HeapMax
  BY DEF Arena
<1>2. /\ q \in Nat /\ c \in F /\ q < c /\ (q # 0 => q \in F) /\ c \in Nat
  BY <1>1, PlaceFacts
<1>3. m[c + 1] \in Int /\ c + 1 \in Addr
  BY <1>1, <1>2, ArenaBlock
<1>4. /\ w \in [Addr -> Int]
      /\ \A x \in Addr : q = 0 \/ x # q + 1 => w[x] = m[x]
      /\ q # 0 => w[q + 1] = m[c + 1]
      /\ q # 0 => q \in F /\ q + 1 \in Addr /\ q + 1 \notin F \cup U
      /\ \A b \in (F \cup U) \ {q} : \A x \in b..(b + m[b] - 1) : q = 0 \/ x # q + 1
  BY <1>1, <1>3, LinkFacts
<1>5. \A b \in F \cup U : w[b] = m[b]
  BY <1>1, <1>4
<1>6. \A f \in F \ {q, c} : w[f + 1] = m[f + 1]
  <2> SUFFICES ASSUME NEW f \in F \ {q, c} PROVE w[f + 1] = m[f + 1]
    OBVIOUS
  <2>1. f + 1 \in Addr /\ f \in Nat
    BY ArenaBlock
  <2>2. f + 1 # q + 1
    BY <2>1, <1>2
  <2> QED BY <2>1, <2>2, <1>4
<1>7. (q # 0 => k = h) /\ (q = 0 => k = m[c + 1])
  BY DEF HeadIn
<1>8. ThreadsIn(w, k, F \ {c})
  BY <1>1, <1>2, <1>4, <1>6, <1>7, ThreadsRemove
<1>9. (F \ {c}) \cup (U \cup {c}) = F \cup U
  BY <1>2
<1>10. TilesIn(w, e, (F \ {c}) \cup (U \cup {c}))
  BY <1>1, <1>5, <1>9, TilesSame
<1>11. MergedIn(w, F \ {c})
  BY <1>1, <1>5 DEF MergedIn
<1>12. Keeps(m, w, U)
  <2> SUFFICES ASSUME NEW u \in U, NEW x \in u..(u + m[u] - 1)
               PROVE  w[x] = m[x]
    BY DEF Keeps
  <2>1. u # q
    BY <1>1, <1>2, AddrIsNat
  <2>2. x \in Addr
    BY ArenaBlock, AddrIsNat
  <2> QED BY <2>1, <2>2, <1>4
<1> QED BY <1>1, <1>2, <1>4, <1>5, <1>8, <1>10, <1>11, <1>12 DEF Arena, Holds

(* The words of a block are addresses.                                     *)
LEMMA ArenaWords ==
  ASSUME NEW m, NEW h, NEW e, NEW F, NEW U, Arena(m, h, e, F, U),
         NEW b \in F \cup U, NEW x \in b..(b + m[b] - 1)
  PROVE  x \in Addr /\ x \in Nat
<1>1. b \in Nat /\ m[b] \in Nat /\ b + m[b] <= HeapMax /\ b \in Addr
  BY ArenaBlock, AddrIsNat
<1>2. x \in Nat /\ DataStart <= x /\ x < HeapMax
  BY <1>1, AddrIsNat
<1> QED BY <1>2, AddrIsNat

(* A free block is split: its head is taken, the rest stays on the list.   *)
LEMMA ArenaCarve ==
  ASSUME NEW m, NEW h, NEW e, NEW F, NEW U, Arena(m, h, e, F, U),
         NEW q, NEW c, PlaceIn(m, h, F, q, c), c # 0,
         NEW n \in Nat, n >= 2, m[c] - n >= 2,
         NEW r, r = c + n,
         NEW z \in [Addr -> Int],
         z[c] = n, z[r] = m[c] - n, z[r + 1] = m[c + 1],
         \A x \in Addr \ {c, r, r + 1} : z[x] = m[x],
         NEW w, w = LinkIn(z, q, r),
         NEW k, k = HeadIn(h, q, r)
  PROVE  /\ Arena(w, k, e, (F \ {c}) \cup {r}, U \cup {c})
         /\ Holds(w, c, n)
         /\ Keeps(m, w, U)
<1>1. /\ m \in [Addr -> Int] /\ F \in SUBSET Addr /\ U \in SUBSET Addr /\ F \cap U = {}
      /\ ThreadsIn(m, h, F) /\ TilesIn(m, e, F \cup U) /\ MergedIn(m, F)
      /\ e \in DataStart..HeapMax
  BY DEF Arena
<1>2. /\ q \in Nat /\ c \in F /\ q < c /\ (q # 0 => q \in F)
      /\ c \in Nat /\ m[c] \in Nat /\ c \in Addr /\ c + 1 \in Addr
  BY <1>1, PlaceFacts, ArenaBlock
<1>3. r \in c..(c + m[c] - 1) /\ r + 1 \in c..(c + m[c] - 1)
  BY <1>2
<1>4. r \in Addr /\ r + 1 \in Addr /\ r \in Nat /\ r # c /\ r + 1 # c /\ r # r + 1
  BY <1>2, <1>3, ArenaWords
<1>6. /\ w \in [Addr -> Int]
      /\ \A x \in Addr : q = 0 \/ x # q + 1 => w[x] = z[x]
      /\ q # 0 => w[q + 1] = r
      /\ q # 0 => q \in F /\ q + 1 \in Addr /\ q + 1 \notin F \cup U
      /\ \A b \in (F \cup U) \ {q} : \A x \in b..(b + m[b] - 1) : q = 0 \/ x # q + 1
  <2>1. r \in Int
    BY <1>4
  <2> QED BY <2>1, LinkFacts
<1>7. q = 0 \/ (c # q + 1 /\ r # q + 1 /\ r + 1 # q + 1)
  BY <1>2, <1>3, <1>6
<1>8. w[c] = n /\ w[r] = m[c] - n /\ w[r + 1] = m[c + 1]
  BY <1>2, <1>4, <1>6, <1>7
<1>9. ASSUME NEW b \in (F \cup U) \ {c}, NEW x \in b..(b + m[b] - 1), q = 0 \/ x # q + 1
      PROVE  w[x] = m[x]
  <2>1. x \in Addr
    BY ArenaWords
  <2>2. x < c \/ c + m[c] <= x
    BY <1>2, ArenaApart
  <2>3. x \notin {c, r, r + 1}
    BY <2>1, <2>2, <1>2, <1>3, AddrIsNat
  <2> QED BY <2>1, <2>3, <1>6, <1>9
<1>10. \A b \in (F \cup U) \ {c} : w[b] = m[b]
  <2> SUFFICES ASSUME NEW b \in (F \cup U) \ {c} PROVE w[b] = m[b]
    OBVIOUS
  <2>1. b \in b..(b + m[b] - 1)
    BY ArenaBlock
  <2>2. q = 0 \/ b # q + 1
    BY <1>6
  <2> QED BY <2>1, <2>2, <1>9
<1>11. \A f \in F \ {q, c} : w[f + 1] = m[f + 1]
  <2> SUFFICES ASSUME NEW f \in F \ {q, c} PROVE w[f + 1] = m[f + 1]
    OBVIOUS
  <2>1. f + 1 \in f..(f + m[f] - 1) /\ f + 1 # q + 1
    BY ArenaBlock, <1>2
  <2> QED BY <2>1, <1>9
<1>12. TilesIn(w, e, (F \cup U) \cup {r}) /\ r \notin F \cup U
  <2>1. c + n = r /\ w[c + n] = m[c] - n /\ F \cup U \in SUBSET Addr /\ c \in F \cup U
    BY <1>1, <1>2, <1>8
  <2> QED BY <2>1, <1>1, <1>6, <1>8, <1>10, TilesSplit
<1>13. (F \cup U) \cup {r} = ((F \ {c}) \cup {r}) \cup (U \cup {c})
  BY <1>2
<1>14. \A g \in F : g <= c \/ r < g
  <2> SUFFICES ASSUME NEW g \in F, c < g PROVE r < g
    BY <1>2, AddrIsNat, <1>1
  <2>1. c + m[c] <= g /\ g \in Nat
    BY <1>2, ArenaBlock
  <2> QED BY <2>1, <1>2
<1>15. ThreadsIn(w, k, (F \ {c}) \cup {r})
  <2>1. (q # 0 => k = h) /\ (q = 0 => k = r)
    BY DEF HeadIn
  <2>2. c < r
    BY <1>2
  <2>3. q # 0 => w[q + 1] = r /\ k = h
    BY <2>1, <1>6
  <2> QED BY <2>1, <2>2, <2>3, <1>1, <1>4, <1>8, <1>11, <1>14, ThreadsMove
<1>16. MergedIn(w, (F \ {c}) \cup {r})
  <2> SUFFICES ASSUME NEW f \in (F \ {c}) \cup {r}, NEW g \in (F \ {c}) \cup {r}
               PROVE  f + w[f] # g
    BY DEF MergedIn
  <2>1. CASE f = r
    <3>1. f + w[f] = c + m[c]
      BY <2>1, <1>2, <1>8
    <3> QED BY <3>1, <1>1, <1>2 DEF MergedIn
  <2>2. CASE f # r /\ g # r
    BY <2>2, <1>1, <1>10 DEF MergedIn
  <2>3. CASE f # r /\ g = r
    <3>1. f \in Nat /\ m[f] \in Nat /\ w[f] = m[f] /\ (f < c => f + m[f] <= c) /\ (c < f => c + m[c] <= f)
      BY <2>3, <1>2, <1>10, ArenaBlock
    <3> QED BY <2>3, <3>1, <1>2
  <2> QED BY <2>1, <2>2, <2>3
<1>17. Keeps(m, w, U)
  <2> SUFFICES ASSUME NEW u \in U, NEW x \in u..(u + m[u] - 1)
               PROVE  w[x] = m[x]
    BY DEF Keeps
  <2>1. u # q /\ u # c
    BY <1>1, <1>2, AddrIsNat
  <2>2. q = 0 \/ x # q + 1
    BY <2>1, <1>6
  <2> QED BY <2>1, <2>2, <1>9
<1> QED BY <1>1, <1>2, <1>4, <1>6, <1>8, <1>12, <1>13, <1>15, <1>16, <1>17 DEF Arena, Holds

(* The last block grows into the words behind it.                          *)
LEMMA ArenaStretch ==
  ASSUME NEW m, NEW h, NEW e, NEW F, NEW U, Arena(m, h, e, F, U),
         NEW b \in U, b + m[b] = e,
         NEW n \in Nat, n >= m[b], b + n <= HeapMax,
         NEW w \in [Addr -> Int], w[b] = n, \A x \in Addr \ {b} : w[x] = m[x]
  PROVE  /\ Arena(w, h, b + n, F, U)
         /\ Keeps(m, w, U \ {b})
<1>1. /\ m \in [Addr -> Int] /\ F \in SUBSET Addr /\ U \in SUBSET Addr /\ F \cap U = {}
      /\ ThreadsIn(m, h, F) /\ TilesIn(m, e, F \cup U) /\ MergedIn(m, F)
      /\ e \in DataStart..HeapMax
  BY DEF Arena
<1>2. b \in Nat /\ b \in Addr /\ DataStart <= b /\ b \in F \cup U
  BY <1>1, AddrIsNat
<1>4. TilesIn(w, b + n, F \cup U)
  <2>1. \A c \in (F \cup U) \ {b} : w[c] = m[c]
    BY <1>1
  <2> QED BY <2>1, <1>1, <1>2, TilesStretch
<1>5. b + n \in DataStart..HeapMax
  BY <1>2, AddrIsNat
<1>6. \A f \in F : w[f] = m[f] /\ w[f + 1] = m[f + 1]
  <2> SUFFICES ASSUME NEW f \in F PROVE w[f] = m[f] /\ w[f + 1] = m[f + 1]
    OBVIOUS
  <2>1. f # b /\ f \in Addr /\ f + 1 \in Addr /\ f + 1 # b
    BY <1>1, <1>2, ArenaBlock, ArenaApart
  <2> QED BY <2>1
<1>7. ThreadsIn(w, h, F)
  BY <1>1, <1>6, ThreadsSame
<1>8. MergedIn(w, F)
  BY <1>1, <1>6 DEF MergedIn
<1>9. Keeps(m, w, U \ {b})
  <2> SUFFICES ASSUME NEW u \in U \ {b}, NEW x \in u..(u + m[u] - 1)
               PROVE  w[x] = m[x]
    BY DEF Keeps
  <2>1. (x < b \/ b + m[b] <= x) /\ x \in Addr /\ x \in Nat
    BY <1>2, ArenaApart, ArenaWords
  <2>2. x # b
    BY <2>1, <1>2, ArenaBlock
  <2> QED BY <2>1, <2>2
<1> QED BY <1>1, <1>4, <1>5, <1>7, <1>8, <1>9 DEF Arena

(* A block is made of words behind the last one.                           *)
LEMMA ArenaBump ==
  ASSUME NEW m, NEW h, NEW e, NEW F, NEW U, Arena(m, h, e, F, U),
         NEW n \in Nat, n >= 2, e + n <= HeapMax,
         NEW w \in [Addr -> Int], w[e] = n, \A x \in Addr \ {e} : w[x] = m[x]
  PROVE  /\ Arena(w, h, e + n, F, U \cup {e})
         /\ e \in Addr /\ e \notin F \cup U
         /\ Keeps(m, w, U)
<1>1. /\ m \in [Addr -> Int] /\ F \in SUBSET Addr /\ U \in SUBSET Addr /\ F \cap U = {}
      /\ ThreadsIn(m, h, F) /\ TilesIn(m, e, F \cup U) /\ MergedIn(m, F)
      /\ e \in DataStart..HeapMax /\ F \cup U \in SUBSET Addr
  BY DEF Arena
<1>2. e \in Nat /\ e \in Addr /\ DataStart <= e
  BY <1>1, AddrIsNat
<1>4. ASSUME NEW b \in F \cup U, NEW x \in b..(b + m[b] - 1)
      PROVE  w[x] = m[x]
  <2>1. x \in Addr /\ x # e
    BY ArenaBlock, ArenaWords
  <2> QED BY <2>1
<1>5. \A b \in F \cup U : w[b] = m[b] /\ w[b + 1] = m[b + 1]
  <2> SUFFICES ASSUME NEW b \in F \cup U PROVE w[b] = m[b] /\ w[b + 1] = m[b + 1]
    OBVIOUS
  <2>1. b \in Nat /\ m[b] \in Nat /\ m[b] >= 2
    BY ArenaBlock
  <2>2. b \in b..(b + m[b] - 1) /\ b + 1 \in b..(b + m[b] - 1)
    BY <2>1
  <2> QED BY <2>2, <1>4
<1>6. TilesIn(w, e + n, (F \cup U) \cup {e}) /\ e \notin F \cup U
  <2>1. \A b \in F \cup U : w[b] = m[b]
    BY <1>5
  <2> QED BY <2>1, <1>1, TilesAppend
<1>7. e + n \in DataStart..HeapMax
  BY <1>2, AddrIsNat
<1>8. ThreadsIn(w, h, F)
  BY <1>1, <1>5, ThreadsSame
<1>9. MergedIn(w, F)
  BY <1>1, <1>5 DEF MergedIn
<1>10. Keeps(m, w, U)
  BY <1>4 DEF Keeps
<1>11. (F \cup U) \cup {e} = F \cup (U \cup {e})
  OBVIOUS
<1> QED BY <1>1, <1>2, <1>6, <1>7, <1>8, <1>9, <1>10, <1>11 DEF Arena

(* The tail of a block in use becomes a block in use.                      *)
LEMMA ArenaTail ==
  ASSUME NEW m, NEW h, NEW e, NEW F, NEW U, Arena(m, h, e, F, U),
         NEW b \in U, NEW n \in Nat, n >= 2, m[b] - n >= 2,
         NEW w, Holds(w, b, n), Holds(w, b + n, m[b] - n), Written(m, w, {b, b + n})
  PROVE  /\ Arena(w, h, e, F, U \cup {b + n})
         /\ b + n \in Addr /\ b + n \notin F \cup U
         /\ Keeps(m, w, U \ {b})
<1> USE DEF Holds, Written
<1>1. /\ m \in [Addr -> Int] /\ F \in SUBSET Addr /\ U \in SUBSET Addr /\ F \cap U = {}
      /\ ThreadsIn(m, h, F) /\ TilesIn(m, e, F \cup U) /\ MergedIn(m, F)
      /\ e \in DataStart..HeapMax /\ F \cup U \in SUBSET Addr
  BY DEF Arena
<1>2. b \in Nat /\ b \in Addr /\ b \in F \cup U /\ b \notin F /\ m[b] \in Nat
  BY <1>1, ArenaBlock
<1>3. b + n \in b..(b + m[b] - 1)
  BY <1>2
<1>4. b + n \in Addr /\ b + n # b
  BY <1>2, <1>3, ArenaWords
<1>6. ASSUME NEW c \in (F \cup U) \ {b}, NEW x \in c..(c + m[c] - 1)
      PROVE  w[x] = m[x]
  <2>1. (x < b \/ b + m[b] <= x) /\ x \in Addr /\ x \in Nat
    BY <1>2, ArenaApart, ArenaWords
  <2>2. x # b /\ x # b + n
    BY <2>1, <1>2
  <2> QED BY <2>1, <2>2
<1>7. \A c \in (F \cup U) \ {b} : w[c] = m[c] /\ w[c + 1] = m[c + 1]
  <2> SUFFICES ASSUME NEW c \in (F \cup U) \ {b} PROVE w[c] = m[c] /\ w[c + 1] = m[c + 1]
    OBVIOUS
  <2>1. c \in c..(c + m[c] - 1) /\ c + 1 \in c..(c + m[c] - 1)
    BY ArenaBlock
  <2> QED BY <2>1, <1>6
<1>8. TilesIn(w, e, (F \cup U) \cup {b + n}) /\ b + n \notin F \cup U
  <2>1. \A c \in (F \cup U) \ {b} : w[c] = m[c]
    BY <1>7
  <2> QED BY <2>1, <1>1, <1>2, TilesSplit
<1>9. ThreadsIn(w, h, F)
  BY <1>1, <1>2, <1>7, ThreadsSame
<1>10. MergedIn(w, F)
  BY <1>1, <1>2, <1>7 DEF MergedIn
<1>11. Keeps(m, w, U \ {b})
  BY <1>6 DEF Keeps
<1>12. (F \cup U) \cup {b + n} = F \cup (U \cup {b + n})
  OBVIOUS
<1> QED BY <1>1, <1>4, <1>8, <1>9, <1>10, <1>11, <1>12 DEF Arena

(* A block in use takes in the one behind it.                              *)
LEMMA ArenaJoin ==
  ASSUME NEW m, NEW h, NEW e, NEW F, NEW U, Arena(m, h, e, F, U),
         NEW b \in U, NEW c \in U, b + m[b] = c,
         NEW w, Holds(w, b, m[b] + m[c]), Written(m, w, {b})
  PROVE  /\ Arena(w, h, e, F, U \ {c})
         /\ Keeps(m, w, U \ {b})
<1> USE DEF Holds, Written
<1>1. /\ m \in [Addr -> Int] /\ F \in SUBSET Addr /\ U \in SUBSET Addr /\ F \cap U = {}
      /\ ThreadsIn(m, h, F) /\ TilesIn(m, e, F \cup U) /\ MergedIn(m, F)
      /\ e \in DataStart..HeapMax /\ F \cup U \in SUBSET Addr
  BY DEF Arena
<1>2. b \in Nat /\ b \in Addr /\ b \in F \cup U /\ b \notin F /\ m[b] \in Nat
      /\ c \in F \cup U /\ c \notin F /\ m[c] \in Nat
  BY <1>1, ArenaBlock
<1>4. ASSUME NEW d \in (F \cup U) \ {b}, NEW x \in d..(d + m[d] - 1)
      PROVE  w[x] = m[x]
  <2>1. (x < b \/ b + m[b] <= x) /\ x \in Addr /\ x \in Nat
    BY <1>2, ArenaApart, ArenaWords
  <2>2. x # b
    BY <2>1, <1>2, ArenaBlock
  <2> QED BY <2>1, <2>2
<1>5. \A d \in (F \cup U) \ {b} : w[d] = m[d] /\ w[d + 1] = m[d + 1]
  <2> SUFFICES ASSUME NEW d \in (F \cup U) \ {b} PROVE w[d] = m[d] /\ w[d + 1] = m[d + 1]
    OBVIOUS
  <2>1. d \in d..(d + m[d] - 1) /\ d + 1 \in d..(d + m[d] - 1)
    BY ArenaBlock
  <2> QED BY <2>1, <1>4
<1>6. TilesIn(w, e, (F \cup U) \ {c})
  <2>1. \A d \in (F \cup U) \ {b, c} : w[d] = m[d]
    BY <1>5
  <2> QED BY <2>1, <1>1, <1>2, TilesJoin
<1>7. ThreadsIn(w, h, F)
  BY <1>1, <1>2, <1>5, ThreadsSame
<1>8. MergedIn(w, F)
  BY <1>1, <1>2, <1>5 DEF MergedIn
<1>9. Keeps(m, w, U \ {b})
  BY <1>4 DEF Keeps
<1>10. (F \cup U) \ {c} = F \cup (U \ {c})
  BY <1>2
<1> QED BY <1>1, <1>6, <1>7, <1>8, <1>9, <1>10 DEF Arena

(* realloc takes the whole next block, c, for b.                           *)
LEMMA ArenaAbsorb ==
  ASSUME NEW m, NEW h, NEW e, NEW F, NEW U, Arena(m, h, e, F, U),
         NEW q, NEW c, PlaceIn(m, h, F, q, c), c # 0,
         NEW b \in U, b + m[b] = c,
         NEW z, Holds(z, b, m[b] + m[c]), Written(m, z, {b}),
         NEW y, y = LinkIn(z, q, m[c + 1]),
         NEW k, k = HeadIn(h, q, m[c + 1])
  PROVE  /\ Arena(y, k, e, F \ {c}, U)
         /\ Holds(y, b, m[b] + m[c])
         /\ Keeps(m, y, U \ {b})
         /\ SamePayload(m, y, b)
<1>1. /\ m \in [Addr -> Int] /\ F \in SUBSET Addr /\ F \cap U = {} /\ ThreadsIn(m, h, F)
  BY DEF Arena
<1>2. c \in F /\ q \in Nat
  BY <1>1, PlaceFacts
<1>3. c \notin U /\ c \in Nat /\ c + 1 \in Addr
  BY <1>1, <1>2, ArenaBlock
<1>4. /\ b \in Nat /\ b \in Addr /\ m[b] \in Nat /\ m[b] >= 2
  BY ArenaBlock
<1>5. PICK v : v = m[c + 1]
  OBVIOUS
<1>6. v \in Int
  BY <1>1, <1>3, <1>5
<1>7. PICK w : w = LinkIn(m, q, m[c + 1])
  OBVIOUS
<1>8. Arena(w, k, e, F \ {c}, U \cup {c})
  BY <1>7, ArenaTake
<1>9. Holds(w, c, m[c])
  BY <1>7, ArenaTake
<1>10. Keeps(m, w, U)
  BY <1>7, ArenaTake
<1>11. \A x \in b..(b + m[b] - 1) : w[x] = m[x]
  BY <1>10 DEF Keeps
<1>12. b \in b..(b + m[b] - 1)
  BY <1>4
<1>13. w[b] = m[b] /\ w[c] = m[c]
  BY <1>9, <1>11, <1>12 DEF Holds
<1>14. z \in [Addr -> Int] /\ z[b] = m[b] + m[c] /\ \A x \in Addr \ {b} : z[x] = m[x]
  BY DEF Holds, Written
<1>15. y = LinkIn(z, q, v) /\ w = LinkIn(m, q, v)
  BY <1>5, <1>7
<1>16. q # 0 => q + 1 \in Addr /\ q + 1 \notin F \cup U
  BY <1>1, <1>6, LinkFacts
<1>17. q # 0 => q + 1 # b
  BY <1>16
<1>18. y \in [Addr -> Int]
  BY <1>6, <1>14, <1>15, <1>16 DEF LinkIn
<1>19. y[b] = m[b] + m[c]
  BY <1>4, <1>14, <1>15, <1>17 DEF LinkIn
<1>20. \A x \in Addr \ {b} : y[x] = w[x]
  BY <1>1, <1>14, <1>15, <1>16 DEF LinkIn
<1>21. Holds(y, b, w[b] + w[c]) /\ Written(w, y, {b}) /\ b + w[b] = c
  BY <1>13, <1>18, <1>19, <1>20 DEF Holds, Written
<1>22. PICK V : V = U \cup {c}
  OBVIOUS
<1>23. Arena(w, k, e, F \ {c}, V) /\ b \in V /\ c \in V
  BY <1>8, <1>22
<1>24. Arena(y, k, e, F \ {c}, V \ {c})
  BY <1>21, <1>23, ArenaJoin
<1>25. Keeps(w, y, V \ {b})
  BY <1>21, <1>23, ArenaJoin
<1>26. V \ {c} = U
  BY <1>3, <1>22
<1>27. Keeps(m, y, U \ {b})
  <2> SUFFICES ASSUME NEW u \in U \ {b}, NEW x \in u..(u + m[u] - 1)
               PROVE  y[x] = m[x]
    BY DEF Keeps
  <2>1. u \in Nat /\ m[u] \in Nat /\ m[u] >= 2
    BY ArenaBlock
  <2>2. u \in u..(u + m[u] - 1)
    BY <2>1
  <2>3. w[u] = m[u] /\ w[x] = m[x]
    BY <2>2, <1>10 DEF Keeps
  <2> QED BY <2>3, <1>22, <1>25 DEF Keeps
<1>28. SamePayload(m, y, b)
  <2> SUFFICES ASSUME NEW x \in (b + 1)..(b + m[b] - 1) PROVE y[x] = m[x]
    BY DEF SamePayload
  <2>1. x \in b..(b + m[b] - 1) /\ x # b
    BY <1>4
  <2>2. x \in Addr
    BY <2>1, ArenaWords
  <2> QED BY <1>11, <1>20, <2>1, <2>2
<1> QED BY <1>19, <1>24, <1>26, <1>27, <1>28 DEF Holds

(* n words of the block c go to b; r is what is left of c.                 *)
Shifted(m, z, b, c, n, r) ==
  /\ r = c + n
  /\ Holds(z, b, m[b] + n)
  /\ Holds(z, r, m[c] - n)
  /\ Holds(z, r + 1, m[c + 1])
  /\ Written(m, z, {b, r, r + 1})

(* A block in use takes n words from the free block behind it.             *)
LEMMA ArenaShift ==
  ASSUME NEW m, NEW h, NEW e, NEW F, NEW U, Arena(m, h, e, F, U),
         NEW q, NEW c, PlaceIn(m, h, F, q, c), c # 0,
         NEW b \in U, b + m[b] = c,
         NEW n \in Nat, n >= 1, m[c] - n >= 2,
         NEW r, NEW z, Shifted(m, z, b, c, n, r),
         NEW w, w = LinkIn(z, q, r),
         NEW k, k = HeadIn(h, q, r)
  PROVE  /\ Arena(w, k, e, (F \ {c}) \cup {r}, U)
         /\ Holds(w, b, m[b] + n)
         /\ Keeps(m, w, U \ {b})
         /\ SamePayload(m, w, b)
<1> USE DEF Holds, Written, SamePayload, Shifted
<1>1. /\ m \in [Addr -> Int] /\ F \in SUBSET Addr /\ U \in SUBSET Addr /\ F \cap U = {}
      /\ ThreadsIn(m, h, F) /\ TilesIn(m, e, F \cup U) /\ MergedIn(m, F)
      /\ e \in DataStart..HeapMax /\ F \cup U \in SUBSET Addr
  BY DEF Arena
<1>2. /\ q \in Nat /\ c \in F /\ q < c /\ (q # 0 => q \in F)
      /\ c \in Nat /\ m[c] \in Nat /\ c \in Addr /\ c + 1 \in Addr
      /\ b \in Nat /\ m[b] \in Nat /\ m[b] >= 2 /\ b \in Addr /\ b \in F \cup U
      /\ b # c /\ q # b
  <2>1. /\ q \in Nat /\ c \in F /\ q < c /\ (q # 0 => q \in F)
    BY <1>1, PlaceFacts
  <2>2. b \notin F /\ b > 0
    BY <1>1, ArenaBlock
  <2> QED BY <2>1, <2>2, ArenaBlock
<1>3. r \in c..(c + m[c] - 1) /\ r + 1 \in c..(c + m[c] - 1)
  BY <1>2
<1>4. r \in Addr /\ r + 1 \in Addr /\ r \in Nat /\ r > c /\ c > b
  BY <1>2, <1>3, ArenaWords
<1>5. /\ w \in [Addr -> Int]
      /\ \A x \in Addr : q = 0 \/ x # q + 1 => w[x] = z[x]
      /\ q # 0 => w[q + 1] = r
      /\ \A d \in (F \cup U) \ {q} : \A x \in d..(d + m[d] - 1) : q = 0 \/ x # q + 1
  <2>1. r \in Int
    BY <1>4
  <2> QED BY <2>1, LinkFacts
<1>6. q = 0 \/ (b # q + 1 /\ r # q + 1 /\ r + 1 # q + 1)
  <2>1. b \in b..(b + m[b] - 1)
    BY <1>2
  <2> QED BY <2>1, <1>2, <1>3, <1>5
<1>7. w[b] = m[b] + n /\ w[r] = m[c] - n /\ w[r + 1] = m[c + 1]
  BY <1>2, <1>4, <1>5, <1>6
<1>8. ASSUME NEW d \in (F \cup U) \ {b, c}, NEW x \in d..(d + m[d] - 1), q = 0 \/ x # q + 1
      PROVE  w[x] = m[x]
  <2>1. x \in Addr /\ x \in Nat
    BY ArenaWords
  <2>2. (x < c \/ c + m[c] <= x) /\ (x < b \/ b + m[b] <= x)
    BY <1>2, ArenaApart
  <2>3. x \notin {b, r, r + 1}
    BY <2>1, <2>2, <1>2, <1>3
  <2> QED BY <2>1, <2>3, <1>5, <1>8
<1>9. \A d \in (F \cup U) \ {b, c} : w[d] = m[d]
  <2> SUFFICES ASSUME NEW d \in (F \cup U) \ {b, c} PROVE w[d] = m[d]
    OBVIOUS
  <2>1. d \in d..(d + m[d] - 1)
    BY ArenaBlock
  <2>2. q = 0 \/ d # q + 1
    <3>1. CASE d = q
      BY <3>1, <1>2
    <3>2. CASE d # q
      BY <3>2, <2>1, <1>5
    <3> QED BY <3>1, <3>2
  <2> QED BY <2>1, <2>2, <1>8
<1>10. \A f \in F \ {q, c} : w[f + 1] = m[f + 1]
  <2> SUFFICES ASSUME NEW f \in F \ {q, c} PROVE w[f + 1] = m[f + 1]
    OBVIOUS
  <2>1. f \in Nat /\ m[f] \in Nat /\ m[f] >= 2
    BY ArenaBlock
  <2>2. f + 1 \in f..(f + m[f] - 1) /\ f + 1 # q + 1 /\ f # b
    BY <2>1, <1>1, <1>2
  <2> QED BY <2>2, <1>8
<1> DEFINE v == [m EXCEPT ![b] = m[b] + m[c]]
           B == (F \cup U) \ {c}
<1>11. v \in [Addr -> Int] /\ v[b] = m[b] + m[c] /\ \A x \in Addr \ {b} : v[x] = m[x]
  BY <1>1, <1>2
<1> HIDE DEF v
<1>12. TilesIn(v, e, B)
  <2>1. \A d \in (F \cup U) \ {b, c} : v[d] = m[d]
    BY <1>1, <1>11
  <2> QED BY <2>1, <1>1, <1>2, <1>11, TilesJoin
<1>13. TilesIn(w, e, B \cup {r}) /\ r \notin B
  <2>1. \A d \in B \ {b} : w[d] = v[d]
    <3> SUFFICES ASSUME NEW d \in B \ {b} PROVE w[d] = v[d]
      OBVIOUS
    <3> QED BY <1>1, <1>9, <1>11
  <2> DEFINE j == m[b] + n
  <2>2. b + j = r /\ j \in Nat /\ j >= 2
    BY <1>2
  <2>3. v[b] - j >= 2 /\ w[b + j] = v[b] - j /\ w[b] = j
    BY <2>2, <1>2, <1>7, <1>11
  <2>4. b \in B /\ B \in SUBSET Addr
    BY <1>1, <1>2
  <2> HIDE DEF B, j
  <2>5. TilesIn(w, e, B \cup {b + j}) /\ b + j \notin B
    BY <2>1, <2>2, <2>3, <2>4, <1>1, <1>5, <1>11, <1>12, TilesSplit
  <2> QED BY <2>2, <2>5
<1>14. B \cup {r} = ((F \ {c}) \cup {r}) \cup U
  BY <1>1, <1>2
<1>15. r \notin U
  BY <1>1, <1>2, <1>13
<1>16. \A g \in F : g <= c \/ r < g
  <2> SUFFICES ASSUME NEW g \in F, ~(g <= c) PROVE r < g
    OBVIOUS
  <2>1. g \in Nat
    BY ArenaBlock
  <2>2. c < g
    BY <2>1, <1>2
  <2>3. c + m[c] <= g
    BY <2>2, <1>2, ArenaBlock
  <2> QED BY <2>1, <2>3, <1>2
<1>17. ThreadsIn(w, k, (F \ {c}) \cup {r})
  <2>1. (q # 0 => k = h) /\ (q = 0 => k = r)
    BY DEF HeadIn
  <2>2. c < r
    BY <1>2
  <2>3. q # 0 => w[q + 1] = r /\ k = h
    BY <2>1, <1>5
  <2> QED BY <2>1, <2>2, <2>3, <1>1, <1>4, <1>7, <1>10, <1>16, ThreadsMove
<1>18. MergedIn(w, (F \ {c}) \cup {r})
  <2> SUFFICES ASSUME NEW f \in (F \ {c}) \cup {r}, NEW g \in (F \ {c}) \cup {r}
               PROVE  f + w[f] # g
    BY DEF MergedIn
  <2>1. CASE f = r
    <3>1. f + w[f] = c + m[c]
      BY <2>1, <1>2, <1>7
    <3> QED BY <3>1, <1>1, <1>2 DEF MergedIn
  <2>2. CASE f # r /\ g # r
    <3>1. w[f] = m[f] /\ f \in F /\ g \in F
      BY <2>2, <1>1, <1>9
    <3> QED BY <3>1, <1>1 DEF MergedIn
  <2>3. CASE f # r /\ g = r
    <3>1. f \in Nat /\ m[f] \in Nat /\ w[f] = m[f] /\ (f < c => f + m[f] <= c) /\ (c < f => c + m[c] <= f)
          /\ f # c
      BY <2>3, <1>1, <1>2, <1>9, ArenaBlock
    <3> QED BY <2>3, <3>1, <1>2
  <2> QED BY <2>1, <2>2, <2>3
<1>19. Keeps(m, w, U \ {b})
  <2> SUFFICES ASSUME NEW u \in U \ {b}, NEW x \in u..(u + m[u] - 1)
               PROVE  w[x] = m[x]
    BY DEF Keeps
  <2>1. u # q /\ u # c
    BY <1>1, <1>2, AddrIsNat
  <2>2. q = 0 \/ x # q + 1
    BY <2>1, <1>5
  <2> QED BY <2>1, <2>2, <1>8
<1>20. ASSUME NEW x \in (b + 1)..(b + m[b] - 1)
       PROVE  w[x] = m[x]
  <2>1. x \in b..(b + m[b] - 1)
    BY <1>2
  <2>2. x \in Addr /\ x \notin {b, r, r + 1}
    BY <2>1, <1>2, <1>4, ArenaWords
  <2>3. q = 0 \/ x # q + 1
    BY <2>1, <1>2, <1>5
  <2> QED BY <2>2, <2>3, <1>5
<1> QED BY <1>1, <1>2, <1>4, <1>5, <1>7, <1>13, <1>14, <1>15, <1>17, <1>18, <1>19, <1>20 DEF Arena, Holds

(* The list has just got the block a, which may touch the next one, c.     *)
Loose(m, h, e, F, U, a, c) ==
  /\ m \in [Addr -> Int]
  /\ e \in DataStart..HeapMax
  /\ F \in SUBSET Addr
  /\ U \in SUBSET Addr
  /\ F \cap U = {}
  /\ TilesIn(m, e, F \cup U)
  /\ ThreadsIn(m, h, F)
  /\ a \in F
  /\ PlaceIn(m, h, F, a, c)
  /\ \A f, g \in F : f + m[f] = g => f = a /\ g = c

(* A freed block is added to the free block before it.                     *)
LEMMA FreeLeft ==
  ASSUME NEW m, NEW h, NEW e, NEW F, NEW U, Arena(m, h, e, F, U),
         NEW q, NEW c, PlaceIn(m, h, F, q, c), q # 0,
         NEW b \in U, q + m[q] = b, c = 0 \/ b < c,
         NEW z \in [Addr -> Int], z[q] = m[q] + m[b], \A x \in Addr \ {q} : z[x] = m[x]
  PROVE  /\ Loose(z, h, e, F, U \ {b}, q, c)
         /\ Keeps(m, z, U \ {b})
<1>1. /\ m \in [Addr -> Int] /\ F \in SUBSET Addr /\ U \in SUBSET Addr /\ F \cap U = {}
      /\ ThreadsIn(m, h, F) /\ TilesIn(m, e, F \cup U) /\ MergedIn(m, F)
      /\ e \in DataStart..HeapMax /\ F \cup U \in SUBSET Addr
  BY DEF Arena
<1>2. /\ q \in Nat /\ c \in Nat /\ q \in F /\ (c # 0 => c \in F /\ q < c)
      /\ \A g \in F : g <= q \/ (c # 0 /\ c <= g)
  BY <1>1, PlaceFacts
<1>3. /\ b \in Nat /\ m[b] \in Nat /\ m[b] >= 2 /\ b \in F \cup U /\ b \notin F
      /\ q \in F \cup U /\ m[q] \in Nat /\ m[q] >= 2 /\ q \in Addr /\ q + 1 \in Addr
  BY <1>1, <1>2, ArenaBlock
<1>4. ASSUME NEW d \in (F \cup U) \ {q}, NEW x \in d..(d + m[d] - 1)
      PROVE  z[x] = m[x]
  <2>1. (x < q \/ q + m[q] <= x) /\ x \in Addr /\ x \in Nat
    BY <1>3, ArenaApart, ArenaWords
  <2>2. x # q
    BY <2>1, <1>2, <1>3
  <2> QED BY <2>1, <2>2
<1>5. \A d \in (F \cup U) \ {q} : z[d] = m[d]
  BY <1>1
<1>6. \A f \in F : z[f + 1] = m[f + 1]
  <2> SUFFICES ASSUME NEW f \in F PROVE z[f + 1] = m[f + 1]
    OBVIOUS
  <2>1. f + 1 \in Addr /\ f \in Nat
    BY ArenaBlock
  <2>2. f + 1 # q
    <3>1. CASE f = q
      BY <3>1, <1>2
    <3>2. CASE f # q
      BY <3>2, <1>3, ArenaApart
    <3> QED BY <3>1, <3>2
  <2> QED BY <2>1, <2>2
<1>7. TilesIn(z, e, (F \cup U) \ {b})
  <2>1. \A d \in (F \cup U) \ {q, b} : z[d] = m[d]
    BY <1>5
  <2> QED BY <2>1, <1>1, <1>3, TilesJoin
<1>8. (F \cup U) \ {b} = F \cup (U \ {b})
  BY <1>3
<1>9. ThreadsIn(z, h, F)
  BY <1>1, <1>6, ThreadsSame
<1>10. PlaceIn(z, h, F, q, c)
  BY <1>2, <1>6 DEF PlaceIn
<1>11. ASSUME NEW f \in F, NEW g \in F, f + z[f] = g
       PROVE  f = q /\ g = c
  <2>1. f = q
    BY <1>1, <1>5, <1>11 DEF MergedIn
  <2>2. g = b + m[b] /\ g \in Nat
    BY <2>1, <1>2, <1>3, <1>11
  <2>3. c # 0 /\ c <= g
    BY <2>2, <1>2, <1>3
  <2>4. b + m[b] <= c
    BY <2>3, <1>2, <1>3, ArenaBlock
  <2> QED BY <2>1, <2>2, <2>3, <2>4, <1>2, <1>3
<1>12. Keeps(m, z, U \ {b})
  <2> SUFFICES ASSUME NEW u \in U \ {b}, NEW x \in u..(u + m[u] - 1)
               PROVE  z[x] = m[x]
    BY DEF Keeps
  <2> QED BY <1>1, <1>2, <1>4
<1>13. U \ {b} \in SUBSET Addr /\ F \cap (U \ {b}) = {}
  BY <1>1
<1> QED BY <1>1, <1>2, <1>7, <1>8, <1>9, <1>10, <1>11, <1>12, <1>13 DEF Loose

(* A freed block gets a place of its own on the list.                      *)
LEMMA FreeBetween ==
  ASSUME NEW m, NEW h, NEW e, NEW F, NEW U, Arena(m, h, e, F, U),
         NEW q, NEW c, PlaceIn(m, h, F, q, c),
         NEW b \in U, q < b, c = 0 \/ b < c, ~(q # 0 /\ q + m[q] = b),
         NEW z, Holds(z, b + 1, c), Written(LinkIn(m, q, b), z, {b + 1}),
         NEW k, k = HeadIn(h, q, b)
  PROVE  /\ Loose(z, k, e, F \cup {b}, U \ {b}, b, c)
         /\ Keeps(m, z, U \ {b})
<1> USE DEF Holds, Written
<1>1. /\ m \in [Addr -> Int] /\ F \in SUBSET Addr /\ U \in SUBSET Addr /\ F \cap U = {}
      /\ ThreadsIn(m, h, F) /\ TilesIn(m, e, F \cup U) /\ MergedIn(m, F)
      /\ e \in DataStart..HeapMax /\ F \cup U \in SUBSET Addr
  BY DEF Arena
<1>2. /\ q \in Nat /\ c \in Nat /\ (q # 0 => q \in F) /\ (c # 0 => c \in F /\ q < c)
      /\ \A g \in F : g <= q \/ (c # 0 /\ c <= g)
  BY <1>1, PlaceFacts
<1>3. /\ b \in Nat /\ m[b] \in Nat /\ m[b] >= 2 /\ b \in F \cup U /\ b \notin F
      /\ b \in Addr /\ b + 1 \in Addr /\ b # q
  BY <1>1, <1>2, ArenaBlock
<1>4. /\ \A x \in Addr : q = 0 \/ x # q + 1 => LinkIn(m, q, b)[x] = m[x]
      /\ q # 0 => LinkIn(m, q, b)[q + 1] = b /\ q + 1 \in Addr
      /\ \A d \in (F \cup U) \ {q} : \A x \in d..(d + m[d] - 1) : q = 0 \/ x # q + 1
      /\ q # 0 => q + 1 \notin F \cup U
  <2>1. b \in Int
    BY <1>3
  <2> QED BY <2>1, <1>1, LinkFacts
<1>5. ASSUME NEW d \in (F \cup U) \ {b}, NEW x \in d..(d + m[d] - 1), q = 0 \/ x # q + 1
      PROVE  z[x] = m[x]
  <2>1. (x < b \/ b + m[b] <= x) /\ x \in Addr /\ x \in Nat
    BY <1>3, ArenaApart, ArenaWords
  <2>2. x # b + 1
    BY <2>1, <1>3
  <2> QED BY <2>1, <2>2, <1>4, <1>5
<1>6. \A d \in F \cup U : z[d] = m[d]
  <2> SUFFICES ASSUME NEW d \in F \cup U PROVE z[d] = m[d]
    OBVIOUS
  <2>1. d \in Addr /\ d # b + 1
    <3>1. CASE d = b
      BY <3>1, <1>3
    <3>2. CASE d # b
      BY <3>2, <1>3, ArenaBlock, ArenaApart
    <3> QED BY <3>1, <3>2
  <2>2. q = 0 \/ d # q + 1
    BY <1>4
  <2> QED BY <2>1, <2>2, <1>4
<1>7. \A f \in F \ {q} : z[f + 1] = m[f + 1]
  <2> SUFFICES ASSUME NEW f \in F \ {q} PROVE z[f + 1] = m[f + 1]
    OBVIOUS
  <2>1. f \in Nat /\ m[f] \in Nat /\ m[f] >= 2 /\ f \in (F \cup U) \ {b}
    BY <1>3, ArenaBlock
  <2>2. f + 1 \in f..(f + m[f] - 1) /\ f + 1 # q + 1
    BY <2>1, <1>2
  <2> QED BY <2>1, <2>2, <1>5
<1>8. q # 0 => z[q + 1] = b /\ k = h
  <2>1. SUFFICES ASSUME q # 0 PROVE z[q + 1] = b /\ k = h
    OBVIOUS
  <2>2. q + 1 # b + 1 /\ q + 1 \in Addr
    BY <2>1, <1>2, <1>3, <1>4
  <2> QED BY <2>1, <2>2, <1>4 DEF HeadIn
<1>9. q = 0 => k = b
  BY DEF HeadIn
<1>10. ThreadsIn(z, k, F \cup {b})
  BY <1>1, <1>3, <1>7, <1>8, <1>9, ThreadsInsert
<1>11. TilesIn(z, e, (F \cup {b}) \cup (U \ {b}))
  <2>1. (F \cup {b}) \cup (U \ {b}) = F \cup U
    BY <1>3
  <2> QED BY <2>1, <1>1, <1>6, TilesSame
<1>12. PlaceIn(z, k, F \cup {b}, b, c)
  BY <1>3, AddrIsNat DEF PlaceIn
<1>13. ASSUME NEW f \in F \cup {b}, NEW g \in F \cup {b}, f + z[f] = g
       PROVE  f = b /\ g = c
  <2>1. CASE f # b /\ g # b
    BY <2>1, <1>1, <1>6, <1>13 DEF MergedIn
  <2>2. CASE f # b /\ g = b
    <3>1. f \in F /\ f \in Nat /\ m[f] \in Nat /\ f + m[f] = b /\ f # q
      <4>1. f \in F /\ f + m[f] = b
        BY <2>2, <1>6, <1>13
      <4> QED BY <4>1, <1>2, ArenaBlock
    <3>2. f < b
      BY <3>1, <1>3, ArenaBlock
    <3>3. f <= q
      BY <3>1, <3>2, <1>2, <1>3
    <3>4. q # 0 /\ q \in F /\ f < q
      BY <3>1, <3>3, <1>2, ArenaBlock
    <3>5. f + m[f] <= q
      BY <3>1, <3>4, ArenaBlock
    <3> QED BY <3>1, <3>5, <1>2, <1>3
  <2>3. CASE f = b
    <3>1. b + m[b] = g
      BY <2>3, <1>3, <1>6, <1>13
    <3>2. g \in F /\ g \in Nat /\ b < g
      BY <3>1, <1>3, <1>1, AddrIsNat
    <3>3. c # 0 /\ c <= g
      BY <3>2, <1>2, <1>3
    <3>4. b + m[b] <= c
      BY <3>3, <1>2, <1>3, ArenaBlock
    <3> QED BY <2>3, <3>1, <3>2, <3>3, <3>4, <1>2, <1>3
  <2> QED BY <2>1, <2>2, <2>3
<1>14. Keeps(m, z, U \ {b})
  <2> SUFFICES ASSUME NEW u \in U \ {b}, NEW x \in u..(u + m[u] - 1)
               PROVE  z[x] = m[x]
    BY DEF Keeps
  <2>1. u # q
    BY <1>1, <1>2, AddrIsNat
  <2> QED BY <2>1, <1>4, <1>5
<1>15. F \cup {b} \in SUBSET Addr /\ U \ {b} \in SUBSET Addr /\ (F \cup {b}) \cap (U \ {b}) = {}
  BY <1>1, <1>3
<1> QED BY <1>1, <1>10, <1>11, <1>12, <1>13, <1>14, <1>15 DEF Loose

(* A new free block does not touch the next one ...                        *)
LEMMA LooseApart ==
  ASSUME NEW m, NEW h, NEW e, NEW F, NEW U, NEW a, NEW c, Loose(m, h, e, F, U, a, c),
         ~(c # 0 /\ a + m[a] = c)
  PROVE  Arena(m, h, e, F, U)
<1>1. MergedIn(m, F)
  <2> SUFFICES ASSUME NEW f \in F, NEW g \in F, f + m[f] = g
               PROVE  FALSE
    BY DEF MergedIn
  <2>1. f = a /\ g = c /\ g # 0
    BY AddrIsNat DEF Loose
  <2> QED BY <2>1
<1> QED BY <1>1 DEF Loose, Arena

(* ... or takes it in.                                                     *)
LEMMA LooseMerge ==
  ASSUME NEW m, NEW h, NEW e, NEW F, NEW U, NEW a, NEW c, Loose(m, h, e, F, U, a, c),
         c # 0, a + m[a] = c,
         NEW w, Holds(w, a, m[a] + m[c]), Holds(w, a + 1, m[c + 1]), Written(m, w, {a, a + 1})
  PROVE  /\ Arena(w, h, e, F \ {c}, U)
         /\ Keeps(m, w, U)
<1> USE DEF Holds, Written
<1>1. /\ m \in [Addr -> Int] /\ F \in SUBSET Addr /\ U \in SUBSET Addr /\ F \cap U = {}
      /\ ThreadsIn(m, h, F) /\ TilesIn(m, e, F \cup U) /\ PlaceIn(m, h, F, a, c) /\ a \in F
      /\ e \in DataStart..HeapMax /\ F \cup U \in SUBSET Addr
      /\ \A f, g \in F : f + m[f] = g => f = a /\ g = c
  BY DEF Loose
<1>2. /\ c \in F /\ a < c /\ c \in Nat /\ a \in Nat /\ a # 0
      /\ m[a] \in Nat /\ m[a] >= 2 /\ m[c] \in Nat /\ a \in Addr /\ a + 1 \in Addr
  BY <1>1, PlaceFacts, BlockRoom
<1>3. ASSUME NEW d \in (F \cup U) \ {a}, NEW x \in d..(d + m[d] - 1)
      PROVE  w[x] = m[x]
  <2>1. d \in Nat /\ m[d] \in Nat /\ d \in Addr /\ d + m[d] <= HeapMax
    BY <1>1, BlockRoom, AddrIsNat
  <2>2. x \in Nat /\ x \in Addr
    BY <2>1, AddrIsNat
  <2>3. x < a \/ a + m[a] <= x
    BY <2>1, <2>2, <1>1, <1>2, BlocksApart
  <2>4. x # a /\ x # a + 1
    BY <2>2, <2>3, <1>2
  <2> QED BY <2>2, <2>4
<1>4. \A d \in (F \cup U) \ {a} : w[d] = m[d] /\ w[d + 1] = m[d + 1]
  <2> SUFFICES ASSUME NEW d \in (F \cup U) \ {a} PROVE w[d] = m[d] /\ w[d + 1] = m[d + 1]
    OBVIOUS
  <2>1. d \in Nat /\ m[d] \in Nat /\ m[d] >= 2
    BY <1>1, BlockRoom
  <2>2. d \in d..(d + m[d] - 1) /\ d + 1 \in d..(d + m[d] - 1)
    BY <2>1
  <2> QED BY <2>2, <1>3
<1>5. TilesIn(w, e, (F \cup U) \ {c})
  <2>1. \A d \in (F \cup U) \ {a, c} : w[d] = m[d]
    BY <1>4
  <2>2. a \in F \cup U /\ c \in F \cup U
    BY <1>1, <1>2
  <2> QED BY <2>1, <2>2, <1>1, TilesJoin
<1>6. (F \cup U) \ {c} = (F \ {c}) \cup U
  BY <1>1, <1>2
<1>7. ThreadsIn(w, h, F \ {c})
  <2>1. \A f \in F \ {a, c} : w[f + 1] = m[f + 1]
    BY <1>4
  <2>2. (a # 0 => w[a + 1] = m[c + 1] /\ h = h) /\ (a = 0 => h = m[c + 1])
    BY <1>2
  <2> QED BY <2>1, <2>2, <1>1, ThreadsRemove
<1>8. MergedIn(w, F \ {c})
  <2> SUFFICES ASSUME NEW f \in F \ {c}, NEW g \in F \ {c}, f + w[f] = g
               PROVE  FALSE
    BY DEF MergedIn
  <2>1. CASE f = a
    <3>1. g = c + m[c]
      BY <2>1, <1>2
    <3>2. c = a
      BY <3>1, <1>1, <1>2
    <3> QED BY <3>2, <1>2
  <2>2. CASE f # a
    BY <2>2, <1>1, <1>4
  <2> QED BY <2>1, <2>2
<1>9. Keeps(m, w, U)
  <2> SUFFICES ASSUME NEW u \in U, NEW x \in u..(u + m[u] - 1)
               PROVE  w[x] = m[x]
    BY DEF Keeps
  <2>1. u # a
    BY <1>1
  <2> QED BY <2>1, <1>3
<1>10. F \ {c} \in SUBSET Addr /\ (F \ {c}) \cap U = {}
  BY <1>1
<1> QED BY <1>1, <1>5, <1>6, <1>7, <1>8, <1>9, <1>10 DEF Arena

-----------------------------------------------------------------------------
(* Every word of the heap is in a block.                                   *)
LEMMA Covered ==
  ASSUME NEW m \in [Addr -> Int], NEW e \in DataStart..HeapMax, NEW B \in SUBSET Addr,
         TilesIn(m, e, B), NEW a \in Nat, DataStart <= a, a < e
  PROVE  \E b \in B : b <= a /\ a < b + m[b]
<1>1. \A b \in B : b \in Nat /\ m[b] \in Nat /\ m[b] >= 2 /\ b + m[b] <= e
  BY BlockRoom
<1>2. e \in Nat /\ DataStart \in Nat
  BY AddrIsNat
<1>3. PICK T : T = {e - b : b \in {c \in B : c <= a}}
  OBVIOUS
<1>4. DataStart \in B
  BY <1>2 DEF TilesIn
<1>5. T \subseteq Nat /\ T # {}
  <2>1. T \subseteq Nat
    BY <1>1, <1>2, <1>3
  <2>2. e - DataStart \in T
    BY <1>3, <1>4
  <2> QED BY <2>1, <2>2
<1>6. PICK x \in T : \A y \in T : <<y, x>> \notin OpToRel(<, Nat)
  BY <1>5, NatLessThanWellFounded, WFMin
<1>7. \A y \in T : ~(y < x)
  BY <1>5, <1>6 DEF OpToRel
<1>8. PICK b \in B : b <= a /\ x = e - b
  BY <1>3
<1>9. SUFFICES ASSUME b + m[b] <= a PROVE FALSE
  BY <1>1, <1>8
<1>10. b + m[b] \in B
  BY <1>1, <1>2, <1>9 DEF TilesIn
<1>11. e - (b + m[b]) \in T
  BY <1>3, <1>9, <1>10
<1>12. e - (b + m[b]) < x
  BY <1>1, <1>2, <1>8
<1> QED BY <1>7, <1>11, <1>12

-----------------------------------------------------------------------------
(***************************************************************************)
(* The proofs about the allocator: between any two of its steps the heap   *)
(* is whole.  HeapInv is the inductive invariant: beside the shape of the  *)
(* heap it says where the loop at work stands in the list, what malloc has *)
(* passed, and what realloc has already done when its old block goes back. *)
(* One lemma for each action says that HeapInv holds after it, and what it *)
(* leaves alone; the refinement needs the latter.                          *)
(***************************************************************************)
-----------------------------------------------------------------------------
(***************************************************************************)
(* The inductive invariant                                                 *)
(***************************************************************************)
(* No request is so large that the count of its words wraps.               *)
NoWrap == \A sz \in Sizes : sz + 1 < SizeMod

(* The loop at work stands somewhere in the list.                          *)
Position(F) == ready /\ PlaceIn(mem, Head, F, prev, cur)

(* The free blocks that malloc has passed were no good: too small, and     *)
(* none that it could have let grow.                                       *)
Passed(F) == \A f \in F : f <= prev => Size(f) < arg /\ f + Size(f) # heapEnd

Allocating(F) ==
  /\ call.kind \in {"malloc", "calloc", "realloc"}
  /\ call.sz \in Sizes
  /\ arg = RealSizeWords(call.sz)
  /\ call.kind = "realloc" => call.p \in DOMAIN live
  /\ Passed(F)

Growing ==
  /\ call.kind = "realloc"
  /\ call.p \in DOMAIN live
  /\ call.sz \in Sizes
  /\ arg = call.p - 1
  /\ Grows(call.p, call.sz)

(* realloc has a new block, with what fits of the old contents in it.      *)
Moved ==
  /\ call.sz \in Sizes
  /\ call.result \in Addr \ DOMAIN live
  /\ call.sz < Size(call.result - 1)
  /\ \A k \in Nat : k < call.sz /\ k < live[call.p] =>
       mem[call.result + k] = mem[call.p + k]

Freeing ==
  /\ prev < arg
  /\ \/ call.kind = "free" /\ call.p \in DOMAIN live /\ arg = call.p - 1
     \/ call.kind = "realloc" /\ call.p \in DOMAIN live /\ arg = call.p - 1 /\ Moved
     \/ call.kind = "shrink" /\ arg + 1 \notin DOMAIN live

LoopOK(F) ==
  /\ pc # "idle" => Position(F)
  /\ pc = "malloc" => Allocating(F)
  /\ pc = "grow" => Growing
  /\ pc = "free" => Freeing

(* F is the set of the free blocks.                                        *)
Good(F) ==
  /\ TypeOK
  /\ PayloadFits
  /\ ready => heapEnd # 0
  /\ Arena(mem, Head, End, F, Used)
  /\ LoopOK(F)

HeapInv == \E F \in SUBSET Addr : Good(F)

(* The blocks of the program.                                              *)
Held == {p - 1 : p \in DOMAIN live}

-----------------------------------------------------------------------------
LEMMA RealSize ==
  ASSUME NoWrap, NEW sz \in Sizes
  PROVE  /\ sz \in Nat /\ RealSizeWords(sz) \in Nat
         /\ RealSizeWords(sz) >= 2 /\ RealSizeWords(sz) > sz
<1>1. sz \in Nat /\ sz + 1 \in Nat /\ SizeMod \in Nat /\ sz + 1 < SizeMod
  BY SizesAssumption, AddressAssumption DEF NoWrap
<1>2. (sz + 1) % SizeMod = sz + 1
  BY <1>1, ModSmall
<1> QED BY <1>1, <1>2 DEF RealSizeWords

(* A block that can be split leaves two words or more.                     *)
LEMMA SplitRoom ==
  ASSUME NEW words \in Nat, NEW need \in Nat, words <= HeapMax, need <= words,
         ~TooSmallToSplit(words, need)
  PROVE  words - need >= 2
<1>1. need + 2 \in Nat /\ SizeMod \in Nat /\ need + 2 < SizeMod
  BY AddressAssumption
<1>2. (need + 2) % SizeMod = need + 2
  BY <1>1, ModSmall
<1> QED BY <1>2 DEF TooSmallToSplit

(* What is known of a block of the program.                                *)
LEMMA HeldBlock ==
  ASSUME NEW F, Good(F), NEW p \in DOMAIN live
  PROVE  /\ p \in Nat /\ p \in Addr /\ p - 1 \in Used /\ p - 1 \in Nat /\ p - 1 \in Addr
         /\ live[p] \in Nat /\ mem[p - 1] \in Nat /\ live[p] < mem[p - 1] /\ live[p] \in Sizes
         /\ (p - 1) + mem[p - 1] <= End
<1>1. p \in Addr /\ live[p] \in Sizes /\ live[p] <= Size(p - 1) - 1
  BY DEF Good, TypeOK, PayloadFits
<1>2. p \in Nat /\ live[p] \in Nat
  <2>1. Sizes \subseteq Nat
    BY SizesAssumption, AddressAssumption
  <2> QED BY <2>1, <1>1, AddrIsNat
<1>3. p - 1 \in Used
  BY DEF Used
<1>4. Arena(mem, Head, End, F, Used)
  BY DEF Good
<1>5. p - 1 \in Nat /\ p - 1 \in Addr /\ mem[p - 1] \in Nat /\ (p - 1) + mem[p - 1] <= End
  BY <1>3, <1>4, ArenaBlock
<1> QED BY <1>1, <1>2, <1>3, <1>5 DEF Size

LEMMA HeldWord ==
  ASSUME NEW F, Good(F), NEW p \in DOMAIN live, NEW k \in Nat, k < live[p]
  PROVE  p + k \in (p - 1)..((p - 1) + mem[p - 1] - 1) /\ p + k \in Addr /\ p + k > p - 1
<1>1. p + k \in (p - 1)..((p - 1) + mem[p - 1] - 1) /\ p + k > p - 1
  BY HeldBlock
<1>2. Arena(mem, Head, End, F, Used) /\ p - 1 \in Used
  BY HeldBlock DEF Good
<1>3. p + k \in Addr
  BY <1>1, <1>2, ArenaWords
<1> QED BY <1>1, <1>3

LEMMA UsedOutside ==
  ASSUME pc # "free" \/ call.kind = "free"
  PROVE  Used = Held
BY DEF Used, Held

LEMMA GoodReady ==
  ASSUME NEW F, Good(F), ready
  PROVE  Head = freeHead /\ End = heapEnd /\ heapEnd \in DataStart..HeapMax
BY DEF Good, TypeOK, Head, End

(* Nothing moves: the next place of a loop.                                *)
LEMMA AdvanceOK ==
  ASSUME NEW F, Good(F), Advance, pc # "idle", cur # 0,
         pc = "malloc" => Size(cur) < arg /\ ~AtHeapEnd,
         pc = "free" => cur < arg
  PROVE  Good(F)'
<1>1. /\ mem' = mem /\ heapEnd' = heapEnd /\ freeHead' = freeHead /\ ready' = ready
      /\ live' = live /\ call' = call /\ pc' = pc /\ arg' = arg
      /\ prev' = cur /\ cur' = mem[cur + 1]
  BY DEF Advance, NextFree
<1>2. Head' = Head /\ End' = End /\ Used' = Used
  BY <1>1 DEF Head, End, Used
<1>3. Arena(mem, Head, End, F, Used)'
  BY <1>1, <1>2 DEF Good
<1>4. /\ F \in SUBSET Addr /\ ThreadsIn(mem, Head, F)
      /\ PlaceIn(mem, Head, F, prev, cur) /\ ready
  BY DEF Good, Arena, LoopOK, Position
<1>5. PlaceIn(mem, Head, F, cur, mem[cur + 1])
  BY <1>4, PlaceNext
<1>6. /\ prev \in Nat /\ cur \in F /\ cur \in Nat /\ prev < cur
      /\ \A g \in F : g <= prev \/ cur <= g
      /\ mem[cur + 1] \in F \cup {0}
  BY <1>4, <1>5, PlaceFacts
<1>7. Position(F)'
  BY <1>1, <1>2, <1>4, <1>5 DEF Position
<1>8. TypeOK'
  BY <1>1, <1>4, <1>6 DEF Good, TypeOK
<1>9. PayloadFits' /\ (ready => heapEnd # 0)'
  BY <1>1 DEF Good, PayloadFits, Size
<1>10. pc = "malloc" => Allocating(F)'
  <2> SUFFICES ASSUME pc = "malloc" PROVE Allocating(F)'
    OBVIOUS
  <2>1. Allocating(F) /\ Size(cur) < arg /\ ~AtHeapEnd
    BY DEF Good, LoopOK
  <2>2. cur + mem[cur] # heapEnd
    <3> SUFFICES ASSUME cur + mem[cur] = heapEnd PROVE FALSE
      OBVIOUS
    <3>1. mem[cur + 1] # 0
      BY <2>1 DEF AtHeapEnd, NextFree, Size
    <3>2. mem[cur + 1] \in F /\ cur < mem[cur + 1]
      BY <1>4, <1>5, <1>6, <3>1, PlaceFacts
    <3>3. Arena(mem, Head, heapEnd, F, Used)
      BY <1>4, GoodReady DEF Good
    <3>4. cur + mem[cur] <= mem[cur + 1]
      BY <1>6, <3>2, <3>3, ArenaBlock
    <3>5. /\ mem[cur + 1] \in Nat /\ mem[mem[cur + 1]] \in Nat /\ mem[mem[cur + 1]] >= 2
          /\ mem[cur + 1] + mem[mem[cur + 1]] <= heapEnd /\ heapEnd \in Nat
      BY <3>2, <3>3, ArenaBlock
    <3> QED BY <3>4, <3>5
  <2>3. \A f \in F : f <= cur => f <= prev \/ f = cur
    BY <1>4, <1>6, AddrIsNat
  <2>4. Passed(F)'
    BY <1>1, <2>1, <2>2, <2>3 DEF Passed, Size, Allocating
  <2> QED BY <1>1, <2>1, <2>4 DEF Allocating
<1>11. pc = "grow" => Growing'
  BY <1>1 DEF Good, LoopOK, Growing, Grows, Size
<1>12. pc = "free" => Freeing'
  BY <1>1 DEF Good, LoopOK, Freeing, Moved, Size
<1> QED BY <1>1, <1>3, <1>7, <1>8, <1>9, <1>10, <1>11, <1>12 DEF Good, LoopOK

(* A loop starts at the head of the list.                                  *)
LEMMA StartOK ==
  ASSUME NEW F, Good(F), EnsureHeapInit, mem' = mem, live' = live, Used' = Used,
         NEW loop \in {"malloc", "free", "grow"}, NEW a \in Nat, Scan(loop, Head, a),
         call' \in Call,
         loop = "malloc" =>
           /\ call'.kind \in {"malloc", "calloc", "realloc"}
           /\ call'.sz \in Sizes
           /\ a = RealSizeWords(call'.sz)
           /\ call'.kind = "realloc" => call'.p \in DOMAIN live,
         loop = "grow" => Growing',
         loop = "free" => Freeing'
  PROVE  Good(F)'
<1>1. /\ ready' = TRUE /\ heapEnd' = End /\ freeHead' = Head
      /\ pc' = loop /\ prev' = 0 /\ cur' = Head /\ arg' = a
  BY DEF EnsureHeapInit, Scan
<1>2. Head' = Head /\ End' = End
  BY <1>1 DEF Head, End
<1>3. Arena(mem, Head, End, F, Used)'
  BY <1>2 DEF Good
<1>4. F \in SUBSET Addr /\ ThreadsIn(mem, Head, F) /\ End \in DataStart..HeapMax
  BY DEF Good, Arena
<1>5. PlaceIn(mem, Head, F, 0, Head)
  BY DEF PlaceIn
<1>6. Head \in F \cup {0}
  BY <1>4, <1>5, PlaceFacts
<1>7. Position(F)'
  BY <1>1, <1>2, <1>5 DEF Position
<1>8. TypeOK'
  <2>1. mem' \in [Addr -> Int] /\ DOMAIN live' \subseteq Addr /\ \A p \in DOMAIN live' : live'[p] \in Sizes
    BY DEF Good, TypeOK
  <2> QED BY <2>1, <1>1, <1>4, <1>6 DEF TypeOK
<1>9. PayloadFits' /\ (ready => heapEnd # 0)'
  BY <1>1, <1>4, AddrIsNat DEF Good, PayloadFits, Size
<1>10. Passed(F)'
  BY <1>1, <1>4, AddrIsNat DEF Passed
<1>11. LoopOK(F)'
  BY <1>1, <1>7, <1>10 DEF LoopOK, Allocating
<1> QED BY <1>3, <1>8, <1>9, <1>11 DEF Good

LEMMA MallocCallOK ==
  ASSUME NoWrap, NEW F, Good(F), MallocCall
  PROVE  Good(F)'
<1>1. /\ pc = "idle" /\ EnsureHeapInit /\ mem' = mem /\ live' = live
  BY DEF MallocCall, Idle
<1>2. PICK sz \in Sizes, kind \in {"malloc", "calloc"} :
        /\ call' = [NoCall EXCEPT !.kind = kind, !.sz = sz]
        /\ Scan("malloc", Head, RealSizeWords(sz))
  BY DEF MallocCall
<1>3. call' = [kind |-> kind, p |-> 0, sz |-> sz, result |-> 0]
  BY <1>2 DEF NoCall
<1>4. call' \in Call
  BY <1>3 DEF Call
<1>5. Used' = Used
  BY <1>1, <1>2, <1>3 DEF Used, Scan
<1>6. RealSizeWords(sz) \in Nat
  BY RealSize
<1> QED BY <1>1, <1>2, <1>3, <1>4, <1>5, <1>6, StartOK

LEMMA FreeCallOK ==
  ASSUME NEW F, Good(F), FreeCall
  PROVE  Good(F)'
<1>1. /\ pc = "idle" /\ EnsureHeapInit /\ mem' = mem /\ live' = live
  BY DEF FreeCall, Idle
<1>2. PICK p \in DOMAIN live :
        /\ call' = [NoCall EXCEPT !.kind = "free", !.p = p]
        /\ Scan("free", Head, p - 1)
  BY DEF FreeCall
<1>3. call' = [kind |-> "free", p |-> p, sz |-> 0, result |-> 0]
  BY <1>2 DEF NoCall
<1>4. p \in Addr /\ p - 1 \in Nat /\ p - 1 \in Addr
  BY HeldBlock
<1>5. call' \in Call
  BY <1>3, <1>4 DEF Call
<1>6. Used' = Used
  BY <1>1, <1>2, <1>3 DEF Used, Scan
<1>7. Freeing'
  BY <1>1, <1>2, <1>3, <1>4, AddrIsNat DEF Freeing, Scan
<1> QED BY <1>1, <1>2, <1>4, <1>5, <1>6, <1>7, StartOK

LEMMA MoveFromEndOK ==
  ASSUME NoWrap, NEW F, Good(F), NEW p \in DOMAIN live, NEW sz \in Sizes \ {0}, MoveFromEnd(p, sz)
  PROVE  Good(F)'
<1>1. /\ pc = "idle" /\ EnsureHeapInit /\ mem' = mem /\ live' = live
      /\ call' = Realloc(p, sz) /\ Scan("malloc", Head, RealSizeWords(sz))
  BY DEF MoveFromEnd, Resizing, Idle
<1>2. call' = [kind |-> "realloc", p |-> p, sz |-> sz, result |-> 0]
  BY <1>1 DEF NoCall, Realloc
<1>3. p \in Addr
  BY HeldBlock
<1>4. call' \in Call
  BY <1>2, <1>3 DEF Call
<1>5. Used' = Used
  BY <1>1, <1>2 DEF Used, Scan
<1>6. RealSizeWords(sz) \in Nat
  BY RealSize
<1> QED BY <1>1, <1>2, <1>4, <1>5, <1>6, StartOK

LEMMA GrowSearchOK ==
  ASSUME NEW F, Good(F), NEW p \in DOMAIN live, NEW sz \in Sizes \ {0}, GrowSearch(p, sz)
  PROVE  Good(F)'
<1>1. /\ pc = "idle" /\ EnsureHeapInit /\ mem' = mem /\ live' = live
      /\ call' = Realloc(p, sz) /\ Scan("grow", Head, p - 1) /\ Grows(p, sz)
  BY DEF GrowSearch, Resizing, Idle
<1>2. call' = [kind |-> "realloc", p |-> p, sz |-> sz, result |-> 0]
  BY <1>1 DEF NoCall, Realloc
<1>3. p \in Addr /\ p - 1 \in Nat
  BY HeldBlock
<1>4. call' \in Call
  BY <1>2, <1>3 DEF Call
<1>5. Used' = Used
  BY <1>1, <1>2 DEF Used, Scan
<1>6. Growing'
  BY <1>1, <1>2 DEF Growing, Grows, Size, Scan
<1> QED BY <1>1, <1>2, <1>3, <1>4, <1>5, <1>6, StartOK

LEMMA GrowElsewhereOK ==
  ASSUME NoWrap, NEW F, Good(F), GrowElsewhere
  PROVE  Good(F)'
<1>1. /\ pc = "grow" /\ Scan("malloc", freeHead, RealSizeWords(call.sz))
      /\ mem' = mem /\ heapEnd' = heapEnd /\ freeHead' = freeHead /\ ready' = ready
      /\ live' = live /\ call' = call
  BY DEF GrowElsewhere
<1>2. Growing /\ ready
  BY <1>1 DEF Good, LoopOK, Position
<1>3. Head = freeHead /\ End = heapEnd /\ ready = TRUE
  BY <1>2, GoodReady DEF Good, TypeOK
<1>4. EnsureHeapInit
  BY <1>1, <1>3 DEF EnsureHeapInit
<1>5. call' \in Call
  BY <1>1 DEF Good, TypeOK
<1>6. Used' = Used
  BY <1>1 DEF Used, Scan
<1>7. RealSizeWords(call.sz) \in Nat
  BY <1>2, RealSize DEF Growing
<1> QED BY <1>1, <1>2, <1>3, <1>4, <1>5, <1>6, <1>7, StartOK DEF Growing

-----------------------------------------------------------------------------
LEMMA KeepsThen ==
  ASSUME NEW m, NEW w, NEW z, NEW U, \A u \in U : u \in Nat /\ m[u] \in Nat /\ m[u] >= 2,
         Keeps(m, w, U), Keeps(w, z, U)
  PROVE  Keeps(m, z, U)
<1> SUFFICES ASSUME NEW u \in U, NEW x \in u..(u + m[u] - 1)
             PROVE  z[x] = m[x]
  BY DEF Keeps
<1>1. u \in u..(u + m[u] - 1)
  OBVIOUS
<1>2. w[u] = m[u] /\ w[x] = m[x]
  BY <1>1 DEF Keeps
<1> QED BY <1>2 DEF Keeps

(* A new block is filled.                                                  *)
LEMMA FillNew ==
  ASSUME NEW m, NEW h, NEW e, NEW F, NEW U, NEW b, Arena(m, h, e, F, U \cup {b}), b \notin U,
         NEW z, \A u \in U : u \in Nat /\ z[u] \in Nat /\ z[u] >= 2, Keeps(z, m, U),
         NEW w \in [Addr -> Int], \A x \in Addr : ~(b < x /\ x < b + m[b]) => w[x] = m[x]
  PROVE  /\ Arena(w, h, e, F, U \cup {b})
         /\ w[b] = m[b]
         /\ Keeps(z, w, U)
<1> DEFINE V == U \cup {b}
<1>1. b \in V /\ V \ {b} = U /\ Arena(m, h, e, F, V)
  OBVIOUS
<1> HIDE DEF V
<1>2. WrittenIn(m, w, b)
  BY DEF WrittenIn
<1>3. Arena(w, h, e, F, V) /\ SameHeads(m, w, F \cup V) /\ Keeps(m, w, V \ {b})
  BY <1>1, <1>2, ArenaOverwrite
<1>4. Keeps(z, w, U)
  BY <1>1, <1>3, KeepsThen
<1> QED BY <1>1, <1>3, <1>4 DEF V, SameHeads

(* The program gets a block, or nothing yet.                               *)
Handed ==
  \/ live' = live
  \/ \E a \in Addr \ DOMAIN live, n \in Sizes : live' = WithBlock(a, n)

(* malloc has found or made a block: it is handed out, or realloc goes on. *)
LEMMA ReturnOK ==
  ASSUME NoWrap, NEW F, Good(F), pc = "malloc", ready' = ready,
         NEW b, NEW m, NEW h, NEW G, Return(b, m, h),
         Arena(m, h, heapEnd', G, Used \cup {b}), b \notin Used, m[b] >= arg,
         Keeps(mem, m, Used)
  PROVE  /\ Good(G)'
         /\ Keeps(mem, mem', Used)
         /\ Handed
<1>1. /\ Allocating(F) /\ ready = TRUE
      /\ call.kind \in {"malloc", "calloc", "realloc"}
      /\ call.sz \in Sizes
      /\ arg = RealSizeWords(call.sz)
      /\ call.kind = "realloc" => call.p \in DOMAIN live
  BY DEF Good, LoopOK, Allocating, Position, TypeOK
<1>2. freeHead' = h /\ call \in Call
  BY DEF Return, Good, TypeOK
<1>3. /\ m \in [Addr -> Int] /\ heapEnd' \in DataStart..HeapMax /\ G \in SUBSET Addr
      /\ ThreadsIn(m, h, G)
  BY DEF Arena
<1>4. /\ b \in Nat /\ b \in Addr /\ m[b] \in Nat /\ b + m[b] <= HeapMax
      /\ b + 1 \in Addr
  <2>1. b \in G \cup (Used \cup {b})
    OBVIOUS
  <2>2. /\ b \in Nat /\ b \in Addr /\ m[b] \in Nat /\ b + m[b] <= heapEnd' /\ b + 1 \in Addr
        /\ heapEnd' \in Nat /\ heapEnd' <= HeapMax
    BY <2>1, ArenaBlock
  <2> QED BY <2>2, AddrIsNat
<1>5. call.sz \in Nat /\ call.sz < m[b]
  BY <1>1, <1>4, RealSize
<1>6. \A u \in Used : u \in Nat /\ mem[u] \in Nat /\ mem[u] >= 2
  <2> SUFFICES ASSUME NEW u \in Used PROVE u \in Nat /\ mem[u] \in Nat /\ mem[u] >= 2
    OBVIOUS
  <2>1. Arena(mem, Head, End, F, Used)
    BY DEF Good
  <2> QED BY <2>1, ArenaBlock
<1>7. Used = Held
  BY UsedOutside
<1>8. b + 1 \notin DOMAIN live
  BY <1>4, <1>7 DEF Held
<1>9. Head' = h /\ End' = heapEnd'
  BY <1>1, <1>2 DEF Head, End
<1>10. h \in G \cup {0} /\ G \in SUBSET Addr
  <2>1. PlaceIn(m, h, G, 0, h)
    BY DEF PlaceIn
  <2> QED BY <2>1, <1>3, PlaceFacts
<1>11. \A p \in DOMAIN live : p \in Addr /\ live[p] \in Sizes /\ live[p] < mem[p - 1] /\ p - 1 \in Used
                              /\ live[p] \in Nat /\ mem[p - 1] \in Nat
  BY HeldBlock
<1>12. ASSUME NEW w \in [Addr -> Int], Arena(w, h, heapEnd', G, Used \cup {b}), w[b] = m[b],
              Keeps(mem, w, Used), mem' = w, live' = WithBlock(b + 1, call.sz), Done
       PROVE  Good(G)'
  <2>1. /\ pc' = "idle" /\ call' = NoCall /\ prev' = 0 /\ cur' = 0 /\ arg' = 0
    BY <1>12 DEF Done
  <2>2. DOMAIN live' = DOMAIN live \cup {b + 1} /\ live'[b + 1] = call.sz
        /\ \A p \in DOMAIN live : live'[p] = live[p]
    BY <1>8, <1>12 DEF WithBlock
  <2>3. Used' = Used \cup {b}
    BY <2>1, <2>2, <1>4, <1>7 DEF Used, Held
  <2>4. Arena(mem, Head, End, G, Used)'
    BY <2>3, <1>9, <1>12
  <2>5. PayloadFits'
    <3> SUFFICES ASSUME NEW p \in DOMAIN live' PROVE live'[p] <= mem'[p - 1] - 1
      BY DEF PayloadFits, Size
    <3>1. CASE p = b + 1
      <4>1. p - 1 = b /\ live'[p] = call.sz /\ mem'[b] = m[b]
        BY <3>1, <2>2, <1>4, <1>12
      <4> QED BY <4>1, <1>4, <1>5
    <3>2. CASE p \in DOMAIN live
      <4>1. p - 1 \in (p - 1)..((p - 1) + mem[p - 1] - 1)
        BY <3>2, <1>6, <1>11
      <4>2. mem'[p - 1] = mem[p - 1]
        BY <3>2, <4>1, <1>11, <1>12 DEF Keeps
      <4> QED BY <3>2, <4>2, <2>2, <1>11
    <3> QED BY <3>1, <3>2, <2>2
  <2>6. call' \in Call
    BY <2>1 DEF NoCall, Call
  <2>7. TypeOK'
    BY <2>1, <2>2, <2>6, <1>1, <1>2, <1>3, <1>4, <1>10, <1>11, <1>12 DEF TypeOK
  <2>8. (ready => heapEnd # 0)'
    BY <1>3, AddrIsNat
  <2>9. LoopOK(G)'
    BY <2>1 DEF LoopOK
  <2> QED BY <2>4, <2>5, <2>7, <2>8, <2>9 DEF Good
<1>13. CASE call.kind = "malloc"
  <2>1. mem' = m /\ live' = WithBlock(b + 1, call.sz) /\ Done
    BY <1>13 DEF Return
  <2> QED BY <2>1, <1>1, <1>3, <1>4, <1>8, <1>12 DEF Handed
<1>14. CASE call.kind = "calloc"
  <2>1. mem' = Zeroed(m, b + 1, call.sz) /\ live' = WithBlock(b + 1, call.sz) /\ Done
    BY <1>14 DEF Return
  <2>2. mem' \in [Addr -> Int]
    BY <2>1, <1>3 DEF Zeroed
  <2>3. ASSUME NEW x \in Addr, ~(b < x /\ x < b + m[b])
        PROVE  mem'[x] = m[x]
    <3>1. x \in Nat
      BY AddrIsNat
    <3>2. x \notin (b + 1)..(b + 1 + call.sz - 1)
      BY <3>1, <2>3, <1>4, <1>5
    <3> QED BY <3>2, <2>1 DEF Zeroed
  <2>4. Arena(mem', h, heapEnd', G, Used \cup {b}) /\ mem'[b] = m[b] /\ Keeps(mem, mem', Used)
    BY <2>2, <2>3, <1>6, FillNew
  <2> QED BY <2>1, <2>2, <2>4, <1>1, <1>4, <1>8, <1>12 DEF Handed
<1>15. CASE call.kind = "realloc"
  <2> DEFINE p == call.p
             n == CopyLength
  <2>1. /\ mem' = Copied(m, b + 1, p, n) /\ call' = [call EXCEPT !.result = b + 1]
        /\ Scan("free", h, p - 1) /\ live' = live
    BY <1>15 DEF Return
  <2>2. p \in DOMAIN live /\ p \in Addr /\ p \in Nat /\ p - 1 \in Nat /\ p - 1 \in Used
        /\ live[p] \in Nat /\ mem[p - 1] \in Nat /\ live[p] < mem[p - 1] /\ p - 1 > 0
    BY <1>1, <1>15, HeldBlock, AddrIsNat
  <2>3. n \in Nat /\ n <= call.sz /\ n < mem[p - 1]
        /\ \A k \in Nat : k < call.sz /\ k < live[p] => k < n
    BY <2>2, <1>5 DEF CopyLength, Size
  <2> HIDE DEF n
  <2>4. ASSUME NEW k \in Nat, k < n
        PROVE  p + k \in Addr /\ p + k \in (p - 1)..((p - 1) + mem[p - 1] - 1)
    <3>1. p + k \in (p - 1)..((p - 1) + mem[p - 1] - 1)
      BY <2>2, <2>3, <2>4
    <3>2. Arena(mem, Head, End, F, Used)
      BY DEF Good
    <3> QED BY <3>1, <3>2, <2>2, ArenaWords
  <2>5. mem' = [x \in Addr |-> IF x \in (b + 1)..(b + 1 + n - 1) THEN m[p + (x - (b + 1))] ELSE m[x]]
    BY <2>1 DEF Copied
  <2>6. mem' \in [Addr -> Int]
    <3> SUFFICES ASSUME NEW x \in Addr, x \in (b + 1)..(b + 1 + n - 1)
                 PROVE  m[p + (x - (b + 1))] \in Int
      BY <2>5, <1>3
    <3>1. x - (b + 1) \in Nat /\ x - (b + 1) < n
      BY <1>4, <2>3
    <3> QED BY <3>1, <2>4, <1>3
  <2>7. ASSUME NEW x \in Addr, ~(b < x /\ x < b + m[b])
        PROVE  mem'[x] = m[x]
    <3>1. x \in Nat
      BY AddrIsNat
    <3>2. x \notin (b + 1)..(b + 1 + n - 1)
      BY <3>1, <2>3, <2>7, <1>4, <1>5
    <3> QED BY <3>2, <2>5
  <2>8. Arena(mem', h, heapEnd', G, Used \cup {b}) /\ mem'[b] = m[b] /\ Keeps(mem, mem', Used)
    BY <2>6, <2>7, <1>6, FillNew
  <2>9. /\ call'.kind = "realloc" /\ call'.p = p /\ call'.sz = call.sz /\ call'.result = b + 1
        /\ call' \in Call
    BY <2>1, <1>2, <1>4, <1>15 DEF Call
  <2>10. pc' = "free" /\ prev' = 0 /\ cur' = h /\ arg' = p - 1
    BY <2>1 DEF Scan
  <2>11. Used' = Used \cup {b}
    <3>1. call'.result - 1 = b
      BY <2>9, <1>4
    <3>2. Used' = {u - 1 : u \in DOMAIN live} \cup {b}
      BY <2>1, <2>9, <2>10, <3>1 DEF Used
    <3> QED BY <3>2, <1>7 DEF Held
  <2>12. Arena(mem, Head, End, G, Used)'
    BY <2>8, <2>11, <1>9
  <2>13. \A u \in DOMAIN live : mem'[u - 1] = mem[u - 1]
    <3> SUFFICES ASSUME NEW u \in DOMAIN live PROVE mem'[u - 1] = mem[u - 1]
      OBVIOUS
    <3>1. u - 1 \in (u - 1)..((u - 1) + mem[u - 1] - 1) /\ u - 1 \in Used
      BY <1>6, <1>11
    <3> QED BY <3>1, <2>8 DEF Keeps
  <2>14. PayloadFits'
    BY <2>1, <2>13, <1>11 DEF PayloadFits, Size
  <2>15. ASSUME NEW k \in Nat, k < call.sz, k < live[p]
         PROVE  mem'[(b + 1) + k] = mem'[p + k]
    <3>1. k < n
      BY <2>3, <2>15
    <3>2. p + k \in Addr /\ p + k \in (p - 1)..((p - 1) + mem[p - 1] - 1)
      BY <3>1, <2>4
    <3>3. mem'[p + k] = mem[p + k] /\ m[p + k] = mem[p + k]
      BY <3>2, <2>2, <2>8 DEF Keeps
    <3> DEFINE x == (b + 1) + k
    <3>4. /\ x \in Nat /\ x \in (b + 1)..(b + 1 + n - 1) /\ x - (b + 1) = k
          /\ DataStart <= x /\ x < HeapMax
      BY <3>1, <2>3, <1>4, <1>5, AddrIsNat
    <3>5. x \in Addr
      BY <3>4, AddrIsNat
    <3> HIDE DEF x
    <3>6. mem'[x] = m[p + (x - (b + 1))]
      BY <3>4, <3>5, <2>5
    <3>7. mem'[x] = m[p + k]
      BY <3>4, <3>6
    <3> QED BY <3>3, <3>7 DEF x
  <2>16. Moved'
    BY <2>1, <2>8, <2>9, <2>15, <1>1, <1>4, <1>5, <1>8 DEF Moved, Size
  <2>17. Freeing'
    BY <2>1, <2>2, <2>9, <2>10, <2>16 DEF Freeing
  <2>18. Position(G)'
    BY <2>10, <1>1, <1>9 DEF Position, PlaceIn
  <2>19. LoopOK(G)'
    BY <2>10, <2>17, <2>18 DEF LoopOK
  <2>20. TypeOK'
    BY <2>1, <2>2, <2>6, <2>9, <2>10, <1>1, <1>2, <1>3, <1>10, <1>11 DEF TypeOK
  <2>21. (ready => heapEnd # 0)'
    BY <1>3, AddrIsNat
  <2> QED BY <2>1, <2>8, <2>12, <2>14, <2>19, <2>20, <2>21 DEF Good, Handed
<1> QED BY <1>1, <1>13, <1>14, <1>15

(* What malloc knows at each step of its loop.                             *)
LEMMA MallocAt ==
  ASSUME NoWrap, NEW F, Good(F), pc = "malloc"
  PROVE  /\ Arena(mem, freeHead, heapEnd, F, Used) /\ F \in SUBSET Addr /\ F \cap Used = {}
         /\ PlaceIn(mem, freeHead, F, prev, cur) /\ prev \in Nat /\ cur \in Nat
         /\ arg \in Nat /\ arg >= 2
         /\ cur # 0 => /\ cur \in F /\ cur \notin Used /\ cur \in Addr /\ cur + 1 \in Addr
                       /\ mem[cur] \in Nat /\ mem[cur] >= 2 /\ mem[cur] <= HeapMax
                       /\ cur + mem[cur] <= heapEnd
         /\ mem \in [Addr -> Int] /\ heapEnd \in DataStart..HeapMax
<1>1. ready /\ PlaceIn(mem, Head, F, prev, cur) /\ Allocating(F)
  BY DEF Good, LoopOK, Position
<1>2. Head = freeHead /\ End = heapEnd /\ heapEnd \in DataStart..HeapMax
  BY <1>1, GoodReady
<1>3. Arena(mem, freeHead, heapEnd, F, Used)
  BY <1>2 DEF Good
<1>4. F \in SUBSET Addr /\ ThreadsIn(mem, freeHead, F) /\ F \cap Used = {} /\ mem \in [Addr -> Int]
  BY <1>3 DEF Arena
<1>5. prev \in Nat /\ cur \in Nat /\ (cur # 0 => cur \in F)
  BY <1>1, <1>2, <1>4, PlaceFacts
<1>6. arg \in Nat /\ arg >= 2
  BY <1>1, RealSize DEF Allocating
<1>7. ASSUME cur # 0
      PROVE  /\ cur \in F /\ cur \notin Used /\ cur \in Addr /\ cur + 1 \in Addr
             /\ mem[cur] \in Nat /\ mem[cur] >= 2 /\ mem[cur] <= HeapMax
             /\ cur + mem[cur] <= heapEnd
  <2>1. /\ cur \in Nat /\ mem[cur] \in Nat /\ mem[cur] >= 2 /\ cur + mem[cur] <= heapEnd
        /\ cur + 1 \in Addr /\ heapEnd \in Nat /\ heapEnd <= HeapMax
    BY <1>3, <1>5, <1>7, ArenaBlock
  <2> QED BY <2>1, <1>4, <1>5, <1>7, AddrIsNat
<1> QED BY <1>1, <1>2, <1>3, <1>4, <1>5, <1>6, <1>7

LEMMA GoodIsInv ==
  ASSUME NEW G, Good(G)'
  PROVE  HeapInv'
<1>1. G \in SUBSET Addr
  BY DEF Good, Arena
<1> QED BY <1>1 DEF HeapInv

LEMMA TakeWholeOK ==
  ASSUME NoWrap, NEW F, Good(F), TakeWhole
  PROVE  HeapInv' /\ Keeps(mem, mem', Used) /\ Handed
<1>1. /\ pc = "malloc" /\ cur # 0 /\ mem[cur] >= arg
      /\ heapEnd' = heapEnd /\ ready' = ready
      /\ Return(cur, LinkIn(mem, prev, mem[cur + 1]), HeadIn(freeHead, prev, mem[cur + 1]))
  BY DEF TakeWhole, Fits, Size, NextFree, Linked, LinkedHead, LinkIn, HeadIn
<1>2. PICK m, h, G : /\ m = LinkIn(mem, prev, mem[cur + 1])
                     /\ h = HeadIn(freeHead, prev, mem[cur + 1])
                     /\ G = F \ {cur}
  OBVIOUS
<1>3. /\ Arena(mem, freeHead, heapEnd, F, Used) /\ PlaceIn(mem, freeHead, F, prev, cur)
      /\ cur \in F /\ cur \notin Used
  BY <1>1, MallocAt
<1>4. m = LinkIn(mem, prev, mem[cur + 1]) /\ h = HeadIn(freeHead, prev, mem[cur + 1]) /\ cur # 0
  BY <1>1, <1>2
<1>5. Arena(m, h, heapEnd, F \ {cur}, Used \cup {cur})
  BY <1>3, <1>4, ArenaTake
<1>6. Keeps(mem, m, Used)
  BY <1>3, <1>4, ArenaTake
<1>7. Holds(m, cur, mem[cur])
  BY <1>3, <1>4, ArenaTake
<1>8. m[cur] >= arg
  BY <1>1, <1>7 DEF Holds
<1>9. Arena(m, h, heapEnd', G, Used \cup {cur})
  BY <1>1, <1>2, <1>5
<1>10. pc = "malloc" /\ Return(cur, m, h) /\ ready' = ready
  BY <1>1, <1>2
<1>11. Good(G)' /\ Keeps(mem, mem', Used) /\ Handed
  BY <1>3, <1>6, <1>8, <1>9, <1>10, ReturnOK
<1> QED BY <1>11, GoodIsInv

LEMMA SplitOK ==
  ASSUME NoWrap, NEW F, Good(F), Split
  PROVE  HeapInv' /\ Keeps(mem, mem', Used) /\ Handed
<1>1. PICK rest, z :
        /\ rest = cur + arg
        /\ z = [mem EXCEPT ![rest] = mem[cur] - arg, ![rest + 1] = mem[cur + 1], ![cur] = arg]
  OBVIOUS
<1>2. PICK m, h, G : /\ m = LinkIn(z, prev, rest)
                     /\ h = HeadIn(freeHead, prev, rest)
                     /\ G = (F \ {cur}) \cup {rest}
  OBVIOUS
<1>3. /\ pc = "malloc" /\ cur # 0 /\ mem[cur] >= arg /\ ~TooSmallToSplit(mem[cur], arg)
      /\ heapEnd' = heapEnd /\ ready' = ready
  BY DEF Split, Fits, Size
<1>4. Return(cur, m, h)
  BY <1>1, <1>2 DEF Split, Size, NextFree, Linked, LinkedHead, LinkIn, HeadIn
<1>5. /\ Arena(mem, freeHead, heapEnd, F, Used) /\ PlaceIn(mem, freeHead, F, prev, cur)
      /\ arg \in Nat /\ arg >= 2 /\ cur \in F /\ cur \notin Used /\ cur \in Addr /\ cur \in Nat
      /\ mem[cur] \in Nat /\ mem[cur] <= HeapMax /\ mem \in [Addr -> Int] /\ cur + 1 \in Addr
  BY <1>3, MallocAt
<1>6. mem[cur] - arg >= 2
  BY <1>3, <1>5, SplitRoom
<1>7. /\ rest \in cur..(cur + mem[cur] - 1) /\ rest + 1 \in cur..(cur + mem[cur] - 1)
      /\ rest # cur /\ rest + 1 # cur /\ rest # rest + 1
  BY <1>1, <1>5, <1>6
<1>8. rest \in Addr /\ rest + 1 \in Addr
  BY <1>5, <1>7, ArenaWords
<1>9. /\ z \in [Addr -> Int] /\ z[cur] = arg /\ z[rest] = mem[cur] - arg
      /\ z[rest + 1] = mem[cur + 1] /\ \A x \in Addr \ {cur, rest, rest + 1} : z[x] = mem[x]
  BY <1>1, <1>5, <1>7, <1>8
<1>10. /\ Arena(mem, freeHead, heapEnd, F, Used) /\ PlaceIn(mem, freeHead, F, prev, cur)
       /\ cur # 0 /\ arg \in Nat /\ arg >= 2 /\ rest = cur + arg
       /\ m = LinkIn(z, prev, rest) /\ h = HeadIn(freeHead, prev, rest)
  BY <1>1, <1>2, <1>3, <1>5
<1>11. Arena(m, h, heapEnd, (F \ {cur}) \cup {rest}, Used \cup {cur})
  BY <1>6, <1>9, <1>10, ArenaCarve
<1>12. Holds(m, cur, arg)
  BY <1>6, <1>9, <1>10, ArenaCarve
<1>13. Keeps(mem, m, Used)
  BY <1>6, <1>9, <1>10, ArenaCarve
<1>14. m[cur] >= arg
  BY <1>5, <1>12 DEF Holds
<1>15. Arena(m, h, heapEnd', G, Used \cup {cur})
  BY <1>2, <1>3, <1>11
<1>16. Good(G)' /\ Keeps(mem, mem', Used) /\ Handed
  BY <1>3, <1>4, <1>5, <1>13, <1>14, <1>15, ReturnOK
<1> QED BY <1>16, GoodIsInv

LEMMA GrowLastOK ==
  ASSUME NoWrap, NEW F, Good(F), GrowLast
  PROVE  HeapInv' /\ Keeps(mem, mem', Used) /\ Handed
<1>1. PICK w, h, G, V :
        /\ w = LinkIn(mem, prev, 0) /\ h = HeadIn(freeHead, prev, 0)
        /\ G = F \ {cur} /\ V = Used \cup {cur}
  OBVIOUS
<1>2. PICK m : m = [w EXCEPT ![cur] = arg]
  OBVIOUS
<1>3. /\ pc = "malloc" /\ cur # 0 /\ ~(mem[cur] >= arg) /\ mem[cur + 1] = 0
      /\ heapEnd = cur + mem[cur] /\ arg - mem[cur] <= HeapMax - heapEnd
      /\ heapEnd' = cur + arg /\ ready' = ready
  BY DEF GrowLast, Fits, AtHeapEnd, CanAlloc, Size, NextFree
<1>4. Return(cur, m, h)
  BY <1>1, <1>2 DEF GrowLast, Linked, LinkedHead, LinkIn, HeadIn
<1>5. /\ Arena(mem, freeHead, heapEnd, F, Used) /\ PlaceIn(mem, freeHead, F, prev, cur)
      /\ arg \in Nat /\ arg >= 2 /\ cur \in F /\ cur \notin Used /\ cur \in Addr /\ cur \in Nat
      /\ mem[cur] \in Nat
  BY <1>3, MallocAt
<1>6. cur # 0 /\ w = LinkIn(mem, prev, mem[cur + 1]) /\ h = HeadIn(freeHead, prev, mem[cur + 1])
  BY <1>1, <1>3
<1>7. Arena(w, h, heapEnd, F \ {cur}, Used \cup {cur})
  BY <1>5, <1>6, ArenaTake
<1>8. Holds(w, cur, mem[cur])
  BY <1>5, <1>6, ArenaTake
<1>9. Keeps(mem, w, Used)
  BY <1>5, <1>6, ArenaTake
<1>10. Arena(w, h, heapEnd, G, V) /\ w[cur] = mem[cur] /\ w \in [Addr -> Int]
  BY <1>1, <1>7, <1>8 DEF Arena, Holds
<1>11. m \in [Addr -> Int] /\ m[cur] = arg /\ \A x \in Addr \ {cur} : m[x] = w[x]
  BY <1>2, <1>5, <1>10
<1>12. cur \in V /\ V \ {cur} = Used
  BY <1>1, <1>5
<1>13. arg >= w[cur] /\ cur + w[cur] = heapEnd /\ cur + arg <= HeapMax
  BY <1>3, <1>5, <1>10, AddrIsNat
<1>14. Arena(m, h, cur + arg, G, V) /\ Keeps(w, m, Used)
  BY <1>5, <1>10, <1>11, <1>12, <1>13, ArenaStretch
<1>15. Keeps(mem, m, Used)
  <2>1. \A u \in Used : u \in Nat /\ mem[u] \in Nat /\ mem[u] >= 2
    BY <1>5, ArenaBlock
  <2> QED BY <2>1, <1>9, <1>14, KeepsThen
<1>16. Arena(m, h, heapEnd', G, Used \cup {cur}) /\ m[cur] >= arg
  BY <1>1, <1>3, <1>5, <1>11, <1>14
<1>17. Good(G)' /\ Keeps(mem, mem', Used) /\ Handed
  BY <1>3, <1>4, <1>5, <1>15, <1>16, ReturnOK
<1> QED BY <1>17, GoodIsInv

LEMMA BumpOK ==
  ASSUME NoWrap, NEW F, Good(F), Bump
  PROVE  HeapInv' /\ Keeps(mem, mem', Used) /\ Handed
<1> DEFINE m == [mem EXCEPT ![heapEnd] = arg]
<1>1. /\ pc = "malloc" /\ arg <= HeapMax - heapEnd
      /\ Return(heapEnd, m, freeHead) /\ heapEnd' = heapEnd + arg /\ ready' = ready
  BY DEF Bump, CanAlloc
<1>2. /\ Arena(mem, freeHead, heapEnd, F, Used) /\ arg \in Nat /\ arg >= 2
      /\ mem \in [Addr -> Int] /\ heapEnd \in DataStart..HeapMax
  BY <1>1, MallocAt
<1>3. heapEnd \in Addr /\ heapEnd + arg <= HeapMax
  BY <1>1, <1>2, AddrIsNat
<1>4. m \in [Addr -> Int] /\ m[heapEnd] = arg /\ \A x \in Addr \ {heapEnd} : m[x] = mem[x]
  BY <1>2, <1>3
<1> HIDE DEF m
<1>5. /\ Arena(m, freeHead, heapEnd + arg, F, Used \cup {heapEnd})
      /\ heapEnd \notin F \cup Used /\ Keeps(mem, m, Used)
  BY <1>2, <1>3, <1>4, ArenaBump
<1>6. Good(F)' /\ Keeps(mem, mem', Used) /\ Handed
  <2>1. m[heapEnd] >= arg /\ heapEnd \notin Used
    BY <1>2, <1>4, <1>5
  <2> QED BY <2>1, <1>1, <1>5, ReturnOK
<1> QED BY <1>6, GoodIsInv

(* A call that ends leaves a good heap.                                    *)
LEMMA DoneOK ==
  ASSUME NEW F, Good(F), ready, ready' = ready, Done,
         NEW G, Arena(mem', freeHead', heapEnd', G, Used'), PayloadFits',
         DOMAIN live' \subseteq Addr, \A p \in DOMAIN live' : live'[p] \in Sizes
  PROVE  Good(G)'
<1>1. ready = TRUE
  BY DEF Good, TypeOK
<1>2. /\ mem' \in [Addr -> Int] /\ heapEnd' \in DataStart..HeapMax /\ G \in SUBSET Addr
      /\ ThreadsIn(mem', freeHead', G)
  BY DEF Arena
<1>3. freeHead' \in {0} \cup Addr /\ heapEnd' # 0
  BY <1>2, AddrIsNat DEF ThreadsIn
<1>4. pc' = "idle" /\ call' = NoCall /\ prev' = 0 /\ cur' = 0 /\ arg' = 0
  BY DEF Done
<1>5. call' \in Call
  BY <1>4 DEF NoCall, Call
<1>6. TypeOK'
  BY <1>1, <1>2, <1>3, <1>4, <1>5 DEF TypeOK
<1>7. Head' = freeHead' /\ End' = heapEnd'
  BY <1>1 DEF Head, End
<1>8. LoopOK(G)'
  BY <1>4 DEF LoopOK
<1> QED BY <1>3, <1>6, <1>7, <1>8 DEF Good

LEMMA ReturnNullOK ==
  ASSUME NEW F, Good(F), ReturnNull
  PROVE  HeapInv' /\ mem' = mem /\ live' = live
<1>1. /\ pc = "malloc" /\ Done /\ mem' = mem /\ heapEnd' = heapEnd /\ freeHead' = freeHead
      /\ ready' = ready /\ live' = live
  BY DEF ReturnNull
<1>2. ready
  BY <1>1 DEF Good, LoopOK, Position
<1>3. Used' = Used
  BY <1>1 DEF Used, Done
<1>4. Arena(mem', freeHead', heapEnd', F, Used')
  BY <1>1, <1>2, <1>3, GoodReady DEF Good
<1>5. PayloadFits' /\ DOMAIN live' \subseteq Addr /\ \A p \in DOMAIN live' : live'[p] \in Sizes
  BY <1>1 DEF Good, TypeOK, PayloadFits, Size
<1>6. Good(F)'
  BY <1>1, <1>2, <1>4, <1>5, DoneOK
<1> QED BY <1>1, <1>6, GoodIsInv

-----------------------------------------------------------------------------
(* What free knows at each step of its loop.                               *)
LEMMA FreeAt ==
  ASSUME NEW F, Good(F), pc = "free"
  PROVE  /\ ready /\ Arena(mem, freeHead, heapEnd, F, Used)
         /\ PlaceIn(mem, freeHead, F, prev, cur) /\ prev \in Nat /\ cur \in Nat
         /\ F \in SUBSET Addr /\ F \cap Used = {} /\ mem \in [Addr -> Int]
         /\ cur \in F \cup {0} /\ prev \in F \cup {0} /\ prev < arg
         /\ arg \in Used /\ arg \in Nat /\ arg \in Addr /\ arg + 1 \in Addr /\ cur # arg
         /\ Freeing
<1>1. ready /\ PlaceIn(mem, Head, F, prev, cur) /\ Freeing
  BY DEF Good, LoopOK, Position
<1>2. Head = freeHead /\ End = heapEnd
  BY <1>1, GoodReady
<1>3. Arena(mem, freeHead, heapEnd, F, Used)
  BY <1>2 DEF Good
<1>4. F \in SUBSET Addr /\ ThreadsIn(mem, freeHead, F) /\ F \cap Used = {} /\ mem \in [Addr -> Int]
  BY <1>3 DEF Arena
<1>5. prev \in Nat /\ cur \in Nat /\ cur \in F \cup {0} /\ prev \in F \cup {0}
  BY <1>1, <1>2, <1>4, PlaceFacts
<1>6. arg \in Used
  BY <1>1 DEF Freeing, Used
<1>7. arg \in Nat /\ arg > 0 /\ arg \in Addr /\ arg + 1 \in Addr
  BY <1>3, <1>6, ArenaBlock
<1> QED BY <1>1, <1>2, <1>3, <1>4, <1>5, <1>6, <1>7 DEF Freeing

(* The list has the block back.                                            *)
LEMMA FreedOK ==
  ASSUME NEW F, Good(F), pc = "free", Settle, Done, ready' = ready,
         NEW G, Arena(mem', freeHead', heapEnd', G, Used \ {arg}),
         Keeps(mem, mem', Used \ {arg})
  PROVE  Good(G)' /\ Used' = Used \ {arg}
<1>1. ready /\ Freeing /\ Arena(mem, freeHead, heapEnd, F, Used) /\ arg \in Nat
  BY FreeAt
<1>2. pc' = "idle"
  BY DEF Done
<1>3. Used' = {p - 1 : p \in DOMAIN live'}
  BY <1>2 DEF Used
<1>4. \A p \in DOMAIN live : p \in Nat /\ p \in Addr /\ p - 1 \in Nat /\ live[p] \in Sizes
                             /\ live[p] \in Nat /\ mem[p - 1] \in Nat /\ live[p] < mem[p - 1]
  BY HeldBlock
<1>5. \A p \in DOMAIN live' : p - 1 \in Used' /\ p \in Addr
                              /\ live'[p] \in Sizes /\ live'[p] < mem[p - 1]
  <2> SUFFICES ASSUME NEW p \in DOMAIN live'
               PROVE  p - 1 \in Used' /\ p \in Addr /\ live'[p] \in Sizes /\ live'[p] < mem[p - 1]
    OBVIOUS
  <2>1. p - 1 \in Used'
    BY <1>3
  <2>2. CASE call.kind = "free"
    BY <2>1, <2>2, <1>4 DEF Settle, WithoutBlock
  <2>3. CASE call.kind = "realloc"
    BY <2>1, <2>3, <1>1, <1>4 DEF Settle, Freeing, Moved, Size
  <2>4. CASE call.kind = "shrink"
    BY <2>1, <2>4, <1>4 DEF Settle
  <2> QED BY <2>2, <2>3, <2>4, <1>1 DEF Freeing
<1>6. Used' = Used \ {arg}
  <2>1. CASE call.kind = "free"
    <3>1. Used = {p - 1 : p \in DOMAIN live} /\ DOMAIN live' = DOMAIN live \ {call.p}
          /\ arg = call.p - 1 /\ call.p \in DOMAIN live
      BY <2>1, <1>1 DEF Settle, WithoutBlock, Used, Freeing
    <3> QED BY <3>1, <1>3, <1>4
  <2>2. CASE call.kind = "realloc"
    <3>1. /\ Used = {p - 1 : p \in DOMAIN live} \cup {call.result - 1}
          /\ DOMAIN live' = (DOMAIN live \ {call.p}) \cup {call.result}
          /\ arg = call.p - 1 /\ call.p \in DOMAIN live /\ call.result \in Addr \ DOMAIN live
      BY <2>2, <1>1 DEF Settle, Used, Freeing, Moved
    <3>2. call.result \in Nat
      BY <3>1, AddrIsNat
    <3> QED BY <3>1, <3>2, <1>3, <1>4
  <2>3. CASE call.kind = "shrink"
    <3>1. /\ Used = {p - 1 : p \in DOMAIN live} \cup {arg} /\ live' = live
          /\ arg + 1 \notin DOMAIN live
      BY <2>3, <1>1 DEF Settle, Used, Freeing
    <3> QED BY <3>1, <1>1, <1>3, <1>4
  <2> QED BY <2>1, <2>2, <2>3, <1>1 DEF Freeing
<1>7. PayloadFits'
  <2> SUFFICES ASSUME NEW p \in DOMAIN live' PROVE live'[p] <= mem'[p - 1] - 1
    BY DEF PayloadFits, Size
  <2>1. p - 1 \in Used \ {arg} /\ live'[p] \in Nat /\ live'[p] < mem[p - 1]
    <3>1. Sizes \subseteq Nat
      BY SizesAssumption, AddressAssumption
    <3> QED BY <3>1, <1>5, <1>6
  <2>2. p - 1 \in Nat /\ mem[p - 1] \in Nat /\ mem[p - 1] >= 2
    BY <2>1, <1>1, ArenaBlock
  <2>3. p - 1 \in (p - 1)..((p - 1) + mem[p - 1] - 1)
    BY <2>2
  <2>4. mem'[p - 1] = mem[p - 1]
    BY <2>1, <2>3 DEF Keeps
  <2> QED BY <2>1, <2>2, <2>4
<1>8. DOMAIN live' \subseteq Addr /\ \A p \in DOMAIN live' : live'[p] \in Sizes
  BY <1>5
<1>9. Arena(mem', freeHead', heapEnd', G, Used')
  BY <1>6
<1>10. Good(G)'
  BY <1>1, <1>7, <1>8, <1>9, DoneOK
<1> QED BY <1>6, <1>10

(* The second half of LinkFree: the block is on the list, and swallows the *)
(* next one if they touch.                                                 *)
LEMMA SwallowOK ==
  ASSUME NEW F, Good(F), pc = "free", Settle, Done, heapEnd' = heapEnd, ready' = ready,
         NEW z, NEW b, NEW E, Loose(z, freeHead', heapEnd, E, Used \ {arg}, b, cur),
         Keeps(mem, z, Used \ {arg}),
         mem' = IF cur # 0 /\ b + z[b] = cur
                THEN [z EXCEPT ![b] = z[b] + z[cur], ![b + 1] = z[cur + 1]] ELSE z
  PROVE  HeapInv' /\ Keeps(mem, mem', Used \ {arg}) /\ Used' = Used \ {arg}
<1>1. CASE ~(cur # 0 /\ b + z[b] = cur)
  <2>1. mem' = z
    BY <1>1
  <2>2. Arena(z, freeHead', heapEnd, E, Used \ {arg})
    BY <1>1, LooseApart
  <2>3. Good(E)' /\ Used' = Used \ {arg}
    BY <2>1, <2>2, FreedOK
  <2> QED BY <2>1, <2>3, GoodIsInv
<1>2. CASE cur # 0 /\ b + z[b] = cur
  <2>1. PICK w : w = [z EXCEPT ![b] = z[b] + z[cur], ![b + 1] = z[cur + 1]]
    OBVIOUS
  <2>2. mem' = w
    BY <1>2, <2>1
  <2>3. /\ z \in [Addr -> Int] /\ E \in SUBSET Addr /\ b \in E
        /\ heapEnd \in DataStart..HeapMax /\ TilesIn(z, heapEnd, E \cup (Used \ {arg}))
        /\ E \cup (Used \ {arg}) \in SUBSET Addr
        /\ ThreadsIn(z, freeHead', E) /\ PlaceIn(z, freeHead', E, b, cur)
    BY DEF Loose
  <2>4. /\ b \in Addr /\ b + 1 \in Addr /\ b \in Nat
    BY <2>3, BlockRoom
  <2>5. cur \in E
    BY <1>2, <2>3, PlaceFacts
  <2>6. cur \in Addr /\ cur + 1 \in Addr
    BY <2>3, <2>5, BlockRoom
  <2>7. /\ Holds(w, b, z[b] + z[cur]) /\ Holds(w, b + 1, z[cur + 1])
        /\ Written(z, w, {b, b + 1})
    BY <2>1, <2>3, <2>4, <2>6 DEF Holds, Written
  <2>8. Arena(w, freeHead', heapEnd, E \ {cur}, Used \ {arg}) /\ Keeps(z, w, Used \ {arg})
    <3>1. PICK h, U : h = freeHead' /\ U = Used \ {arg}
      OBVIOUS
    <3>2. Loose(z, h, heapEnd, E, U, b, cur)
      BY <3>1
    <3>3. Arena(w, h, heapEnd, E \ {cur}, U)
      BY <1>2, <2>7, <3>2, LooseMerge
    <3>4. Keeps(z, w, U)
      BY <1>2, <2>7, <3>2, LooseMerge
    <3> QED BY <3>1, <3>3, <3>4
  <2>9. \A u \in Used \ {arg} : u \in Nat /\ mem[u] \in Nat /\ mem[u] >= 2
    BY FreeAt, ArenaBlock
  <2>10. Keeps(mem, w, Used \ {arg})
    BY <2>8, <2>9, KeepsThen
  <2>11. PICK G : G = E \ {cur}
    OBVIOUS
  <2>12. Arena(mem', freeHead', heapEnd', G, Used \ {arg}) /\ Keeps(mem, mem', Used \ {arg})
    BY <2>2, <2>8, <2>10, <2>11
  <2>13. Good(G)' /\ Used' = Used \ {arg}
    BY <2>12, FreedOK
  <2> QED BY <2>12, <2>13, GoodIsInv
<1> QED BY <1>1, <1>2

LEMMA LinkFreeOK ==
  ASSUME NEW F, Good(F), LinkFree
  PROVE  HeapInv' /\ Keeps(mem, mem', Used \ {arg}) /\ Used' = Used \ {arg}
<1>1. /\ pc = "free" /\ ~BeforeBlock /\ Settle /\ Done /\ heapEnd' = heapEnd /\ ready' = ready
  BY DEF LinkFree
<1>2. /\ Arena(mem, freeHead, heapEnd, F, Used) /\ PlaceIn(mem, freeHead, F, prev, cur)
      /\ prev \in Nat /\ cur \in Nat /\ mem \in [Addr -> Int]
      /\ cur \in F \cup {0} /\ prev \in F \cup {0} /\ prev < arg /\ F \in SUBSET Addr
      /\ arg \in Used /\ arg \in Nat /\ arg \in Addr /\ arg + 1 \in Addr /\ cur # arg
  BY <1>1, FreeAt
<1>3. cur = 0 \/ arg < cur
  BY <1>1, <1>2 DEF BeforeBlock
<1>4. CASE prev # 0 /\ prev + mem[prev] = arg
  <2>1. PICK z : z = [mem EXCEPT ![prev] = mem[prev] + mem[arg]]
    OBVIOUS
  <2>2. /\ mem' = IF cur # 0 /\ prev + z[prev] = cur
                  THEN [z EXCEPT ![prev] = z[prev] + z[cur], ![prev + 1] = z[cur + 1]] ELSE z
        /\ freeHead' = freeHead
    BY <1>4, <2>1 DEF LinkFree, Size
  <2>3. prev \in Addr
    BY <1>2, <1>4
  <2>4. /\ z \in [Addr -> Int] /\ z[prev] = mem[prev] + mem[arg]
        /\ \A x \in Addr \ {prev} : z[x] = mem[x]
    BY <1>2, <2>1, <2>3
  <2>5. Loose(z, freeHead, heapEnd, F, Used \ {arg}, prev, cur) /\ Keeps(mem, z, Used \ {arg})
    BY <1>2, <1>3, <1>4, <2>4, FreeLeft
  <2>6. Loose(z, freeHead', heapEnd, F, Used \ {arg}, prev, cur)
    BY <2>2, <2>5
  <2> QED BY <1>1, <2>2, <2>5, <2>6, SwallowOK
<1>5. CASE ~(prev # 0 /\ prev + mem[prev] = arg)
  <2>1. PICK l : l = LinkIn(mem, prev, arg)
    OBVIOUS
  <2>2. PICK z, E : z = [l EXCEPT ![arg + 1] = cur] /\ E = F \cup {arg}
    OBVIOUS
  <2>3. /\ mem' = IF cur # 0 /\ arg + z[arg] = cur
                  THEN [z EXCEPT ![arg] = z[arg] + z[cur], ![arg + 1] = z[cur + 1]] ELSE z
        /\ freeHead' = HeadIn(freeHead, prev, arg)
    <3>1. Linked(mem, arg) = l /\ LinkedHead(arg) = HeadIn(freeHead, prev, arg)
      BY <2>1 DEF Linked, LinkedHead, LinkIn, HeadIn
    <3>2. z = [Linked(mem, arg) EXCEPT ![arg + 1] = cur]
      BY <2>2, <3>1
    <3>3. ~(prev # 0 /\ prev + Size(prev) = arg)
      BY <1>5 DEF Size
    <3>4. freeHead' = LinkedHead(arg)
      BY <3>3 DEF LinkFree
    <3>5. PICK b, m :
            /\ b = IF prev # 0 /\ prev + Size(prev) = arg THEN prev ELSE arg
            /\ m = IF prev # 0 /\ prev + Size(prev) = arg
                   THEN [mem EXCEPT ![prev] = @ + Size(arg)]
                   ELSE [Linked(mem, arg) EXCEPT ![arg + 1] = cur]
      OBVIOUS
    <3>6. mem' = IF cur # 0 /\ b + m[b] = cur
                 THEN [m EXCEPT ![b] = m[b] + m[cur], ![b + 1] = m[cur + 1]] ELSE m
      BY <3>5 DEF LinkFree
    <3>7. b = arg /\ m = z
      BY <3>2, <3>3, <3>5
    <3> QED BY <3>1, <3>4, <3>6, <3>7
  <2>4. l \in [Addr -> Int]
    BY <1>2, <2>1, LinkFacts
  <2>5. Holds(z, arg + 1, cur) /\ Written(l, z, {arg + 1})
    BY <1>2, <2>2, <2>4 DEF Holds, Written
  <2>6. Holds(z, arg + 1, cur) /\ Written(LinkIn(mem, prev, arg), z, {arg + 1})
    BY <2>1, <2>5
  <2>7. PICK k : k = HeadIn(freeHead, prev, arg)
    OBVIOUS
  <2>8. /\ Arena(mem, freeHead, heapEnd, F, Used) /\ PlaceIn(mem, freeHead, F, prev, cur)
        /\ arg \in Used /\ prev < arg
    BY <1>2
  <2>9. Loose(z, k, heapEnd, F \cup {arg}, Used \ {arg}, arg, cur)
    BY <1>3, <1>5, <2>6, <2>7, <2>8, FreeBetween
  <2>10. Keeps(mem, z, Used \ {arg})
    BY <1>3, <1>5, <2>6, <2>7, <2>8, FreeBetween
  <2>11. Loose(z, freeHead', heapEnd, E, Used \ {arg}, arg, cur)
    BY <2>2, <2>3, <2>7, <2>9
  <2> QED BY <1>1, <2>3, <2>10, <2>11, SwallowOK
<1> QED BY <1>4, <1>5

-----------------------------------------------------------------------------
(* A step of the program, or a call that is one step.                      *)
LEMMA IdleOK ==
  ASSUME NEW F, Good(F), pc = "idle",
         pc' = pc, call' = call, prev' = prev, cur' = cur, arg' = arg,
         ready' \in BOOLEAN, ready' => heapEnd' # 0, heapEnd' \in {0} \cup DataStart..HeapMax,
         freeHead' \in {0} \cup Addr,
         NEW G, Arena(mem', Head', End', G, Used'), PayloadFits',
         DOMAIN live' \subseteq Addr, \A p \in DOMAIN live' : live'[p] \in Sizes
  PROVE  Good(G)'
<1>1. mem' \in [Addr -> Int]
  BY DEF Arena
<1>2. TypeOK'
  BY <1>1 DEF Good, TypeOK
<1>3. LoopOK(G)'
  BY DEF LoopOK
<1> QED BY <1>2, <1>3 DEF Good

(* A block of the program has, where it was, room for sz words, and keeps  *)
(* what fits of its contents.                                              *)
Resized(p, sz) ==
  /\ p \in DOMAIN live
  /\ sz \in Sizes
  /\ live' = WithBlock(p, sz)
  /\ Keeps(mem, mem', Used \ {p - 1})
  /\ \A k \in Nat : k < sz /\ k < live[p] => mem'[p + k] = mem[p + k]

LEMMA ResizedBlocks ==
  ASSUME NoWrap, NEW F, Good(F), NEW p \in DOMAIN live, NEW sz \in Sizes,
         live' = WithBlock(p, sz), mem' \in [Addr -> Int], mem'[p - 1] >= RealSizeWords(sz),
         Keeps(mem, mem', Used \ {p - 1})
  PROVE  /\ PayloadFits'
         /\ DOMAIN live' = DOMAIN live
         /\ DOMAIN live' \subseteq Addr /\ \A q \in DOMAIN live' : live'[q] \in Sizes
<1>1. DOMAIN live' = DOMAIN live /\ \A q \in DOMAIN live : live'[q] = IF q = p THEN sz ELSE live[q]
  BY DEF WithBlock
<1>2. \A q \in DOMAIN live : /\ q \in Nat /\ q \in Addr /\ q - 1 \in Nat /\ q - 1 \in Addr
                             /\ q - 1 \in Used /\ live[q] \in Sizes /\ live[q] \in Nat
                             /\ mem[q - 1] \in Nat /\ live[q] < mem[q - 1]
  BY HeldBlock
<1>3. PayloadFits'
  <2> SUFFICES ASSUME NEW q \in DOMAIN live PROVE live'[q] <= mem'[q - 1] - 1
    BY <1>1 DEF PayloadFits, Size
  <2>1. CASE q = p
    <3>1. sz \in Nat /\ RealSizeWords(sz) \in Nat /\ RealSizeWords(sz) > sz
      BY RealSize
    <3>2. mem'[p - 1] \in Int
      BY <1>2
    <3> QED BY <2>1, <3>1, <3>2, <1>1
  <2>2. CASE q # p
    <3>1. q - 1 \in Used \ {p - 1} /\ q - 1 \in (q - 1)..((q - 1) + mem[q - 1] - 1)
      BY <2>2, <1>2
    <3>2. mem'[q - 1] = mem[q - 1]
      BY <3>1 DEF Keeps
    <3> QED BY <2>2, <3>2, <1>1, <1>2
  <2> QED BY <2>1, <2>2
<1> QED BY <1>1, <1>2, <1>3

LEMMA KeepSizeOK ==
  ASSUME NoWrap, NEW F, Good(F), NEW p \in DOMAIN live, NEW sz \in Sizes \ {0}, KeepSize(p, sz)
  PROVE  HeapInv' /\ Resized(p, sz)
<1>1. /\ pc = "idle" /\ EnsureHeapInit /\ live' = WithBlock(p, sz)
      /\ ~(mem[p - 1] < RealSizeWords(sz))
      /\ mem' = mem /\ call' = call /\ pc' = pc /\ prev' = prev /\ cur' = cur /\ arg' = arg
  BY DEF KeepSize, Resizing, Idle, Grows, Size
<1>2. mem[p - 1] \in Nat /\ RealSizeWords(sz) \in Nat /\ mem \in [Addr -> Int]
  BY HeldBlock, RealSize DEF Good, TypeOK
<1>3. Keeps(mem, mem', Used \ {p - 1})
  BY <1>1 DEF Keeps
<1>4. mem'[p - 1] >= RealSizeWords(sz) /\ mem' \in [Addr -> Int]
  BY <1>1, <1>2
<1>5. /\ PayloadFits' /\ DOMAIN live' = DOMAIN live
      /\ DOMAIN live' \subseteq Addr /\ \A q \in DOMAIN live' : live'[q] \in Sizes
  BY <1>1, <1>3, <1>4, ResizedBlocks
<1>6. ready' = TRUE /\ heapEnd' = End /\ freeHead' = Head /\ Head' = Head /\ End' = End
  BY <1>1 DEF EnsureHeapInit, Head, End
<1>7. Used' = Used
  BY <1>1, <1>5 DEF Used
<1>8. Arena(mem', Head', End', F, Used')
  BY <1>1, <1>6, <1>7 DEF Good
<1>9. End \in DataStart..HeapMax /\ Head \in {0} \cup Addr
  BY DEF Good, Arena, ThreadsIn
<1>10. heapEnd' # 0
  BY <1>6, <1>9, AddrIsNat
<1>11. Good(F)'
  BY <1>1, <1>5, <1>6, <1>8, <1>9, <1>10, IdleOK
<1> QED BY <1>1, <1>3, <1>11, GoodIsInv DEF Resized

LEMMA GrowAtEndOK ==
  ASSUME NoWrap, NEW F, Good(F), NEW p \in DOMAIN live, NEW sz \in Sizes \ {0}, GrowAtEnd(p, sz)
  PROVE  HeapInv' /\ Resized(p, sz)
<1>1. PICK b, n : b = p - 1 /\ n = RealSizeWords(sz)
  OBVIOUS
<1>2. /\ pc = "idle" /\ live' = WithBlock(p, sz) /\ mem[b] < n /\ b + mem[b] = End
      /\ n - mem[b] <= HeapMax - End
      /\ ready' = TRUE /\ heapEnd' = (b + mem[b]) + (n - mem[b]) /\ freeHead' = Head
      /\ mem' = [mem EXCEPT ![b] = n]
      /\ call' = call /\ pc' = pc /\ prev' = prev /\ cur' = cur /\ arg' = arg
  BY <1>1 DEF GrowAtEnd, Resizing, Idle, Grows, Size, BlockEnd, CanAlloc, More
<1>3. /\ b \in Nat /\ b \in Addr /\ b \in Used /\ mem[b] \in Nat /\ mem \in [Addr -> Int]
      /\ n \in Nat /\ p \in Nat /\ live[p] \in Nat /\ live[p] < mem[b]
  BY <1>1, HeldBlock, RealSize DEF Good, TypeOK
<1>4. Arena(mem, Head, End, F, Used) /\ End \in Nat /\ HeapMax \in Nat
  BY AddrIsNat DEF Good, Arena
<1>5. /\ mem' \in [Addr -> Int] /\ mem'[b] = n /\ \A x \in Addr \ {b} : mem'[x] = mem[x]
  BY <1>2, <1>3
<1>6. n >= mem[b] /\ b + n <= HeapMax /\ heapEnd' = b + n
  BY <1>2, <1>3, <1>4
<1>7. Arena(mem', Head, b + n, F, Used) /\ Keeps(mem, mem', Used \ {b})
  BY <1>2, <1>3, <1>4, <1>5, <1>6, ArenaStretch
<1>8. mem'[p - 1] >= RealSizeWords(sz) /\ Keeps(mem, mem', Used \ {p - 1})
  BY <1>1, <1>3, <1>5, <1>7
<1>9. /\ PayloadFits' /\ DOMAIN live' = DOMAIN live
      /\ DOMAIN live' \subseteq Addr /\ \A q \in DOMAIN live' : live'[q] \in Sizes
  BY <1>2, <1>5, <1>8, ResizedBlocks
<1>10. Head' = Head /\ End' = b + n
  BY <1>2, <1>6 DEF Head, End
<1>11. Used' = Used
  BY <1>2, <1>9 DEF Used
<1>12. Arena(mem', Head', End', F, Used')
  BY <1>7, <1>10, <1>11
<1>13. b + n \in DataStart..HeapMax /\ Head \in {0} \cup Addr
  BY <1>7 DEF Arena, ThreadsIn
<1>14. heapEnd' # 0
  BY <1>6, <1>13, AddrIsNat
<1>15. Good(F)'
  BY <1>2, <1>6, <1>9, <1>12, <1>13, <1>14, IdleOK
<1>16. ASSUME NEW k \in Nat, k < live[p] PROVE mem'[p + k] = mem[p + k]
  <2>1. p + k \in Addr /\ p + k > b
    BY <1>1, <1>16, HeldWord
  <2> QED BY <2>1, <1>3, <1>5
<1> QED BY <1>2, <1>8, <1>15, <1>16, GoodIsInv DEF Resized

LEMMA ShrinkOK ==
  ASSUME NoWrap, NEW F, Good(F), NEW p \in DOMAIN live, NEW sz \in Sizes \ {0}, Shrink(p, sz)
  PROVE  HeapInv' /\ Resized(p, sz)
<1>1. PICK b, n, tail : b = p - 1 /\ n = RealSizeWords(sz) /\ tail = b + n
  OBVIOUS
<1>2. /\ pc = "idle" /\ EnsureHeapInit /\ live' = WithBlock(p, sz) /\ mem[b] - n >= 2
      /\ mem' = [mem EXCEPT ![b] = n, ![tail] = mem[b] - n]
      /\ Scan("free", Head, tail) /\ call' = [Realloc(p, sz) EXCEPT !.kind = "shrink"]
  BY <1>1 DEF Shrink, Resizing, Idle, Size
<1>3. /\ b \in Nat /\ b \in Addr /\ b \in Used /\ mem[b] \in Nat /\ mem \in [Addr -> Int]
      /\ n \in Nat /\ n >= 2 /\ n > sz /\ sz \in Nat /\ p \in Nat /\ p \in Addr
      /\ live[p] \in Nat /\ live[p] < mem[b]
  BY <1>1, HeldBlock, RealSize DEF Good, TypeOK
<1>4. Arena(mem, Head, End, F, Used) /\ F \in SUBSET Addr /\ ThreadsIn(mem, Head, F)
      /\ End \in DataStart..HeapMax
  BY DEF Good, Arena
<1>5. tail \in b..(b + mem[b] - 1) /\ tail # b
  BY <1>1, <1>2, <1>3
<1>6. tail \in Addr
  BY <1>3, <1>4, <1>5, ArenaWords
<1>7. /\ mem' \in [Addr -> Int] /\ mem'[b] = n /\ mem'[tail] = mem[b] - n
      /\ \A x \in Addr \ {b, tail} : mem'[x] = mem[x]
  BY <1>2, <1>3, <1>5, <1>6
<1>8. /\ Holds(mem', b, n) /\ Holds(mem', b + n, mem[b] - n) /\ Written(mem, mem', {b, b + n})
  BY <1>1, <1>7 DEF Holds, Written
<1>9. /\ Arena(mem', Head, End, F, Used \cup {b + n}) /\ b + n \notin F \cup Used
      /\ Keeps(mem, mem', Used \ {b})
  <2>1. Arena(mem, Head, End, F, Used) /\ b \in Used /\ n \in Nat /\ n >= 2 /\ mem[b] - n >= 2
    BY <1>2, <1>3, <1>4
  <2>2. Arena(mem', Head, End, F, Used \cup {b + n})
    BY <1>8, <2>1, ArenaTail
  <2>3. b + n \notin F \cup Used
    BY <1>8, <2>1, ArenaTail
  <2>4. Keeps(mem, mem', Used \ {b})
    BY <1>8, <2>1, ArenaTail
  <2> QED BY <2>2, <2>3, <2>4
<1>10. mem'[p - 1] >= RealSizeWords(sz) /\ Keeps(mem, mem', Used \ {p - 1})
  BY <1>1, <1>3, <1>7, <1>9
<1>11. /\ PayloadFits' /\ DOMAIN live' = DOMAIN live
       /\ DOMAIN live' \subseteq Addr /\ \A q \in DOMAIN live' : live'[q] \in Sizes
  BY <1>2, <1>7, <1>10, ResizedBlocks
<1>12. /\ ready' = TRUE /\ heapEnd' = End /\ freeHead' = Head /\ Head' = Head /\ End' = End
       /\ pc' = "free" /\ prev' = 0 /\ cur' = Head /\ arg' = tail
  BY <1>2 DEF EnsureHeapInit, Scan, Head, End
<1>13. call' = [kind |-> "shrink", p |-> p, sz |-> sz, result |-> 0]
  BY <1>2 DEF Realloc, NoCall
<1>14. Used = Held
  BY <1>2, UsedOutside
<1>15. Used' = Used \cup {tail}
  BY <1>11, <1>12, <1>13, <1>14 DEF Used, Held
<1>16. tail + 1 \notin DOMAIN live
  <2> SUFFICES ASSUME tail + 1 \in DOMAIN live PROVE FALSE
    OBVIOUS
  <2>1. (tail + 1) - 1 \in Used
    BY HeldBlock
  <2>2. tail \in Nat
    BY <1>6, AddrIsNat
  <2> QED BY <2>1, <2>2, <1>1, <1>9
<1>17. Freeing'
  BY <1>6, <1>11, <1>12, <1>13, <1>16, AddrIsNat DEF Freeing
<1>18. Position(F)'
  BY <1>12 DEF Position, PlaceIn
<1>19. LoopOK(F)'
  BY <1>12, <1>17, <1>18 DEF LoopOK
<1>20. Head \in {0} \cup Addr /\ tail \in Nat /\ End # 0
  BY <1>4, <1>6, AddrIsNat DEF ThreadsIn
<1>21. call' \in Call
  BY <1>3, <1>13 DEF Call
<1>22. TypeOK'
  BY <1>4, <1>7, <1>11, <1>12, <1>20, <1>21 DEF TypeOK
<1>23. Arena(mem, Head, End, F, Used)'
  BY <1>1, <1>9, <1>12, <1>15
<1>24. Good(F)'
  BY <1>11, <1>12, <1>19, <1>20, <1>22, <1>23 DEF Good
<1>25. ASSUME NEW k \in Nat, k < sz, k < live[p] PROVE mem'[p + k] = mem[p + k]
  <2>1. p + k \in Addr /\ p + k > b
    BY <1>1, <1>25, HeldWord
  <2>2. p + k < tail
    BY <1>1, <1>3, <1>25
  <2>3. tail \in Nat
    BY <1>6, AddrIsNat
  <2> QED BY <2>1, <2>2, <2>3, <1>3, <1>7
<1> QED BY <1>2, <1>10, <1>24, <1>25, GoodIsInv DEF Resized

(* What realloc knows when its loop is over and the next block will do.    *)
LEMMA GrowAt ==
  ASSUME NoWrap, NEW F, Good(F), pc = "grow", ~BeforeEnd, RightFits
  PROVE  /\ ready /\ Arena(mem, freeHead, heapEnd, F, Used)
         /\ PlaceIn(mem, freeHead, F, prev, cur) /\ prev \in Nat /\ cur # 0 /\ cur \in Nat
         /\ F \in SUBSET Addr /\ F \cap Used = {} /\ mem \in [Addr -> Int]
         /\ cur \in F /\ cur \notin Used /\ cur \in Addr /\ cur + 1 \in Addr
         /\ mem[cur] \in Nat /\ mem[cur] >= 2 /\ mem[cur] <= HeapMax /\ mem[cur + 1] \in Int
         /\ call.p \in DOMAIN live /\ call.p \in Nat /\ call.sz \in Sizes
         /\ arg = call.p - 1 /\ arg \in Used /\ arg \in Nat /\ arg \in Addr
         /\ mem[arg] \in Nat /\ mem[arg] >= 2 /\ arg + mem[arg] = cur
         /\ RealSizeWords(call.sz) \in Nat
         /\ mem[arg] < RealSizeWords(call.sz)
         /\ More(call.p, call.sz) = RealSizeWords(call.sz) - mem[arg]
         /\ mem[cur] >= More(call.p, call.sz)
         /\ Used = Held
<1>1. ready /\ PlaceIn(mem, Head, F, prev, cur) /\ Growing
  BY DEF Good, LoopOK, Position
<1>2. Head = freeHead /\ End = heapEnd
  BY <1>1, GoodReady
<1>3. Arena(mem, freeHead, heapEnd, F, Used)
  BY <1>2 DEF Good
<1>4. F \in SUBSET Addr /\ ThreadsIn(mem, freeHead, F) /\ F \cap Used = {} /\ mem \in [Addr -> Int]
  BY <1>3 DEF Arena
<1>5. prev \in Nat /\ cur \in Nat /\ cur \in F \cup {0}
  BY <1>1, <1>2, <1>4, PlaceFacts
<1>6. /\ call.p \in DOMAIN live /\ call.p \in Nat /\ call.sz \in Sizes
      /\ arg = call.p - 1 /\ arg \in Used /\ arg \in Nat
      /\ mem[arg] < RealSizeWords(call.sz)
  BY <1>1, HeldBlock DEF Growing, Grows, Size
<1>7. arg \in Addr /\ mem[arg] \in Nat /\ mem[arg] >= 2
  BY <1>3, <1>6, ArenaBlock
<1>8. cur = arg + mem[arg] /\ mem[cur] >= More(call.p, call.sz)
      /\ More(call.p, call.sz) = RealSizeWords(call.sz) - mem[arg]
  BY <1>6 DEF RightFits, BlockEnd, Size, More
<1>9. cur \in F
  BY <1>5, <1>6, <1>7, <1>8
<1>10. /\ cur # 0 /\ mem[cur] \in Nat /\ mem[cur] >= 2 /\ cur \in Addr /\ cur + 1 \in Addr
       /\ heapEnd \in Nat /\ cur + mem[cur] <= heapEnd /\ heapEnd <= HeapMax
  BY <1>3, <1>9, ArenaBlock
<1>11. mem[cur] <= HeapMax /\ mem[cur + 1] \in Int
  BY <1>4, <1>5, <1>10, AddrIsNat
<1>12. RealSizeWords(call.sz) \in Nat
  BY <1>6, RealSize
<1>13. Used = Held
  BY UsedOutside
<1> QED BY <1>1, <1>2, <1>3, <1>4, <1>5, <1>6, <1>7, <1>8, <1>9, <1>10, <1>11, <1>12, <1>13

(* realloc has taken words of the next block, and is done.                 *)
LEMMA AbsorbedOK ==
  ASSUME NoWrap, NEW F, Good(F), pc = "grow", ~BeforeEnd, RightFits,
         Done, heapEnd' = heapEnd, ready' = ready, live' = WithBlock(call.p, call.sz),
         NEW w, mem' = w, NEW h, freeHead' = h,
         NEW G, Arena(w, h, heapEnd, G, Used), w[arg] >= RealSizeWords(call.sz),
         Keeps(mem, w, Used \ {arg}), SamePayload(mem, w, arg)
  PROVE  HeapInv' /\ Resized(call.p, call.sz)
<1>1. /\ ready /\ call.p \in DOMAIN live /\ call.p \in Nat /\ call.sz \in Sizes
      /\ arg = call.p - 1 /\ arg \in Nat /\ mem[arg] \in Nat /\ Used = Held
  BY GrowAt
<1>2. w \in [Addr -> Int]
  BY DEF Arena
<1>3. /\ mem'[call.p - 1] >= RealSizeWords(call.sz) /\ Keeps(mem, mem', Used \ {call.p - 1})
      /\ mem' \in [Addr -> Int]
  BY <1>1, <1>2
<1>4. /\ PayloadFits' /\ DOMAIN live' = DOMAIN live
      /\ DOMAIN live' \subseteq Addr /\ \A q \in DOMAIN live' : live'[q] \in Sizes
  BY <1>1, <1>3, ResizedBlocks
<1>5. Used' = Used
  BY <1>1, <1>4 DEF Used, Held, Done
<1>6. Arena(mem', freeHead', heapEnd', G, Used')
  BY <1>5
<1>7. Good(G)'
  BY <1>1, <1>4, <1>6, DoneOK
<1>8. ASSUME NEW k \in Nat, k < live[call.p] PROVE mem'[call.p + k] = mem[call.p + k]
  <2>1. live[call.p] \in Nat /\ live[call.p] < mem[arg]
    BY <1>1, HeldBlock
  <2>2. call.p + k \in (arg + 1)..(arg + mem[arg] - 1)
    BY <1>1, <1>8, <2>1
  <2> QED BY <2>2 DEF SamePayload
<1> QED BY <1>1, <1>3, <1>7, <1>8, GoodIsInv DEF Resized

LEMMA AbsorbWholeOK ==
  ASSUME NoWrap, NEW F, Good(F), AbsorbWhole
  PROVE  HeapInv' /\ Resized(call.p, call.sz)
<1>1. /\ pc = "grow" /\ ~BeforeEnd /\ RightFits
      /\ Done /\ heapEnd' = heapEnd /\ ready' = ready /\ live' = WithBlock(call.p, call.sz)
  BY DEF AbsorbWhole
<1>2. PICK z : z = [mem EXCEPT ![arg] = mem[arg] + mem[cur]]
  OBVIOUS
<1>3. PICK w, h, G : /\ w = LinkIn(z, prev, mem[cur + 1])
                     /\ h = HeadIn(freeHead, prev, mem[cur + 1])
                     /\ G = F \ {cur}
  OBVIOUS
<1>4. freeHead' = h /\ mem' = w
  BY <1>2, <1>3 DEF AbsorbWhole, Size, NextFree, Linked, LinkedHead, LinkIn, HeadIn
<1>5. /\ Arena(mem, freeHead, heapEnd, F, Used) /\ PlaceIn(mem, freeHead, F, prev, cur)
      /\ cur # 0 /\ arg \in Used /\ arg + mem[arg] = cur
  BY <1>1, GrowAt
<1>6. /\ mem \in [Addr -> Int] /\ arg \in Addr /\ mem[cur] \in Nat /\ mem[arg] \in Nat
      /\ RealSizeWords(call.sz) \in Nat /\ More(call.p, call.sz) = RealSizeWords(call.sz) - mem[arg]
      /\ mem[cur] >= More(call.p, call.sz)
  BY <1>1, GrowAt
<1>7. Holds(z, arg, mem[arg] + mem[cur]) /\ Written(mem, z, {arg})
  BY <1>2, <1>6 DEF Holds, Written
<1>8. w = LinkIn(z, prev, mem[cur + 1]) /\ h = HeadIn(freeHead, prev, mem[cur + 1])
  BY <1>3
<1>9. Arena(w, h, heapEnd, F \ {cur}, Used)
  BY <1>5, <1>7, <1>8, ArenaAbsorb
<1>10. Holds(w, arg, mem[arg] + mem[cur])
  BY <1>5, <1>7, <1>8, ArenaAbsorb
<1>11. Keeps(mem, w, Used \ {arg})
  BY <1>5, <1>7, <1>8, ArenaAbsorb
<1>12. SamePayload(mem, w, arg)
  BY <1>5, <1>7, <1>8, ArenaAbsorb
<1>13. w[arg] >= RealSizeWords(call.sz)
  BY <1>6, <1>10 DEF Holds
<1>14. Arena(w, h, heapEnd, G, Used)
  BY <1>3, <1>9
<1> QED BY <1>1, <1>4, <1>11, <1>12, <1>13, <1>14, AbsorbedOK

LEMMA AbsorbPartOK ==
  ASSUME NoWrap, NEW F, Good(F), AbsorbPart
  PROVE  HeapInv' /\ Resized(call.p, call.sz)
<1>1. /\ pc = "grow" /\ ~BeforeEnd /\ RightFits
      /\ ~TooSmallToSplit(mem[cur], More(call.p, call.sz))
      /\ Done /\ heapEnd' = heapEnd /\ ready' = ready /\ live' = WithBlock(call.p, call.sz)
  BY DEF AbsorbPart, Size
<1>2. PICK n, rest : n = More(call.p, call.sz) /\ rest = cur + n
  OBVIOUS
<1>3. PICK z : z = [mem EXCEPT ![rest] = mem[cur] - n, ![rest + 1] = mem[cur + 1],
                               ![arg] = RealSizeWords(call.sz)]
  OBVIOUS
<1>4. PICK w, h, G : /\ w = LinkIn(z, prev, rest) /\ h = HeadIn(freeHead, prev, rest)
                     /\ G = (F \ {cur}) \cup {rest}
  OBVIOUS
<1>5. freeHead' = h /\ mem' = w
  BY <1>2, <1>3, <1>4 DEF AbsorbPart, Size, NextFree, Linked, LinkedHead, LinkIn, HeadIn
<1>6. /\ Arena(mem, freeHead, heapEnd, F, Used)
      /\ PlaceIn(mem, freeHead, F, prev, cur) /\ cur # 0 /\ cur \in Nat
      /\ mem \in [Addr -> Int] /\ cur \in F
      /\ mem[cur] \in Nat /\ mem[cur] <= HeapMax /\ mem[cur + 1] \in Int
      /\ arg \in Used /\ arg \in Nat /\ arg \in Addr
      /\ mem[arg] \in Nat /\ mem[arg] >= 2 /\ arg + mem[arg] = cur
  BY <1>1, GrowAt
<1>7. /\ RealSizeWords(call.sz) \in Nat /\ mem[arg] < RealSizeWords(call.sz)
      /\ n = RealSizeWords(call.sz) - mem[arg] /\ mem[cur] >= n
  BY <1>1, <1>2, GrowAt
<1>8. n \in Nat /\ n >= 1 /\ RealSizeWords(call.sz) = mem[arg] + n
  BY <1>6, <1>7
<1>9. mem[cur] - n >= 2
  BY <1>1, <1>2, <1>6, <1>7, <1>8, SplitRoom
<1>10. /\ rest \in cur..(cur + mem[cur] - 1) /\ rest + 1 \in cur..(cur + mem[cur] - 1)
       /\ rest # arg /\ rest + 1 # arg /\ rest # rest + 1
  BY <1>2, <1>6, <1>8, <1>9
<1>11. rest \in Addr /\ rest + 1 \in Addr
  BY <1>6, <1>10, ArenaWords
<1>12. Shifted(mem, z, arg, cur, n, rest)
  BY <1>2, <1>3, <1>6, <1>8, <1>10, <1>11 DEF Shifted, Holds, Written
<1>13. w = LinkIn(z, prev, rest) /\ h = HeadIn(freeHead, prev, rest)
  BY <1>4
<1>14. /\ Arena(mem, freeHead, heapEnd, F, Used) /\ PlaceIn(mem, freeHead, F, prev, cur)
       /\ cur # 0 /\ arg \in Used /\ arg + mem[arg] = cur
  BY <1>6
<1>15. Arena(w, h, heapEnd, (F \ {cur}) \cup {rest}, Used)
  BY <1>8, <1>9, <1>12, <1>13, <1>14, ArenaShift
<1>16. Holds(w, arg, mem[arg] + n)
  BY <1>8, <1>9, <1>12, <1>13, <1>14, ArenaShift
<1>17. Keeps(mem, w, Used \ {arg})
  BY <1>8, <1>9, <1>12, <1>13, <1>14, ArenaShift
<1>18. SamePayload(mem, w, arg)
  BY <1>8, <1>9, <1>12, <1>13, <1>14, ArenaShift
<1>19. w[arg] >= RealSizeWords(call.sz)
  BY <1>6, <1>8, <1>16 DEF Holds
<1>20. Arena(w, h, heapEnd, G, Used)
  BY <1>4, <1>15
<1> QED BY <1>1, <1>5, <1>17, <1>18, <1>19, <1>20, AbsorbedOK

LEMMA WriteOK ==
  ASSUME NEW F, Good(F), Write
  PROVE  /\ HeapInv' /\ live' = live
         /\ \E p \in DOMAIN live, v \in Data : \E k \in 0..(live[p] - 1) :
              /\ mem' = [mem EXCEPT ![p + k] = v]
              /\ Keeps(mem, mem', Used \ {p - 1})
<1>1. PICK p \in DOMAIN live, v \in Data : \E k \in 0..(live[p] - 1) : mem' = [mem EXCEPT ![p + k] = v]
  BY DEF Write
<1>2. PICK k \in 0..(live[p] - 1) : mem' = [mem EXCEPT ![p + k] = v]
  BY <1>1
<1>3. /\ pc = "idle" /\ heapEnd' = heapEnd /\ freeHead' = freeHead /\ ready' = ready /\ live' = live
      /\ call' = call /\ pc' = pc /\ prev' = prev /\ cur' = cur /\ arg' = arg
  BY DEF Write, Idle
<1>4. PICK b : b = p - 1
  OBVIOUS
<1>5. /\ p \in Nat /\ b \in Nat /\ b \in Used /\ live[p] \in Nat /\ mem[b] \in Nat /\ live[p] < mem[b]
  BY <1>4, HeldBlock
<1>6. k \in Nat /\ k < live[p] /\ v \in Int
  BY <1>5, DataAssumption
<1>7. PICK x : x = p + k
  OBVIOUS
<1>8. x \in Addr /\ b < x /\ x < b + mem[b]
  BY <1>4, <1>5, <1>6, <1>7, HeldWord
<1>9. mem \in [Addr -> Int] /\ Arena(mem, Head, End, F, Used)
  BY DEF Good, TypeOK
<1>10. WrittenIn(mem, mem', b)
  BY <1>2, <1>6, <1>7, <1>8, <1>9 DEF WrittenIn
<1>11. Arena(mem', Head, End, F, Used)
  BY <1>5, <1>9, <1>10, ArenaOverwrite
<1>12. SameHeads(mem, mem', F \cup Used)
  BY <1>5, <1>9, <1>10, ArenaOverwrite
<1>13. Keeps(mem, mem', Used \ {b})
  BY <1>5, <1>9, <1>10, ArenaOverwrite
<1>14. Head' = Head /\ End' = End /\ Used' = Used
  BY <1>3 DEF Head, End, Used
<1>15. PayloadFits'
  <2> SUFFICES ASSUME NEW q \in DOMAIN live PROVE live[q] <= mem'[q - 1] - 1
    BY <1>3 DEF PayloadFits, Size
  <2>1. q - 1 \in Used /\ live[q] <= mem[q - 1] - 1
    BY DEF Used, Good, PayloadFits, Size
  <2> QED BY <1>12, <2>1 DEF SameHeads
<1>16. Arena(mem', Head', End', F, Used')
  BY <1>11, <1>14
<1>17. /\ ready' \in BOOLEAN /\ (ready' => heapEnd' # 0) /\ heapEnd' \in {0} \cup DataStart..HeapMax
       /\ freeHead' \in {0} \cup Addr
       /\ DOMAIN live' \subseteq Addr /\ \A q \in DOMAIN live' : live'[q] \in Sizes
  BY <1>3 DEF Good, TypeOK
<1>18. Good(F)'
  BY <1>3, <1>15, <1>16, <1>17, IdleOK
<1> QED BY <1>2, <1>3, <1>4, <1>13, <1>18, GoodIsInv

-----------------------------------------------------------------------------
LEMMA InitOK == Init => HeapInv
<1> SUFFICES ASSUME Init PROVE HeapInv
  OBVIOUS
<1>1. /\ mem = [a \in Addr |-> 0] /\ heapEnd = 0 /\ freeHead = 0 /\ ready = FALSE
      /\ DOMAIN live = {} /\ call = NoCall /\ pc = "idle" /\ prev = 0 /\ cur = 0 /\ arg = 0
  BY DEF Init, NoBlocks
<1>2. Used = {} /\ Head = 0 /\ End = DataStart
  BY <1>1 DEF Used, Head, End
<1>3. mem \in [Addr -> Int] /\ DataStart \in DataStart..HeapMax /\ call \in Call
  BY <1>1, AddrIsNat DEF NoCall, Call
<1>4. Arena(mem, Head, End, {}, Used)
  BY <1>2, <1>3 DEF Arena, TilesIn, ThreadsIn, MergedIn
<1>5. TypeOK /\ PayloadFits
  BY <1>1, <1>3 DEF TypeOK, PayloadFits
<1>6. Good({})
  BY <1>1, <1>4, <1>5 DEF Good, LoopOK
<1> QED BY <1>6 DEF HeapInv

(* The steps along the list change nothing but the place in it.            *)
LEMMA AlongOK ==
  ASSUME NoWrap, NEW F, Good(F), NextMalloc \/ NextFreeing \/ NextGrow
  PROVE  HeapInv' /\ mem' = mem /\ live' = live
<1>1. Advance /\ mem' = mem /\ live' = live
  BY DEF NextMalloc, NextFreeing, NextGrow, Advance
<1>2. CASE NextMalloc
  <2>1. pc = "malloc" /\ cur # 0 /\ ~(mem[cur] >= arg) /\ ~AtHeapEnd
    BY <1>2 DEF NextMalloc, Fits, Size
  <2>2. Size(cur) < arg
    BY <2>1, MallocAt DEF Size
  <2> QED BY <1>1, <2>1, <2>2, AdvanceOK, GoodIsInv
<1>3. CASE NextFreeing
  <2>1. pc = "free" /\ cur # 0 /\ cur < arg
    BY <1>3 DEF NextFreeing, BeforeBlock
  <2> QED BY <1>1, <2>1, AdvanceOK, GoodIsInv
<1>4. CASE NextGrow
  <2>1. pc = "grow" /\ cur # 0
    BY <1>4 DEF NextGrow, BeforeEnd
  <2> QED BY <1>1, <2>1, AdvanceOK, GoodIsInv
<1> QED BY <1>2, <1>3, <1>4

LEMMA StutterOK ==
  ASSUME NEW F, Good(F), UNCHANGED vars
  PROVE  Good(F)'
<1>1. /\ mem' = mem /\ heapEnd' = heapEnd /\ freeHead' = freeHead /\ ready' = ready /\ live' = live
      /\ call' = call /\ pc' = pc /\ prev' = prev /\ cur' = cur /\ arg' = arg
  BY DEF vars
<1>2. Head' = Head /\ End' = End /\ Used' = Used
  BY <1>1 DEF Head, End, Used
<1>3. TypeOK' /\ PayloadFits' /\ (ready => heapEnd # 0)'
  BY <1>1 DEF Good, TypeOK, PayloadFits, Size
<1>4. Arena(mem, Head, End, F, Used)'
  BY <1>1, <1>2 DEF Good
<1>5. (pc # "idle" => Position(F))'
  BY <1>1, <1>2 DEF Good, LoopOK, Position
<1>6. (pc = "malloc" => Allocating(F))'
  BY <1>1 DEF Good, LoopOK, Allocating, Passed, Size
<1>7. (pc = "grow" => Growing)'
  BY <1>1 DEF Good, LoopOK, Growing, Grows, Size
<1>8. (pc = "free" => Freeing)'
  BY <1>1 DEF Good, LoopOK, Freeing, Moved, Size
<1> QED BY <1>3, <1>4, <1>5, <1>6, <1>7, <1>8 DEF Good, LoopOK

LEMMA NextOK ==
  ASSUME NoWrap, HeapInv, [Next]_vars
  PROVE  HeapInv'
<1>1. PICK F : Good(F)
  BY DEF HeapInv
<1>2. CASE Write
  BY <1>1, <1>2, WriteOK
<1>3. CASE MallocCall
  BY <1>1, <1>3, MallocCallOK, GoodIsInv
<1>4. CASE FreeCall
  BY <1>1, <1>4, FreeCallOK, GoodIsInv
<1>5. CASE ReallocCall
  <2>1. PICK p \in DOMAIN live, sz \in Sizes \ {0} :
          \/ GrowAtEnd(p, sz) \/ MoveFromEnd(p, sz) \/ GrowSearch(p, sz)
          \/ Shrink(p, sz) \/ KeepSize(p, sz)
    BY <1>5 DEF ReallocCall
  <2>2. CASE GrowAtEnd(p, sz)
    BY <1>1, <2>2, GrowAtEndOK
  <2>3. CASE MoveFromEnd(p, sz)
    BY <1>1, <2>3, MoveFromEndOK, GoodIsInv
  <2>4. CASE GrowSearch(p, sz)
    BY <1>1, <2>4, GrowSearchOK, GoodIsInv
  <2>5. CASE Shrink(p, sz)
    BY <1>1, <2>5, ShrinkOK
  <2>6. CASE KeepSize(p, sz)
    BY <1>1, <2>6, KeepSizeOK
  <2> QED BY <2>1, <2>2, <2>3, <2>4, <2>5, <2>6
<1>6. CASE TakeWhole
  BY <1>1, <1>6, TakeWholeOK
<1>7. CASE Split
  BY <1>1, <1>7, SplitOK
<1>8. CASE GrowLast
  BY <1>1, <1>8, GrowLastOK
<1>9. CASE Bump
  BY <1>1, <1>9, BumpOK
<1>10. CASE ReturnNull
  BY <1>1, <1>10, ReturnNullOK
<1>11. CASE NextMalloc \/ NextFreeing \/ NextGrow
  BY <1>1, <1>11, AlongOK
<1>12. CASE LinkFree
  BY <1>1, <1>12, LinkFreeOK
<1>13. CASE AbsorbWhole
  BY <1>1, <1>13, AbsorbWholeOK
<1>14. CASE AbsorbPart
  BY <1>1, <1>14, AbsorbPartOK
<1>15. CASE GrowElsewhere
  BY <1>1, <1>15, GrowElsewhereOK, GoodIsInv
<1>16. CASE UNCHANGED vars
  BY <1>1, <1>16, StutterOK, GoodIsInv
<1> QED
  BY <1>2, <1>3, <1>4, <1>5, <1>6, <1>7, <1>8, <1>9, <1>10, <1>11, <1>12, <1>13, <1>14, <1>15, <1>16
  DEF Next, Work

(* The inductive invariant holds of every behaviour of the allocator.      *)
LEMMA SpecHeapInv == ASSUME NoWrap PROVE Spec => []HeapInv
<1>1. Init => HeapInv
  BY InitOK
<1>2. HeapInv /\ [Next]_vars => HeapInv'
  BY NextOK
<1> QED BY <1>1, <1>2, PTL DEF Spec

-----------------------------------------------------------------------------
(* Type correctness: every variable keeps its type; the list's links, the  *)
(* heap's end and the words counted never leave their ranges.              *)
THEOREM TypesKept == ASSUME NoWrap PROVE Spec => []TypeOK
<1>1. HeapInv => TypeOK
  BY DEF HeapInv, Good
<1> QED BY <1>1, SpecHeapInv, PTL

(* Between any two steps of malloc, free and realloc the headers cut the   *)
(* heap into blocks without a gap or an overlap, each in use or on the     *)
(* free list, and the list is ordered, ends, and holds no two neighbours.  *)
THEOREM HeapStaysWhole == ASSUME NoWrap PROVE Spec => []HeapWhole
<1>1. HeapInv => HeapWhole
  <2> SUFFICES ASSUME HeapInv PROVE HeapWhole
    OBVIOUS
  <2>1. PICK F \in SUBSET Addr : Arena(mem, Head, End, F, Used)
    BY DEF HeapInv, Good
  <2>2. F \cap Used = {}
    BY <2>1 DEF Arena
  <2>3. Tiles(F \cup Used)
    BY <2>1 DEF Arena, TilesIn, Tiles, Size
  <2>4. Threads(F)
    BY <2>1 DEF Arena, ThreadsIn, Threads, NextFree
  <2>5. Merged(F)
    BY <2>1 DEF Arena, MergedIn, Merged, Size
  <2> QED BY <2>2, <2>3, <2>4, <2>5 DEF HeapWhole, HeapOK
<1> QED BY <1>1, SpecHeapInv, PTL

(* A block malloc, calloc or realloc gives has a word for every byte asked *)
(* for, and keeps it.                                                      *)
THEOREM PayloadsFit == ASSUME NoWrap PROVE Spec => []PayloadFits
<1>1. HeapInv => PayloadFits
  BY DEF HeapInv, Good
<1> QED BY <1>1, SpecHeapInv, PTL

(* assert(cur != block): the loop of free never meets the block it frees.  *)
THEOREM FreeAssertHolds == ASSUME NoWrap PROVE Spec => []FreeAsserts
<1>1. HeapInv => FreeAsserts
  BY FreeAt DEF HeapInv, FreeAsserts
<1> QED BY <1>1, SpecHeapInv, PTL

(* The free blocks before E are too small for n words and do not reach E.  *)
NoRoom(m, F, E, n) == \A f \in F : f < E => m[f] < n /\ f + m[f] # E

(* A block in use is in the way of n words at a.                           *)
Blocked(m, U, a, n) == \E b \in U : b < a + n /\ a < b + m[b]

LEMMA WindowMeetsUsed ==
  ASSUME NEW m, NEW h, NEW e, NEW F, NEW U, Arena(m, h, e, F, U),
         NEW n \in Nat, NEW E \in F \cup U \cup {e}, NoRoom(m, F, E, n),
         NEW a \in Nat, DataStart <= a, a < E, n >= 1
  PROVE  Blocked(m, U, a, n)
<1> USE DEF NoRoom, Blocked
<1>1. /\ m \in [Addr -> Int] /\ e \in DataStart..HeapMax /\ F \cup U \in SUBSET Addr
      /\ TilesIn(m, e, F \cup U) /\ MergedIn(m, F)
  BY DEF Arena
<1>2. /\ e \in Nat /\ E \in Nat /\ E <= e
  BY <1>1, ArenaBlock, AddrIsNat
<1>3. a < e
  BY <1>2
<1>4. PICK b \in F \cup U : b <= a /\ a < b + m[b]
  BY <1>1, <1>3, Covered
<1>5. /\ b \in Nat /\ m[b] \in Nat /\ b + m[b] \in F \cup U \cup {e}
      /\ \A c \in F \cup U : b < c => b + m[b] <= c
      /\ b + m[b] <= e
  BY ArenaBlock
<1>6. CASE b \in U
  BY <1>4, <1>5, <1>6
<1>7. CASE b \in F
  <2>1. b < E /\ m[b] < n /\ b + m[b] # E
    BY <1>2, <1>4, <1>5, <1>7
  <2>2. PICK c : c = b + m[b]
    OBVIOUS
  <2>3. c <= E
    BY <1>2, <1>5, <2>1, <2>2
  <2>4. c # e
    BY <1>2, <1>5, <2>1, <2>2, <2>3
  <2>5. c \notin F
    BY <1>1, <1>7, <2>2 DEF MergedIn
  <2>6. c \in U
    BY <1>5, <2>2, <2>4, <2>5
  <2>7. c \in Nat /\ m[c] \in Nat /\ m[c] >= 2
    BY <2>6, ArenaBlock
  <2>8. c < a + n /\ a < c + m[c]
    BY <1>4, <1>5, <2>1, <2>2, <2>7
  <2> QED BY <2>6, <2>8
<1> QED BY <1>6, <1>7

(* malloc's NULL is honest: wherever arg words would fit in the heap, a    *)
(* block in use is in the way, although first fit looks at each free block *)
(* alone and only the last may grow.                                       *)
THEOREM NullWhenFull == ASSUME NoWrap PROVE Spec => FailsWhenFull
<1> DEFINE Full == \A a \in DataStart..(HeapMax - arg) :
                     \E b \in Used : b < a + arg /\ a < b + Size(b)
<1>1. HeapInv /\ ReturnNull => Full
  <2> SUFFICES ASSUME HeapInv, ReturnNull, NEW a \in DataStart..(HeapMax - arg)
               PROVE  Blocked(mem, Used, a, arg)
    BY DEF Size, Blocked
  <2>1. PICK F : Good(F)
    BY DEF HeapInv
  <2>2. pc = "malloc"
    BY DEF ReturnNull
  <2>3. Passed(F) /\ prev \in Nat
    BY <2>1, <2>2, MallocAt DEF Good, LoopOK, Allocating
  <2>4. /\ Arena(mem, freeHead, heapEnd, F, Used) /\ F \in SUBSET Addr
        /\ PlaceIn(mem, freeHead, F, prev, cur) /\ cur \in Nat
        /\ arg \in Nat /\ arg >= 2 /\ heapEnd \in DataStart..HeapMax
        /\ cur # 0 => cur \in F /\ mem[cur] \in Nat /\ mem[cur] >= 2
    BY <2>1, <2>2, MallocAt
  <2>5. ThreadsIn(mem, freeHead, F) /\ MergedIn(mem, F)
    BY <2>4 DEF Arena
  <2>6. \A g \in F : g <= prev \/ (cur # 0 /\ cur <= g)
    BY <2>4, <2>5, PlaceFacts
  <2>7. \A g \in F : g <= prev => mem[g] < arg /\ g + mem[g] # heapEnd
    BY <2>3 DEF Passed, Size
  <2>8. a \in Nat /\ DataStart <= a /\ a + arg <= HeapMax /\ heapEnd \in Nat /\ HeapMax \in Nat
    BY <2>4, AddrIsNat
  <2>9. CASE cur = 0
    <3>1. ~(arg <= HeapMax - heapEnd)
      BY <2>4, <2>9 DEF ReturnNull, CanAlloc
    <3>2. a < heapEnd
      BY <3>1, <2>4, <2>8
    <3>3. NoRoom(mem, F, heapEnd, arg)
      BY <2>6, <2>7, <2>9 DEF NoRoom
    <3>4. arg >= 1 /\ heapEnd \in F \cup Used \cup {heapEnd}
      BY <2>4
    <3> QED BY <2>4, <2>8, <3>2, <3>3, <3>4, WindowMeetsUsed
  <2>10. CASE cur # 0
    <3>1. /\ heapEnd = cur + mem[cur] /\ ~(arg - mem[cur] <= HeapMax - heapEnd)
      BY <2>4, <2>10 DEF ReturnNull, CanAlloc, AtHeapEnd, Size
    <3>2. a < cur /\ cur \in F
      BY <3>1, <2>4, <2>8, <2>10
    <3>3. NoRoom(mem, F, cur, arg)
      <4> SUFFICES ASSUME NEW f \in F, f < cur PROVE mem[f] < arg /\ f + mem[f] # cur
        BY DEF NoRoom
      <4>1. f \in Nat
        BY <2>4, AddrIsNat
      <4>2. f <= prev
        BY <4>1, <2>4, <2>6
      <4> QED BY <4>2, <2>5, <2>7, <3>2 DEF MergedIn
    <3>4. arg >= 1 /\ cur \in F \cup Used \cup {heapEnd}
      BY <2>4, <3>2
    <3> QED BY <2>4, <2>8, <3>2, <3>3, <3>4, WindowMeetsUsed
  <2> QED BY <2>9, <2>10
<1>2. HeapInv /\ [Next]_vars => [ReturnNull => Full]_vars
  BY <1>1
<1> QED BY <1>2, SpecHeapInv, PTL DEF Spec, FailsWhenFull

-----------------------------------------------------------------------------
(***************************************************************************)
(* The proof that the allocator implements the heap its caller sees: each  *)
(* step of MallocTiny is a step of Heap, or none, when the program's       *)
(* blocks are read as Contents reads them.  A block keeps its contents     *)
(* because its words are not written (Keeps, from the lemmas of the        *)
(* actions); it has them to itself because blocks in use are disjoint.     *)
(***************************************************************************)
LEMMA ContentsOf ==
  /\ DOMAIN Contents = DOMAIN live
  /\ \A p \in DOMAIN live :
       /\ Contents[p] = [k \in 0..(live[p] - 1) |-> mem[p + k]]
       /\ DOMAIN Contents[p] = 0..(live[p] - 1)
  /\ DOMAIN Contents' = DOMAIN live'
  /\ \A p \in DOMAIN live' :
       /\ Contents'[p] = [k \in 0..(live'[p] - 1) |-> mem'[p + k]]
       /\ DOMAIN Contents'[p] = 0..(live'[p] - 1)
BY DEF Contents

(* The blocks of the program have no word in common.                       *)
LEMMA GoodDisjoint == HeapInv => H!Disjoint
<1> SUFFICES ASSUME HeapInv PROVE H!Disjoint
  OBVIOUS
<1>1. PICK F : Good(F)
  BY DEF HeapInv
<1>2. Arena(mem, Head, End, F, Used)
  BY <1>1 DEF Good
<1>3. ASSUME NEW a \in DOMAIN live
      PROVE  \A x \in H!Region(a) : x \in Addr /\ x \in (a - 1)..((a - 1) + mem[a - 1] - 1)
  <2> SUFFICES ASSUME NEW x \in H!Region(a)
               PROVE  x \in Addr /\ x \in (a - 1)..((a - 1) + mem[a - 1] - 1)
    OBVIOUS
  <2>1. PICK k \in 0..(live[a] - 1) : x = a + k
    BY ContentsOf DEF H!Region
  <2>2. live[a] \in Nat
    BY <1>1, HeldBlock
  <2>3. k \in Nat /\ k < live[a]
    BY <2>1, <2>2
  <2> QED BY <1>1, <2>1, <2>3, HeldWord
<1>4. ASSUME NEW a \in DOMAIN live, NEW b \in DOMAIN live, a # b
      PROVE  H!Region(a) \cap H!Region(b) = {}
  <2> SUFFICES ASSUME NEW x, x \in H!Region(a), x \in H!Region(b) PROVE FALSE
    OBVIOUS
  <2>1. /\ a \in Nat /\ b \in Nat /\ a - 1 \in Used /\ b - 1 \in Used
        /\ a - 1 \in Nat /\ b - 1 \in Nat /\ mem[a - 1] \in Nat /\ mem[b - 1] \in Nat
    BY <1>1, HeldBlock
  <2>2. a - 1 # b - 1
    BY <1>4, <2>1
  <2>3. x \in (a - 1)..((a - 1) + mem[a - 1] - 1) /\ x \in (b - 1)..((b - 1) + mem[b - 1] - 1)
    BY <1>3
  <2>4. x < b - 1 \/ (b - 1) + mem[b - 1] <= x
    BY <1>2, <2>1, <2>2, <2>3, ArenaApart
  <2> QED BY <2>1, <2>3, <2>4
<1> QED BY <1>3, <1>4, ContentsOf DEF H!Disjoint

LEMMA GoodDisjointNext == HeapInv' => H!Disjoint'
BY GoodDisjoint, PTL

(* What keeps the words of its block keeps its contents.                   *)
LEMMA KeptContents ==
  ASSUME NEW F, Good(F), NEW V, Keeps(mem, mem', V),
         NEW a \in DOMAIN live, a \in DOMAIN live', live'[a] = live[a], a - 1 \in V
  PROVE  Contents'[a] = Contents[a]
<1>1. live[a] \in Nat
  BY HeldBlock
<1>2. ASSUME NEW k \in 0..(live[a] - 1) PROVE mem'[a + k] = mem[a + k]
  <2>1. k \in Nat /\ k < live[a]
    BY <1>1
  <2>2. a + k \in (a - 1)..((a - 1) + mem[a - 1] - 1)
    BY <2>1, HeldWord
  <2> QED BY <2>2 DEF Keeps
<1>3. [k \in 0..(live[a] - 1) |-> mem'[a + k]] = [k \in 0..(live[a] - 1) |-> mem[a + k]]
  BY <1>2
<1>4. Contents[a] = [k \in 0..(live[a] - 1) |-> mem[a + k]]
  BY ContentsOf
<1>5. Contents'[a] = [k \in 0..(live'[a] - 1) |-> mem'[a + k]]
  BY ContentsOf
<1>6. Contents'[a] = [k \in 0..(live[a] - 1) |-> mem'[a + k]]
  BY <1>5, Zenon
<1> QED BY <1>3, <1>4, <1>6, Zenon

LEMMA SameContents ==
  ASSUME NEW F, Good(F), live' = live, Keeps(mem, mem', Used)
  PROVE  Contents' = Contents
<1>1. \A a \in DOMAIN live : Contents'[a] = Contents[a]
  BY HeldBlock, KeptContents
<1> QED BY <1>1 DEF Contents

LEMMA HandedStep ==
  ASSUME NEW F, Good(F), HeapInv', Handed, Keeps(mem, mem', Used)
  PROVE  H!Next \/ Contents' = Contents
<1>1. CASE live' = live
  BY <1>1, SameContents
<1>2. CASE \E a \in Addr \ DOMAIN live, n \in Sizes : live' = WithBlock(a, n)
  <2>1. PICK a \in Addr \ DOMAIN live, n \in Sizes : live' = WithBlock(a, n)
    BY <1>2
  <2>2. /\ DOMAIN live' = DOMAIN live \cup {a} /\ live'[a] = n
        /\ \A p \in DOMAIN live : live'[p] = live[p]
    BY <2>1 DEF WithBlock
  <2>3. \A p \in DOMAIN live : Contents'[p] = Contents[p]
    BY <2>2, HeldBlock, KeptContents
  <2>4. a \in Addr \ DOMAIN Contents
    BY ContentsOf
  <2>5. DOMAIN Contents' = DOMAIN Contents \cup {a} /\ DOMAIN Contents'[a] = 0..(n - 1)
    BY <2>2, ContentsOf
  <2>6. H!Untouched(DOMAIN Contents)
    BY <2>3, ContentsOf DEF H!Untouched
  <2>7. H!Disjoint'
    BY GoodDisjointNext
  <2>8. H!Alloc
    BY <2>4, <2>5, <2>6, <2>7 DEF H!Alloc
  <2> QED BY <2>8 DEF H!Next
<1> QED BY <1>1, <1>2 DEF Handed

LEMMA ResizedStep ==
  ASSUME NEW F, Good(F), HeapInv', NEW p, NEW sz, Resized(p, sz)
  PROVE  H!Next
<1>1. /\ p \in DOMAIN live /\ sz \in Sizes /\ Keeps(mem, mem', Used \ {p - 1})
      /\ DOMAIN live' = DOMAIN live /\ live'[p] = sz
      /\ \A q \in DOMAIN live \ {p} : live'[q] = live[q]
  BY DEF Resized, WithBlock
<1>2. p \in DOMAIN Contents /\ p \in (Addr \ DOMAIN Contents) \cup {p}
  BY <1>1, ContentsOf
<1>3. DOMAIN Contents' = (DOMAIN Contents \ {p}) \cup {p} /\ DOMAIN Contents'[p] = 0..(sz - 1)
  BY <1>1, ContentsOf
<1>4. ASSUME NEW k \in DOMAIN Contents[p] \cap DOMAIN Contents'[p]
      PROVE  Contents'[p][k] = Contents[p][k]
  <2>1. sz \in Nat /\ live[p] \in Nat
    BY <1>1, HeldBlock, SizesAssumption, AddressAssumption
  <2>2. k \in 0..(live[p] - 1) /\ k \in 0..(sz - 1)
    BY <1>1, <1>4, ContentsOf
  <2>3. k \in Nat /\ k < sz /\ k < live[p]
    BY <2>1, <2>2
  <2>4. mem'[p + k] = mem[p + k]
    BY <2>3 DEF Resized
  <2> QED BY <1>1, <2>2, <2>4, ContentsOf
<1>5. H!Untouched(DOMAIN Contents \ {p})
  <2> SUFFICES ASSUME NEW a \in DOMAIN live \ {p} PROVE Contents'[a] = Contents[a]
    BY ContentsOf DEF H!Untouched
  <2>1. a - 1 \in Used \ {p - 1}
    BY <1>1, HeldBlock
  <2> QED BY <1>1, <2>1, KeptContents
<1>6. H!Disjoint'
  BY GoodDisjointNext
<1>7. H!Resize
  BY <1>1, <1>2, <1>3, <1>4, <1>5, <1>6 DEF H!Resize
<1> QED BY <1>7 DEF H!Next

LEMMA WriteStep ==
  ASSUME NEW F, Good(F), Write
  PROVE  H!Next
<1>1. live' = live
  BY WriteOK
<1>2. PICK p \in DOMAIN live, v \in Data : \E k \in 0..(live[p] - 1) :
        mem' = [mem EXCEPT ![p + k] = v] /\ Keeps(mem, mem', Used \ {p - 1})
  BY WriteOK
<1>3. PICK k \in 0..(live[p] - 1) :
        mem' = [mem EXCEPT ![p + k] = v] /\ Keeps(mem, mem', Used \ {p - 1})
  BY <1>2
<1>4. mem \in [Addr -> Int] /\ p \in Nat /\ live[p] \in Nat
  BY HeldBlock DEF Good, TypeOK
<1>5. k \in Nat /\ k < live[p]
  BY <1>4
<1>6. p + k \in Addr
  BY <1>5, HeldWord
<1>7. ASSUME NEW a \in DOMAIN live, a # p PROVE Contents'[a] = Contents[a]
  <2>1. a - 1 \in Used \ {p - 1}
    BY <1>7, HeldBlock
  <2> QED BY <1>1, <1>3, <2>1, KeptContents
<1>8. Contents'[p] = [Contents[p] EXCEPT ![k] = v]
  <2>1. ASSUME NEW j \in 0..(live[p] - 1)
        PROVE  mem'[p + j] = IF j = k THEN v ELSE mem[p + j]
    <3>1. j \in Nat /\ j < live[p]
      BY <1>4
    <3>2. p + j \in Addr
      BY <3>1, HeldWord
    <3>3. j # k => p + j # p + k
      BY <1>4, <1>5, <3>1
    <3> QED BY <1>3, <1>4, <1>6, <3>2, <3>3
  <2>2. [j \in 0..(live[p] - 1) |-> mem'[p + j]]
          = [[j \in 0..(live[p] - 1) |-> mem[p + j]] EXCEPT ![k] = v]
    BY <1>3, <2>1
  <2> QED BY <1>1, <2>2, ContentsOf
<1>9. Contents' = [Contents EXCEPT ![p] = [Contents[p] EXCEPT ![k] = v]]
  <2>1. Contents' = [a \in DOMAIN live |-> Contents'[a]]
    BY <1>1 DEF Contents
  <2> QED BY <1>7, <1>8, <2>1, ContentsOf
<1>10. p \in DOMAIN Contents /\ k \in DOMAIN Contents[p]
  BY <1>3, ContentsOf
<1>11. H!Write
  BY <1>9, <1>10 DEF H!Write
<1> QED BY <1>11 DEF H!Next

LEMMA FreeStep ==
  ASSUME NEW F, Good(F), HeapInv', LinkFree
  PROVE  H!Next \/ Contents' = Contents
<1>1. pc = "free" /\ Settle /\ Freeing /\ Keeps(mem, mem', Used \ {arg})
  BY LinkFreeOK, FreeAt DEF LinkFree
<1>2. \A p \in DOMAIN live : p \in Nat /\ p - 1 \in Used /\ live[p] \in Nat
  BY HeldBlock
<1>3. arg \in Nat
  BY <1>1, FreeAt
<1>4. CASE call.kind = "free"
  <2>1. /\ call.p \in DOMAIN live /\ arg = call.p - 1
        /\ DOMAIN live' = DOMAIN live \ {call.p}
        /\ \A p \in DOMAIN live \ {call.p} : live'[p] = live[p]
    BY <1>1, <1>4 DEF Settle, WithoutBlock, Freeing
  <2>2. H!Untouched(DOMAIN Contents \ {call.p})
    <3> SUFFICES ASSUME NEW a \in DOMAIN live \ {call.p} PROVE Contents'[a] = Contents[a]
      BY ContentsOf DEF H!Untouched
    <3>1. a - 1 \in Used \ {arg}
      BY <1>2, <2>1
    <3> QED BY <1>1, <2>1, <3>1, KeptContents
  <2>3. H!Free
    BY <2>1, <2>2, ContentsOf DEF H!Free
  <2> QED BY <2>3 DEF H!Next
<1>5. CASE call.kind = "realloc"
  <2>1. PICK p, r, sz : p = call.p /\ r = call.result /\ sz = call.sz
    OBVIOUS
  <2>2. /\ p \in DOMAIN live /\ arg = p - 1 /\ r \in Addr \ DOMAIN live /\ sz \in Sizes
        /\ DOMAIN live' = (DOMAIN live \ {p}) \cup {r} /\ live'[r] = sz
        /\ \A a \in DOMAIN live \ {p} : live'[a] = live[a]
    BY <1>1, <1>5, <2>1 DEF Settle, Freeing, Moved
  <2>3. /\ sz < mem[r - 1]
        /\ \A k \in Nat : k < sz /\ k < live[p] => mem[r + k] = mem[p + k]
    BY <1>1, <1>5, <2>1 DEF Freeing, Moved, Size
  <2>4. r \in Nat /\ sz \in Nat /\ r - 1 \in Used \ {arg}
    <3>1. r \in Nat /\ sz \in Nat
      BY <2>2, AddrIsNat, SizesAssumption, AddressAssumption
    <3>2. r - 1 \in Used
      BY <1>1, <1>5, <2>1 DEF Used
    <3> QED BY <1>2, <2>2, <3>1, <3>2
  <2>5. r - 1 \in Nat /\ mem[r - 1] \in Nat
    BY <1>1, <2>4, FreeAt, ArenaBlock
  <2>6. ASSUME NEW k \in DOMAIN Contents[p] \cap DOMAIN Contents'[r]
        PROVE  Contents'[r][k] = Contents[p][k]
    <3>1. k \in 0..(live[p] - 1) /\ k \in 0..(sz - 1)
      BY <2>2, <2>6, ContentsOf
    <3>2. k \in Nat /\ k < sz /\ k < live[p]
      BY <1>2, <2>2, <2>4, <3>1
    <3>3. mem[r + k] = mem[p + k]
      BY <2>3, <3>2
    <3>4. r + k \in (r - 1)..((r - 1) + mem[r - 1] - 1)
      BY <2>3, <2>4, <2>5, <3>2
    <3>5. mem'[r + k] = mem[r + k]
      BY <1>1, <2>4, <3>4 DEF Keeps
    <3>6. Contents'[r] = [j \in 0..(sz - 1) |-> mem'[r + j]]
          /\ Contents[p] = [j \in 0..(live[p] - 1) |-> mem[p + j]]
      BY <2>2, ContentsOf
    <3>7. Contents'[r][k] = mem'[r + k] /\ Contents[p][k] = mem[p + k]
      BY <3>1, <3>6
    <3> QED BY <3>3, <3>5, <3>7
  <2>7. H!Untouched(DOMAIN Contents \ {p})
    <3> SUFFICES ASSUME NEW a \in DOMAIN live \ {p} PROVE Contents'[a] = Contents[a]
      BY ContentsOf DEF H!Untouched
    <3>1. a - 1 \in Used \ {arg}
      BY <1>2, <2>2
    <3> QED BY <1>1, <2>2, <3>1, KeptContents
  <2>8. H!Disjoint'
    BY GoodDisjointNext
  <2>9. /\ p \in DOMAIN Contents /\ r \in (Addr \ DOMAIN Contents) \cup {p}
        /\ DOMAIN Contents' = (DOMAIN Contents \ {p}) \cup {r}
        /\ DOMAIN Contents'[r] = 0..(sz - 1)
    BY <2>2, ContentsOf
  <2>10. H!Resize
    BY <2>2, <2>6, <2>7, <2>8, <2>9 DEF H!Resize
  <2> QED BY <2>10 DEF H!Next
<1>6. CASE call.kind = "shrink"
  <2>1. live' = live /\ arg + 1 \notin DOMAIN live
    BY <1>1, <1>6 DEF Settle, Freeing
  <2>2. \A a \in DOMAIN live : Contents'[a] = Contents[a]
    <3> SUFFICES ASSUME NEW a \in DOMAIN live PROVE Contents'[a] = Contents[a]
      OBVIOUS
    <3>1. a - 1 \in Used \ {arg}
      BY <1>2, <1>3, <2>1
    <3> QED BY <1>1, <2>1, <3>1, KeptContents
  <2>3. Contents' = Contents
    BY <2>1, <2>2 DEF Contents
  <2> QED BY <2>3
<1> QED BY <1>1, <1>4, <1>5, <1>6 DEF Freeing

-----------------------------------------------------------------------------
LEMMA InitMaps == Init => H!Init
BY DEF Init, H!Init, Contents, NoBlocks

LEMMA NextMaps ==
  ASSUME NoWrap, HeapInv, HeapInv', [Next]_vars
  PROVE  [H!Next]_Contents
<1> SUFFICES H!Next \/ Contents' = Contents
  OBVIOUS
<1>1. PICK F : Good(F)
  BY DEF HeapInv
<1>2. ASSUME mem' = mem, live' = live PROVE Contents' = Contents
  BY <1>2 DEF Contents
<1>3. CASE Write
  BY <1>1, <1>3, WriteStep
<1>4. CASE MallocCall
  BY <1>2, <1>4 DEF MallocCall
<1>5. CASE FreeCall
  BY <1>2, <1>5 DEF FreeCall
<1>6. CASE ReallocCall
  <2>1. PICK p \in DOMAIN live, sz \in Sizes \ {0} :
          \/ GrowAtEnd(p, sz) \/ MoveFromEnd(p, sz) \/ GrowSearch(p, sz)
          \/ Shrink(p, sz) \/ KeepSize(p, sz)
    BY <1>6 DEF ReallocCall
  <2>2. CASE GrowAtEnd(p, sz)
    BY <1>1, <2>2, GrowAtEndOK, ResizedStep
  <2>3. CASE MoveFromEnd(p, sz) \/ GrowSearch(p, sz)
    BY <1>2, <2>3 DEF MoveFromEnd, GrowSearch
  <2>4. CASE Shrink(p, sz)
    BY <1>1, <2>4, ShrinkOK, ResizedStep
  <2>5. CASE KeepSize(p, sz)
    BY <1>1, <2>5, KeepSizeOK, ResizedStep
  <2> QED BY <2>1, <2>2, <2>3, <2>4, <2>5
<1>7. CASE TakeWhole \/ Split \/ GrowLast \/ Bump
  BY <1>1, <1>7, TakeWholeOK, SplitOK, GrowLastOK, BumpOK, HandedStep
<1>8. CASE ReturnNull \/ GrowElsewhere
  BY <1>2, <1>8 DEF ReturnNull, GrowElsewhere
<1>9. CASE NextMalloc \/ NextFreeing \/ NextGrow
  BY <1>1, <1>2, <1>9, AlongOK
<1>10. CASE LinkFree
  BY <1>1, <1>10, FreeStep
<1>11. CASE AbsorbWhole \/ AbsorbPart
  BY <1>1, <1>11, AbsorbWholeOK, AbsorbPartOK, ResizedStep
<1>12. CASE UNCHANGED vars
  BY <1>2, <1>12 DEF vars
<1> QED
  BY <1>3, <1>4, <1>5, <1>6, <1>7, <1>8, <1>9, <1>10, <1>11, <1>12 DEF Next, Work

(* malloc, calloc, realloc and free implement the abstract heap: blocks    *)
(* are disjoint, stay as they are until freed, and are moved with what     *)
(* fits of their contents; no step of the list's upkeep touches them.      *)
THEOREM ImplementsHeapProved == ASSUME NoWrap PROVE Spec => ImplementsHeap
<1>1. Init => H!Init
  BY InitMaps
<1>2. HeapInv /\ HeapInv' /\ [Next]_vars => [H!Next]_Contents
  BY NextMaps
<1> QED BY <1>1, <1>2, SpecHeapInv, PTL DEF Spec, ImplementsHeap, H!Spec
=============================================================================
