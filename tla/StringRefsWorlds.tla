-------------------------- MODULE StringRefsWorlds --------------------------
(***************************************************************************)
(* Worlds that are well formed, and what the functions of McfStrRef and    *)
(* Nbt do to them: slots are free or have one owner, the objects that keep *)
(* handles and those who hold them agree with the counts.  Lemmas speak of *)
(* worlds w, and of hold, which says how often each object is held, so     *)
(* that they serve the client's calls and the bindings alike.              *)
(***************************************************************************)
EXTENDS StringRefs, FiniteSetTheorems, SequenceTheorems, NaturalsInduction, WellFoundedInduction, TLAPS

Bytestring == Seq(Chars \cup {Nul, "f", "-1"})

-----------------------------------------------------------------------------
(***************************************************************************)
(* Slot heaps                                                              *)
(***************************************************************************)
(* The slots of h are those of U and, once each, those of the free list.   *)
HeapOK(h, U) ==
  /\ IsHeap(h, Bytestring)
  /\ \E list \in Lists(h) :
       IsFreeList(h, list) /\ Range(list) \cap U = {} /\ Range(list) \cup U = Ids(h)

(* g is h but for slot id.                                                 *)
SlotChanged(h, g, id) ==
  /\ g.free = h.free
  /\ Len(g.slots) = Len(h.slots)
  /\ \A i \in Ids(h) \ {id} : Slot(g, i) = Slot(h, i)
  /\ Slot(g, id).next = Slot(h, id).next

Cells(h) == [value : Bytestring, refcnt : Nat, next : {-1} \cup Ids(h)]

(* What the parts of a heap are, and which slots it has.                   *)
LEMMA HeapTypes ==
  ASSUME NEW h, IsHeap(h, Bytestring)
  PROVE  /\ h = [slots |-> h.slots, free |-> h.free]
         /\ h.slots \in Seq(Cells(h))
         /\ Len(h.slots) \in Nat /\ DOMAIN h.slots = 1..Len(h.slots)
         /\ h.free \in {-1} \cup Ids(h)
         /\ \A i \in Ids(h) : i \in Nat /\ i + 1 \in 1..Len(h.slots) /\ Slot(h, i) \in Cells(h)
         /\ \A i \in Nat : i < Len(h.slots) <=> i \in Ids(h)
<1>1. h \in [slots : Seq(Cells(h)), free : {-1} \cup Ids(h)]
  BY Zenon DEF IsHeap, Cells
<1>2. h = [slots |-> h.slots, free |-> h.free] /\ h.slots \in Seq(Cells(h)) /\ h.free \in {-1} \cup Ids(h)
  BY <1>1
<1>3. Len(h.slots) \in Nat /\ DOMAIN h.slots = 1..Len(h.slots)
  BY <1>2
<1>4. \A i \in Ids(h) : i \in Nat /\ i + 1 \in 1..Len(h.slots)
  BY <1>3 DEF Ids
<1>5. ASSUME NEW i \in Ids(h) PROVE Slot(h, i) \in Cells(h)
  <2>1. i + 1 \in 1..Len(h.slots)
    BY <1>4
  <2>2. h.slots[i + 1] \in Cells(h)
    BY <1>2, <2>1
  <2> QED BY <2>2 DEF Slot
<1>6. \A i \in Nat : i < Len(h.slots) <=> i \in Ids(h)
  BY <1>3 DEF Ids
<1> QED BY <1>2, <1>3, <1>4, <1>5, <1>6

(* The heap with slot sequence s has the same ids.                         *)
LEMMA HeapWith ==
  ASSUME NEW h, NEW g, g = [slots |-> g.slots, free |-> g.free],
         g.slots \in Seq(Cells(h)), Len(g.slots) = Len(h.slots), g.free \in {-1} \cup Ids(h)
  PROVE  IsHeap(g, Bytestring) /\ Ids(g) = Ids(h)
<1>2. Ids(g) = Ids(h)
  BY DEF Ids
<1>3. Cells(g) = Cells(h)
  BY <1>2 DEF Cells
<1>4. g.slots \in Seq(Cells(g)) /\ g.free \in {-1} \cup Ids(g)
  BY <1>2, <1>3
<1>5. g \in [slots : Seq(Cells(g)), free : {-1} \cup Ids(g)]
  BY <1>4
<1> QED BY <1>2, <1>5, Zenon DEF IsHeap, Cells

(* A slot with another value is a slot.                                    *)
LEMMA ChangedValue ==
  ASSUME NEW h, NEW c \in Cells(h), NEW v \in Bytestring
  PROVE  /\ [c EXCEPT !.value = v] \in Cells(h) /\ [c EXCEPT !.value = v].value = v
         /\ [c EXCEPT !.value = v].refcnt = c.refcnt /\ [c EXCEPT !.value = v].next = c.next
BY DEF Cells

(* A slot with another count is a slot.                                    *)
LEMMA ChangedRefcnt ==
  ASSUME NEW h, NEW c \in Cells(h), NEW n \in Nat
  PROVE  /\ [c EXCEPT !.refcnt = n] \in Cells(h) /\ [c EXCEPT !.refcnt = n].refcnt = n
         /\ [c EXCEPT !.refcnt = n].value = c.value /\ [c EXCEPT !.refcnt = n].next = c.next
BY DEF Cells

(* One cell of the sequence of slots changes, and the head of the list.   *)
LEMMA PutCell ==
  ASSUME NEW h, IsHeap(h, Bytestring), NEW id \in Ids(h), NEW c \in Cells(h), NEW f \in {-1} \cup Ids(h),
         NEW g, g = [slots |-> [h.slots EXCEPT ![id + 1] = c], free |-> f]
  PROVE  /\ IsHeap(g, Bytestring) /\ Slot(g, id) = c
         /\ g.free = f /\ Len(g.slots) = Len(h.slots) /\ Ids(g) = Ids(h)
         /\ \A i \in Ids(h) \ {id} : Slot(g, i) = Slot(h, i)
<1>0. PICK s : s = [h.slots EXCEPT ![id + 1] = c]
  OBVIOUS
<1>1. h.slots \in Seq(Cells(h)) /\ id + 1 \in 1..Len(h.slots) /\ DOMAIN h.slots = 1..Len(h.slots)
  BY HeapTypes
<1>2. s \in Seq(Cells(h)) /\ Len(s) = Len(h.slots)
  BY <1>0, <1>1
<1>3. s[id + 1] = c
  BY <1>0, <1>1
<1>4. \A i \in Ids(h) \ {id} : s[i + 1] = h.slots[i + 1]
  BY <1>0, <1>1, HeapTypes DEF Ids
<1>5. g = [slots |-> g.slots, free |-> g.free] /\ g.slots = s /\ g.free = f
  BY <1>0
<1>6. IsHeap(g, Bytestring) /\ Ids(g) = Ids(h)
  BY <1>2, <1>5, HeapWith
<1> QED BY <1>2, <1>3, <1>4, <1>5, <1>6 DEF Slot

(* mcstr_set_slot_value and nbt_set_slot_value touch one slot and its      *)
(* value only.                                                             *)
LEMMA SetValueSlot ==
  ASSUME NEW h, IsHeap(h, Bytestring), NEW id \in Ids(h), NEW v \in Bytestring,
         NEW g, g = SetValue(h, id, v)
  PROVE  /\ IsHeap(g, Bytestring) /\ SlotChanged(h, g, id)
         /\ Slot(g, id).value = v /\ Slot(g, id).refcnt = Slot(h, id).refcnt
<1> DEFINE c == [Slot(h, id) EXCEPT !.value = v]
<1>1. g = [slots |-> [h.slots EXCEPT ![id + 1] = c], free |-> h.free]
  <2>1. h = [slots |-> h.slots, free |-> h.free]
    BY HeapTypes
  <2>2. g = [h EXCEPT !.slots = [h.slots EXCEPT ![id + 1] = c]]
    BY DEF SetValue, Slot
  <2> QED BY <2>1, <2>2
<1>0. Slot(h, id) \in Cells(h)
  BY HeapTypes
<1>2. c \in Cells(h) /\ c.value = v /\ c.refcnt = Slot(h, id).refcnt /\ c.next = Slot(h, id).next
  BY <1>0, ChangedValue
<1> HIDE DEF c
<1>3. /\ IsHeap(g, Bytestring) /\ Slot(g, id) = c /\ g.free = h.free /\ Len(g.slots) = Len(h.slots)
      /\ \A i \in Ids(h) \ {id} : Slot(g, i) = Slot(h, i)
  <2>1. h.free \in {-1} \cup Ids(h)
    BY HeapTypes
  <2> QED BY <1>1, <1>2, <2>1, PutCell
<1> QED BY <1>2, <1>3 DEF SlotChanged

(* Setting the count of a slot touches that slot and its count only.       *)
LEMMA SetRefcntSlot ==
  ASSUME NEW h, IsHeap(h, Bytestring), NEW id \in Ids(h), NEW n \in Nat,
         NEW g, g = SetRefcnt(h, id, n)
  PROVE  /\ IsHeap(g, Bytestring) /\ SlotChanged(h, g, id)
         /\ Slot(g, id).refcnt = n /\ Slot(g, id).value = Slot(h, id).value
<1> DEFINE c == [Slot(h, id) EXCEPT !.refcnt = n]
<1>1. g = [slots |-> [h.slots EXCEPT ![id + 1] = c], free |-> h.free]
  <2>1. h = [slots |-> h.slots, free |-> h.free]
    BY HeapTypes
  <2>2. g = [h EXCEPT !.slots = [h.slots EXCEPT ![id + 1] = c]]
    BY DEF SetRefcnt, Slot
  <2> QED BY <2>1, <2>2
<1>0. Slot(h, id) \in Cells(h)
  BY HeapTypes
<1>2. c \in Cells(h) /\ c.refcnt = n /\ c.value = Slot(h, id).value /\ c.next = Slot(h, id).next
  BY <1>0, ChangedRefcnt
<1> HIDE DEF c
<1>3. /\ IsHeap(g, Bytestring) /\ Slot(g, id) = c /\ g.free = h.free /\ Len(g.slots) = Len(h.slots)
      /\ \A i \in Ids(h) \ {id} : Slot(g, i) = Slot(h, i)
  <2>1. h.free \in {-1} \cup Ids(h)
    BY HeapTypes
  <2> QED BY <1>1, <1>2, <2>1, PutCell
<1> QED BY <1>2, <1>3 DEF SlotChanged

(* A slot in use may change: the free list does not go through it.         *)
LEMMA ChangedHeap ==
  ASSUME NEW h, NEW U, HeapOK(h, U), NEW id \in U, NEW g, IsHeap(g, Bytestring), SlotChanged(h, g, id)
  PROVE  HeapOK(g, U)
<1>1. PICK list \in Lists(h) :
        IsFreeList(h, list) /\ Range(list) \cap U = {} /\ Range(list) \cup U = Ids(h)
  BY DEF HeapOK
<1>2. Ids(g) = Ids(h) /\ Lists(g) = Lists(h)
  BY DEF SlotChanged, Ids, Lists
<1>3. \A i \in DOMAIN list : list[i] \in Ids(h) /\ list[i] # id
  BY <1>1 DEF Range
<1>4. \A i \in DOMAIN list : Slot(g, list[i]) = Slot(h, list[i])
  BY <1>3 DEF SlotChanged
<1>5. IsFreeList(g, list)
  BY <1>1, <1>4 DEF IsFreeList, SlotChanged
<1> QED BY <1>1, <1>2, <1>5 DEF HeapOK

(* A heap has as many ids as slots.                                        *)
LEMMA IdsCount ==
  ASSUME NEW h, IsHeap(h, Bytestring)
  PROVE  IsFiniteSet(Ids(h)) /\ Cardinality(Ids(h)) = Len(h.slots) /\ Len(h.slots) \in Nat
<1>1. Len(h.slots) \in Nat
  BY HeapTypes
<1>2. 0 \in Int /\ Len(h.slots) - 1 \in Int
  BY <1>1
<1>3. IsFiniteSet(0..(Len(h.slots) - 1))
      /\ Cardinality(0..(Len(h.slots) - 1)) = IF 0 > Len(h.slots) - 1 THEN 0 ELSE (Len(h.slots) - 1) - 0 + 1
  BY <1>2, FS_Interval
<1> QED BY <1>1, <1>3 DEF Ids

(* The slots in use are slots.                                             *)
LEMMA UsedInHeap ==
  ASSUME NEW h, NEW U, HeapOK(h, U)
  PROVE  IsHeap(h, Bytestring) /\ U \subseteq Ids(h)
BY DEF HeapOK

(* What the two functions that allocate and free write is a slot.          *)
LEMMA FreshCell ==
  ASSUME NEW h, NEW f \in {-1} \cup Ids(h)
  PROVE  /\ [value |-> <<>>, refcnt |-> 0, next |-> f] \in Cells(h)
         /\ Fresh \in Cells(h)
<1>1. <<>> \in Bytestring
  BY DEF Bytestring
<1> QED BY <1>1 DEF Cells, Fresh

(* The list of slots grows by one, and only when all are in use.           *)
GrowsWhenFull(h, g, U) ==
  Len(g.slots) # Len(h.slots) => Len(g.slots) = Len(h.slots) + 1 /\ U = Ids(h)

(* What Alloc does to a heap with the used slots U.                        *)
LEMMA AllocHeap ==
  ASSUME NEW h, NEW U, HeapOK(h, U), NEW a, a = Alloc(h)
  PROVE  /\ HeapOK(a.h, U \cup {a.id}) /\ a.id \notin U /\ a.id \in Nat /\ a.id \in Ids(a.h)
         /\ Slot(a.h, a.id) = Fresh
         /\ \A i \in U : Slot(a.h, i) = Slot(h, i)
         /\ GrowsWhenFull(h, a.h, U)
<1>0. IsHeap(h, Bytestring)
  BY DEF HeapOK
<1>1. PICK list \in Lists(h) :
        IsFreeList(h, list) /\ Range(list) \cap U = {} /\ Range(list) \cup U = Ids(h)
  BY DEF HeapOK
<1>2. PICK n \in 0..Len(h.slots) : list \in [1..n -> Ids(h)]
  BY DEF Lists
<1>3. /\ h = [slots |-> h.slots, free |-> h.free] /\ h.free \in {-1} \cup Ids(h)
      /\ Len(h.slots) \in Nat /\ n \in Nat /\ \A i \in Ids(h) : i \in Nat
  BY <1>0, <1>2, HeapTypes
<1>4. \A i \in 1..n : list[i] \in Ids(h) /\ list[i] \notin U
  BY <1>1, <1>2 DEF Range
<1>5. CASE n = 0
  <2>1. h.free = -1 /\ U = Ids(h)
    <3>1. DOMAIN list = {}
      BY <1>2, <1>5
    <3>2. h.free = -1
      BY <1>1, <3>1 DEF IsFreeList
    <3>3. Range(list) = {}
      BY <3>1 DEF Range
    <3> QED BY <1>1, <3>2, <3>3
  <2>2. a.h = [slots |-> Append(h.slots, Fresh), free |-> -1] /\ a.id = Len(h.slots)
    <3>1. a = [h |-> [h EXCEPT !.slots = Append(h.slots, Fresh)], id |-> Len(h.slots)]
      BY <2>1 DEF Alloc, AllocNew
    <3>2. [h EXCEPT !.slots = Append(h.slots, Fresh)] = [slots |-> Append(h.slots, Fresh), free |-> h.free]
      BY <1>3
    <3> QED BY <2>1, <3>1, <3>2
  <2>3. PICK s : s = Append(h.slots, Fresh)
    OBVIOUS
  <2>4. a.h.slots = s /\ a.h.free = -1 /\ Ids(a.h) = Ids(h) \cup {a.id} /\ a.id \in Nat
        /\ Len(s) = Len(h.slots) + 1
    BY <1>0, <1>3, <2>2, <2>3, HeapTypes DEF Ids
  <2>5. Cells(h) \subseteq Cells(a.h)
    BY <2>4 DEF Cells
  <2>6. s \in Seq(Cells(a.h))
    <3>1. h.slots \in Seq(Cells(h)) /\ Fresh \in Cells(h)
      BY <1>0, <1>3, HeapTypes, FreshCell
    <3>2. h.slots \in Seq(Cells(a.h)) /\ Fresh \in Cells(a.h)
      BY <3>1, <2>5
    <3> QED BY <3>2, <2>3
  <2>7. a.h \in [slots : Seq(Cells(a.h)), free : {-1} \cup Ids(a.h)]
    BY <2>2, <2>3, <2>4, <2>6
  <2>8. IsHeap(a.h, Bytestring)
    BY <2>7, Zenon DEF IsHeap, Cells
  <2>9. /\ \A i \in U : Slot(a.h, i) = Slot(h, i)
        /\ Slot(a.h, a.id) = Fresh
    BY <1>0, <1>3, <2>1, <2>2, <2>3, <2>4, HeapTypes DEF Slot
  <2>10. a.id \notin U
    BY <2>1, <2>2, <1>3 DEF Ids
  <2>11. PICK nl : nl = [i \in 1..0 |-> 0]
    OBVIOUS
  <2>12. /\ nl \in [1..0 -> Ids(a.h)] /\ DOMAIN nl = {}
    BY <2>11
  <2>13. nl \in Lists(a.h)
    BY <2>12, <2>4, <1>3 DEF Lists
  <2>14. IsFreeList(a.h, nl) /\ Range(nl) = {}
    BY <2>12, <2>4 DEF IsFreeList, Range
  <2>15. HeapOK(a.h, U \cup {a.id})
    BY <2>1, <2>4, <2>8, <2>13, <2>14 DEF HeapOK
  <2>16. GrowsWhenFull(h, a.h, U)
    BY <2>1, <2>4 DEF GrowsWhenFull
  <2> QED BY <2>1, <2>4, <2>9, <2>10, <2>15, <2>16
<1>6. CASE n # 0
  <2>1. h.free = list[1] /\ h.free \in Ids(h) /\ h.free >= 0 /\ h.free \notin U
    BY <1>1, <1>2, <1>3, <1>4, <1>6 DEF IsFreeList
  <2>2. PICK f : f = Slot(h, h.free).next
    OBVIOUS
  <2>3. f = IF 2 \in 1..n THEN list[2] ELSE -1
    BY <1>1, <1>2, <1>3, <1>6, <2>1, <2>2 DEF IsFreeList
  <2>4. f \in {-1} \cup Ids(h)
    BY <2>3, <1>4
  <2>5. a.h = [slots |-> [h.slots EXCEPT ![h.free + 1] = Fresh], free |-> f] /\ a.id = h.free
    BY <1>3, <2>1, <2>2 DEF Alloc, AllocReuse
  <2>6. /\ IsHeap(a.h, Bytestring) /\ Slot(a.h, a.id) = Fresh
        /\ a.h.free = f /\ Len(a.h.slots) = Len(h.slots) /\ Ids(a.h) = Ids(h)
        /\ \A i \in Ids(h) \ {a.id} : Slot(a.h, i) = Slot(h, i)
    <3>1. Fresh \in Cells(h)
      BY <1>3, FreshCell
    <3>2. a.h = [slots |-> [h.slots EXCEPT ![h.free + 1] = Fresh], free |-> f]
      BY <2>5
    <3>3. /\ IsHeap(a.h, Bytestring) /\ Slot(a.h, h.free) = Fresh
          /\ a.h.free = f /\ Len(a.h.slots) = Len(h.slots) /\ Ids(a.h) = Ids(h)
          /\ \A i \in Ids(h) \ {h.free} : Slot(a.h, i) = Slot(h, i)
      <4>1. PICK g, c, id : g = a.h /\ c = Fresh /\ id = h.free
        OBVIOUS
      <4>2. id \in Ids(h) /\ c \in Cells(h) /\ g = [slots |-> [h.slots EXCEPT ![id + 1] = c], free |-> f]
        BY <2>1, <3>1, <3>2, <4>1
      <4>3. /\ IsHeap(g, Bytestring) /\ Slot(g, id) = c
            /\ g.free = f /\ Len(g.slots) = Len(h.slots) /\ Ids(g) = Ids(h)
            /\ \A i \in Ids(h) \ {id} : Slot(g, i) = Slot(h, i)
        BY <1>0, <2>4, <4>2, PutCell
      <4> QED BY <4>1, <4>3
    <3> QED BY <3>3, <2>5
  <2>7. PICK nl : nl = [i \in 1..(n - 1) |-> list[i + 1]]
    OBVIOUS
  <2>8. /\ nl \in [1..(n - 1) -> Ids(h)] /\ DOMAIN nl = 1..(n - 1)
        /\ \A i \in 1..(n - 1) : nl[i] = list[i + 1] /\ i + 1 \in 1..n
    BY <1>3, <1>4, <1>6, <2>7
  <2>9. nl \in Lists(a.h)
    BY <1>3, <1>6, <2>6, <2>8 DEF Lists
  <2>10. \A i \in 1..(n - 1) : nl[i] # h.free
    <3> SUFFICES ASSUME NEW i \in 1..(n - 1) PROVE list[i + 1] # list[1]
      BY <2>1, <2>8
    <3>1. i + 1 \in DOMAIN list /\ 1 \in DOMAIN list /\ i + 1 # 1
      BY <1>2, <1>3
    <3> QED BY <1>1, <3>1 DEF IsFreeList
  <2>11. IsFreeList(a.h, nl)
    <3>1. \A i, k \in DOMAIN nl : nl[i] = nl[k] => i = k
      BY <1>1, <1>2, <1>3, <2>8 DEF IsFreeList
    <3>2. a.h.free = IF 1 \in DOMAIN nl THEN nl[1] ELSE -1
      BY <1>3, <1>6, <2>3, <2>6, <2>8
    <3>3. ASSUME NEW i \in DOMAIN nl
          PROVE  Slot(a.h, nl[i]).next = IF i + 1 \in DOMAIN nl THEN nl[i + 1] ELSE -1
      <4>1. Slot(a.h, nl[i]) = Slot(h, list[i + 1])
        BY <1>4, <2>5, <2>6, <2>8, <2>10
      <4>2. Slot(h, list[i + 1]).next = IF (i + 1) + 1 \in 1..n THEN list[(i + 1) + 1] ELSE -1
        BY <1>1, <1>2, <2>8 DEF IsFreeList
      <4>3. (i + 1) + 1 \in 1..n <=> i + 1 \in 1..(n - 1)
        BY <1>3, <2>8
      <4>4. i + 1 \in 1..(n - 1) => nl[i + 1] = list[(i + 1) + 1]
        BY <2>8
      <4> QED BY <4>1, <4>2, <4>3, <4>4, <2>8
    <3> QED BY <3>1, <3>2, <3>3 DEF IsFreeList
  <2>12. Range(list) = Range(nl) \cup {h.free}
    <3>1. Range(list) = {list[i] : i \in 1..n} /\ Range(nl) = {nl[i] : i \in 1..(n - 1)}
      BY <1>2, <2>8 DEF Range
    <3>2. ASSUME NEW i \in 1..n PROVE list[i] \in Range(nl) \cup {h.free}
      <4>1. CASE i = 1
        BY <4>1, <2>1
      <4>2. CASE i # 1
        <5>1. i - 1 \in 1..(n - 1) /\ (i - 1) + 1 = i
          BY <4>2, <1>3
        <5> QED BY <5>1, <2>8, <3>1
      <4> QED BY <4>1, <4>2
    <3>3. \A i \in 1..(n - 1) : nl[i] \in Range(list)
      BY <3>1, <2>8
    <3>4. h.free \in Range(list)
      BY <3>1, <2>1, <1>3, <1>6
    <3> QED BY <3>1, <3>2, <3>3, <3>4
  <2>13. h.free \notin Range(nl)
    BY <2>8, <2>10 DEF Range
  <2>14. HeapOK(a.h, U \cup {a.id})
    <3>1. Range(nl) \cap (U \cup {a.id}) = {} /\ Range(nl) \cup (U \cup {a.id}) = Ids(a.h)
      BY <1>1, <2>5, <2>6, <2>12, <2>13
    <3> QED BY <3>1, <2>6, <2>9, <2>11 DEF HeapOK
  <2>15. \A i \in U : Slot(a.h, i) = Slot(h, i)
    BY <1>1, <2>1, <2>5, <2>6
  <2>16. GrowsWhenFull(h, a.h, U)
    BY <2>6 DEF GrowsWhenFull
  <2> QED BY <1>3, <2>1, <2>5, <2>6, <2>14, <2>15, <2>16
<1> QED BY <1>5, <1>6

(* What FreeSlot does: the slot becomes the head of the list.              *)
LEMMA FreeHeap ==
  ASSUME NEW h, NEW U, HeapOK(h, U), NEW id \in U, NEW g, g = FreeSlot(h, id)
  PROVE  /\ HeapOK(g, U \ {id}) /\ Len(g.slots) = Len(h.slots)
         /\ \A i \in U \ {id} : Slot(g, i) = Slot(h, i)
<1>0. IsHeap(h, Bytestring)
  BY DEF HeapOK
<1>1. PICK list \in Lists(h) :
        IsFreeList(h, list) /\ Range(list) \cap U = {} /\ Range(list) \cup U = Ids(h)
  BY DEF HeapOK
<1>2. PICK n \in 0..Len(h.slots) : list \in [1..n -> Ids(h)]
  BY DEF Lists
<1>3. /\ h = [slots |-> h.slots, free |-> h.free] /\ h.free \in {-1} \cup Ids(h)
      /\ Len(h.slots) \in Nat /\ n \in Nat /\ id \in Ids(h) /\ \A i \in Ids(h) : i \in Nat
  BY <1>0, <1>1, <1>2, HeapTypes
<1>4. \A i \in 1..n : list[i] \in Ids(h) /\ list[i] \notin U /\ list[i] # id
  BY <1>1, <1>2 DEF Range
<1>5. PICK c : c = [value |-> <<>>, refcnt |-> 0, next |-> h.free]
  OBVIOUS
<1>6. c \in Cells(h) /\ c.next = h.free
  BY <1>3, <1>5, FreshCell
<1>7. g = [slots |-> [h.slots EXCEPT ![id + 1] = c], free |-> id]
  BY <1>3, <1>5 DEF FreeSlot
<1>8. /\ IsHeap(g, Bytestring) /\ Slot(g, id) = c
      /\ g.free = id /\ Len(g.slots) = Len(h.slots) /\ Ids(g) = Ids(h)
      /\ \A i \in Ids(h) \ {id} : Slot(g, i) = Slot(h, i)
  <2>1. PICK f : f = id
    OBVIOUS
  <2>2. id \in Ids(h) /\ c \in Cells(h) /\ f \in {-1} \cup Ids(h)
    BY <1>3, <1>6, <2>1
  <2>3. g = [slots |-> [h.slots EXCEPT ![id + 1] = c], free |-> f]
    BY <1>7, <2>1
  <2>4. /\ IsHeap(g, Bytestring) /\ Slot(g, id) = c
        /\ g.free = f /\ Len(g.slots) = Len(h.slots) /\ Ids(g) = Ids(h)
        /\ \A i \in Ids(h) \ {id} : Slot(g, i) = Slot(h, i)
    BY <1>0, <2>2, <2>3, PutCell
  <2> QED BY <2>1, <2>4
<1>9. PICK nl : nl = [i \in 1..(n + 1) |-> IF i = 1 THEN id ELSE list[i - 1]]
  OBVIOUS
<1>10. /\ DOMAIN nl = 1..(n + 1) /\ nl[1] = id
       /\ \A i \in 2..(n + 1) : nl[i] = list[i - 1] /\ i - 1 \in 1..n
       /\ \A i \in 1..(n + 1) : i = 1 \/ i \in 2..(n + 1)
       /\ nl \in [1..(n + 1) -> Ids(h)]
  <2>1. DOMAIN nl = 1..(n + 1) /\ nl[1] = id
    BY <1>3, <1>9
  <2>2. ASSUME NEW i \in 1..(n + 1) PROVE i = 1 \/ i \in 2..(n + 1)
    <3>1. n \in Int /\ i \in Int /\ 1 <= i /\ i <= n + 1
      BY <1>3
    <3> QED BY <3>1
  <2>3. ASSUME NEW i \in 2..(n + 1) PROVE nl[i] = list[i - 1] /\ i - 1 \in 1..n
    BY <1>3, <1>9
  <2>4. \A i \in 1..(n + 1) : nl[i] \in Ids(h)
    BY <1>3, <1>4, <2>1, <2>2, <2>3
  <2>5. nl \in [1..(n + 1) -> Ids(h)]
    BY <1>9, <2>1, <2>4
  <2> QED BY <2>1, <2>2, <2>3, <2>5
<1>11. \A i, k \in 1..n : list[i] = list[k] => i = k
  BY <1>1, <1>2 DEF IsFreeList
<1>12. \A i, k \in DOMAIN nl : nl[i] = nl[k] => i = k
  BY <1>3, <1>4, <1>10, <1>11
<1>13. n + 1 \in 0..Len(h.slots)
  <2>1. IsFiniteSet(1..(n + 1)) /\ Cardinality(1..(n + 1)) = n + 1
    <3>1. 1 \in Int /\ n + 1 \in Int /\ ~(1 > n + 1) /\ (n + 1) - 1 + 1 = n + 1
      BY <1>3
    <3> QED BY <3>1, FS_Interval
  <2>2. IsFiniteSet(Ids(h)) /\ Cardinality(Ids(h)) = Len(h.slots)
    BY <1>0, IdsCount
  <2>3. nl \in Injection(1..(n + 1), Ids(h))
    BY <1>10, <1>12 DEF Injection, IsInjective
  <2>4. n + 1 <= Len(h.slots)
    <3>1. Cardinality(1..(n + 1)) <= Cardinality(Ids(h))
      BY <2>2, <2>3, FS_Injection, Zenon
    <3> QED BY <2>1, <2>2, <3>1
  <2> QED BY <1>3, <2>4
<1>14. nl \in Lists(g)
  BY <1>8, <1>10, <1>13 DEF Lists
<1>15. IsFreeList(g, nl)
  <2>1. g.free = IF 1 \in DOMAIN nl THEN nl[1] ELSE -1
    BY <1>3, <1>8, <1>10
  <2>2. ASSUME NEW i \in DOMAIN nl
        PROVE  Slot(g, nl[i]).next = IF i + 1 \in DOMAIN nl THEN nl[i + 1] ELSE -1
    <3>1. CASE i = 1
      <4>0. h.free = IF 1 \in 1..n THEN list[1] ELSE -1
        BY <1>1, <1>2 DEF IsFreeList
      <4>1. Slot(g, nl[i]).next = IF 1 \in 1..n THEN list[1] ELSE -1
        BY <1>6, <1>8, <1>10, <3>1, <4>0
      <4>2. i + 1 \in DOMAIN nl <=> 1 \in 1..n
        BY <1>3, <1>10, <3>1
      <4>3. 1 \in 1..n => nl[i + 1] = list[1]
        <5>1. 1 \in 1..n => 2 \in 2..(n + 1)
          BY <1>3
        <5>2. 1 \in 1..n => nl[2] = list[2 - 1]
          BY <1>10, <5>1
        <5> QED BY <3>1, <5>2
      <4> QED BY <4>1, <4>2, <4>3
    <3>2. CASE i \in 2..(n + 1)
      <4>1. nl[i] = list[i - 1] /\ i - 1 \in 1..n
        BY <1>10, <3>2
      <4>2. Slot(g, nl[i]) = Slot(h, list[i - 1])
        BY <1>4, <1>8, <4>1
      <4>3. Slot(h, list[i - 1]).next = IF (i - 1) + 1 \in 1..n THEN list[(i - 1) + 1] ELSE -1
        BY <1>1, <1>2, <4>1 DEF IsFreeList
      <4>4. (i - 1) + 1 = i /\ (i + 1 \in DOMAIN nl <=> i \in 1..n) /\ (i \in 1..n => nl[i + 1] = list[i])
        <5>1. i \in Nat /\ (i + 1) - 1 = i /\ (i - 1) + 1 = i
          BY <1>3, <3>2
        <5>2. i + 1 \in DOMAIN nl <=> i \in 1..n
          BY <1>3, <1>10, <3>2, <5>1
        <5>3. ASSUME i \in 1..n PROVE nl[i + 1] = list[i]
          <6>1. i + 1 \in 2..(n + 1)
            BY <1>3, <3>2, <5>3
          <6> QED BY <1>10, <5>1, <6>1
        <5> QED BY <5>1, <5>2, <5>3
      <4> QED BY <4>2, <4>3, <4>4
    <3> QED BY <1>10, <3>1, <3>2
  <2> QED BY <1>12, <2>1, <2>2 DEF IsFreeList
<1>16. Range(nl) = Range(list) \cup {id}
  <2>1. Range(list) = {list[i] : i \in 1..n} /\ Range(nl) = {nl[i] : i \in 1..(n + 1)}
    BY <1>2, <1>10 DEF Range
  <2>2. \A i \in 1..(n + 1) : nl[i] \in Range(list) \cup {id}
    BY <1>10, <2>1
  <2>3. ASSUME NEW i \in 1..n PROVE list[i] \in Range(nl)
    <3>1. i + 1 \in 2..(n + 1) /\ (i + 1) - 1 = i /\ i + 1 \in 1..(n + 1)
      BY <1>3
    <3> QED BY <1>10, <2>1, <3>1
  <2>4. id \in Range(nl)
    BY <1>3, <1>10, <2>1
  <2> QED BY <2>1, <2>2, <2>3, <2>4
<1>17. Range(nl) \cap (U \ {id}) = {} /\ Range(nl) \cup (U \ {id}) = Ids(g)
  BY <1>1, <1>8, <1>16
<1>18. HeapOK(g, U \ {id})
  BY <1>8, <1>14, <1>15, <1>17 DEF HeapOK
<1>19. \A i \in U \ {id} : Slot(g, i) = Slot(h, i)
  BY <1>1, <1>8
<1> QED BY <1>8, <1>18, <1>19

-----------------------------------------------------------------------------
(***************************************************************************)
(* Objects and the slots they own.  f is what is in each block.            *)
(***************************************************************************)
ObjRec ==
  [kind : Kinds, rc : Nat \cup {-1}, data : Bytestring, lit : Literals \cup {Null}, len : Nat,
   mcf : Objects \cup {Null}, slot : Int]

SlotsUsed(f, k) == {f[p].slot : p \in {q \in Places : f[q].kind = k}}

OwnSlots(f, k) ==
  \A p, q \in Places : f[p].kind = k /\ f[q].kind = k /\ f[p].slot = f[q].slot => p = q

SlotCounts(f, h, k) ==
  \A p \in Places : f[p].kind = k => p \in Objects /\ Slot(h, f[p].slot).refcnt = f[p].rc

Bounded(h) == IsFiniteSet(Objects) => Len(h.slots) <= Cardinality(Objects)

(* The objects of kind k own the slots of h that are not free.             *)
Housed(f, h, k) ==
  /\ f \in [Places -> ObjRec]
  /\ HeapOK(h, SlotsUsed(f, k))
  /\ OwnSlots(f, k)
  /\ SlotCounts(f, h, k)
  /\ Bounded(h)

(* t is f but for the object r.                                            *)
ObjChanged(f, t, r) == t \in [Places -> ObjRec] /\ \A p \in Places \ {r} : t[p] = f[p]

(* The other slots of kind k are left alone.                               *)
SlotsKept(f, h, g, k, r) ==
  \A p \in Places \ {r} : f[p].kind = k => Slot(g, f[p].slot) = Slot(h, f[p].slot)

(* An object of kind k has a slot in the heap, with the count that it has  *)
(* itself.                                                                 *)
LEMMA HousedSlot ==
  ASSUME NEW f, NEW h, NEW k, Housed(f, h, k), NEW r \in Places, f[r].kind = k
  PROVE  /\ f[r].slot \in SlotsUsed(f, k) /\ f[r].slot \in Ids(h) /\ f[r].slot \in Nat /\ f[r].slot + 1 > 0
         /\ IsHeap(h, Bytestring) /\ r \in Objects /\ Slot(h, f[r].slot).refcnt = f[r].rc
         /\ HeapOK(h, SlotsUsed(f, k)) /\ Slot(h, f[r].slot).value \in Bytestring
<1>1. f[r].slot \in SlotsUsed(f, k)
  BY DEF SlotsUsed
<1>2. HeapOK(h, SlotsUsed(f, k)) /\ r \in Objects /\ Slot(h, f[r].slot).refcnt = f[r].rc
  BY DEF Housed, SlotCounts
<1>3. IsHeap(h, Bytestring) /\ f[r].slot \in Ids(h)
  BY <1>1, <1>2, UsedInHeap
<1>4. f[r].slot \in Nat /\ Slot(h, f[r].slot) \in Cells(h)
  BY <1>3, HeapTypes
<1>5. Slot(h, f[r].slot).value \in Bytestring
  BY <1>4 DEF Cells
<1> QED BY <1>1, <1>2, <1>3, <1>4, <1>5

(* Nothing of kind k changes.                                              *)
LEMMA HousedOther ==
  ASSUME NEW f, NEW h, NEW k, Housed(f, h, k), NEW t, NEW r, ObjChanged(f, t, r),
         r \in Places => f[r].kind # k /\ t[r].kind # k
  PROVE  Housed(t, h, k)
<1>1. \A p \in Places : t[p].kind = k <=> f[p].kind = k
  BY DEF ObjChanged
<1>2. \A p \in Places : t[p].kind = k => t[p] = f[p]
  BY DEF ObjChanged
<1>3. SlotsUsed(t, k) = SlotsUsed(f, k)
  BY <1>1, <1>2 DEF SlotsUsed
<1>4. OwnSlots(t, k)
  BY <1>1, <1>2 DEF OwnSlots, Housed
<1>5. SlotCounts(t, h, k)
  BY <1>1, <1>2 DEF SlotCounts, Housed
<1>6. t \in [Places -> ObjRec] /\ Bounded(h) /\ HeapOK(h, SlotsUsed(t, k))
  BY <1>3 DEF Housed, ObjChanged
<1> QED BY <1>4, <1>5, <1>6 DEF Housed

(* The slot of r changes, and its count with the object's.                 *)
LEMMA HousedSet ==
  ASSUME NEW f, NEW h, NEW k, Housed(f, h, k), NEW r \in Places, f[r].kind = k,
         NEW t, ObjChanged(f, t, r), t[r].kind = k, t[r].slot = f[r].slot,
         NEW g, IsHeap(g, Bytestring), SlotChanged(h, g, f[r].slot), Slot(g, f[r].slot).refcnt = t[r].rc
  PROVE  Housed(t, g, k) /\ SlotsKept(f, h, g, k, r)
<1>1. \A p \in Places : t[p].kind = k <=> f[p].kind = k
  BY DEF ObjChanged
<1>2. \A p \in Places : t[p].kind = k => t[p].slot = f[p].slot
  BY DEF ObjChanged
<1>3. SlotsUsed(t, k) = SlotsUsed(f, k)
  BY <1>1, <1>2 DEF SlotsUsed
<1>4. HeapOK(g, SlotsUsed(t, k))
  BY <1>3, HousedSlot, ChangedHeap
<1>5. OwnSlots(t, k)
  BY <1>1, <1>2 DEF OwnSlots, Housed
<1>6. \A p \in Places \ {r} : f[p].kind = k => f[p].slot # f[r].slot /\ f[p].slot \in Ids(h)
  BY HousedSlot DEF OwnSlots, Housed
<1>7. SlotsKept(f, h, g, k, r)
  BY <1>6 DEF SlotsKept, SlotChanged
<1>8. SlotCounts(t, g, k)
  <2> SUFFICES ASSUME NEW p \in Places, t[p].kind = k
               PROVE  p \in Objects /\ Slot(g, t[p].slot).refcnt = t[p].rc
    BY DEF SlotCounts
  <2>1. CASE p = r
    BY <2>1, HousedSlot
  <2>2. CASE p # r
    <3>1. t[p] = f[p]
      BY <2>2 DEF ObjChanged
    <3>2. Slot(g, f[p].slot) = Slot(h, f[p].slot)
      BY <2>2, <3>1, <1>7 DEF SlotsKept
    <3> QED BY <3>1, <3>2, HousedSlot
  <2> QED BY <2>1, <2>2
<1>9. t \in [Places -> ObjRec] /\ Bounded(g)
  BY DEF ObjChanged, Housed, Bounded, SlotChanged
<1> QED BY <1>4, <1>5, <1>7, <1>8, <1>9 DEF Housed

IsAlloc(h, a) == a = Alloc(h)

(* An object of another kind becomes one of kind k, with a new slot.       *)
LEMMA HousedNew ==
  ASSUME NEW f, NEW h, NEW k, Housed(f, h, k), NEW r \in Objects, f[r].kind # k,
         NEW a, IsAlloc(h, a),
         NEW t, ObjChanged(f, t, r), t[r].kind = k, t[r].slot = a.id,
         NEW g, IsHeap(g, Bytestring), SlotChanged(a.h, g, a.id), Slot(g, a.id).refcnt = t[r].rc
  PROVE  Housed(t, g, k) /\ SlotsKept(f, h, g, k, r)
<1> DEFINE Taken == SlotsUsed(f, k)
<1>0. HeapOK(h, Taken) /\ r \in Places
  BY DEF Housed, Places
<1>1. /\ HeapOK(a.h, Taken \cup {a.id}) /\ a.id \notin Taken
      /\ \A i \in Taken : Slot(a.h, i) = Slot(h, i)
      /\ GrowsWhenFull(h, a.h, Taken)
  <2>1. PICK U : U = Taken
    OBVIOUS
  <2>2. HeapOK(h, U) /\ a = Alloc(h)
    BY <1>0, <2>1 DEF IsAlloc
  <2>3. HeapOK(a.h, U \cup {a.id})
    BY <2>2, AllocHeap
  <2>4. a.id \notin U
    BY <2>2, <2>3, AllocHeap
  <2>5. \A i \in U : Slot(a.h, i) = Slot(h, i)
    BY <2>2, <2>3, AllocHeap
  <2>6. GrowsWhenFull(h, a.h, U)
    BY <2>2, <2>3, AllocHeap
  <2> QED BY <2>1, <2>3, <2>4, <2>5, <2>6
<1>2. HeapOK(g, Taken \cup {a.id})
  BY <1>1, ChangedHeap
<1>3. SlotsUsed(t, k) = Taken \cup {a.id}
  BY <1>0 DEF SlotsUsed, ObjChanged
<1>4. \A p \in Places \ {r} : f[p].kind = k => f[p].slot \in Taken /\ f[p].slot # a.id
  BY <1>1 DEF SlotsUsed
<1>5. OwnSlots(t, k)
  BY <1>4 DEF OwnSlots, Housed, ObjChanged
<1>6. Taken \subseteq Ids(a.h)
  BY <1>1, UsedInHeap
<1>7. SlotsKept(f, h, g, k, r)
  BY <1>1, <1>4, <1>6 DEF SlotsKept, SlotChanged
<1>8. SlotCounts(t, g, k)
  <2> SUFFICES ASSUME NEW p \in Places, t[p].kind = k
               PROVE  p \in Objects /\ Slot(g, t[p].slot).refcnt = t[p].rc
    BY DEF SlotCounts
  <2>1. CASE p = r
    BY <2>1
  <2>2. CASE p # r
    <3>1. t[p] = f[p]
      BY <2>2 DEF ObjChanged
    <3>2. Slot(g, f[p].slot) = Slot(h, f[p].slot)
      BY <2>2, <3>1, <1>7 DEF SlotsKept
    <3> QED BY <3>1, <3>2, HousedSlot
  <2> QED BY <2>1, <2>2
<1>9. Bounded(g)
  <2> SUFFICES ASSUME IsFiniteSet(Objects) PROVE Len(g.slots) <= Cardinality(Objects)
    BY DEF Bounded
  <2>1. Len(h.slots) <= Cardinality(Objects) /\ Len(g.slots) = Len(a.h.slots)
    BY DEF Housed, Bounded, SlotChanged
  <2>2. CASE Len(a.h.slots) = Len(h.slots)
    BY <2>1, <2>2
  <2>3. CASE Len(a.h.slots) = Len(h.slots) + 1 /\ Taken = Ids(h)
    <3>1. PICK L : L = {p \in Objects : f[p].kind = k}
      OBVIOUS
    <3>2. L \subseteq Objects \ {r}
      BY <3>1
    <3>3. PICK s : s = [p \in L |-> f[p].slot]
      OBVIOUS
    <3>4. s \in [L -> Ids(h)]
      <4>1. \A p \in L : f[p].slot \in Ids(h)
        BY <3>1, HousedSlot DEF Places
      <4> QED BY <3>3, <4>1
    <3>5. \A i \in Ids(h) : \E p \in L : s[p] = i
      <4> SUFFICES ASSUME NEW i \in Taken PROVE \E p \in L : s[p] = i
        BY <2>3
      <4>1. PICK p \in Places : f[p].kind = k /\ f[p].slot = i
        BY DEF SlotsUsed
      <4>2. p \in L
        BY <3>1, <4>1, HousedSlot
      <4> QED BY <3>3, <4>1, <4>2
    <3>6. s \in Surjection(L, Ids(h))
      BY <3>4, <3>5 DEF Surjection
    <3>7. IsFiniteSet(Objects \ {r}) /\ Cardinality(Objects \ {r}) = Cardinality(Objects) - 1
      BY FS_RemoveElement
    <3>8. IsFiniteSet(L) /\ Cardinality(L) <= Cardinality(Objects \ {r})
      BY <3>2, <3>7, FS_Subset
    <3>9. Cardinality(Ids(h)) <= Cardinality(L) /\ IsFiniteSet(Ids(h))
      BY <3>6, <3>8, FS_Surjection
    <3>10. Cardinality(Ids(h)) = Len(h.slots) /\ Len(h.slots) \in Nat
      BY <1>0, UsedInHeap, IdsCount
    <3>11. Cardinality(L) \in Nat /\ Cardinality(Objects) \in Nat
      BY <3>8, FS_CardinalityType
    <3> QED BY <2>1, <2>3, <3>7, <3>8, <3>9, <3>10, <3>11
  <2> QED BY <1>1, <2>2, <2>3 DEF GrowsWhenFull
<1>10. t \in [Places -> ObjRec]
  BY DEF ObjChanged
<1> QED BY <1>2, <1>3, <1>5, <1>7, <1>8, <1>9, <1>10 DEF Housed

(* An object of kind k gives its slot back.                                *)
LEMMA HousedFree ==
  ASSUME NEW f, NEW h, NEW k, Housed(f, h, k), NEW r \in Places, f[r].kind = k,
         NEW t, ObjChanged(f, t, r), t[r].kind # k,
         NEW g, g = FreeSlot(h, f[r].slot)
  PROVE  Housed(t, g, k) /\ SlotsKept(f, h, g, k, r)
<1> DEFINE Taken == SlotsUsed(f, k)
<1>1. f[r].slot \in Taken /\ HeapOK(h, Taken)
  BY HousedSlot
<1>2. /\ HeapOK(g, Taken \ {f[r].slot}) /\ Len(g.slots) = Len(h.slots)
      /\ \A i \in Taken \ {f[r].slot} : Slot(g, i) = Slot(h, i)
  <2>1. PICK U, id : U = Taken /\ id = f[r].slot
    OBVIOUS
  <2>2. HeapOK(h, U) /\ id \in U /\ g = FreeSlot(h, id)
    BY <1>1, <2>1
  <2>3. HeapOK(g, U \ {id})
    BY <2>2, FreeHeap
  <2>4. Len(g.slots) = Len(h.slots)
    BY <2>2, <2>3, FreeHeap
  <2>5. \A i \in U \ {id} : Slot(g, i) = Slot(h, i)
    BY <2>2, <2>3, FreeHeap
  <2> QED BY <2>1, <2>3, <2>4, <2>5
<1>3. \A p \in Places \ {r} : f[p].kind = k => f[p].slot \in Taken \ {f[r].slot}
  BY DEF SlotsUsed, OwnSlots, Housed
<1>4. SlotsUsed(t, k) = Taken \ {f[r].slot}
  <2>1. \A p \in Places : t[p].kind = k <=> p # r /\ f[p].kind = k
    BY DEF ObjChanged
  <2>2. \A p \in Places \ {r} : t[p] = f[p]
    BY DEF ObjChanged
  <2> QED BY <1>3, <2>1, <2>2 DEF SlotsUsed
<1>5. OwnSlots(t, k)
  BY DEF OwnSlots, Housed, ObjChanged
<1>6. SlotsKept(f, h, g, k, r)
  BY <1>2, <1>3 DEF SlotsKept
<1>7. SlotCounts(t, g, k)
  <2> SUFFICES ASSUME NEW p \in Places, t[p].kind = k
               PROVE  p \in Objects /\ Slot(g, t[p].slot).refcnt = t[p].rc
    BY DEF SlotCounts
  <2>1. t[p] = f[p] /\ p # r
    BY DEF ObjChanged
  <2>2. Slot(g, f[p].slot) = Slot(h, f[p].slot)
    BY <2>1, <1>6 DEF SlotsKept
  <2> QED BY <2>1, <2>2, HousedSlot
<1>8. t \in [Places -> ObjRec] /\ Bounded(g)
  BY <1>2 DEF ObjChanged, Housed, Bounded
<1> QED BY <1>2, <1>4, <1>5, <1>6, <1>7, <1>8 DEF Housed

-----------------------------------------------------------------------------
(***************************************************************************)
(* Texts: what merge_string makes of one, character by character.          *)
(***************************************************************************)
LEMMA LeastElement ==
  ASSUME NEW T \in SUBSET Nat, T # {}
  PROVE  \E x \in T : \A y \in T : x <= y
<1>1. PICK R : R = OpToRel(<, Nat)
  OBVIOUS
<1>2. IsWellFoundedOn(R, Nat)
  BY <1>1, NatLessThanWellFounded
<1>3. PICK x \in T : \A y \in T : ~ (<<y, x>> \in R)
  BY <1>2, WFMin
<1>4. \A m, n \in Nat : <<n, m>> \in R <=> n < m
  BY <1>1 DEF OpToRel
<1>5. ASSUME NEW y \in T PROVE x <= y
  <2>1. x \in Nat /\ y \in Nat /\ <<y, x>> \notin R
    BY <1>3
  <2>2. ~(y < x)
    BY <1>4, <2>1
  <2> QED BY <2>1, <2>2
<1> QED BY <1>5

(* Induction over the natural numbers, for a set in place of a predicate.  *)
LEMMA SetInduction ==
  ASSUME NEW S, 0 \in S, \A n \in Nat : n \in S => n + 1 \in S
  PROVE  Nat \subseteq S
<1> SUFFICES ASSUME Nat \ S # {} PROVE FALSE
  OBVIOUS
<1>1. PICK T : T = Nat \ S
  OBVIOUS
<1>2. T \in SUBSET Nat /\ T # {}
  BY <1>1
<1>3. PICK x \in T : \A y \in T : x <= y
  BY <1>2, LeastElement
<1>4. x \in Nat /\ x # 0 /\ x \notin S
  BY <1>1, <1>3
<1>5. x - 1 \in Nat /\ ~(x <= x - 1) /\ (x - 1) + 1 = x
  BY <1>4
<1>6. x - 1 \notin T
  BY <1>3, <1>5
<1>7. x - 1 \in S
  BY <1>1, <1>5, <1>6
<1> QED BY <1>4, <1>5, <1>7

(* g says what the scratch text is after each of m characters.             *)
IsMerged(g, m, scratch, src) ==
  g = [n \in 0..m |-> IF n = 0 THEN scratch ELSE Merged(g[n - 1], src[n])]

(* The steps of an append can be followed for any number of characters.    *)
LEMMA MergedExists ==
  ASSUME NEW scratch, NEW src, NEW m \in Nat
  PROVE  \E g : IsMerged(g, m, scratch, src)
<1>1. PICK S : S = {n \in Nat : \E g : IsMerged(g, n, scratch, src)}
  OBVIOUS
<1>2. 0 \in S
  <2>1. PICK g : g = [n \in 0..0 |-> scratch]
    OBVIOUS
  <2>2. IsMerged(g, 0, scratch, src)
    BY <2>1 DEF IsMerged
  <2> QED BY <1>1, <2>2
<1>3. ASSUME NEW k \in Nat, k \in S PROVE k + 1 \in S
  <2>1. PICK g : IsMerged(g, k, scratch, src)
    BY <1>1, <1>3
  <2>2. PICK h : h = [n \in 0..(k + 1) |-> IF n = k + 1 THEN Merged(g[k], src[k + 1]) ELSE g[n]]
    OBVIOUS
  <2>3. h[k] = g[k]
    BY <2>2
  <2>4. ASSUME NEW n \in 0..(k + 1)
        PROVE  h[n] = IF n = 0 THEN scratch ELSE Merged(h[n - 1], src[n])
    <3>1. CASE n = k + 1
      BY <2>2, <2>3, <3>1
    <3>2. CASE n \in 0..k
      <4>1. h[n] = g[n] /\ (n # 0 => h[n - 1] = g[n - 1])
        BY <2>2, <3>2
      <4> QED BY <2>1, <3>2, <4>1 DEF IsMerged
    <3> QED BY <3>1, <3>2
  <2>5. IsMerged(h, k + 1, scratch, src)
    BY <2>2, <2>4 DEF IsMerged
  <2> QED BY <1>1, <2>5
<1>4. Nat \subseteq S
  BY <1>2, <1>3, SetInduction
<1> QED BY <1>1, <1>4

(* AppendRt is the last of them.                                           *)
LEMMA AppendIsMerged ==
  ASSUME NEW scratch, NEW src, Len(src) \in Nat
  PROVE  \E g : IsMerged(g, Len(src), scratch, src) /\ AppendRt(scratch, src) = g[Len(src)]
<1>1. PICK g : g = CHOOSE x : IsMerged(x, Len(src), scratch, src)
  OBVIOUS
<1>2. IsMerged(g, Len(src), scratch, src)
  BY <1>1, MergedExists
<1>3. AppendRt(scratch, src) = g[Len(src)]
  BY <1>1 DEF AppendRt, IsMerged
<1> QED BY <1>2, <1>3

(* Texts stay texts.                                                       *)
LEMMA AppendTyped ==
  ASSUME NEW C, NEW scratch \in Seq(C), NEW src \in Seq(C)
  PROVE  AppendRt(scratch, src) \in Seq(C)
<1>1. Len(src) \in Nat /\ \A n \in 1..Len(src) : src[n] \in C
  OBVIOUS
<1>2. PICK g : IsMerged(g, Len(src), scratch, src) /\ AppendRt(scratch, src) = g[Len(src)]
  BY <1>1, AppendIsMerged
<1>3. PICK S : S = {n \in Nat : n <= Len(src) => g[n] \in Seq(C)}
  OBVIOUS
<1>4. 0 \in S
  BY <1>1, <1>2, <1>3 DEF IsMerged
<1>5. ASSUME NEW k \in Nat, k \in S PROVE k + 1 \in S
  <2>1. CASE k + 1 <= Len(src)
    <3>1. k <= Len(src) /\ k + 1 \in 1..Len(src) /\ k + 1 \in 0..Len(src) /\ k + 1 # 0 /\ (k + 1) - 1 = k
      BY <1>1, <2>1
    <3>2. g[k] \in Seq(C) /\ src[k + 1] \in C
      BY <1>1, <1>3, <1>5, <3>1
    <3>3. g[k + 1] = Merged(g[k], src[k + 1])
      BY <1>2, <3>1 DEF IsMerged
    <3>4. Append(g[k], src[k + 1]) \in Seq(C)
      BY <3>2
    <3>5. g[k + 1] \in Seq(C)
      BY <3>2, <3>3, <3>4 DEF Merged
    <3> QED BY <1>3, <3>5
  <2>2. CASE ~(k + 1 <= Len(src))
    BY <1>3, <2>2
  <2> QED BY <2>1, <2>2
<1>6. Nat \subseteq S
  BY <1>4, <1>5, SetInduction
<1>7. Len(src) \in S /\ Len(src) <= Len(src)
  BY <1>1, <1>6
<1> QED BY <1>2, <1>3, <1>7

(* Where no character breaks a command, all of src is appended.            *)
LEMMA AppendWhole ==
  ASSUME Breaking = {}, NEW C, NEW scratch \in Seq(C), NEW src \in Seq(C)
  PROVE  AppendRt(scratch, src) = scratch \o src
<1>1. Len(src) \in Nat /\ \A n \in 1..Len(src) : src[n] \in C
  OBVIOUS
<1>2. PICK g : IsMerged(g, Len(src), scratch, src) /\ AppendRt(scratch, src) = g[Len(src)]
  BY <1>1, AppendIsMerged
<1>3. PICK S : S = {n \in Nat : n <= Len(src) => g[n] = scratch \o SubSeq(src, 1, n)}
  OBVIOUS
<1>4. 0 \in S
  <2>1. SubSeq(src, 1, 0) = <<>>
    BY <1>1
  <2>2. g[0] = scratch
    BY <1>1, <1>2 DEF IsMerged
  <2>3. scratch \o <<>> = scratch
    OBVIOUS
  <2> QED BY <1>3, <2>1, <2>2, <2>3
<1>5. ASSUME NEW k \in Nat, k \in S PROVE k + 1 \in S
  <2>1. CASE k + 1 <= Len(src)
    <3>1. k <= Len(src) /\ k + 1 \in 1..Len(src) /\ k + 1 \in 0..Len(src) /\ k + 1 # 0 /\ (k + 1) - 1 = k
      BY <1>1, <2>1
    <3>2. g[k] = scratch \o SubSeq(src, 1, k) /\ src[k + 1] \in C
      BY <1>1, <1>3, <1>5, <3>1
    <3>3. g[k + 1] = Merged(g[k], src[k + 1])
      BY <1>2, <3>1 DEF IsMerged
    <3>4. g[k + 1] = Append(g[k], src[k + 1])
      BY <3>3 DEF Merged, Plain
    <3>5. PICK a, b, c : a = SubSeq(src, 1, k) /\ b = SubSeq(src, 1, k + 1) /\ c = src[k + 1]
      OBVIOUS
    <3>6. a \in Seq(C) /\ c \in C /\ b = Append(a, c)
      <4>1. a \in Seq(C) /\ b \in Seq(C) /\ Len(a) = k /\ Len(b) = k + 1 /\ c \in C
        BY <1>1, <3>1, <3>2, <3>5
      <4>2. \A i \in 1..k : a[i] = src[i]
        BY <1>1, <3>1, <3>5
      <4>3. \A i \in 1..(k + 1) : b[i] = src[i]
        BY <1>1, <3>1, <3>5
      <4>4. \A i \in 1..(k + 1) : b[i] = Append(a, c)[i]
        BY <3>5, <4>1, <4>2, <4>3
      <4> QED BY <4>1, <4>4
    <3>7. Append(scratch \o a, c) = scratch \o Append(a, c)
      <4>1. Append(scratch \o a, c) = (scratch \o a) \o <<c>> /\ Append(a, c) = a \o <<c>>
        <5>1. PICK x : x = scratch \o a
          OBVIOUS
        <5>2. x \in Seq(C)
          BY <3>6, <5>1
        <5>3. Append(x, c) = x \o <<c>>
          BY <3>6, <5>2, AppendIsConcat
        <5>4. Append(a, c) = a \o <<c>>
          BY <3>6, AppendIsConcat
        <5> QED BY <5>1, <5>3, <5>4
      <4>2. <<c>> \in Seq(C)
        BY <3>6
      <4>3. (scratch \o a) \o <<c>> = scratch \o (a \o <<c>>)
        BY <3>6, <4>2, ConcatAssociative
      <4> QED BY <4>1, <4>3
    <3>8. g[k + 1] = scratch \o b
      BY <3>2, <3>4, <3>5, <3>6, <3>7
    <3> QED BY <1>3, <3>5, <3>8
  <2>2. CASE ~(k + 1 <= Len(src))
    BY <1>3, <2>2
  <2> QED BY <2>1, <2>2
<1>6. Nat \subseteq S
  BY <1>4, <1>5, SetInduction
<1>7. g[Len(src)] = scratch \o SubSeq(src, 1, Len(src))
  BY <1>1, <1>3, <1>6
<1>8. SubSeq(src, 1, Len(src)) = src
  BY <1>1
<1> QED BY <1>2, <1>7, <1>8

(* What __mc_str_begin_rt leaves is a text.                                *)
LEMMA BeginTyped ==
  ASSUME NEW C, NEW src \in Seq(C)
  PROVE  BeginRt(src) \in Seq(C)
<1>1. CASE src = <<>>
  BY <1>1 DEF BeginRt
<1>2. CASE src # <<>>
  <2>1. SubSeq(src, 1, 1) \in Seq(C) /\ Tail(src) \in Seq(C)
    BY <1>2
  <2> QED BY <1>2, <2>1, AppendTyped DEF BeginRt
<1> QED BY <1>1, <1>2

(* Where no character breaks a command, it is the whole of src.            *)
LEMMA BeginWhole ==
  ASSUME Breaking = {}, NEW C, NEW src \in Seq(C)
  PROVE  BeginRt(src) = src
<1>1. CASE src = <<>>
  BY <1>1 DEF BeginRt
<1>2. CASE src # <<>>
  <2>1. SubSeq(src, 1, 1) \in Seq(C) /\ Tail(src) \in Seq(C)
    BY <1>2
  <2>2. BeginRt(src) = SubSeq(src, 1, 1) \o Tail(src)
    BY <1>2, <2>1, AppendWhole DEF BeginRt
  <2>3. SubSeq(src, 1, 1) \o Tail(src) = src
    BY <1>2
  <2> QED BY <2>2, <2>3
<1> QED BY <1>1, <1>2

(* What a C string function sees is a text, no longer than the bytes it is *)
(* in.                                                                     *)
LEMMA CStringTyped ==
  ASSUME NEW C, NEW b \in Seq(C)
  PROVE  CString(b) \in Seq(C) /\ Len(CString(b)) \in Nat /\ Len(CString(b)) <= Len(b)
<1>1. CASE \E k \in DOMAIN b : b[k] = Nul
  <2>1. PICK T : T = {k \in Nat : k \in DOMAIN b /\ b[k] = Nul}
    OBVIOUS
  <2>2. T \in SUBSET Nat /\ T # {}
    BY <1>1, <2>1
  <2>3. PICK x \in T : \A y \in T : x <= y
    BY <2>2, LeastElement
  <2>4. x \in DOMAIN b /\ b[x] = Nul /\ \A j \in 1..(x - 1) : b[j] # Nul
    BY <2>1, <2>3
  <2>5. PICK k : k = CHOOSE i \in DOMAIN b : b[i] = Nul /\ \A j \in 1..(i - 1) : b[j] # Nul
    OBVIOUS
  <2>6. k \in DOMAIN b
    BY <2>4, <2>5
  <2>7. CString(b) = SubSeq(b, 1, k - 1)
    BY <1>1, <2>5 DEF CString, UpToNul
  <2>8. k \in 1..Len(b) /\ Len(b) \in Nat
    BY <2>6
  <2>9. SubSeq(b, 1, k - 1) \in Seq(C) /\ Len(SubSeq(b, 1, k - 1)) = k - 1
    BY <2>8
  <2> QED BY <2>7, <2>8, <2>9
<1>2. CASE ~ \E k \in DOMAIN b : b[k] = Nul
  BY <1>2 DEF CString
<1> QED BY <1>1, <1>2

(* A text without a terminator in it is seen whole.                        *)
LEMMA CStringWhole ==
  ASSUME NEW b, \A k \in DOMAIN b : b[k] # Nul
  PROVE  CString(b) = b
BY DEF CString

-----------------------------------------------------------------------------
(***************************************************************************)
(* Holders.  hold is how often the client, or the binding at work, holds   *)
(* an object; an object that keeps a handle is one more holder of it.      *)
(***************************************************************************)
Keeps(f, o) == IF \E s \in Places : f[s].mcf = o THEN 1 ELSE 0

Shape(p, c) ==
  /\ c.kind = "none" => c = Free
  /\ p \in Objects => c.rc \in Nat /\ (c.rc = 0 => c.kind = "none")
  /\ p \in Statics => c.kind = "target" /\ c.rc = -1 /\ c.lit = Null
  /\ c.kind = "exec" => c.rc = 1
  /\ c.mcf # Null => c.kind \in {"string", "target", "exec"}
  /\ c.lit # Null => c.kind \in {"string", "target"}

HandlesOK(f) ==
  /\ \A s \in Places : f[s].mcf # Null => f[s].mcf \in Objects /\ f[f[s].mcf].kind = "ref"
  /\ \A s, t \in Places : f[s].mcf # Null /\ f[s].mcf = f[t].mcf => s = t

GraphOK(f, hold) ==
  /\ f \in [Places -> ObjRec] /\ hold \in [Places -> Nat]
  /\ \A p \in Places : Shape(p, f[p])
  /\ HandlesOK(f)
  /\ \A o \in Objects : f[o].rc = hold[o] + Keeps(f, o)

(* A place is a block or a static, never both and never NULL.              *)
LEMMA PlaceTypes ==
  /\ Objects \subseteq Places /\ Statics \subseteq Places
  /\ \A p \in Places : p \in Objects \/ p \in Statics
  /\ \A p \in Places : p # Null
  /\ \A p \in Objects : p \notin Statics
BY ObjectsAssumption DEF Places

(* A handle is kept by one object or by none.                              *)
LEMMA KeepsTypes ==
  ASSUME NEW f, NEW o
  PROVE  Keeps(f, o) \in {0, 1} /\ (Keeps(f, o) = 0 <=> \A s \in Places : f[s].mcf # o)
BY DEF Keeps

(* Only handles are kept.                                                  *)
LEMMA OthersNotKept ==
  ASSUME NEW f, HandlesOK(f), NEW o \in Objects, f[o].kind # "ref"
  PROVE  Keeps(f, o) = 0
<1>1. o # Null
  BY PlaceTypes
<1>2. \A s \in Places : f[s].mcf # o
  BY <1>1 DEF HandlesOK
<1> QED BY <1>2, KeepsTypes

(* One object changes, with those who hold it, but not what it keeps.      *)
LEMMA GraphSame ==
  ASSUME NEW f, NEW hold, GraphOK(f, hold), NEW r \in Places, NEW t, ObjChanged(f, t, r),
         Shape(r, t[r]), t[r].mcf = f[r].mcf,
         f[r].kind = "ref" /\ t[r].kind # "ref" => Keeps(f, r) = 0,
         NEW after \in [Places -> Nat], \A p \in Places \ {r} : after[p] = hold[p],
         r \in Objects => t[r].rc = after[r] + Keeps(f, r)
  PROVE  GraphOK(t, after)
<1>1. \A s \in Places : t[s].mcf = f[s].mcf
  BY DEF ObjChanged
<1>2. \A o : Keeps(t, o) = Keeps(f, o)
  BY <1>1 DEF Keeps
<1>3. \A p \in Places : Shape(p, t[p])
  BY DEF ObjChanged, GraphOK
<1>4. HandlesOK(t)
  <2>1. \A s, u \in Places : t[s].mcf # Null /\ t[s].mcf = t[u].mcf => s = u
    BY <1>1 DEF GraphOK, HandlesOK
  <2>2. ASSUME NEW s \in Places, t[s].mcf # Null PROVE t[s].mcf \in Objects /\ t[t[s].mcf].kind = "ref"
    <3>1. PICK m : m = f[s].mcf
      OBVIOUS
    <3>2. m \in Objects /\ f[m].kind = "ref" /\ m \in Places
      BY <1>1, <2>2, <3>1, PlaceTypes DEF GraphOK, HandlesOK
    <3>3. CASE m = r
      <4>1. Keeps(f, r) # 0
        <5>1. \E p \in Places : f[p].mcf = r
          BY <3>1, <3>3
        <5> QED BY <5>1 DEF Keeps
      <4>2. t[r].kind = "ref"
        BY <3>2, <3>3, <4>1
      <4> QED BY <1>1, <3>1, <3>2, <3>3, <4>2
    <3>4. CASE m # r
      <4>1. t[m] = f[m]
        BY <3>2, <3>4 DEF ObjChanged
      <4> QED BY <1>1, <3>1, <3>2, <4>1
    <3> QED BY <3>3, <3>4
  <2> QED BY <2>1, <2>2 DEF HandlesOK
<1>5. ASSUME NEW o \in Objects PROVE t[o].rc = after[o] + Keeps(t, o)
  <2>1. CASE o = r
    BY <1>2, <2>1
  <2>2. CASE o # r
    <3>1. t[o] = f[o] /\ after[o] = hold[o]
      BY <2>2, PlaceTypes DEF ObjChanged
    <3> QED BY <1>2, <3>1 DEF GraphOK
  <2> QED BY <2>1, <2>2
<1>6. t \in [Places -> ObjRec]
  BY DEF ObjChanged
<1> QED BY <1>3, <1>4, <1>5, <1>6 DEF GraphOK

(* s keeps, from now on, a handle that nobody kept.                        *)
LEMMA GraphKeep ==
  ASSUME NEW f, NEW hold, GraphOK(f, hold), NEW s \in Places, NEW r \in Objects,
         f[r].kind = "ref", Keeps(f, r) = 0, f[s].mcf = Null,
         NEW t, ObjChanged(f, t, s), Shape(s, t[s]), t[s].mcf = r, t[s].rc = f[s].rc,
         t[s].kind = f[s].kind,
         NEW after \in [Places -> Nat], \A p \in Places \ {r} : after[p] = hold[p],
         hold[r] = after[r] + 1
  PROVE  GraphOK(t, after)
<1>1. \A p \in Places \ {s} : t[p] = f[p]
  BY DEF ObjChanged
<1>2. \A p \in Places : f[p].mcf # r
  BY KeepsTypes
<1>0. r # Null /\ r \in Places /\ s # r
  BY PlaceTypes DEF Shape
<1>3. \A p \in Places : Shape(p, t[p])
  BY <1>1 DEF GraphOK
<1>4. HandlesOK(t)
  <2>0. r # Null /\ r \in Places /\ t[r] = f[r]
    BY <1>0, <1>1
  <2>1. \A p, q \in Places : t[p].mcf # Null /\ t[p].mcf = t[q].mcf => p = q
    BY <1>1, <1>2 DEF GraphOK, HandlesOK
  <2>2. ASSUME NEW p \in Places, t[p].mcf # Null PROVE t[p].mcf \in Objects /\ t[t[p].mcf].kind = "ref"
    <3>1. CASE p = s
      BY <2>0, <3>1
    <3>2. CASE p # s
      <4>1. PICK m : m = f[p].mcf
        OBVIOUS
      <4>2. t[p].mcf = m /\ m \in Objects /\ m \in Places /\ f[m].kind = "ref"
        BY <1>1, <2>2, <3>2, <4>1, PlaceTypes DEF GraphOK, HandlesOK
      <4>3. m # s
        <5>1. t[s].kind # "ref"
          BY <2>0 DEF Shape
        <5> QED BY <4>2, <5>1
      <4> QED BY <1>1, <4>2, <4>3
    <3> QED BY <3>1, <3>2
  <2> QED BY <2>1, <2>2 DEF HandlesOK
<1>5. ASSUME NEW o \in Objects PROVE t[o].rc = after[o] + Keeps(t, o)
  <2>0. o \in Places /\ s \in Places /\ o # Null
    BY PlaceTypes
  <2>1. CASE o = r
    <3>1. Keeps(t, r) = 1
      BY DEF Keeps
    <3>2. t[o] = f[o]
      BY <1>0, <1>1, <2>1
    <3>3. f[o].rc = hold[o] + 0 /\ hold[o] \in Nat /\ after[o] \in Nat
      BY <2>0, <2>1 DEF GraphOK
    <3> QED BY <2>1, <3>1, <3>2, <3>3
  <2>2. CASE o # r
    <3>1. \A p \in Places : t[p].mcf = o <=> f[p].mcf = o
      BY <1>1, <2>0, <2>2
    <3>2. Keeps(t, o) = Keeps(f, o)
      BY <3>1 DEF Keeps
    <3>3. t[o].rc = f[o].rc
      BY <1>1, <2>0
    <3> QED BY <2>0, <2>2, <3>2, <3>3 DEF GraphOK
  <2> QED BY <2>1, <2>2
<1>6. t \in [Places -> ObjRec]
  BY DEF ObjChanged
<1> QED BY <1>3, <1>4, <1>5, <1>6 DEF GraphOK

(* s no longer keeps its handle: somebody else is to release it.           *)
LEMMA GraphDrop ==
  ASSUME NEW f, NEW hold, GraphOK(f, hold), NEW s \in Places, NEW r, f[s].mcf = r, r # Null,
         NEW t, ObjChanged(f, t, s), Shape(s, t[s]), t[s].mcf = Null, t[s].rc = f[s].rc,
         t[s].kind = f[s].kind,
         NEW after \in [Places -> Nat], \A p \in Places \ {r} : after[p] = hold[p],
         after[r] = hold[r] + 1
  PROVE  GraphOK(t, after)
<1>1. \A p \in Places \ {s} : t[p] = f[p]
  BY DEF ObjChanged
<1>2. r \in Objects /\ r \in Places /\ \A p \in Places : f[p].mcf = r => p = s
  BY PlaceTypes DEF GraphOK, HandlesOK
<1>3. \A p \in Places : Shape(p, t[p])
  BY <1>1 DEF GraphOK
<1>4. HandlesOK(t)
  <2>1. \A p \in Places : t[p].mcf # Null => p # s /\ t[p] = f[p]
    BY <1>1
  <2>2. \A p, q \in Places : t[p].mcf # Null /\ t[p].mcf = t[q].mcf => p = q
    BY <2>1 DEF GraphOK, HandlesOK
  <2>3. \A p \in Places : t[p].kind = f[p].kind
    BY <1>1
  <2>4. ASSUME NEW p \in Places, t[p].mcf # Null PROVE t[p].mcf \in Objects /\ t[t[p].mcf].kind = "ref"
    <3>1. t[p].mcf = f[p].mcf /\ f[p].mcf \in Objects /\ f[f[p].mcf].kind = "ref" /\ f[p].mcf \in Places
      BY <2>1, <2>4, PlaceTypes DEF GraphOK, HandlesOK
    <3> QED BY <2>3, <3>1
  <2> QED BY <2>2, <2>4 DEF HandlesOK
<1>5. ASSUME NEW o \in Objects PROVE t[o].rc = after[o] + Keeps(t, o)
  <2>0. o \in Places /\ o # Null /\ t[o].rc = f[o].rc
    BY <1>1, PlaceTypes
  <2>1. CASE o = r
    <3>1. Keeps(f, r) = 1 /\ Keeps(t, r) = 0
      <4>1. \A p \in Places : t[p].mcf # r
        BY <1>1, <1>2
      <4> QED BY <4>1, KeepsTypes
    <3>2. f[o].rc = hold[o] + 1 /\ hold[o] \in Nat
      BY <2>0, <2>1, <3>1 DEF GraphOK
    <3> QED BY <2>0, <2>1, <3>1, <3>2
  <2>2. CASE o # r
    <3>1. \A p \in Places : t[p].mcf = o <=> f[p].mcf = o
      BY <1>1, <2>0, <2>2
    <3>2. Keeps(t, o) = Keeps(f, o)
      BY <3>1 DEF Keeps
    <3> QED BY <2>0, <2>2, <3>2 DEF GraphOK
  <2> QED BY <2>1, <2>2
<1>6. t \in [Places -> ObjRec]
  BY DEF ObjChanged
<1> QED BY <1>3, <1>4, <1>5, <1>6 DEF GraphOK

-----------------------------------------------------------------------------
(***************************************************************************)
(* Worlds, and what the C functions do to them.                            *)
(***************************************************************************)
LiteralsFit(f, m) ==
  /\ m \in [Literals -> Bytestring]
  /\ \A p \in Places : f[p].lit # Null => f[p].len <= Len(m[f[p].lit])

IsWorld(w) == w = [obj |-> w.obj, str |-> w.str, nbt |-> w.nbt, mem |-> w.mem]

(* The parts of w, under a name of their own.                              *)
Has(w, f, s, b, m) == w = [obj |-> f, str |-> s, nbt |-> b, mem |-> m]

(* The parts of w by their names.                                          *)
LEMMA HasFields ==
  ASSUME NEW w, NEW f, NEW s, NEW b, NEW m, Has(w, f, s, b, m)
  PROVE  IsWorld(w) /\ w.obj = f /\ w.str = s /\ w.nbt = b /\ w.mem = m
BY DEF Has, IsWorld

WorldOK(w, hold) ==
  /\ IsWorld(w)
  /\ GraphOK(w.obj, hold)
  /\ Housed(w.obj, w.str, "ref")
  /\ Housed(w.obj, w.nbt, "nbt")
  /\ LiteralsFit(w.obj, w.mem)

StrValue(w, p) == Slot(w.str, w.obj[p].slot).value
NbtValue(w, p) == Slot(w.nbt, w.obj[p].slot).value

(* But for its count, c is d.                                              *)
Alike(c, d) ==
  /\ c.kind = d.kind /\ c.data = d.data /\ c.lit = d.lit /\ c.len = d.len
  /\ c.mcf = d.mcf /\ c.slot = d.slot

Same(w, v, p) ==
  /\ Alike(v.obj[p], w.obj[p])
  /\ w.obj[p].kind = "ref" => StrValue(v, p) = StrValue(w, p)
  /\ w.obj[p].kind = "nbt" => NbtValue(v, p) = NbtValue(w, p)

(* Only objects in R say something else, or keep another handle.           *)
Spares(w, v, R) == v.mem = w.mem /\ \A p \in Places \ R : Same(w, v, p)

(* What two steps in a row spare stays as it was.                          *)
LEMMA SparesChain ==
  ASSUME NEW w, NEW v, NEW u, NEW R, Spares(w, v, R), Spares(v, u, R)
  PROVE  Spares(w, u, R)
<1>1. ASSUME NEW p \in Places \ R PROVE Same(w, u, p)
  <2>1. Same(w, v, p) /\ Same(v, u, p)
    BY DEF Spares
  <2> QED BY <2>1 DEF Same, Alike
<1> QED BY <1>1 DEF Spares

(* Nothing changes in a step that changes nothing.                         *)
LEMMA SparesSelf ==
  ASSUME NEW w, NEW R
  PROVE  Spares(w, w, R)
BY DEF Spares, Same, Alike

(* A step that spares much spares less.                                    *)
LEMMA SparesMore ==
  ASSUME NEW w, NEW v, NEW Q, NEW R, Spares(w, v, Q), Q \subseteq R
  PROVE  Spares(w, v, R)
BY DEF Spares

(* Object r becomes c: f is what is in each block then, after who holds it. *)
Replaces(w, hold, r, c, f, after) ==
  /\ WorldOK(w, hold) /\ r \in Places /\ c \in ObjRec
  /\ f = [w.obj EXCEPT ![r] = c]
  /\ Shape(r, c) /\ c.mcf = w.obj[r].mcf
  /\ w.obj[r].kind = "ref" /\ c.kind # "ref" => Keeps(w.obj, r) = 0
  /\ after \in [Places -> Nat] /\ \A p \in Places \ {r} : after[p] = hold[p]
  /\ r \in Objects => c.rc = after[r] + Keeps(w.obj, r)
  /\ c.lit # Null => c.len <= Len(w.mem[c.lit])

(* One object changes.                                                     *)
LEMMA ReplacesObj ==
  ASSUME NEW w, NEW hold, NEW r, NEW c, NEW f, NEW after, Replaces(w, hold, r, c, f, after)
  PROVE  /\ ObjChanged(w.obj, f, r) /\ f[r] = c /\ f \in [Places -> ObjRec]
         /\ IsWorld(w) /\ r \in Places /\ w.obj \in [Places -> ObjRec]
<1>1. w.obj \in [Places -> ObjRec] /\ IsWorld(w) /\ r \in Places /\ c \in ObjRec /\ f = [w.obj EXCEPT ![r] = c]
  BY DEF Replaces, WorldOK, GraphOK
<1> QED BY <1>1 DEF ObjChanged

(* An object and its slot change together: the world stays well formed and *)
(* the rest of it as it was.                                               *)
LEMMA WorldStep ==
  ASSUME NEW w, NEW hold, NEW r, NEW c, NEW f, NEW after, Replaces(w, hold, r, c, f, after),
         NEW v, IsWorld(v), v.mem = w.mem, v.obj = f,
         Housed(f, v.str, "ref"), SlotsKept(w.obj, w.str, v.str, "ref", r),
         Housed(f, v.nbt, "nbt"), SlotsKept(w.obj, w.nbt, v.nbt, "nbt", r)
  PROVE  WorldOK(v, after) /\ Spares(w, v, {r})
<1>0. ObjChanged(w.obj, f, r) /\ f[r] = c /\ r \in Places
  BY ReplacesObj
<1>1. GraphOK(v.obj, after)
  <2>1. /\ GraphOK(w.obj, hold) /\ Shape(r, f[r]) /\ f[r].mcf = w.obj[r].mcf
        /\ w.obj[r].kind = "ref" /\ f[r].kind # "ref" => Keeps(w.obj, r) = 0
        /\ after \in [Places -> Nat] /\ \A p \in Places \ {r} : after[p] = hold[p]
        /\ r \in Objects => f[r].rc = after[r] + Keeps(w.obj, r)
    BY <1>0 DEF Replaces, WorldOK
  <2> QED BY <1>0, <2>1, GraphSame
<1>2. LiteralsFit(v.obj, v.mem)
  BY <1>0 DEF Replaces, WorldOK, LiteralsFit, ObjChanged
<1>3. ASSUME NEW p \in Places \ {r} PROVE Same(w, v, p)
  <2>1. v.obj[p] = w.obj[p]
    BY <1>0 DEF ObjChanged
  <2>2. /\ w.obj[p].kind = "ref" => Slot(v.str, w.obj[p].slot) = Slot(w.str, w.obj[p].slot)
        /\ w.obj[p].kind = "nbt" => Slot(v.nbt, w.obj[p].slot) = Slot(w.nbt, w.obj[p].slot)
    BY DEF SlotsKept
  <2> QED BY <2>1, <2>2 DEF Same, Alike, StrValue, NbtValue
<1> QED BY <1>1, <1>2, <1>3 DEF WorldOK, Spares

(* A heap that is left alone keeps its slots.                              *)
LEMMA SlotsKeptSelf == \A f, h, k, r : SlotsKept(f, h, h, k, r)
BY DEF SlotsKept

(* An object without a slot changes.                                       *)
LEMMA PlainStep ==
  ASSUME NEW w, NEW hold, NEW r, NEW c, NEW f, NEW after, Replaces(w, hold, r, c, f, after),
         w.obj[r].kind \notin {"ref", "nbt"}, c.kind \notin {"ref", "nbt"},
         NEW v, Has(v, f, w.str, w.nbt, w.mem)
  PROVE  WorldOK(v, after) /\ Spares(w, v, {r}) /\ v.obj = f /\ v.obj[r] = c
<1>0. ObjChanged(w.obj, f, r) /\ f[r] = c /\ IsWorld(w) /\ r \in Places
  BY ReplacesObj
<1>1. v.obj = f /\ v.str = w.str /\ v.nbt = w.nbt /\ v.mem = w.mem /\ IsWorld(v)
  BY HasFields
<1>2. Housed(w.obj, w.str, "ref") /\ Housed(w.obj, w.nbt, "nbt")
  BY DEF Replaces, WorldOK
<1>3. Housed(f, w.str, "ref") /\ Housed(f, w.nbt, "nbt")
  BY <1>0, <1>2, HousedOther
<1>4. SlotsKept(w.obj, w.str, v.str, "ref", r) /\ SlotsKept(w.obj, w.nbt, v.nbt, "nbt", r)
  BY <1>1, SlotsKeptSelf
<1> QED BY <1>0, <1>1, <1>3, <1>4, WorldStep

(* A value and a count are set one after the other.                        *)
LEMMA SetBoth ==
  ASSUME NEW h, IsHeap(h, Bytestring), NEW id \in Ids(h), NEW t \in Bytestring, NEW n \in Nat,
         NEW g, g = SetRefcnt(SetValue(h, id, t), id, n)
  PROVE  /\ IsHeap(g, Bytestring) /\ SlotChanged(h, g, id)
         /\ Slot(g, id).value = t /\ Slot(g, id).refcnt = n
<1>1. PICK e : e = SetValue(h, id, t)
  OBVIOUS
<1>2. IsHeap(e, Bytestring) /\ SlotChanged(h, e, id) /\ Slot(e, id).value = t
  BY <1>1, SetValueSlot
<1>3. Ids(e) = Ids(h)
  BY <1>2 DEF SlotChanged, Ids
<1>4. g = SetRefcnt(e, id, n) /\ id \in Ids(e)
  BY <1>1, <1>3
<1>5. IsHeap(g, Bytestring) /\ SlotChanged(e, g, id) /\ Slot(g, id).refcnt = n /\ Slot(g, id).value = Slot(e, id).value
  BY <1>2, <1>4, SetRefcntSlot
<1>6. SlotChanged(h, g, id)
  BY <1>2, <1>3, <1>5 DEF SlotChanged
<1> QED BY <1>2, <1>5, <1>6

(* What a block is that holds no object.                                   *)
LEMMA FreeTypes ==
  /\ Free \in ObjRec /\ Free.kind = "none" /\ Free.rc = 0 /\ Free.mcf = Null /\ Free.lit = Null
  /\ Free.data = <<>> /\ Free.len = 0 /\ Free.slot = -1
  /\ \A p \in Objects : Shape(p, Free)
BY PlaceTypes DEF Free, ObjRec, Shape, Kinds, Bytestring

(* Nobody holds a block without an object, and nothing in it matters.      *)
LEMMA BlockIsFree ==
  ASSUME NEW w, NEW hold, WorldOK(w, hold), NEW r \in Objects, w.obj[r].kind = "none"
  PROVE  w.obj[r] = Free /\ hold[r] = 0 /\ Keeps(w.obj, r) = 0 /\ w.obj[r].mcf = Null /\ r \in Places
<1>1. r \in Places /\ w.obj[r] = Free /\ hold[r] \in Nat
  BY PlaceTypes DEF WorldOK, GraphOK, Shape
<1>2. Keeps(w.obj, r) = 0
  BY OthersNotKept DEF WorldOK, GraphOK
<1>3. w.obj[r].rc = hold[r] + Keeps(w.obj, r)
  BY DEF WorldOK, GraphOK
<1> QED BY <1>1, <1>2, <1>3, FreeTypes

Put(f, r, c) == [f EXCEPT ![r] = c]

Counted(c, n) == [c EXCEPT !.rc = n]

(* A new object in a block: the client, or the one who asked for it, is    *)
(* its only holder.                                                        *)
LEMMA NewReplaces ==
  ASSUME NEW w, NEW hold, WorldOK(w, hold), NEW r \in Objects, w.obj[r].kind = "none",
         NEW c \in ObjRec, Shape(r, c), c.mcf = Null, c.rc = 1,
         c.lit # Null => c.len <= Len(w.mem[c.lit])
  PROVE  Replaces(w, hold, r, c, Put(w.obj, r, c), Put(hold, r, 1))
<1>1. w.obj[r] = Free /\ hold[r] = 0 /\ Keeps(w.obj, r) = 0 /\ w.obj[r].mcf = Null /\ r \in Places
  BY BlockIsFree
<1>2. hold \in [Places -> Nat] /\ w.obj \in [Places -> ObjRec]
  BY DEF WorldOK, GraphOK
<1>3. PICK after : after = [hold EXCEPT ![r] = 1]
  OBVIOUS
<1>4. after \in [Places -> Nat] /\ after[r] = 1 /\ \A p \in Places \ {r} : after[p] = hold[p]
  BY <1>1, <1>2, <1>3
<1>5. w.obj[r].kind = "ref" /\ c.kind # "ref" => Keeps(w.obj, r) = 0
  BY <1>1
<1>6. r \in Objects => c.rc = after[r] + Keeps(w.obj, r)
  BY <1>1, <1>4
<1> QED BY <1>1, <1>3, <1>4, <1>5, <1>6 DEF Replaces, Put

(* One holder more or less, of those that do not keep it.                  *)
LEMMA CountReplaces ==
  ASSUME NEW w, NEW hold, WorldOK(w, hold), NEW r \in Objects, w.obj[r].kind \notin {"none", "exec"},
         NEW n \in Nat, n # 0, NEW k \in Nat, n = k + Keeps(w.obj, r)
  PROVE  /\ Replaces(w, hold, r, Counted(w.obj[r], n), Put(w.obj, r, Counted(w.obj[r], n)), Put(hold, r, k))
         /\ Alike(Counted(w.obj[r], n), w.obj[r]) /\ Counted(w.obj[r], n).rc = n
<1>1. /\ hold \in [Places -> Nat] /\ w.obj \in [Places -> ObjRec] /\ r \in Places
      /\ w.obj[r] \in ObjRec /\ Shape(r, w.obj[r])
      /\ w.obj[r].lit # Null => w.obj[r].len <= Len(w.mem[w.obj[r].lit])
  BY PlaceTypes DEF WorldOK, GraphOK, LiteralsFit
<1>2. PICK d : d = w.obj[r]
  OBVIOUS
<1>3. PICK c : c = [d EXCEPT !.rc = n]
  OBVIOUS
<1>4. c \in ObjRec /\ Alike(c, d) /\ c.rc = n
  BY <1>1, <1>2, <1>3 DEF ObjRec, Alike
<1>5. Shape(r, c)
  BY <1>1, <1>2, <1>4, PlaceTypes DEF Shape, Alike
<1>6. PICK after : after = [hold EXCEPT ![r] = k]
  OBVIOUS
<1>7. after \in [Places -> Nat] /\ after[r] = k /\ \A p \in Places \ {r} : after[p] = hold[p]
  BY <1>1, <1>6
<1>9. /\ c.mcf = w.obj[r].mcf
      /\ w.obj[r].kind = "ref" /\ c.kind # "ref" => Keeps(w.obj, r) = 0
      /\ c.lit # Null => c.len <= Len(w.mem[c.lit])
  BY <1>1, <1>2, <1>4 DEF Alike
<1>10. r \in Objects => c.rc = after[r] + Keeps(w.obj, r)
  BY <1>4, <1>7
<1>11. Replaces(w, hold, r, c, [w.obj EXCEPT ![r] = c], after)
  BY <1>1, <1>4, <1>5, <1>7, <1>9, <1>10 DEF Replaces
<1>12. c = Counted(w.obj[r], n) /\ after = Put(hold, r, k) /\ Put(w.obj, r, c) = [w.obj EXCEPT ![r] = c]
  BY <1>2, <1>3, <1>6 DEF Counted, Put
<1> QED BY <1>2, <1>4, <1>11, <1>12

(* The last holder lets go.                                                *)
LEMMA GoneReplaces ==
  ASSUME NEW w, NEW hold, WorldOK(w, hold), NEW r \in Objects, w.obj[r].rc = 1, hold[r] # 0,
         w.obj[r].mcf = Null
  PROVE  Replaces(w, hold, r, Free, Put(w.obj, r, Free), Put(hold, r, hold[r] - 1))
<1>1. /\ hold \in [Places -> Nat] /\ w.obj \in [Places -> ObjRec] /\ r \in Places
      /\ w.obj[r].rc = hold[r] + Keeps(w.obj, r)
  BY PlaceTypes DEF WorldOK, GraphOK
<1>2. hold[r] = 1 /\ Keeps(w.obj, r) = 0
  BY <1>1, KeepsTypes
<1>3. PICK after : after = [hold EXCEPT ![r] = @ - 1]
  OBVIOUS
<1>4. after \in [Places -> Nat] /\ after[r] = 0 /\ \A p \in Places \ {r} : after[p] = hold[p]
  BY <1>1, <1>2, <1>3
<1>5. PICK c : c = Free
  OBVIOUS
<1>6. c \in ObjRec /\ Shape(r, c) /\ c.rc = 0 /\ c.mcf = Null /\ c.lit = Null
  BY <1>5, FreeTypes
<1>7. r \in Objects => c.rc = after[r] + Keeps(w.obj, r)
  BY <1>2, <1>4, <1>6
<1>8. Replaces(w, hold, r, c, [w.obj EXCEPT ![r] = c], after)
  BY <1>1, <1>2, <1>4, <1>6, <1>7 DEF Replaces
<1> QED BY <1>3, <1>5, <1>8 DEF Put

(* An object and its slot change, in the heap str.                         *)
LEMMA RefReplaced ==
  ASSUME NEW w, NEW hold, NEW r, NEW c, NEW f, NEW after, Replaces(w, hold, r, c, f, after),
         w.obj[r].kind # "nbt", c.kind # "nbt",
         NEW g, Housed(f, g, "ref"), SlotsKept(w.obj, w.str, g, "ref", r),
         NEW v, Has(v, f, g, w.nbt, w.mem)
  PROVE  WorldOK(v, after) /\ Spares(w, v, {r})
<1>0. ObjChanged(w.obj, f, r) /\ f[r] = c /\ IsWorld(w) /\ r \in Places
  BY ReplacesObj
<1>1. IsWorld(v) /\ v.mem = w.mem /\ v.obj = f /\ v.str = g /\ v.nbt = w.nbt
  BY HasFields
<1>2. Housed(w.obj, w.nbt, "nbt")
  BY DEF Replaces, WorldOK
<1>3. Housed(f, w.nbt, "nbt")
  BY <1>0, <1>2, HousedOther
<1>4. SlotsKept(w.obj, w.str, v.str, "ref", r) /\ SlotsKept(w.obj, w.nbt, v.nbt, "nbt", r)
  BY <1>1, SlotsKeptSelf
<1>5. Housed(f, v.str, "ref") /\ Housed(f, v.nbt, "nbt")
  BY <1>1, <1>3
<1>6. WorldOK(v, after)
  BY <1>1, <1>4, <1>5, WorldStep
<1>7. Spares(w, v, {r})
  BY <1>1, <1>4, <1>5, <1>6, WorldStep
<1> QED BY <1>6, <1>7

(* What is known of a handle in a world that is well formed.               *)
LEMMA RefFacts ==
  ASSUME NEW w, NEW hold, WorldOK(w, hold), NEW r \in Places, w.obj[r].kind = "ref"
  PROVE  /\ r \in Objects /\ w.obj[r].slot \in Ids(w.str) /\ w.obj[r].slot \in Nat
         /\ IsHeap(w.str, Bytestring) /\ Slot(w.str, w.obj[r].slot).refcnt = w.obj[r].rc
         /\ w.obj[r].mcf = Null /\ w.obj[r].lit = Null /\ w.obj[r].rc \in Nat
         /\ w.obj[r].rc = hold[r] + Keeps(w.obj, r) /\ hold[r] \in Nat
         /\ w.obj[r] \in ObjRec
         /\ Slot(w.str, w.obj[r].slot).value \in Bytestring
<1>1. Housed(w.obj, w.str, "ref")
  BY DEF WorldOK
<1>2. /\ r \in Objects /\ w.obj[r].slot \in Ids(w.str) /\ w.obj[r].slot \in Nat
      /\ IsHeap(w.str, Bytestring) /\ Slot(w.str, w.obj[r].slot).refcnt = w.obj[r].rc
      /\ Slot(w.str, w.obj[r].slot).value \in Bytestring
  BY <1>1, HousedSlot
<1>3. /\ w.obj[r].mcf = Null /\ w.obj[r].lit = Null /\ w.obj[r].rc \in Nat /\ hold[r] \in Nat
      /\ w.obj[r].rc = hold[r] + Keeps(w.obj, r) /\ w.obj[r] \in ObjRec
  BY <1>2 DEF WorldOK, GraphOK, Shape
<1> QED BY <1>2, <1>3

(* An object of kind ref in a block, with a slot just handed out.            *)
LEMMA RefNewStep ==
  ASSUME NEW w, NEW hold, NEW r \in Objects, NEW c, NEW f, NEW after, Replaces(w, hold, r, c, f, after),
         w.obj[r].kind = "none", c.kind = "ref",
         NEW a, IsAlloc(w.str, a), c.slot = a.id,
         NEW g, IsHeap(g, Bytestring), SlotChanged(a.h, g, a.id), Slot(g, a.id).refcnt = c.rc,
         NEW v, Has(v, f, g, w.nbt, w.mem)
  PROVE  WorldOK(v, after) /\ Spares(w, v, {r})
<1>1. ObjChanged(w.obj, f, r) /\ f[r] = c
  BY ReplacesObj
<1>2. w.obj[r].kind # "ref" /\ Housed(w.obj, w.str, "ref")
  BY DEF Replaces, WorldOK
<1>3. f[r].kind = "ref" /\ f[r].slot = a.id /\ Slot(g, a.id).refcnt = f[r].rc
  BY <1>1
<1>4. Housed(f, g, "ref")
  BY <1>1, <1>2, <1>3, HousedNew
<1>5. SlotsKept(w.obj, w.str, g, "ref", r)
  BY <1>1, <1>2, <1>3, <1>4, HousedNew
<1>6. WorldOK(v, after)
  BY <1>4, <1>5, RefReplaced
<1>7. Spares(w, v, {r})
  BY <1>4, <1>5, <1>6, RefReplaced
<1> QED BY <1>6, <1>7

(* What is in the slot of r changes, and the count of r in both places.    *)
LEMMA RefSetStep ==
  ASSUME NEW w, NEW hold, NEW r, NEW c, NEW f, NEW after, Replaces(w, hold, r, c, f, after),
         w.obj[r].kind = "ref", Alike(c, w.obj[r]),
         NEW g, IsHeap(g, Bytestring), SlotChanged(w.str, g, w.obj[r].slot),
         Slot(g, w.obj[r].slot).refcnt = c.rc,
         NEW v, Has(v, f, g, w.nbt, w.mem)
  PROVE  /\ WorldOK(v, after) /\ Spares(w, v, {r})
         /\ StrValue(v, r) = StrValue(w, r) => Spares(w, v, {})
<1>1. ObjChanged(w.obj, f, r) /\ f[r] = c /\ r \in Places
  BY ReplacesObj
<1>2. Housed(w.obj, w.str, "ref")
  BY DEF Replaces, WorldOK
<1>3. f[r].kind = "ref" /\ f[r].slot = w.obj[r].slot /\ Slot(g, w.obj[r].slot).refcnt = f[r].rc
      /\ c.kind = "ref"
  BY <1>1 DEF Alike
<1>4. Housed(f, g, "ref")
  BY <1>1, <1>2, <1>3, HousedSet
<1>5. SlotsKept(w.obj, w.str, g, "ref", r)
  BY <1>1, <1>2, <1>3, <1>4, HousedSet
<1>6. WorldOK(v, after)
  BY <1>3, <1>4, <1>5, RefReplaced
<1>7. Spares(w, v, {r})
  BY <1>3, <1>4, <1>5, <1>6, RefReplaced
<1>8. v.obj = f
  BY HasFields
<1>9. ASSUME StrValue(v, r) = StrValue(w, r) PROVE Same(w, v, r)
  BY <1>1, <1>8, <1>9 DEF Same
<1> QED BY <1>6, <1>7, <1>9 DEF Spares

(* The same with the object as it is.                                      *)
LEMMA RefTextStep ==
  ASSUME NEW w, NEW hold, WorldOK(w, hold), NEW r \in Places, w.obj[r].kind = "ref",
         NEW g, IsHeap(g, Bytestring), SlotChanged(w.str, g, w.obj[r].slot),
         Slot(g, w.obj[r].slot).refcnt = w.obj[r].rc,
         NEW v, Has(v, w.obj, g, w.nbt, w.mem)
  PROVE  WorldOK(v, hold) /\ Spares(w, v, {r})
<1>1. IsWorld(w) /\ w.obj \in [Places -> ObjRec]
  BY DEF WorldOK, GraphOK
<1>2. v.obj = w.obj /\ v.str = g /\ v.nbt = w.nbt /\ v.mem = w.mem /\ IsWorld(v)
  BY HasFields
<1>3. ObjChanged(w.obj, w.obj, r) /\ Housed(w.obj, w.str, "ref")
  BY <1>1 DEF ObjChanged, WorldOK
<1>4. Housed(w.obj, g, "ref") /\ SlotsKept(w.obj, w.str, g, "ref", r)
  BY <1>3, HousedSet
<1>5. WorldOK(v, hold)
  BY <1>2, <1>4 DEF WorldOK
<1>6. ASSUME NEW p \in Places \ {r} PROVE Same(w, v, p)
  <2>1. w.obj[p].kind = "ref" => Slot(g, w.obj[p].slot) = Slot(w.str, w.obj[p].slot)
    BY <1>4 DEF SlotsKept
  <2> QED BY <1>2, <2>1 DEF Same, Alike, StrValue, NbtValue
<1>7. Spares(w, v, {r})
  BY <1>2, <1>6 DEF Spares
<1> QED BY <1>5, <1>7

(* r is freed, its slot goes to the free list.                             *)
LEMMA RefGoneStep ==
  ASSUME NEW w, NEW hold, NEW r, NEW c, NEW f, NEW after, Replaces(w, hold, r, c, f, after),
         w.obj[r].kind = "ref", c.kind = "none",
         NEW g, g = FreeSlot(w.str, w.obj[r].slot),
         NEW v, Has(v, f, g, w.nbt, w.mem)
  PROVE  WorldOK(v, after) /\ Spares(w, v, {r})
<1>1. ObjChanged(w.obj, f, r) /\ f[r] = c /\ r \in Places
  BY ReplacesObj
<1>2. Housed(w.obj, w.str, "ref") /\ f[r].kind # "ref"
  BY <1>1 DEF Replaces, WorldOK
<1>3. Housed(f, g, "ref")
  BY <1>1, <1>2, HousedFree
<1>4. SlotsKept(w.obj, w.str, g, "ref", r)
  BY <1>1, <1>2, <1>3, HousedFree
<1>5. WorldOK(v, after)
  BY <1>3, <1>4, RefReplaced
<1>6. Spares(w, v, {r})
  BY <1>3, <1>4, <1>5, RefReplaced
<1> QED BY <1>5, <1>6

(* An object and its slot change, in the heap nbt.                         *)
LEMMA NbtReplaced ==
  ASSUME NEW w, NEW hold, NEW r, NEW c, NEW f, NEW after, Replaces(w, hold, r, c, f, after),
         w.obj[r].kind # "ref", c.kind # "ref",
         NEW g, Housed(f, g, "nbt"), SlotsKept(w.obj, w.nbt, g, "nbt", r),
         NEW v, Has(v, f, w.str, g, w.mem)
  PROVE  WorldOK(v, after) /\ Spares(w, v, {r})
<1>0. ObjChanged(w.obj, f, r) /\ f[r] = c /\ IsWorld(w) /\ r \in Places
  BY ReplacesObj
<1>1. IsWorld(v) /\ v.mem = w.mem /\ v.obj = f /\ v.nbt = g /\ v.str = w.str
  BY HasFields
<1>2. Housed(w.obj, w.str, "ref")
  BY DEF Replaces, WorldOK
<1>3. Housed(f, w.str, "ref")
  BY <1>0, <1>2, HousedOther
<1>4. SlotsKept(w.obj, w.nbt, v.nbt, "nbt", r) /\ SlotsKept(w.obj, w.str, v.str, "ref", r)
  BY <1>1, SlotsKeptSelf
<1>5. Housed(f, v.nbt, "nbt") /\ Housed(f, v.str, "ref")
  BY <1>1, <1>3
<1>6. WorldOK(v, after)
  BY <1>1, <1>4, <1>5, WorldStep
<1>7. Spares(w, v, {r})
  BY <1>1, <1>4, <1>5, <1>6, WorldStep
<1> QED BY <1>6, <1>7

(* What is known of an NBT value in a world that is well formed.           *)
LEMMA NbtFacts ==
  ASSUME NEW w, NEW hold, WorldOK(w, hold), NEW r \in Places, w.obj[r].kind = "nbt"
  PROVE  /\ r \in Objects /\ w.obj[r].slot \in Ids(w.nbt) /\ w.obj[r].slot \in Nat
         /\ IsHeap(w.nbt, Bytestring) /\ Slot(w.nbt, w.obj[r].slot).refcnt = w.obj[r].rc
         /\ w.obj[r].mcf = Null /\ w.obj[r].lit = Null /\ w.obj[r].rc \in Nat
         /\ w.obj[r].rc = hold[r] + Keeps(w.obj, r) /\ hold[r] \in Nat
         /\ w.obj[r] \in ObjRec
         /\ Slot(w.nbt, w.obj[r].slot).value \in Bytestring
<1>1. Housed(w.obj, w.nbt, "nbt")
  BY DEF WorldOK
<1>2. /\ r \in Objects /\ w.obj[r].slot \in Ids(w.nbt) /\ w.obj[r].slot \in Nat
      /\ IsHeap(w.nbt, Bytestring) /\ Slot(w.nbt, w.obj[r].slot).refcnt = w.obj[r].rc
      /\ Slot(w.nbt, w.obj[r].slot).value \in Bytestring
  BY <1>1, HousedSlot
<1>3. /\ w.obj[r].mcf = Null /\ w.obj[r].lit = Null /\ w.obj[r].rc \in Nat /\ hold[r] \in Nat
      /\ w.obj[r].rc = hold[r] + Keeps(w.obj, r) /\ w.obj[r] \in ObjRec
  BY <1>2 DEF WorldOK, GraphOK, Shape
<1> QED BY <1>2, <1>3

(* An object of kind nbt in a block, with a slot just handed out.            *)
LEMMA NbtNewStep ==
  ASSUME NEW w, NEW hold, NEW r \in Objects, NEW c, NEW f, NEW after, Replaces(w, hold, r, c, f, after),
         w.obj[r].kind = "none", c.kind = "nbt",
         NEW a, IsAlloc(w.nbt, a), c.slot = a.id,
         NEW g, IsHeap(g, Bytestring), SlotChanged(a.h, g, a.id), Slot(g, a.id).refcnt = c.rc,
         NEW v, Has(v, f, w.str, g, w.mem)
  PROVE  WorldOK(v, after) /\ Spares(w, v, {r})
<1>1. ObjChanged(w.obj, f, r) /\ f[r] = c
  BY ReplacesObj
<1>2. w.obj[r].kind # "nbt" /\ Housed(w.obj, w.nbt, "nbt")
  BY DEF Replaces, WorldOK
<1>3. f[r].kind = "nbt" /\ f[r].slot = a.id /\ Slot(g, a.id).refcnt = f[r].rc
  BY <1>1
<1>4. Housed(f, g, "nbt")
  BY <1>1, <1>2, <1>3, HousedNew
<1>5. SlotsKept(w.obj, w.nbt, g, "nbt", r)
  BY <1>1, <1>2, <1>3, <1>4, HousedNew
<1>6. WorldOK(v, after)
  BY <1>4, <1>5, NbtReplaced
<1>7. Spares(w, v, {r})
  BY <1>4, <1>5, <1>6, NbtReplaced
<1> QED BY <1>6, <1>7

(* What is in the slot of r changes, and the count of r in both places.    *)
LEMMA NbtSetStep ==
  ASSUME NEW w, NEW hold, NEW r, NEW c, NEW f, NEW after, Replaces(w, hold, r, c, f, after),
         w.obj[r].kind = "nbt", Alike(c, w.obj[r]),
         NEW g, IsHeap(g, Bytestring), SlotChanged(w.nbt, g, w.obj[r].slot),
         Slot(g, w.obj[r].slot).refcnt = c.rc,
         NEW v, Has(v, f, w.str, g, w.mem)
  PROVE  /\ WorldOK(v, after) /\ Spares(w, v, {r})
         /\ NbtValue(v, r) = NbtValue(w, r) => Spares(w, v, {})
<1>1. ObjChanged(w.obj, f, r) /\ f[r] = c /\ r \in Places
  BY ReplacesObj
<1>2. Housed(w.obj, w.nbt, "nbt")
  BY DEF Replaces, WorldOK
<1>3. f[r].kind = "nbt" /\ f[r].slot = w.obj[r].slot /\ Slot(g, w.obj[r].slot).refcnt = f[r].rc
      /\ c.kind = "nbt"
  BY <1>1 DEF Alike
<1>4. Housed(f, g, "nbt")
  BY <1>1, <1>2, <1>3, HousedSet
<1>5. SlotsKept(w.obj, w.nbt, g, "nbt", r)
  BY <1>1, <1>2, <1>3, <1>4, HousedSet
<1>6. WorldOK(v, after)
  BY <1>3, <1>4, <1>5, NbtReplaced
<1>7. Spares(w, v, {r})
  BY <1>3, <1>4, <1>5, <1>6, NbtReplaced
<1>8. v.obj = f
  BY HasFields
<1>9. ASSUME NbtValue(v, r) = NbtValue(w, r) PROVE Same(w, v, r)
  BY <1>1, <1>8, <1>9 DEF Same
<1> QED BY <1>6, <1>7, <1>9 DEF Spares

(* The same with the object as it is.                                      *)
LEMMA NbtTextStep ==
  ASSUME NEW w, NEW hold, WorldOK(w, hold), NEW r \in Places, w.obj[r].kind = "nbt",
         NEW g, IsHeap(g, Bytestring), SlotChanged(w.nbt, g, w.obj[r].slot),
         Slot(g, w.obj[r].slot).refcnt = w.obj[r].rc,
         NEW v, Has(v, w.obj, w.str, g, w.mem)
  PROVE  WorldOK(v, hold) /\ Spares(w, v, {r})
<1>1. IsWorld(w) /\ w.obj \in [Places -> ObjRec]
  BY DEF WorldOK, GraphOK
<1>2. v.obj = w.obj /\ v.nbt = g /\ v.str = w.str /\ v.mem = w.mem /\ IsWorld(v)
  BY HasFields
<1>3. ObjChanged(w.obj, w.obj, r) /\ Housed(w.obj, w.nbt, "nbt")
  BY <1>1 DEF ObjChanged, WorldOK
<1>4. Housed(w.obj, g, "nbt") /\ SlotsKept(w.obj, w.nbt, g, "nbt", r)
  BY <1>3, HousedSet
<1>5. WorldOK(v, hold)
  BY <1>2, <1>4 DEF WorldOK
<1>6. ASSUME NEW p \in Places \ {r} PROVE Same(w, v, p)
  <2>1. w.obj[p].kind = "nbt" => Slot(g, w.obj[p].slot) = Slot(w.nbt, w.obj[p].slot)
    BY <1>4 DEF SlotsKept
  <2> QED BY <1>2, <2>1 DEF Same, Alike, StrValue, NbtValue
<1>7. Spares(w, v, {r})
  BY <1>2, <1>6 DEF Spares
<1> QED BY <1>5, <1>7

(* r is freed, its slot goes to the free list.                             *)
LEMMA NbtGoneStep ==
  ASSUME NEW w, NEW hold, NEW r, NEW c, NEW f, NEW after, Replaces(w, hold, r, c, f, after),
         w.obj[r].kind = "nbt", c.kind = "none",
         NEW g, g = FreeSlot(w.nbt, w.obj[r].slot),
         NEW v, Has(v, f, w.str, g, w.mem)
  PROVE  WorldOK(v, after) /\ Spares(w, v, {r})
<1>1. ObjChanged(w.obj, f, r) /\ f[r] = c /\ r \in Places
  BY ReplacesObj
<1>2. Housed(w.obj, w.nbt, "nbt") /\ f[r].kind # "nbt"
  BY <1>1 DEF Replaces, WorldOK
<1>3. Housed(f, g, "nbt")
  BY <1>1, <1>2, HousedFree
<1>4. SlotsKept(w.obj, w.nbt, g, "nbt", r)
  BY <1>1, <1>2, <1>3, HousedFree
<1>5. WorldOK(v, after)
  BY <1>3, <1>4, NbtReplaced
<1>6. Spares(w, v, {r})
  BY <1>3, <1>4, <1>5, NbtReplaced
<1> QED BY <1>5, <1>6

-----------------------------------------------------------------------------
(***************************************************************************)
(* McfStrRef                                                               *)
(***************************************************************************)
(* A world given by changes to some of its parts.                          *)
LEMMA WorldParts ==
  ASSUME NEW w, NEW hold, WorldOK(w, hold)
  PROVE  /\ IsWorld(w) /\ w.obj \in [Places -> ObjRec] /\ hold \in [Places -> Nat]
         /\ \A r \in Places : w.obj[r] \in ObjRec /\ hold[r] \in Nat /\ Shape(r, w.obj[r])
         /\ \A r \in Objects : r \in Places /\ w.obj[r].rc = hold[r] + Keeps(w.obj, r) /\ w.obj[r].rc \in Nat
BY PlaceTypes DEF WorldOK, GraphOK, Shape

Handle(kind, id) == [Dynamic(kind) EXCEPT !.slot = id]

(* A new handle is a well-formed object.                                   *)
LEMMA HandleTypes ==
  ASSUME NEW k \in Kinds, k # "none", k # "exec", NEW id \in Int, NEW r \in Objects,
         NEW c, c = Handle(k, id)
  PROVE  /\ c \in ObjRec /\ c.kind = k /\ c.rc = 1 /\ c.mcf = Null /\ c.lit = Null /\ c.slot = id
         /\ Shape(r, c)
<1>1. c = [kind |-> k, rc |-> 1, data |-> <<>>, lit |-> Null, len |-> 0, mcf |-> Null, slot |-> id]
  BY DEF Handle, Dynamic, Free
<1>2. <<>> \in Bytestring
  BY DEF Bytestring
<1>3. c \in ObjRec /\ c.kind = k /\ c.rc = 1 /\ c.mcf = Null /\ c.lit = Null /\ c.slot = id
  BY <1>1, <1>2 DEF ObjRec
<1> QED BY <1>3, PlaceTypes DEF Shape

(* McfStrRef_From: a handle in the block r, held once, that says src.      *)
LEMMA RefFrom ==
  ASSUME NEW w, NEW hold, WorldOK(w, hold), NEW r \in Objects, w.obj[r].kind = "none",
         NEW src \in Bytestring, NEW v, v = McfStrRefFrom(w, r, src)
  PROVE  /\ WorldOK(v, Put(hold, r, 1)) /\ Spares(w, v, {r})
         /\ v.obj[r].kind = "ref" /\ StrValue(v, r) = BeginRt(src) /\ Keeps(v.obj, r) = 0
<1>1. PICK a : IsAlloc(w.str, a)
  BY DEF IsAlloc
<1>2. PICK c, f, after : c = Handle("ref", a.id) /\ f = Put(w.obj, r, c) /\ after = Put(hold, r, 1)
  OBVIOUS
<1>3. PICK y : y = [w EXCEPT !.obj[r] = [Dynamic("ref") EXCEPT !.slot = a.id], !.str = a.h]
  OBVIOUS
<1>4. PICK g : g = SetRefcnt(SetValue(a.h, a.id, BeginRt(src)), a.id, 1)
  OBVIOUS
<1>5. IsWorld(w) /\ w.obj \in [Places -> ObjRec] /\ hold \in [Places -> Nat] /\ r \in Places
  BY WorldParts
<1>6. HeapOK(w.str, SlotsUsed(w.obj, "ref"))
  BY DEF WorldOK, Housed
<1>7. /\ HeapOK(a.h, SlotsUsed(w.obj, "ref") \cup {a.id}) /\ a.id \in Nat /\ a.id \in Ids(a.h)
  <2>1. PICK h, U : h = w.str /\ U = SlotsUsed(w.obj, "ref") /\ HeapOK(h, U) /\ a = Alloc(h)
    BY <1>1, <1>6 DEF IsAlloc
  <2>2. HeapOK(a.h, U \cup {a.id})
    BY <2>1, AllocHeap
  <2>3. a.id \in Nat /\ a.id \in Ids(a.h)
    BY <2>1, <2>2, AllocHeap
  <2> QED BY <2>1, <2>2, <2>3
<1>8. /\ c \in ObjRec /\ c.kind = "ref" /\ c.rc = 1 /\ c.mcf = Null /\ c.lit = Null /\ c.slot = a.id
      /\ Shape(r, c)
  <2>1. "ref" \in Kinds /\ a.id \in Int
    BY <1>7 DEF Kinds
  <2> QED BY <1>2, <2>1, HandleTypes
<1>9. /\ IsHeap(g, Bytestring) /\ SlotChanged(a.h, g, a.id)
      /\ Slot(g, a.id).value = BeginRt(src) /\ Slot(g, a.id).refcnt = c.rc
  <2>1. BeginRt(src) \in Bytestring
    BY BeginTyped DEF Bytestring
  <2>2. IsHeap(a.h, Bytestring)
    BY <1>7 DEF HeapOK
  <2> QED BY <1>4, <1>7, <1>8, <2>1, <2>2, SetBoth
<1>10. Has(y, f, a.h, w.nbt, w.mem) /\ f[r] = c
  BY <1>2, <1>3, <1>5 DEF Has, IsWorld, Handle, Put
<1>11. v = AssignSource(y, r, src)
  BY <1>1, <1>3 DEF McfStrRefFrom, IsAlloc
<1>12. Has(v, f, g, w.nbt, w.mem)
  <2>1. y.obj = f /\ y.obj[r].slot = a.id /\ y.obj[r].rc = 1
    BY <1>8, <1>10, HasFields
  <2>2. v = [y EXCEPT !.str = SetRefcnt(SetValue(@, a.id, BeginRt(src)), a.id, 1)]
    BY <1>11, <2>1 DEF AssignSource
  <2> QED BY <1>4, <1>10, <2>2 DEF Has
<1>14. Replaces(w, hold, r, c, f, after)
  BY <1>2, <1>8, NewReplaces
<1>15. WorldOK(v, after)
  BY <1>1, <1>8, <1>9, <1>12, <1>14, RefNewStep
<1>16. Spares(w, v, {r})
  BY <1>1, <1>8, <1>9, <1>12, <1>14, <1>15, RefNewStep
<1>17. v.obj[r] = c /\ v.str = g
  BY <1>10, <1>12, HasFields
<1>18. StrValue(v, r) = BeginRt(src)
  BY <1>8, <1>9, <1>17 DEF StrValue
<1>19. Keeps(v.obj, r) = 0
  <2>1. v.obj[r].rc = after[r] + Keeps(v.obj, r) /\ after[r] = 1
    BY <1>2, <1>5, <1>15, WorldParts DEF Put
  <2> QED BY <1>8, <1>17, <2>1, KeepsTypes
<1> QED BY <1>2, <1>8, <1>15, <1>16, <1>17, <1>18, <1>19

WithRefCount(w, r, n) == [w EXCEPT !.obj[r].rc = n, !.str = SetRefcnt(@, w.obj[r].slot, n)]
WithNbtCount(w, r, n) == [w EXCEPT !.obj[r].rc = n, !.nbt = SetRefcnt(@, w.obj[r].slot, n)]
DestroyNbt(w, r) == [w EXCEPT !.obj[r] = Free, !.nbt = FreeSlot(@, w.obj[r].slot)]

(* One holder of a handle more: object and slot count it.                  *)
LEMMA RefCountUp ==
  ASSUME NEW w, NEW hold, WorldOK(w, hold), NEW r \in Places, w.obj[r].kind = "ref",
         NEW n, n = w.obj[r].rc + 1,
         NEW v, v = WithRefCount(w, r, n)
  PROVE  WorldOK(v, Put(hold, r, hold[r] + 1)) /\ Spares(w, v, {})
<1>1. /\ r \in Objects /\ w.obj[r].slot \in Ids(w.str) /\ IsHeap(w.str, Bytestring)
      /\ w.obj[r].rc \in Nat /\ w.obj[r].rc = hold[r] + Keeps(w.obj, r) /\ hold[r] \in Nat
  BY RefFacts
<1>2. PICK k, m : k = hold[r] + 1 /\ m = n
  OBVIOUS
<1>3. m \in Nat /\ m # 0 /\ k \in Nat /\ m = k + Keeps(w.obj, r) /\ w.obj[r].kind \notin {"none", "exec"}
  BY <1>1, <1>2, KeepsTypes
<1>4. PICK c, f, after, g :
        /\ c = Counted(w.obj[r], m) /\ f = Put(w.obj, r, c)
        /\ after = Put(hold, r, k) /\ g = SetRefcnt(w.str, w.obj[r].slot, m)
  OBVIOUS
<1>5. Replaces(w, hold, r, c, f, after) /\ Alike(c, w.obj[r]) /\ c.rc = m
  BY <1>1, <1>3, <1>4, CountReplaces
<1>6. PICK id : id = w.obj[r].slot
  OBVIOUS
<1>7. /\ IsHeap(g, Bytestring) /\ SlotChanged(w.str, g, id)
      /\ Slot(g, id).refcnt = m /\ Slot(g, id).value = Slot(w.str, id).value
  BY <1>1, <1>3, <1>4, <1>6, SetRefcntSlot
<1>8. Has(v, f, g, w.nbt, w.mem)
  <2>1. IsWorld(w)
    BY WorldParts
  <2> QED BY <1>2, <1>4, <2>1 DEF Has, IsWorld, Put, Counted, WithRefCount
<1>9. SlotChanged(w.str, g, w.obj[r].slot) /\ Slot(g, w.obj[r].slot).refcnt = c.rc
  BY <1>5, <1>6, <1>7
<1>10. WorldOK(v, after)
  BY <1>5, <1>7, <1>8, <1>9, RefSetStep
<1>11. v.obj[r] = c /\ v.str = g
  <2>1. v.obj = f /\ v.str = g
    BY <1>8, HasFields
  <2>2. f[r] = c
    BY <1>5, ReplacesObj
  <2> QED BY <2>1, <2>2
<1>12. StrValue(v, r) = StrValue(w, r)
  BY <1>5, <1>6, <1>7, <1>11 DEF StrValue, Alike
<1>13. Spares(w, v, {})
  BY <1>5, <1>7, <1>8, <1>9, <1>10, <1>12, RefSetStep
<1> QED BY <1>2, <1>4, <1>10, <1>13

(* One holder of a handle less, when it is not the last.                   *)
LEMMA RefCountDown ==
  ASSUME NEW w, NEW hold, WorldOK(w, hold), NEW r \in Places, w.obj[r].kind = "ref", w.obj[r].rc # 1, hold[r] # 0,
         NEW n, n = w.obj[r].rc - 1,
         NEW v, v = WithRefCount(w, r, n)
  PROVE  WorldOK(v, Put(hold, r, hold[r] - 1)) /\ Spares(w, v, {})
<1>1. /\ r \in Objects /\ w.obj[r].slot \in Ids(w.str) /\ IsHeap(w.str, Bytestring)
      /\ w.obj[r].rc \in Nat /\ w.obj[r].rc = hold[r] + Keeps(w.obj, r) /\ hold[r] \in Nat
  BY RefFacts
<1>2. PICK k, m : k = hold[r] - 1 /\ m = n
  OBVIOUS
<1>3. m \in Nat /\ m # 0 /\ k \in Nat /\ m = k + Keeps(w.obj, r) /\ w.obj[r].kind \notin {"none", "exec"}
  BY <1>1, <1>2, KeepsTypes
<1>4. PICK c, f, after, g :
        /\ c = Counted(w.obj[r], m) /\ f = Put(w.obj, r, c)
        /\ after = Put(hold, r, k) /\ g = SetRefcnt(w.str, w.obj[r].slot, m)
  OBVIOUS
<1>5. Replaces(w, hold, r, c, f, after) /\ Alike(c, w.obj[r]) /\ c.rc = m
  BY <1>1, <1>3, <1>4, CountReplaces
<1>6. PICK id : id = w.obj[r].slot
  OBVIOUS
<1>7. /\ IsHeap(g, Bytestring) /\ SlotChanged(w.str, g, id)
      /\ Slot(g, id).refcnt = m /\ Slot(g, id).value = Slot(w.str, id).value
  BY <1>1, <1>3, <1>4, <1>6, SetRefcntSlot
<1>8. Has(v, f, g, w.nbt, w.mem)
  <2>1. IsWorld(w)
    BY WorldParts
  <2> QED BY <1>2, <1>4, <2>1 DEF Has, IsWorld, Put, Counted, WithRefCount
<1>9. SlotChanged(w.str, g, w.obj[r].slot) /\ Slot(g, w.obj[r].slot).refcnt = c.rc
  BY <1>5, <1>6, <1>7
<1>10. WorldOK(v, after)
  BY <1>5, <1>7, <1>8, <1>9, RefSetStep
<1>11. v.obj[r] = c /\ v.str = g
  <2>1. v.obj = f /\ v.str = g
    BY <1>8, HasFields
  <2>2. f[r] = c
    BY <1>5, ReplacesObj
  <2> QED BY <2>1, <2>2
<1>12. StrValue(v, r) = StrValue(w, r)
  BY <1>5, <1>6, <1>7, <1>11 DEF StrValue, Alike
<1>13. Spares(w, v, {})
  BY <1>5, <1>7, <1>8, <1>9, <1>10, <1>12, RefSetStep
<1> QED BY <1>2, <1>4, <1>10, <1>13

(* The last holder of a handle goes, and with it the object and the slot.  *)
LEMMA RefDestroy ==
  ASSUME NEW w, NEW hold, WorldOK(w, hold), NEW r \in Places, w.obj[r].kind = "ref", w.obj[r].rc = 1,
         hold[r] # 0, NEW v, v = DestroyRef(w, r)
  PROVE  WorldOK(v, Put(hold, r, hold[r] - 1)) /\ Spares(w, v, {r}) /\ v.obj[r] = Free
<1>1. r \in Objects /\ w.obj[r].mcf = Null
  BY RefFacts
<1>2. PICK c, f, after, g :
        /\ c = Free /\ f = Put(w.obj, r, c) /\ after = Put(hold, r, hold[r] - 1)
        /\ g = FreeSlot(w.str, w.obj[r].slot)
  OBVIOUS
<1>3. Replaces(w, hold, r, c, f, after) /\ c.kind = "none"
  BY <1>1, <1>2, GoneReplaces, FreeTypes
<1>4. Has(v, f, g, w.nbt, w.mem)
  <2>1. IsWorld(w)
    BY WorldParts
  <2> QED BY <1>2, <2>1 DEF DestroyRef, Has, IsWorld, Put
<1>5. WorldOK(v, after)
  BY <1>2, <1>3, <1>4, RefGoneStep
<1>6. Spares(w, v, {r})
  BY <1>2, <1>3, <1>4, <1>5, RefGoneStep
<1>7. v.obj[r] = c
  <2>1. v.obj = f
    BY <1>4, HasFields
  <2>2. f[r] = c
    BY <1>3, ReplacesObj
  <2> QED BY <2>1, <2>2
<1> QED BY <1>2, <1>5, <1>6, <1>7

(* One holder of a value more: object and slot count it.                   *)
LEMMA NbtCountUp ==
  ASSUME NEW w, NEW hold, WorldOK(w, hold), NEW r \in Places, w.obj[r].kind = "nbt",
         NEW n, n = w.obj[r].rc + 1,
         NEW v, v = WithNbtCount(w, r, n)
  PROVE  WorldOK(v, Put(hold, r, hold[r] + 1)) /\ Spares(w, v, {})
<1>1. /\ r \in Objects /\ w.obj[r].slot \in Ids(w.nbt) /\ IsHeap(w.nbt, Bytestring)
      /\ w.obj[r].rc \in Nat /\ w.obj[r].rc = hold[r] + Keeps(w.obj, r) /\ hold[r] \in Nat
  BY NbtFacts
<1>2. PICK k, m : k = hold[r] + 1 /\ m = n
  OBVIOUS
<1>3. m \in Nat /\ m # 0 /\ k \in Nat /\ m = k + Keeps(w.obj, r) /\ w.obj[r].kind \notin {"none", "exec"}
  BY <1>1, <1>2, KeepsTypes
<1>4. PICK c, f, after, g :
        /\ c = Counted(w.obj[r], m) /\ f = Put(w.obj, r, c)
        /\ after = Put(hold, r, k) /\ g = SetRefcnt(w.nbt, w.obj[r].slot, m)
  OBVIOUS
<1>5. Replaces(w, hold, r, c, f, after) /\ Alike(c, w.obj[r]) /\ c.rc = m
  BY <1>1, <1>3, <1>4, CountReplaces
<1>6. PICK id : id = w.obj[r].slot
  OBVIOUS
<1>7. /\ IsHeap(g, Bytestring) /\ SlotChanged(w.nbt, g, id)
      /\ Slot(g, id).refcnt = m /\ Slot(g, id).value = Slot(w.nbt, id).value
  BY <1>1, <1>3, <1>4, <1>6, SetRefcntSlot
<1>8. Has(v, f, w.str, g, w.mem)
  <2>1. IsWorld(w)
    BY WorldParts
  <2> QED BY <1>2, <1>4, <2>1 DEF Has, IsWorld, Put, Counted, WithNbtCount
<1>9. SlotChanged(w.nbt, g, w.obj[r].slot) /\ Slot(g, w.obj[r].slot).refcnt = c.rc
  BY <1>5, <1>6, <1>7
<1>10. WorldOK(v, after)
  BY <1>5, <1>7, <1>8, <1>9, NbtSetStep
<1>11. v.obj[r] = c /\ v.nbt = g
  <2>1. v.obj = f /\ v.nbt = g
    BY <1>8, HasFields
  <2>2. f[r] = c
    BY <1>5, ReplacesObj
  <2> QED BY <2>1, <2>2
<1>12. NbtValue(v, r) = NbtValue(w, r)
  BY <1>5, <1>6, <1>7, <1>11 DEF NbtValue, Alike
<1>13. Spares(w, v, {})
  BY <1>5, <1>7, <1>8, <1>9, <1>10, <1>12, NbtSetStep
<1> QED BY <1>2, <1>4, <1>10, <1>13

(* One holder of a value less, when it is not the last.                    *)
LEMMA NbtCountDown ==
  ASSUME NEW w, NEW hold, WorldOK(w, hold), NEW r \in Places, w.obj[r].kind = "nbt", w.obj[r].rc # 1, hold[r] # 0,
         NEW n, n = w.obj[r].rc - 1,
         NEW v, v = WithNbtCount(w, r, n)
  PROVE  WorldOK(v, Put(hold, r, hold[r] - 1)) /\ Spares(w, v, {})
<1>1. /\ r \in Objects /\ w.obj[r].slot \in Ids(w.nbt) /\ IsHeap(w.nbt, Bytestring)
      /\ w.obj[r].rc \in Nat /\ w.obj[r].rc = hold[r] + Keeps(w.obj, r) /\ hold[r] \in Nat
  BY NbtFacts
<1>2. PICK k, m : k = hold[r] - 1 /\ m = n
  OBVIOUS
<1>3. m \in Nat /\ m # 0 /\ k \in Nat /\ m = k + Keeps(w.obj, r) /\ w.obj[r].kind \notin {"none", "exec"}
  BY <1>1, <1>2, KeepsTypes
<1>4. PICK c, f, after, g :
        /\ c = Counted(w.obj[r], m) /\ f = Put(w.obj, r, c)
        /\ after = Put(hold, r, k) /\ g = SetRefcnt(w.nbt, w.obj[r].slot, m)
  OBVIOUS
<1>5. Replaces(w, hold, r, c, f, after) /\ Alike(c, w.obj[r]) /\ c.rc = m
  BY <1>1, <1>3, <1>4, CountReplaces
<1>6. PICK id : id = w.obj[r].slot
  OBVIOUS
<1>7. /\ IsHeap(g, Bytestring) /\ SlotChanged(w.nbt, g, id)
      /\ Slot(g, id).refcnt = m /\ Slot(g, id).value = Slot(w.nbt, id).value
  BY <1>1, <1>3, <1>4, <1>6, SetRefcntSlot
<1>8. Has(v, f, w.str, g, w.mem)
  <2>1. IsWorld(w)
    BY WorldParts
  <2> QED BY <1>2, <1>4, <2>1 DEF Has, IsWorld, Put, Counted, WithNbtCount
<1>9. SlotChanged(w.nbt, g, w.obj[r].slot) /\ Slot(g, w.obj[r].slot).refcnt = c.rc
  BY <1>5, <1>6, <1>7
<1>10. WorldOK(v, after)
  BY <1>5, <1>7, <1>8, <1>9, NbtSetStep
<1>11. v.obj[r] = c /\ v.nbt = g
  <2>1. v.obj = f /\ v.nbt = g
    BY <1>8, HasFields
  <2>2. f[r] = c
    BY <1>5, ReplacesObj
  <2> QED BY <2>1, <2>2
<1>12. NbtValue(v, r) = NbtValue(w, r)
  BY <1>5, <1>6, <1>7, <1>11 DEF NbtValue, Alike
<1>13. Spares(w, v, {})
  BY <1>5, <1>7, <1>8, <1>9, <1>10, <1>12, NbtSetStep
<1> QED BY <1>2, <1>4, <1>10, <1>13

(* The last holder of a value goes, and with it the object and the slot.   *)
LEMMA NbtDestroy ==
  ASSUME NEW w, NEW hold, WorldOK(w, hold), NEW r \in Places, w.obj[r].kind = "nbt", w.obj[r].rc = 1,
         hold[r] # 0, NEW v, v = DestroyNbt(w, r)
  PROVE  WorldOK(v, Put(hold, r, hold[r] - 1)) /\ Spares(w, v, {r}) /\ v.obj[r] = Free
<1>1. r \in Objects /\ w.obj[r].mcf = Null
  BY NbtFacts
<1>2. PICK c, f, after, g :
        /\ c = Free /\ f = Put(w.obj, r, c) /\ after = Put(hold, r, hold[r] - 1)
        /\ g = FreeSlot(w.nbt, w.obj[r].slot)
  OBVIOUS
<1>3. Replaces(w, hold, r, c, f, after) /\ c.kind = "none"
  BY <1>1, <1>2, GoneReplaces, FreeTypes
<1>4. Has(v, f, w.str, g, w.mem)
  <2>1. IsWorld(w)
    BY WorldParts
  <2> QED BY <1>2, <2>1 DEF DestroyNbt, Has, IsWorld, Put
<1>5. WorldOK(v, after)
  BY <1>2, <1>3, <1>4, NbtGoneStep
<1>6. Spares(w, v, {r})
  BY <1>2, <1>3, <1>4, <1>5, NbtGoneStep
<1>7. v.obj[r] = c
  <2>1. v.obj = f
    BY <1>4, HasFields
  <2>2. f[r] = c
    BY <1>3, ReplacesObj
  <2> QED BY <2>1, <2>2
<1> QED BY <1>2, <1>5, <1>6, <1>7

(* McfStrRef_Retain and Nbt_Retain.                                        *)
LEMMA RefRetain ==
  ASSUME NEW w, NEW hold, WorldOK(w, hold), NEW r \in Places, w.obj[r].kind = "ref",
         NEW v, v = McfStrRefRetain(w, r)
  PROVE  WorldOK(v, Put(hold, r, hold[r] + 1)) /\ Spares(w, v, {})
<1>1. PICK n : n = w.obj[r].rc + 1
  OBVIOUS
<1>2. v = WithRefCount(w, r, n)
  BY <1>1 DEF McfStrRefRetain, WithRefCount
<1> QED BY <1>1, <1>2, RefCountUp

(* Nbt_Retain adds one holder.                                             *)
LEMMA NbtRetained ==
  ASSUME NEW w, NEW hold, WorldOK(w, hold), NEW r \in Places, w.obj[r].kind = "nbt",
         NEW v, v = NbtRetain(w, r)
  PROVE  WorldOK(v, Put(hold, r, hold[r] + 1)) /\ Spares(w, v, {})
<1>1. PICK n : n = w.obj[r].rc + 1
  OBVIOUS
<1>2. v = WithNbtCount(w, r, n)
  BY <1>1 DEF NbtRetain, WithNbtCount
<1> QED BY <1>1, <1>2, NbtCountUp

(* McfStrRef_Release, for one who holds r.                                 *)
LEMMA RefRelease ==
  ASSUME NEW w, NEW hold, WorldOK(w, hold), NEW r \in Places, w.obj[r].kind = "ref", hold[r] # 0,
         NEW v, v = McfStrRefRelease(w, r)
  PROVE  /\ WorldOK(v, Put(hold, r, hold[r] - 1)) /\ Spares(w, v, {r})
         /\ w.obj[r].rc # 1 => Spares(w, v, {})
         /\ w.obj[r].rc = 1 => v.obj[r] = Free
<1>0. r # Null /\ IsWorld(w)
  BY PlaceTypes, WorldParts
<1>1. CASE w.obj[r].rc = 1
  <2>1. v = DestroyRef(w, r)
    BY <1>0, <1>1 DEF McfStrRefRelease
  <2> QED BY <1>0, <1>1, <2>1, RefDestroy
<1>2. CASE w.obj[r].rc # 1
  <2>1. PICK n : n = w.obj[r].rc - 1
    OBVIOUS
  <2>2. v = WithRefCount(w, r, n)
    BY <1>0, <1>2, <2>1 DEF McfStrRefRelease, WithRefCount
  <2>3. WorldOK(v, Put(hold, r, hold[r] - 1)) /\ Spares(w, v, {})
    BY <1>2, <2>1, <2>2, RefCountDown
  <2> QED BY <1>2, <2>3, SparesMore
<1> QED BY <1>1, <1>2

(* Nbt_Release, for one who holds n.                                       *)
LEMMA NbtReleased ==
  ASSUME NEW w, NEW hold, WorldOK(w, hold), NEW r \in Places, w.obj[r].kind = "nbt", hold[r] # 0,
         NEW v, v = NbtRelease(w, r)
  PROVE  /\ WorldOK(v, Put(hold, r, hold[r] - 1)) /\ Spares(w, v, {r})
         /\ w.obj[r].rc # 1 => Spares(w, v, {})
         /\ w.obj[r].rc = 1 => v.obj[r] = Free
<1>1. CASE w.obj[r].rc = 1
  <2>1. v = DestroyNbt(w, r)
    BY <1>1 DEF NbtRelease, DestroyNbt
  <2> QED BY <1>1, <2>1, NbtDestroy
<1>2. CASE w.obj[r].rc # 1
  <2>1. PICK n : n = w.obj[r].rc - 1
    OBVIOUS
  <2>2. v = WithNbtCount(w, r, n)
    BY <1>2, <2>1 DEF NbtRelease, WithNbtCount
  <2>3. WorldOK(v, Put(hold, r, hold[r] - 1)) /\ Spares(w, v, {})
    BY <1>2, <2>1, <2>2, NbtCountDown
  <2> QED BY <1>2, <2>3, SparesMore
<1> QED BY <1>1, <1>2

(* The text t is written to the slot of r, with its count.                 *)
WithText(w, r, t) ==
  [w EXCEPT !.str = SetRefcnt(SetValue(@, w.obj[r].slot, t), w.obj[r].slot, w.obj[r].rc)]

(* The slot of a handle gets the text, and nothing else changes.           *)
LEMMA RefText ==
  ASSUME NEW w, NEW hold, WorldOK(w, hold), NEW r \in Places, w.obj[r].kind = "ref",
         NEW t \in Bytestring, NEW v, v = WithText(w, r, t)
  PROVE  WorldOK(v, hold) /\ Spares(w, v, {r}) /\ v.obj = w.obj /\ StrValue(v, r) = t
<1>1. /\ w.obj[r].slot \in Ids(w.str) /\ IsHeap(w.str, Bytestring) /\ w.obj[r].rc \in Nat
  BY RefFacts
<1>2. PICK id, n, g : id = w.obj[r].slot /\ n = w.obj[r].rc /\ g = SetRefcnt(SetValue(w.str, id, t), id, n)
  OBVIOUS
<1>3. /\ IsHeap(g, Bytestring) /\ SlotChanged(w.str, g, id)
      /\ Slot(g, id).value = t /\ Slot(g, id).refcnt = n
  BY <1>1, <1>2, SetBoth
<1>4. Has(v, w.obj, g, w.nbt, w.mem)
  <2>1. IsWorld(w)
    BY WorldParts
  <2> QED BY <1>2, <2>1 DEF Has, IsWorld, WithText
<1>5. SlotChanged(w.str, g, w.obj[r].slot) /\ Slot(g, w.obj[r].slot).refcnt = w.obj[r].rc
  BY <1>2, <1>3
<1>6. WorldOK(v, hold)
  BY <1>3, <1>4, <1>5, RefTextStep
<1>7. Spares(w, v, {r})
  BY <1>3, <1>4, <1>5, <1>6, RefTextStep
<1>8. v.obj = w.obj /\ v.str = g
  BY <1>4, HasFields
<1> QED BY <1>2, <1>3, <1>6, <1>7, <1>8 DEF StrValue

(* McfStrRef_Assign and McfStrRef_Append.                                  *)
LEMMA RefAssign ==
  ASSUME NEW w, NEW hold, WorldOK(w, hold), NEW r \in Places, w.obj[r].kind = "ref",
         NEW src \in Bytestring, NEW v, v = AssignSource(w, r, src)
  PROVE  WorldOK(v, hold) /\ Spares(w, v, {r}) /\ v.obj = w.obj /\ StrValue(v, r) = BeginRt(src)
<1>1. PICK t : t = BeginRt(src)
  OBVIOUS
<1>2. t \in Bytestring
  BY <1>1, BeginTyped DEF Bytestring
<1>3. v = WithText(w, r, t)
  BY <1>1 DEF AssignSource, WithText
<1> QED BY <1>1, <1>2, <1>3, RefText

(* McfStrRef_Append adds to the text of one handle.                        *)
LEMMA RefAppend ==
  ASSUME NEW w, NEW hold, WorldOK(w, hold), NEW r \in Places, w.obj[r].kind = "ref",
         NEW src \in Bytestring, NEW v, v = AppendSource(w, r, src)
  PROVE  /\ WorldOK(v, hold) /\ Spares(w, v, {r}) /\ v.obj = w.obj
         /\ src # <<>> => StrValue(v, r) = AppendRt(StrValue(w, r), src)
<1>1. CASE src = <<>>
  <2>1. v = w
    BY <1>1 DEF AppendSource
  <2> QED BY <1>1, <2>1, SparesSelf
<1>2. CASE src # <<>>
  <2>1. PICK t : t = AppendRt(StrValue(w, r), src)
    OBVIOUS
  <2>2. StrValue(w, r) \in Bytestring
    BY RefFacts DEF StrValue
  <2>3. t \in Bytestring
    BY <2>1, <2>2, AppendTyped DEF Bytestring
  <2>4. v = WithText(w, r, t)
    BY <1>2, <2>1 DEF AppendSource, WithText, StrValue
  <2> QED BY <2>1, <2>3, <2>4, RefText
<1> QED BY <1>1, <1>2

-----------------------------------------------------------------------------
(***************************************************************************)
(* Nbt                                                                     *)
(***************************************************************************)
LEMMA NbtMade ==
  ASSUME NEW w, NEW hold, WorldOK(w, hold), NEW r \in Objects, w.obj[r].kind = "none",
         NEW v, v = NbtNew(w, r)
  PROVE  /\ WorldOK(v, Put(hold, r, 1)) /\ Spares(w, v, {r})
         /\ v.obj[r].kind = "nbt" /\ NbtValue(v, r) = <<>>
<1>1. PICK a : IsAlloc(w.nbt, a)
  BY DEF IsAlloc
<1>2. PICK c, f, after : c = Handle("nbt", a.id) /\ f = Put(w.obj, r, c) /\ after = Put(hold, r, 1)
  OBVIOUS
<1>4. PICK g : g = SetRefcnt(a.h, a.id, 1)
  OBVIOUS
<1>5. IsWorld(w) /\ w.obj \in [Places -> ObjRec] /\ hold \in [Places -> Nat] /\ r \in Places
  BY WorldParts
<1>6. HeapOK(w.nbt, SlotsUsed(w.obj, "nbt"))
  BY DEF WorldOK, Housed
<1>7. /\ HeapOK(a.h, SlotsUsed(w.obj, "nbt") \cup {a.id}) /\ a.id \in Nat /\ a.id \in Ids(a.h)
      /\ Slot(a.h, a.id) = Fresh
  <2>1. PICK h, U : h = w.nbt /\ U = SlotsUsed(w.obj, "nbt") /\ HeapOK(h, U) /\ a = Alloc(h)
    BY <1>1, <1>6 DEF IsAlloc
  <2>2. HeapOK(a.h, U \cup {a.id})
    BY <2>1, AllocHeap
  <2>3. a.id \in Nat /\ a.id \in Ids(a.h) /\ Slot(a.h, a.id) = Fresh
    BY <2>1, <2>2, AllocHeap
  <2> QED BY <2>1, <2>2, <2>3
<1>8. /\ c \in ObjRec /\ c.kind = "nbt" /\ c.rc = 1 /\ c.mcf = Null /\ c.lit = Null /\ c.slot = a.id
      /\ Shape(r, c)
  <2>1. "nbt" \in Kinds /\ a.id \in Int
    BY <1>7 DEF Kinds
  <2> QED BY <1>2, <2>1, HandleTypes
<1>9. /\ IsHeap(g, Bytestring) /\ SlotChanged(a.h, g, a.id)
      /\ Slot(g, a.id).value = <<>> /\ Slot(g, a.id).refcnt = c.rc
  <2>1. IsHeap(a.h, Bytestring) /\ Slot(a.h, a.id).value = <<>>
    BY <1>7 DEF HeapOK, Fresh
  <2>2. PICK n : n = 1 /\ n \in Nat
    OBVIOUS
  <2>3. g = SetRefcnt(a.h, a.id, n)
    BY <1>4, <2>2
  <2> QED BY <1>7, <1>8, <2>1, <2>2, <2>3, SetRefcntSlot
<1>10. f[r] = c
  BY <1>2, <1>5 DEF Put
<1>12. Has(v, f, w.str, g, w.mem)
  BY <1>1, <1>2, <1>4, <1>5 DEF NbtNew, IsAlloc, Has, IsWorld, Handle, Put
<1>14. Replaces(w, hold, r, c, f, after)
  BY <1>2, <1>8, NewReplaces
<1>15. WorldOK(v, after)
  BY <1>1, <1>8, <1>9, <1>12, <1>14, NbtNewStep
<1>16. Spares(w, v, {r})
  BY <1>1, <1>8, <1>9, <1>12, <1>14, <1>15, NbtNewStep
<1>17. v.obj[r] = c /\ v.nbt = g
  BY <1>10, <1>12, HasFields
<1> QED BY <1>2, <1>8, <1>9, <1>15, <1>16, <1>17 DEF NbtValue

(* The setters of Nbt and Nbt_SetFromSlot change one value.                *)
LEMMA NbtText ==
  ASSUME NEW w, NEW hold, WorldOK(w, hold), NEW r \in Places, w.obj[r].kind = "nbt",
         NEW t \in Bytestring, NEW v, v = NbtSet(w, r, t)
  PROVE  WorldOK(v, hold) /\ Spares(w, v, {r}) /\ v.obj = w.obj /\ NbtValue(v, r) = t /\ v.str = w.str
<1>1. /\ w.obj[r].slot \in Ids(w.nbt) /\ IsHeap(w.nbt, Bytestring) /\ w.obj[r].rc \in Nat
      /\ Slot(w.nbt, w.obj[r].slot).refcnt = w.obj[r].rc
  BY NbtFacts
<1>2. PICK id, g : id = w.obj[r].slot /\ g = SetValue(w.nbt, id, t)
  OBVIOUS
<1>3. /\ IsHeap(g, Bytestring) /\ SlotChanged(w.nbt, g, id)
      /\ Slot(g, id).value = t /\ Slot(g, id).refcnt = Slot(w.nbt, id).refcnt
  BY <1>1, <1>2, SetValueSlot
<1>4. Has(v, w.obj, w.str, g, w.mem)
  <2>1. IsWorld(w)
    BY WorldParts
  <2> QED BY <1>2, <2>1 DEF Has, IsWorld, NbtSet
<1>5. SlotChanged(w.nbt, g, w.obj[r].slot) /\ Slot(g, w.obj[r].slot).refcnt = w.obj[r].rc
  BY <1>1, <1>2, <1>3
<1>6. WorldOK(v, hold)
  BY <1>3, <1>4, <1>5, NbtTextStep
<1>7. Spares(w, v, {r})
  BY <1>3, <1>4, <1>5, <1>6, NbtTextStep
<1>8. v.obj = w.obj /\ v.nbt = g /\ v.str = w.str
  BY <1>4, HasFields
<1> QED BY <1>2, <1>3, <1>6, <1>7, <1>8 DEF NbtValue

-----------------------------------------------------------------------------
(***************************************************************************)
(* What the functions of String and Target, the setter of floats and the   *)
(* builder of execute do to a world: they keep it well formed, change what *)
(* they are to change and leave the rest as it was.                        *)
(***************************************************************************)
WithObject(w, p, c) == [w EXCEPT !.obj[p] = c]

Keeping(c, r) == [c EXCEPT !.mcf = r]

(* s keeps no handle.                                                      *)
Without(w, s) == WithObject(w, s, Keeping(w.obj[s], Null))

(* A function changed in one place.                                        *)
LEMMA PutParts ==
  ASSUME NEW S, NEW T, NEW f \in [S -> T], NEW p \in S, NEW c \in T
  PROVE  Put(f, p, c) \in [S -> T] /\ Put(f, p, c)[p] = c /\ \A q \in S \ {p} : Put(f, p, c)[q] = f[q]
BY DEF Put

(* The same for the blocks.                                                *)
LEMMA PutObj ==
  ASSUME NEW f \in [Places -> ObjRec], NEW p \in Places, NEW c \in ObjRec
  PROVE  /\ Put(f, p, c) \in [Places -> ObjRec] /\ Put(f, p, c)[p] = c
         /\ \A q \in Places \ {p} : Put(f, p, c)[q] = f[q]
BY DEF Put

(* The same for the holders.                                               *)
LEMMA PutHold ==
  ASSUME NEW f \in [Places -> Nat], NEW p \in Places, NEW c \in Nat
  PROVE  /\ Put(f, p, c) \in [Places -> Nat] /\ Put(f, p, c)[p] = c
         /\ \A q \in Places \ {p} : Put(f, p, c)[q] = f[q]
BY DEF Put

(* Of two changes in one place the later counts.                           *)
LEMMA PutPut ==
  ASSUME NEW f, NEW p, NEW c, NEW d
  PROVE  Put(Put(f, p, c), p, d) = Put(f, p, d)
BY DEF Put

(* Changes in two places go in either order.                               *)
LEMMA PutSwap ==
  ASSUME NEW f, NEW p, NEW q, p # q, NEW c, NEW d
  PROVE  Put(Put(f, p, c), q, d) = Put(Put(f, q, d), p, c)
BY DEF Put

(* The parts of a world in which one object changes.                       *)
LEMMA WithObjectHas ==
  ASSUME NEW w, IsWorld(w), NEW p, NEW c
  PROVE  Has(WithObject(w, p, c), Put(w.obj, p, c), w.str, w.nbt, w.mem)
BY DEF Has, IsWorld, Put, WithObject

(* An object that keeps another handle is otherwise the same.              *)
LEMMA KeepingTypes ==
  ASSUME NEW c \in ObjRec, NEW r \in Objects \cup {Null}
  PROVE  /\ Keeping(c, r) \in ObjRec /\ Keeping(c, r).mcf = r
         /\ Keeping(c, r).kind = c.kind /\ Keeping(c, r).rc = c.rc /\ Keeping(c, r).data = c.data
         /\ Keeping(c, r).lit = c.lit /\ Keeping(c, r).len = c.len /\ Keeping(c, r).slot = c.slot
         /\ Keeping(Keeping(c, r), Null) = Keeping(c, Null) /\ Keeping(c, c.mcf) = c
BY DEF Keeping, ObjRec

(* An object without a slot keeps another handle than before.              *)
Moves(w, hold, s, c, after) ==
  /\ WorldOK(w, hold) /\ s \in Places /\ w.obj[s].kind \notin {"ref", "nbt"}
  /\ c \in ObjRec /\ c.kind = w.obj[s].kind /\ c.lit = w.obj[s].lit /\ c.len = w.obj[s].len
  /\ GraphOK(Put(w.obj, s, c), after)

(* The world stays well formed, and only s changes.                        *)
LEMMA MovedStep ==
  ASSUME NEW w, NEW hold, NEW s, NEW c, NEW after, Moves(w, hold, s, c, after),
         NEW v, Has(v, Put(w.obj, s, c), w.str, w.nbt, w.mem)
  PROVE  WorldOK(v, after) /\ Spares(w, v, {s}) /\ v.obj[s] = c
<1> USE DEF Moves
<1>1. v.obj = Put(w.obj, s, c) /\ v.str = w.str /\ v.nbt = w.nbt /\ v.mem = w.mem /\ IsWorld(v)
  BY HasFields
<1>2. w.obj \in [Places -> ObjRec]
  BY WorldParts
<1>3. /\ v.obj \in [Places -> ObjRec] /\ v.obj[s] = c
      /\ \A p \in Places \ {s} : v.obj[p] = w.obj[p]
  BY <1>1, <1>2, PutObj
<1>4. ObjChanged(w.obj, v.obj, s)
  BY <1>3 DEF ObjChanged
<1>5. Housed(w.obj, w.str, "ref") /\ Housed(w.obj, w.nbt, "nbt") /\ LiteralsFit(w.obj, w.mem)
  BY DEF WorldOK
<1>6. Housed(v.obj, v.str, "ref")
  BY <1>1, <1>3, <1>4, <1>5, HousedOther
<1>7. Housed(v.obj, v.nbt, "nbt")
  BY <1>1, <1>3, <1>4, <1>5, HousedOther
<1>8. LiteralsFit(v.obj, v.mem)
  BY <1>1, <1>3, <1>5 DEF LiteralsFit
<1>9. WorldOK(v, after)
  BY <1>1, <1>6, <1>7, <1>8 DEF WorldOK
<1>10. \A p \in Places \ {s} : Same(w, v, p)
  BY <1>1, <1>3 DEF Same, Alike, StrValue, NbtValue
<1> QED BY <1>1, <1>3, <1>9, <1>10 DEF Spares

(* s keeps, from now on, the handle r of which somebody else was holder.   *)
LEMMA KeptGraph ==
  ASSUME NEW w, NEW hold, WorldOK(w, hold), NEW s \in Places,
         w.obj[s].kind \in {"string", "target", "exec"}, w.obj[s].mcf = Null,
         NEW r \in Objects, w.obj[r].kind = "ref", Keeps(w.obj, r) = 0, hold[r] # 0
  PROVE  GraphOK(Put(w.obj, s, Keeping(w.obj[s], r)), Put(hold, r, hold[r] - 1))
<1>1. PICK c, f : c = Keeping(w.obj[s], r) /\ f = Put(w.obj, s, c)
  OBVIOUS
<1>2. PICK after, k : after = Put(hold, r, k) /\ k = hold[r] - 1
  OBVIOUS
<1>3. /\ w.obj \in [Places -> ObjRec] /\ hold \in [Places -> Nat] /\ w.obj[s] \in ObjRec
      /\ Shape(s, w.obj[s]) /\ hold[r] \in Nat /\ r \in Places
  BY WorldParts
<1>4. k \in Nat /\ hold[r] = k + 1
  BY <1>2, <1>3
<1>5. /\ c \in ObjRec /\ c.mcf = r /\ c.kind = w.obj[s].kind /\ c.rc = w.obj[s].rc
      /\ c.data = w.obj[s].data /\ c.lit = w.obj[s].lit /\ c.len = w.obj[s].len
  BY <1>1, <1>3, KeepingTypes
<1>6. Shape(s, c)
  BY <1>3, <1>5 DEF Shape
<1>7. f \in [Places -> ObjRec] /\ f[s] = c /\ \A p \in Places \ {s} : f[p] = w.obj[p]
  BY <1>1, <1>3, <1>5 DEF Put
<1>8. ObjChanged(w.obj, f, s)
  BY <1>7 DEF ObjChanged
<1>9. after \in [Places -> Nat] /\ after[r] = k /\ \A p \in Places \ {r} : after[p] = hold[p]
  BY <1>2, <1>3, <1>4 DEF Put
<1>10. GraphOK(w.obj, hold)
  BY DEF WorldOK
<1>11. GraphOK(f, after)
  BY <1>4, <1>5, <1>6, <1>7, <1>8, <1>9, <1>10, GraphKeep
<1> QED BY <1>1, <1>2, <1>11

(* An object takes over a handle that its holder hands it.                 *)
LEMMA KeptBy ==
  ASSUME NEW w, NEW hold, WorldOK(w, hold), NEW s \in Places,
         w.obj[s].kind \in {"string", "target", "exec"}, w.obj[s].mcf = Null,
         NEW r \in Objects, w.obj[r].kind = "ref", Keeps(w.obj, r) = 0, hold[r] # 0,
         NEW v, v = WithObject(w, s, Keeping(w.obj[s], r))
  PROVE  /\ WorldOK(v, Put(hold, r, hold[r] - 1)) /\ Spares(w, v, {s})
         /\ v.obj[s] = Keeping(w.obj[s], r)
<1>1. PICK c, after : c = Keeping(w.obj[s], r) /\ after = Put(hold, r, hold[r] - 1)
  OBVIOUS
<1>2. GraphOK(Put(w.obj, s, c), after)
  BY <1>1, KeptGraph
<1>3. c \in ObjRec /\ c.kind = w.obj[s].kind /\ c.lit = w.obj[s].lit /\ c.len = w.obj[s].len
  BY <1>1, WorldParts, KeepingTypes
<1>4. Has(v, Put(w.obj, s, c), w.str, w.nbt, w.mem)
  BY <1>1, WithObjectHas, WorldParts
<1>5. Moves(w, hold, s, c, after)
  BY <1>2, <1>3 DEF Moves
<1>6. WorldOK(v, after) /\ Spares(w, v, {s}) /\ v.obj[s] = c
  BY <1>4, <1>5, MovedStep
<1> QED BY <1>1, <1>6

(* s keeps its handle no longer: one more reference for another to release. *)
LEMMA Dropped ==
  ASSUME NEW w, NEW hold, WorldOK(w, hold), NEW s \in Places,
         NEW r, r = w.obj[s].mcf, r # Null,
         NEW v, v = Without(w, s)
  PROVE  /\ WorldOK(v, Put(hold, r, hold[r] + 1)) /\ Spares(w, v, {s})
         /\ v.obj[s] = Keeping(w.obj[s], Null)
<1>1. PICK c, f : c = Keeping(w.obj[s], Null) /\ f = Put(w.obj, s, c)
  OBVIOUS
<1>0. r \in Objects /\ w.obj[s].kind \in {"string", "target", "exec"}
  BY DEF WorldOK, GraphOK, HandlesOK, Shape
<1>2. PICK after, k : after = Put(hold, r, k) /\ k = hold[r] + 1
  OBVIOUS
<1>3. /\ w.obj \in [Places -> ObjRec] /\ hold \in [Places -> Nat] /\ w.obj[s] \in ObjRec
      /\ Shape(s, w.obj[s]) /\ hold[r] \in Nat /\ r \in Places
  BY <1>0, WorldParts
<1>4. k \in Nat
  BY <1>2, <1>3
<1>5. /\ c \in ObjRec /\ c.mcf = Null /\ c.kind = w.obj[s].kind /\ c.rc = w.obj[s].rc
      /\ c.data = w.obj[s].data /\ c.lit = w.obj[s].lit /\ c.len = w.obj[s].len
  BY <1>1, <1>3, KeepingTypes
<1>6. Shape(s, c)
  <2>1. c.kind # "none"
    BY <1>0, <1>5
  <2> QED BY <1>3, <1>5, <2>1 DEF Shape
<1>7. f \in [Places -> ObjRec] /\ f[s] = c /\ \A p \in Places \ {s} : f[p] = w.obj[p]
  BY <1>1, <1>3, <1>5 DEF Put
<1>8. ObjChanged(w.obj, f, s)
  BY <1>7 DEF ObjChanged
<1>9. after \in [Places -> Nat] /\ after[r] = k /\ \A p \in Places \ {r} : after[p] = hold[p]
  BY <1>2, <1>3, <1>4 DEF Put
<1>10. GraphOK(w.obj, hold)
  BY DEF WorldOK
<1>11. GraphOK(f, after)
  BY <1>2, <1>5, <1>6, <1>7, <1>8, <1>9, <1>10, GraphDrop
<1>12. Has(v, Put(w.obj, s, c), w.str, w.nbt, w.mem) /\ GraphOK(Put(w.obj, s, c), after)
  BY <1>1, <1>11, WithObjectHas, WorldParts DEF Without
<1>13. Moves(w, hold, s, c, after)
  BY <1>0, <1>5, <1>12 DEF Moves
<1>14. WorldOK(v, after) /\ Spares(w, v, {s}) /\ v.obj[s] = c
  BY <1>12, <1>13, MovedStep
<1> QED BY <1>1, <1>2, <1>14

(* Worlds with the same parts are the same.                                *)
LEMMA HasSame ==
  ASSUME NEW f, NEW s, NEW b, NEW m, NEW v, Has(v, f, s, b, m), NEW u, Has(u, f, s, b, m)
  PROVE  u = v
BY DEF Has

(* The parts of a world in which a handle is counted anew.                 *)
LEMMA CountedHas ==
  ASSUME NEW w, IsWorld(w), NEW r, NEW n
  PROVE  Has(WithRefCount(w, r, n), Put(w.obj, r, Counted(w.obj[r], n)),
             SetRefcnt(w.str, w.obj[r].slot, n), w.nbt, w.mem)
<1>1. PICK v, c, f, g : /\ v = WithRefCount(w, r, n) /\ c = Counted(w.obj[r], n) /\ f = Put(w.obj, r, c)
                        /\ g = SetRefcnt(w.str, w.obj[r].slot, n)
  OBVIOUS
<1>2. Has(v, f, g, w.nbt, w.mem)
  BY <1>1 DEF WithRefCount, Has, IsWorld, Put, Counted
<1> QED BY <1>1, <1>2

(* The parts of a world in which a handle is gone.                         *)
LEMMA DestroyHas ==
  ASSUME NEW w, IsWorld(w), NEW r
  PROVE  Has(DestroyRef(w, r), Put(w.obj, r, Free), FreeSlot(w.str, w.obj[r].slot), w.nbt, w.mem)
<1>1. PICK v, f, g : v = DestroyRef(w, r) /\ f = Put(w.obj, r, Free) /\ g = FreeSlot(w.str, w.obj[r].slot)
  OBVIOUS
<1>2. Has(v, f, g, w.nbt, w.mem)
  BY <1>1 DEF DestroyRef, Has, IsWorld, Put
<1> QED BY <1>1, <1>2

(* What McfStrRef_Release does is the same whether s has dropped r or not. *)
LEMMA ReleaseSwap ==
  ASSUME NEW w, NEW hold, WorldOK(w, hold), NEW s \in Places, NEW r \in Places, r # s,
         NEW v, v = Without(McfStrRefRelease(w, r), s),
         NEW u, u = Without(w, s)
  PROVE  v = McfStrRefRelease(u, r) /\ v.obj[s] = Keeping(w.obj[s], Null)
<1>1. IsWorld(w) /\ w.obj \in [Places -> ObjRec] /\ r # Null
  BY WorldParts, PlaceTypes
<1>2. PICK c, f : c = Keeping(w.obj[s], Null) /\ f = Put(w.obj, s, c)
  OBVIOUS
<1>3. Has(u, f, w.str, w.nbt, w.mem)
  BY <1>1, <1>2, WithObjectHas DEF Without
<1>4. u.obj = f /\ u.str = w.str /\ u.nbt = w.nbt /\ u.mem = w.mem /\ IsWorld(u)
  BY <1>3, HasFields
<1>5. f[r] = w.obj[r]
  BY <1>1, <1>2 DEF Put
<1>6. ASSUME NEW x, NEW d, NEW g, Has(x, Put(w.obj, r, d), g, w.nbt, w.mem),
             v = Without(x, s)
      PROVE  Has(v, Put(f, r, d), g, w.nbt, w.mem) /\ v.obj[s] = c
  <2>1. IsWorld(x) /\ x.obj = Put(w.obj, r, d) /\ x.str = g /\ x.nbt = w.nbt /\ x.mem = w.mem
    BY <1>6, HasFields
  <2>2. Put(w.obj, r, d)[s] = w.obj[s]
    BY <1>1 DEF Put
  <2>3. Has(v, Put(Put(w.obj, r, d), s, c), g, w.nbt, w.mem)
    <3>1. Keeping(x.obj[s], Null) = c
      BY <1>2, <2>1, <2>2
    <3>2. Has(v, Put(x.obj, s, c), x.str, x.nbt, x.mem)
      BY <1>6, <2>1, <3>1, WithObjectHas DEF Without
    <3> QED BY <2>1, <3>2
  <2>4. Put(Put(w.obj, r, d), s, c) = Put(f, r, d)
    BY <1>1, <1>2, PutSwap
  <2>5. Put(f, r, d)[s] = c
    BY <1>1, <1>2 DEF Put
  <2>6. v.obj = Put(f, r, d)
    BY <2>3, <2>4, HasFields
  <2> QED BY <2>3, <2>4, <2>5, <2>6
<1>7. CASE w.obj[r].rc = 1
  <2>1. PICK g : g = FreeSlot(w.str, w.obj[r].slot)
    OBVIOUS
  <2>2. Has(DestroyRef(w, r), Put(w.obj, r, Free), g, w.nbt, w.mem)
    <3>1. IsWorld(w)
      BY <1>1
    <3> QED BY <2>1, <3>1, DestroyHas
  <2>3. v = Without(DestroyRef(w, r), s)
    BY <1>1, <1>7 DEF McfStrRefRelease
  <2>4. Has(v, Put(f, r, Free), g, w.nbt, w.mem) /\ v.obj[s] = c
    BY <1>6, <2>2, <2>3
  <2>5. McfStrRefRelease(u, r) = DestroyRef(u, r)
    BY <1>1, <1>4, <1>5, <1>7 DEF McfStrRefRelease
  <2>6. Has(DestroyRef(u, r), Put(f, r, Free), g, w.nbt, w.mem)
    <3>1. DestroyRef(u, r) = [obj |-> Put(f, r, Free), str |-> g, nbt |-> w.nbt, mem |-> w.mem]
      <4>1. Has(DestroyRef(u, r), Put(u.obj, r, Free), FreeSlot(u.str, u.obj[r].slot), u.nbt, u.mem)
        <5>1. IsWorld(u)
          BY <1>4
        <5> QED BY <5>1, DestroyHas
      <4> QED BY <1>4, <1>5, <2>1, <4>1 DEF Has
    <3> QED BY <3>1 DEF Has
  <2> QED BY <1>2, <2>4, <2>5, <2>6, HasSame
<1>8. CASE w.obj[r].rc # 1
  <2>1. PICK n : n = w.obj[r].rc - 1
    OBVIOUS
  <2>2. PICK g, d : g = SetRefcnt(w.str, w.obj[r].slot, n) /\ d = Counted(w.obj[r], n)
    OBVIOUS
  <2>3. Has(WithRefCount(w, r, n), Put(w.obj, r, d), g, w.nbt, w.mem)
    BY <1>1, <2>2, CountedHas
  <2>4. McfStrRefRelease(w, r) = WithRefCount(w, r, n)
    BY <1>1, <1>8, <2>1 DEF McfStrRefRelease, WithRefCount
  <2>5. v = Without(WithRefCount(w, r, n), s)
    BY <2>4
  <2>6. Has(v, Put(f, r, d), g, w.nbt, w.mem) /\ v.obj[s] = c
    BY <1>6, <2>3, <2>5
  <2>7. McfStrRefRelease(u, r) = WithRefCount(u, r, n)
    BY <1>1, <1>4, <1>5, <1>8, <2>1 DEF McfStrRefRelease, WithRefCount
  <2>8. Has(WithRefCount(u, r, n), Put(f, r, d), g, w.nbt, w.mem)
    <3>1. /\ Has(WithRefCount(u, r, n), Put(u.obj, r, Counted(u.obj[r], n)),
                 SetRefcnt(u.str, u.obj[r].slot, n), u.nbt, u.mem)
      BY <1>4, CountedHas
    <3> QED BY <1>4, <1>5, <2>2, <3>1
  <2> QED BY <1>2, <2>6, <2>7, <2>8, HasSame
<1> QED BY <1>7, <1>8

(* The handle that s keeps, if nobody else holds it.                       *)
Alone(w, hold, s) == {p \in Objects : p = w.obj[s].mcf /\ hold[p] = 0}

(* The blocks in A are free.                                               *)
AllFree(w, A) == \A p \in A : w.obj[p].kind = "none"

(* InvalidateMcfStrRef.                                                    *)
LEMMA Invalidated ==
  ASSUME NEW w, NEW hold, WorldOK(w, hold), NEW s \in Places,
         w.obj[s].kind \in {"string", "target", "exec"},
         NEW v, v = InvalidateMcf(w, s)
  PROVE  /\ WorldOK(v, hold) /\ v.obj[s] = Keeping(w.obj[s], Null)
         /\ Spares(w, v, {s} \cup Alone(w, hold, s)) /\ s \notin Alone(w, hold, s)
         /\ \A p \in Alone(w, hold, s) : v.obj[p] = Free
<1>1. PICK r : r = w.obj[s].mcf
  OBVIOUS
<1>2. PICK u : u = Without(w, s)
  OBVIOUS
<1>3. IsWorld(w) /\ w.obj \in [Places -> ObjRec] /\ hold \in [Places -> Nat] /\ w.obj[s] \in ObjRec
  BY WorldParts
<1>4. CASE r = Null
  <2>1. Keeping(w.obj[s], Null) = w.obj[s]
    <3>1. Keeping(w.obj[s], w.obj[s].mcf) = w.obj[s]
      BY <1>3 DEF Keeping, ObjRec
    <3> QED BY <1>1, <1>4, <3>1
  <2>2. Put(w.obj, s, w.obj[s]) = w.obj
    BY <1>3 DEF Put
  <2>3. Has(u, w.obj, w.str, w.nbt, w.mem)
    BY <1>2, <1>3, <2>1, <2>2, WithObjectHas DEF Without
  <2>4. u = w
    BY <1>3, <2>3 DEF Has, IsWorld
  <2>5. v = u
    BY <1>1, <1>2, <1>4 DEF InvalidateMcf, McfStrRefRelease, Without, WithObject, Keeping
  <2>6. Alone(w, hold, s) = {}
    BY <1>1, <1>4, ObjectsAssumption DEF Alone
  <2> QED BY <2>1, <2>4, <2>5, <2>6, SparesSelf
<1>5. CASE r # Null
  <2>1. r \in Objects /\ r \in Places /\ w.obj[r].kind = "ref" /\ r # s
    BY <1>1, <1>5, PlaceTypes DEF WorldOK, GraphOK, HandlesOK
  <2>2. PICK h : h = Put(hold, r, hold[r] + 1)
    OBVIOUS
  <2>3. WorldOK(u, h)
    BY <1>1, <1>2, <1>5, <2>2, Dropped
  <2>4. Spares(w, u, {s}) /\ u.obj[s] = Keeping(w.obj[s], Null)
    BY <1>1, <1>2, <1>5, <2>2, <2>3, Dropped
  <2>5. hold[r] \in Nat /\ h[r] = hold[r] + 1 /\ h[r] - 1 = hold[r] /\ h[r] # 0
    BY <1>3, <2>1, <2>2 DEF Put
  <2>6. Put(h, r, h[r] - 1) = hold
    <3>1. Put(h, r, hold[r]) = hold
      BY <1>3, <2>1, <2>2 DEF Put
    <3> QED BY <2>5, <3>1
  <2>7. v = McfStrRefRelease(u, r) /\ v.obj[s] = Keeping(w.obj[s], Null)
    <3>1. v = Without(McfStrRefRelease(w, r), s)
      BY <1>1 DEF InvalidateMcf, Without, WithObject, Keeping
    <3> QED BY <1>2, <2>1, <3>1, ReleaseSwap
  <2>8. u.obj[r] = w.obj[r]
    <3>1. u.obj = Put(w.obj, s, Keeping(w.obj[s], Null))
      BY <1>2, <1>3, WithObjectHas, HasFields DEF Without
    <3> QED BY <1>3, <2>1, <3>1 DEF Put
  <2>9. /\ WorldOK(v, hold) /\ Spares(u, v, {r})
        /\ u.obj[r].rc # 1 => Spares(u, v, {})
        /\ u.obj[r].rc = 1 => v.obj[r] = Free
    <3>1. u.obj[r].kind = "ref" /\ h[r] # 0 /\ v = McfStrRefRelease(u, r)
      BY <2>1, <2>5, <2>7, <2>8
    <3>2. WorldOK(v, Put(h, r, h[r] - 1)) /\ Spares(u, v, {r})
      BY <2>1, <2>3, <3>1, RefRelease
    <3>3. (u.obj[r].rc # 1 => Spares(u, v, {})) /\ (u.obj[r].rc = 1 => v.obj[r] = Free)
      BY <2>1, <2>3, <3>1, RefRelease
    <3> QED BY <2>6, <3>2, <3>3
  <2>10. Keeps(w.obj, r) = 1 /\ w.obj[r].rc = hold[r] + 1
    <3>1. Keeps(w.obj, r) = 1
      BY <1>1 DEF Keeps
    <3> QED BY <2>1, <3>1, WorldParts
  <2>11. CASE hold[r] = 0
    <3>1. v.obj[r] = Free /\ Alone(w, hold, s) = {r}
      BY <1>1, <2>1, <2>8, <2>9, <2>10, <2>11 DEF Alone
    <3>2. Spares(w, u, {s} \cup {r}) /\ Spares(u, v, {s} \cup {r})
      BY <2>4, <2>9, SparesMore
    <3>3. Spares(w, v, {s} \cup {r})
      BY <3>2, SparesChain
    <3> QED BY <2>1, <2>7, <2>9, <3>1, <3>3
  <2>12. CASE hold[r] # 0
    <3>1. Alone(w, hold, s) = {}
      BY <1>1, <2>12 DEF Alone
    <3>2. u.obj[r].rc # 1
      BY <2>5, <2>8, <2>10, <2>12
    <3>3. Spares(w, u, {s} \cup {}) /\ Spares(u, v, {s} \cup {})
      BY <2>4, <2>9, <3>2, SparesMore
    <3>4. Spares(w, v, {s} \cup {})
      BY <3>3, SparesChain
    <3> QED BY <2>7, <2>9, <3>1, <3>4
  <2> QED BY <2>11, <2>12
<1> QED BY <1>4, <1>5

-----------------------------------------------------------------------------
(***************************************************************************)
(* Texts in memory                                                         *)
(***************************************************************************)
(* An object without a slot says something else.                           *)
Rewrites(w, hold, s, c) ==
  /\ WorldOK(w, hold) /\ s \in Places /\ w.obj[s].kind \in {"string", "target", "exec"}
  /\ c \in ObjRec /\ c.kind = w.obj[s].kind /\ c.rc = w.obj[s].rc /\ c.mcf = w.obj[s].mcf
  /\ Shape(s, c)
  /\ c.lit # Null => c.len <= Len(w.mem[c.lit])

(* The world stays well formed, and only s changes.                        *)
LEMMA Rewritten ==
  ASSUME NEW w, NEW hold, NEW s, NEW c, Rewrites(w, hold, s, c),
         NEW v, v = WithObject(w, s, c)
  PROVE  WorldOK(v, hold) /\ Spares(w, v, {s}) /\ v.obj[s] = c
<1>1. PICK f : f = Put(w.obj, s, c)
  OBVIOUS
<1>2. /\ IsWorld(w) /\ hold \in [Places -> Nat] /\ s \in Places
      /\ s \in Objects => w.obj[s].rc = hold[s] + Keeps(w.obj, s)
  BY WorldParts DEF Rewrites
<1>3. Replaces(w, hold, s, c, f, hold)
  BY <1>1, <1>2 DEF Rewrites, Replaces, Put
<1>4. Has(v, f, w.str, w.nbt, w.mem)
  BY <1>1, <1>2, WithObjectHas
<1>5. w.obj[s].kind \notin {"ref", "nbt"} /\ c.kind \notin {"ref", "nbt"}
  BY DEF Rewrites
<1>6. WorldOK(v, hold)
  BY <1>3, <1>4, <1>5, PlainStep
<1>7. Spares(w, v, {s}) /\ v.obj[s] = c
  BY <1>3, <1>4, <1>5, <1>6, PlainStep
<1> QED BY <1>6, <1>7

Saying(c, t) == [c EXCEPT !.data = t, !.lit = Null]

(* An object that says t from its own buffer is otherwise the same.        *)
LEMMA SayingTypes ==
  ASSUME NEW c \in ObjRec, NEW t \in Bytestring
  PROVE  /\ Saying(c, t) \in ObjRec /\ Saying(c, t).data = t /\ Saying(c, t).lit = Null
         /\ Saying(c, t).kind = c.kind /\ Saying(c, t).rc = c.rc /\ Saying(c, t).mcf = c.mcf
         /\ Saying(c, t).slot = c.slot /\ Saying(c, t).len = c.len
         /\ c.lit = Null => Saying(c, t) = [c EXCEPT !.data = t]
         /\ \A p \in Places : Shape(p, c) /\ c.kind # "none" => Shape(p, Saying(c, t))
<1>1. PICK d : d = Saying(c, t)
  OBVIOUS
<1>2. /\ d \in ObjRec /\ d.data = t /\ d.lit = Null
      /\ d.kind = c.kind /\ d.rc = c.rc /\ d.mcf = c.mcf /\ d.slot = c.slot /\ d.len = c.len
  BY <1>1 DEF Saying, ObjRec
<1>3. c.lit = Null => d = [c EXCEPT !.data = t]
  BY <1>1 DEF Saying, ObjRec
<1>4. \A p \in Places : Shape(p, c) /\ c.kind # "none" => Shape(p, d)
  BY <1>2 DEF Shape
<1> QED BY <1>1, <1>2, <1>3, <1>4

(* What s says, with the length it knows of.                               *)
Buffer(w, s) ==
  IF w.obj[s].lit = Null THEN w.obj[s].data ELSE SubSeq(w.mem[w.obj[s].lit], 1, w.obj[s].len)

(* What a String holds, and what is seen of it, are texts.                 *)
LEMMA BufferTyped ==
  ASSUME NEW w, NEW hold, WorldOK(w, hold), NEW s \in Places
  PROVE  Buffer(w, s) \in Bytestring /\ Bytes(w, s) \in Bytestring /\ CStr(w, s) \in Bytestring
<1>1. w.obj[s] \in ObjRec
  BY WorldParts
<1>2. Bytes(w, s) \in Bytestring
  BY <1>1 DEF Bytes, WorldOK, LiteralsFit, ObjRec
<1>3. CStr(w, s) \in Bytestring
  BY <1>2, CStringTyped DEF CStr, Bytestring
<1>4. CASE w.obj[s].lit = Null
  BY <1>1, <1>2, <1>3, <1>4 DEF Buffer, ObjRec
<1>5. CASE w.obj[s].lit # Null
  <2>1. PICK m, n : m = w.mem[w.obj[s].lit] /\ n = w.obj[s].len
    OBVIOUS
  <2>2. m \in Bytestring /\ n \in Nat /\ n <= Len(m)
    BY <1>1, <1>5, <2>1 DEF WorldOK, LiteralsFit, ObjRec
  <2>3. SubSeq(m, 1, n) \in Bytestring
    BY <2>2 DEF Bytestring
  <2> QED BY <1>2, <1>3, <1>5, <2>1, <2>3 DEF Buffer
<1> QED BY <1>4, <1>5

(* String_EnsureCapacity.                                                  *)
LEMMA Copied ==
  ASSUME NEW w, NEW hold, WorldOK(w, hold), NEW s \in Places, w.obj[s].kind = "string",
         NEW n, NEW v, v = EnsureCapacity(w, s, n)
  PROVE  /\ WorldOK(v, hold) /\ Spares(w, v, {s}) /\ v.obj[s] = Saying(w.obj[s], Buffer(w, s))
         /\ Bytes(v, s) = Buffer(w, s)
<1>1. PICK c, t : t = Buffer(w, s) /\ c = Saying(w.obj[s], t)
  OBVIOUS
<1>2. w.obj[s] \in ObjRec /\ Shape(s, w.obj[s]) /\ IsWorld(w) /\ w.obj \in [Places -> ObjRec]
  BY WorldParts
<1>3. t \in Bytestring
  BY <1>1, BufferTyped
<1>4. /\ c \in ObjRec /\ c.data = t /\ c.lit = Null /\ c.kind = w.obj[s].kind /\ c.rc = w.obj[s].rc
      /\ c.mcf = w.obj[s].mcf /\ Shape(s, c)
  BY <1>1, <1>2, <1>3, SayingTypes
<1>5. Rewrites(w, hold, s, c)
  BY <1>4 DEF Rewrites
<1>6. v = WithObject(w, s, c)
  <2>1. CASE w.obj[s].lit = Null
    <3>1. c = w.obj[s]
      BY <1>1, <1>2, <2>1 DEF Saying, Buffer, ObjRec
    <3>2. Put(w.obj, s, w.obj[s]) = w.obj
      BY <1>2 DEF Put
    <3>3. Has(WithObject(w, s, c), w.obj, w.str, w.nbt, w.mem)
      BY <1>2, <3>1, <3>2, WithObjectHas
    <3> QED BY <1>2, <2>1, <3>3 DEF Has, IsWorld, EnsureCapacity
  <2>2. CASE w.obj[s].lit # Null
    <3>1. v = OwnCopy(w, s)
      BY <2>2 DEF EnsureCapacity
    <3>2. t = SubSeq(w.mem[w.obj[s].lit], 1, w.obj[s].len)
      BY <1>1, <2>2 DEF Buffer
    <3>3. v = [w EXCEPT !.obj[s].data = t, !.obj[s].lit = Null]
      BY <3>1, <3>2 DEF OwnCopy
    <3> QED BY <1>1, <1>2, <3>3 DEF WithObject, Saying, IsWorld
  <2> QED BY <2>1, <2>2
<1>7. WorldOK(v, hold) /\ Spares(w, v, {s}) /\ v.obj[s] = c
  BY <1>5, <1>6, Rewritten
<1>8. Bytes(v, s) = t
  BY <1>4, <1>7 DEF Bytes
<1> QED BY <1>1, <1>7, <1>8

(* The text is written to the object's own bytes.                          *)
LEMMA Written ==
  ASSUME NEW w, NEW hold, WorldOK(w, hold), NEW s \in Places, w.obj[s].kind = "string",
         w.obj[s].lit = Null, NEW t \in Bytestring, NEW v, v = Write(w, s, t)
  PROVE  WorldOK(v, hold) /\ Spares(w, v, {s}) /\ v.obj[s] = Saying(w.obj[s], t)
<1>1. PICK c : c = Saying(w.obj[s], t)
  OBVIOUS
<1>2. w.obj[s] \in ObjRec /\ Shape(s, w.obj[s]) /\ IsWorld(w) /\ w.obj \in [Places -> ObjRec]
  BY WorldParts
<1>4. /\ c \in ObjRec /\ c.data = t /\ c.lit = Null /\ c.kind = w.obj[s].kind /\ c.rc = w.obj[s].rc
      /\ c.mcf = w.obj[s].mcf /\ Shape(s, c) /\ c = [w.obj[s] EXCEPT !.data = t]
  BY <1>1, <1>2, SayingTypes
<1>5. Rewrites(w, hold, s, c)
  BY <1>4 DEF Rewrites
<1>6. v = WithObject(w, s, c)
  BY <1>4 DEF Write, WithObject
<1>7. WorldOK(v, hold) /\ Spares(w, v, {s}) /\ v.obj[s] = c
  BY <1>5, <1>6, Rewritten
<1> QED BY <1>1, <1>7

(* s, which borrows no literal and keeps no handle, says t.                *)
Rewrote(w, v, s, t) ==
  /\ v.obj[s].kind = w.obj[s].kind /\ v.obj[s].mcf = Null /\ v.obj[s].lit = Null /\ v.obj[s].data = t

(* What is done to a text to write to it: the handle goes, then the bytes. *)
LEMMA WrittenAnew ==
  ASSUME NEW w, NEW hold, WorldOK(w, hold), NEW s \in Places, w.obj[s].kind = "string",
         w.obj[s].lit = Null, NEW t \in Bytestring, NEW v, v = Write(InvalidateMcf(w, s), s, t)
  PROVE  /\ WorldOK(v, hold) /\ Rewrote(w, v, s, t)
         /\ Spares(w, v, {s} \cup Alone(w, hold, s))
         /\ AllFree(v, Alone(w, hold, s))
<1>1. PICK u, A : u = InvalidateMcf(w, s) /\ A = Alone(w, hold, s)
  OBVIOUS
<1>2. /\ WorldOK(u, hold) /\ u.obj[s] = Keeping(w.obj[s], Null)
      /\ Spares(w, u, {s} \cup A) /\ s \notin A
      /\ \A p \in A : u.obj[p] = Free
  BY <1>1, Invalidated
<1>3. w.obj[s] \in ObjRec /\ u.obj[s] \in ObjRec
  BY <1>2, WorldParts
<1>4. u.obj[s].kind = "string" /\ u.obj[s].lit = Null /\ u.obj[s].mcf = Null
  BY <1>2, <1>3, KeepingTypes
<1>5. WorldOK(v, hold) /\ Spares(u, v, {s}) /\ v.obj[s] = Saying(u.obj[s], t)
  BY <1>1, <1>2, <1>4, Written
<1>6. Rewrote(w, v, s, t)
  BY <1>3, <1>4, <1>5, SayingTypes DEF Rewrote
<1>7. Spares(u, v, {s} \cup A)
  BY <1>5, SparesMore
<1>8. Spares(w, v, {s} \cup A)
  BY <1>2, <1>7, SparesChain
<1>9. ASSUME NEW p \in A PROVE v.obj[p].kind = "none"
  <2>1. p \in Places \ {s} /\ u.obj[p] = Free
    BY <1>1, <1>2, PlaceTypes DEF Alone
  <2> QED BY <1>5, <2>1, FreeTypes DEF Spares, Same, Alike
<1> QED BY <1>1, <1>5, <1>6, <1>8, <1>9 DEF AllFree

(* String_AssignCString.                                                   *)
LEMMA Assigned ==
  ASSUME NEW w, NEW hold, WorldOK(w, hold), NEW s \in Places, w.obj[s].kind = "string",
         NEW t \in Bytestring, NEW v, v = AssignCString(w, s, t)
  PROVE  /\ WorldOK(v, hold) /\ Rewrote(w, v, s, t)
         /\ Spares(w, v, {s} \cup Alone(w, hold, s))
         /\ AllFree(v, Alone(w, hold, s))
<1>1. PICK u, n : u = EnsureCapacity(w, s, n) /\ n = Len(t)
  OBVIOUS
<1>2. WorldOK(u, hold) /\ Spares(w, u, {s}) /\ u.obj[s] = Saying(w.obj[s], Buffer(w, s))
  BY <1>1, Copied
<1>3. u.obj[s].kind = "string" /\ u.obj[s].lit = Null /\ u.obj[s].mcf = w.obj[s].mcf
  <2>1. w.obj[s] \in ObjRec /\ Buffer(w, s) \in Bytestring
    BY BufferTyped, WorldParts
  <2>2. PICK c, b : c = w.obj[s] /\ b = Buffer(w, s)
    OBVIOUS
  <2>3. Saying(c, b).kind = c.kind /\ Saying(c, b).lit = Null /\ Saying(c, b).mcf = c.mcf
    BY <2>1, <2>2, SayingTypes
  <2> QED BY <1>2, <2>2, <2>3
<1>4. v = Write(InvalidateMcf(u, s), s, t)
  BY <1>1 DEF AssignCString
<1>5. /\ WorldOK(v, hold) /\ Rewrote(u, v, s, t)
      /\ Spares(u, v, {s} \cup Alone(u, hold, s))
      /\ AllFree(v, Alone(u, hold, s))
  BY <1>2, <1>3, <1>4, WrittenAnew
<1>6. Alone(u, hold, s) = Alone(w, hold, s)
  BY <1>3 DEF Alone
<1>7. Rewrote(w, v, s, t)
  BY <1>3, <1>5 DEF Rewrote
<1>8. Spares(w, u, {s} \cup Alone(w, hold, s))
  BY <1>2, SparesMore
<1>9. Spares(w, v, {s} \cup Alone(w, hold, s))
  BY <1>5, <1>6, <1>8, SparesChain
<1> QED BY <1>5, <1>6, <1>7, <1>9

(* String_AppendCString, of more than nothing.                             *)
LEMMA Appended ==
  ASSUME NEW w, NEW hold, WorldOK(w, hold), NEW s \in Places, w.obj[s].kind = "string",
         NEW t \in Bytestring, t # <<>>, NEW v, v = AppendCString(w, s, t)
  PROVE  /\ WorldOK(v, hold) /\ Rewrote(w, v, s, Buffer(w, s) \o t)
         /\ Spares(w, v, {s} \cup Alone(w, hold, s))
         /\ AllFree(v, Alone(w, hold, s))
<1>1. PICK u, n : u = EnsureCapacity(w, s, n) /\ n = Len(Bytes(w, s) \o t)
  OBVIOUS
<1>2. /\ WorldOK(u, hold) /\ Spares(w, u, {s}) /\ u.obj[s] = Saying(w.obj[s], Buffer(w, s))
      /\ Bytes(u, s) = Buffer(w, s)
  BY <1>1, Copied
<1>3. u.obj[s].kind = "string" /\ u.obj[s].lit = Null /\ u.obj[s].mcf = w.obj[s].mcf
  <2>1. w.obj[s] \in ObjRec /\ Buffer(w, s) \in Bytestring
    BY BufferTyped, WorldParts
  <2>2. PICK c, b : c = w.obj[s] /\ b = Buffer(w, s)
    OBVIOUS
  <2>3. Saying(c, b).kind = c.kind /\ Saying(c, b).lit = Null /\ Saying(c, b).mcf = c.mcf
    BY <2>1, <2>2, SayingTypes
  <2> QED BY <1>2, <2>2, <2>3
<1>4. PICK x : x = Buffer(w, s) \o t
  OBVIOUS
<1>5. x \in Bytestring
  <2>1. Buffer(w, s) \in Bytestring
    BY BufferTyped
  <2> QED BY <1>4, <2>1 DEF Bytestring
<1>6. v = Write(InvalidateMcf(u, s), s, x)
  BY <1>1, <1>2, <1>4 DEF AppendCString
<1>7. /\ WorldOK(v, hold) /\ Rewrote(u, v, s, x)
      /\ Spares(u, v, {s} \cup Alone(u, hold, s))
      /\ AllFree(v, Alone(u, hold, s))
  <2>1. WorldOK(u, hold) /\ u.obj[s].kind = "string" /\ u.obj[s].lit = Null
    BY <1>2, <1>3
  <2>2. WorldOK(v, hold) /\ Rewrote(u, v, s, x)
    BY <1>5, <1>6, <2>1, WrittenAnew
  <2>3. /\ Spares(u, v, {s} \cup Alone(u, hold, s))
        /\ AllFree(v, Alone(u, hold, s))
    BY <1>5, <1>6, <2>1, WrittenAnew
  <2> QED BY <2>2, <2>3
<1>8. Alone(u, hold, s) = Alone(w, hold, s)
  BY <1>3 DEF Alone
<1>9. Rewrote(w, v, s, x)
  BY <1>3, <1>7 DEF Rewrote
<1>10. Spares(w, u, {s} \cup Alone(w, hold, s))
  BY <1>2, SparesMore
<1>11. Spares(w, v, {s} \cup Alone(w, hold, s))
  BY <1>7, <1>8, <1>10, SparesChain
<1> QED BY <1>4, <1>7, <1>8, <1>9, <1>11

(* A terminator is written to the first byte of a literal.                 *)
LEMMA OverNothing ==
  ASSUME NEW C, NEW b \in Seq(C), Nul \in C, NEW c, c = Over(b, <<>>)
  PROVE  c \in Seq(C) /\ Len(c) = Len(b)
<1>1. Len(b) \in Nat
  OBVIOUS
<1>2. Len(<<>>) = 0
  OBVIOUS
<1>3. CASE Len(b) = 0
  <2>1. SubSeq(b, 2, Len(b)) = <<>>
    BY <1>3
  <2>2. c = <<>> \o <<>> \o <<>>
    BY <1>2, <1>3, <2>1 DEF Over
  <2>3. c = <<>>
    BY <2>2
  <2>4. <<>> \in Seq(C)
    OBVIOUS
  <2> QED BY <1>2, <1>3, <2>3, <2>4
<1>4. CASE Len(b) > 0
  <2>1. PICK d : d = SubSeq(b, 2, Len(b))
    OBVIOUS
  <2>2. d \in Seq(C) /\ Len(d) = Len(b) - 1
    <3>1. PICK n : n = Len(b) /\ n \in Nat /\ n > 0 /\ d = SubSeq(b, 2, n)
      BY <1>1, <1>4, <2>1
    <3>2. \A i \in 2..n : b[i] \in C
      BY <3>1
    <3>3. SubSeq(b, 2, n) \in Seq(C)
      BY <3>1, <3>2, SubSeqProperties
    <3>4. Len(SubSeq(b, 2, n)) = IF 2 <= n THEN n - 2 + 1 ELSE 0
      BY <3>1, <3>2, SubSeqProperties
    <3> QED BY <3>1, <3>3, <3>4
  <2>3. c = <<>> \o <<Nul>> \o d
    BY <1>2, <1>4, <2>1 DEF Over
  <2>4. <<Nul>> \in Seq(C) /\ Len(<<Nul>>) = 1
    OBVIOUS
  <2>5. <<>> \o <<Nul>> = <<Nul>>
    OBVIOUS
  <2>6. c = <<Nul>> \o d
    BY <2>3, <2>5
  <2>7. c \in Seq(C) /\ Len(c) = Len(<<Nul>>) + Len(d)
    <3>1. PICK e : e = <<Nul>> /\ e \in Seq(C)
      BY <2>4
    <3>2. c = e \o d
      BY <2>6, <3>1
    <3>3. c \in Seq(C) /\ Len(c) = Len(e) + Len(d)
      BY <2>2, <3>1, <3>2, ConcatProperties
    <3> QED BY <3>1, <3>3
  <2> QED BY <1>1, <2>2, <2>4, <2>7
<1> QED BY <1>1, <1>3, <1>4

Shortened(c) == [c EXCEPT !.len = 0]

(* String_Clear.                                                           *)
LEMMA Cleared ==
  ASSUME NEW w, NEW hold, WorldOK(w, hold), NEW s \in Places, w.obj[s].kind = "string",
         NEW v, v = StringClear(w, s)
  PROVE  /\ WorldOK(v, hold)
         /\ w.obj[s].lit = Null =>
              /\ Rewrote(w, v, s, <<>>)
              /\ Spares(w, v, {s} \cup Alone(w, hold, s))
              /\ AllFree(v, Alone(w, hold, s))
<1>1. PICK u : u = InvalidateMcf(w, s)
  OBVIOUS
<1>2. v = Write(u, s, <<>>)
  BY <1>1 DEF StringClear
<1>3. CASE w.obj[s].lit = Null
  <2>0. <<>> \in Bytestring
    BY DEF Bytestring
  <2>1. PICK t : t = <<>> /\ t \in Bytestring
    BY <2>0
  <2>2. v = Write(InvalidateMcf(w, s), s, t)
    BY <1>1, <1>2, <2>1
  <2>3. /\ WorldOK(v, hold) /\ Rewrote(w, v, s, t)
        /\ Spares(w, v, {s} \cup Alone(w, hold, s))
        /\ AllFree(v, Alone(w, hold, s))
    BY <1>3, <2>1, <2>2, WrittenAnew
  <2> QED BY <2>1, <2>3
<1>4. CASE w.obj[s].lit # Null
  <2>1. WorldOK(u, hold) /\ u.obj[s] = Keeping(w.obj[s], Null)
    BY <1>1, Invalidated
  <2>2. /\ w.obj[s] \in ObjRec /\ u.obj[s] \in ObjRec /\ Shape(s, u.obj[s])
        /\ IsWorld(u) /\ u.obj \in [Places -> ObjRec]
    BY <2>1, WorldParts
  <2>3. PICK l : l = u.obj[s].lit
    OBVIOUS
  <2>4. l = w.obj[s].lit /\ l # Null /\ u.obj[s].kind = "string" /\ l \in Literals
    BY <1>4, <2>1, <2>2, <2>3, KeepingTypes DEF ObjRec
  <2>5. PICK c, x : c = Shortened(u.obj[s]) /\ x = WithObject(u, s, c)
    OBVIOUS
  <2>6. /\ c \in ObjRec /\ c.kind = u.obj[s].kind /\ c.rc = u.obj[s].rc /\ c.mcf = u.obj[s].mcf
        /\ c.lit = l /\ c.len = 0
    BY <2>2, <2>3, <2>5 DEF Shortened, ObjRec
  <2>7. Shape(s, c) /\ u.mem[l] \in Bytestring
    BY <2>1, <2>2, <2>4, <2>6 DEF Shape, WorldOK, LiteralsFit
  <2>8. Len(u.mem[l]) \in Nat
    BY <2>7 DEF Bytestring
  <2>9. Rewrites(u, hold, s, c)
    BY <2>1, <2>4, <2>6, <2>7, <2>8 DEF Rewrites
  <2>10. WorldOK(x, hold)
    BY <2>5, <2>9, Rewritten
  <2>11. PICK b : b = Over(u.mem[l], <<>>)
    OBVIOUS
  <2>12. b \in Bytestring /\ Len(b) = Len(u.mem[l])
    BY <2>7, <2>11, OverNothing DEF Bytestring
  <2>13. v = [u EXCEPT !.obj[s].len = 0, !.mem[l] = b]
    BY <1>2, <2>3, <2>4, <2>11 DEF Write
  <2>14. Has(v, Put(u.obj, s, c), u.str, u.nbt, Put(u.mem, l, b))
    BY <2>2, <2>5, <2>13 DEF Has, IsWorld, Put, Shortened
  <2>15. x.obj = Put(u.obj, s, c) /\ x.str = u.str /\ x.nbt = u.nbt /\ x.mem = u.mem
    BY <2>2, <2>5, WithObjectHas, HasFields
  <2>16. v.obj = x.obj /\ v.str = x.str /\ v.nbt = x.nbt /\ v.mem = Put(x.mem, l, b) /\ IsWorld(v)
    BY <2>14, <2>15, HasFields
  <2>17. /\ x.mem \in [Literals -> Bytestring]
         /\ \A p \in Places : x.obj[p].lit # Null => x.obj[p].lit \in Literals /\ x.obj[p].len <= Len(x.mem[x.obj[p].lit])
    BY <2>10, WorldParts DEF WorldOK, LiteralsFit, ObjRec
  <2>18. /\ v.mem \in [Literals -> Bytestring] /\ v.mem[l] = b
         /\ \A k \in Literals : k # l => v.mem[k] = x.mem[k]
    BY <2>4, <2>12, <2>16, <2>17 DEF Put
  <2>19. \A k \in Literals : Len(v.mem[k]) = Len(x.mem[k])
    BY <2>12, <2>15, <2>18
  <2>20. LiteralsFit(v.obj, v.mem)
    BY <2>16, <2>17, <2>18, <2>19 DEF LiteralsFit
  <2> QED BY <1>4, <2>10, <2>16, <2>20 DEF WorldOK
<1> QED BY <1>3, <1>4

(* s keeps a new handle in the block r, that says what s says.             *)
LEMMA Ensured ==
  ASSUME NEW w, NEW hold, WorldOK(w, hold), NEW s \in Places,
         w.obj[s].kind \in {"string", "target"}, w.obj[s].mcf = Null,
         NEW r \in Objects, w.obj[r].kind = "none", NEW v, v = EnsureMcf(w, s, r)
  PROVE  /\ WorldOK(v, hold) /\ Spares(w, v, {s, r}) /\ v.obj[s] = Keeping(w.obj[s], r)
         /\ v.obj[r].kind = "ref" /\ StrValue(v, r) = BeginRt(CStr(w, s))
<1>1. PICK u, src : src = CStr(w, s) /\ u = McfStrRefFrom(w, r, src)
  OBVIOUS
<1>2. /\ src \in Bytestring /\ hold \in [Places -> Nat] /\ w.obj[s] \in ObjRec /\ r \in Places /\ s # r
      /\ hold[r] = 0
  BY <1>1, BufferTyped, BlockIsFree, WorldParts, PlaceTypes
<1>3. PICK h : h = Put(hold, r, 1)
  OBVIOUS
<1>4. /\ WorldOK(u, h) /\ Spares(w, u, {r})
      /\ u.obj[r].kind = "ref" /\ StrValue(u, r) = BeginRt(src) /\ Keeps(u.obj, r) = 0
  BY <1>1, <1>2, <1>3, RefFrom
<1>5. Alike(u.obj[s], w.obj[s])
  BY <1>2, <1>4 DEF Spares, Same
<1>6. u.obj[s].kind \in {"string", "target", "exec"} /\ u.obj[s].mcf = Null
  BY <1>5 DEF Alike
<1>7. h[r] = 1 /\ h[r] # 0
  BY <1>2, <1>3 DEF Put
<1>8. Put(h, r, h[r] - 1) = hold
  <2>1. Put(h, r, 0) = Put(hold, r, 0)
    BY <1>3, PutPut
  <2>2. Put(hold, r, 0) = hold
    BY <1>2 DEF Put
  <2>3. h[r] - 1 = 0
    BY <1>7
  <2> QED BY <2>1, <2>2, <2>3
<1>9. v = WithObject(u, s, Keeping(u.obj[s], r))
  BY <1>1 DEF EnsureMcf, WithObject, Keeping
<1>10. WorldOK(v, hold) /\ Spares(u, v, {s}) /\ v.obj[s] = Keeping(u.obj[s], r)
  BY <1>4, <1>6, <1>7, <1>8, <1>9, KeptBy
<1>11. Spares(w, v, {s, r})
  <2>1. Spares(w, u, {s, r}) /\ Spares(u, v, {s, r})
    BY <1>4, <1>10, SparesMore
  <2> QED BY <2>1, SparesChain
<1>12. v.obj[r].kind = "ref" /\ StrValue(v, r) = StrValue(u, r)
  BY <1>2, <1>4, <1>10 DEF Spares, Same, Alike
<1>13. u.obj[s] = w.obj[s]
  <2>1. Spares(w, u, {r}) /\ u.obj[s].rc = w.obj[s].rc
    <3>1. u.obj[s].rc = w.obj[s].rc
      <4>1. IsWorld(w) /\ w.obj \in [Places -> ObjRec]
        BY WorldParts
      <4>2. \E c : u.obj = Put(w.obj, r, c)
        BY <1>1, <4>1 DEF McfStrRefFrom, AssignSource, Put, IsWorld
      <4> QED BY <1>2, <4>1, <4>2 DEF Put
    <3> QED BY <1>4, <3>1
  <2>2. u.obj[s] \in ObjRec
    BY <1>4, WorldParts
  <2> QED BY <1>2, <1>5, <2>1, <2>2 DEF Alike, ObjRec
<1> QED BY <1>1, <1>4, <1>10, <1>11, <1>12, <1>13

(* An object without a slot becomes another one.                           *)
Plainly(w, hold, s, c, after) ==
  /\ Replaces(w, hold, s, c, Put(w.obj, s, c), after)
  /\ w.obj[s].kind \notin {"ref", "nbt"} /\ c.kind \notin {"ref", "nbt"}

(* The world stays well formed, and only s changes.                        *)
LEMMA PlainBecomes ==
  ASSUME NEW w, NEW hold, NEW s, NEW c, NEW after, Plainly(w, hold, s, c, after),
         NEW v, v = WithObject(w, s, c)
  PROVE  WorldOK(v, after) /\ Spares(w, v, {s}) /\ v.obj[s] = c
<1>1. PICK f : f = Put(w.obj, s, c)
  OBVIOUS
<1>2. Replaces(w, hold, s, c, f, after)
  BY <1>1 DEF Plainly
<1>3. w.obj[s].kind \notin {"ref", "nbt"} /\ c.kind \notin {"ref", "nbt"}
  BY DEF Plainly
<1>4. Has(v, f, w.str, w.nbt, w.mem)
  BY <1>1, <1>2, WithObjectHas, ReplacesObj
<1>5. WorldOK(v, after)
  BY <1>2, <1>3, <1>4, PlainStep
<1>6. Spares(w, v, {s}) /\ v.obj[s] = c
  BY <1>2, <1>3, <1>4, <1>5, PlainStep
<1> QED BY <1>5, <1>6

(* What someone holds is alive.                                            *)
LEMMA Alive ==
  ASSUME NEW w, NEW hold, WorldOK(w, hold), NEW s \in Objects, hold[s] # 0
  PROVE  w.obj[s].rc \in Nat /\ w.obj[s].rc # 0 /\ w.obj[s].kind # "none"
BY WorldParts, KeepsTypes, BlockIsFree

(* The last reference to an object without a slot, which keeps no handle   *)
(* by now, is released.                                                    *)
LEMMA PlainGone ==
  ASSUME NEW w, NEW hold, WorldOK(w, hold), NEW s \in Objects,
         w.obj[s].kind \in {"string", "target", "exec"}, w.obj[s].mcf = Null, w.obj[s].rc = 1, hold[s] # 0,
         NEW v, v = WithObject(w, s, Free)
  PROVE  WorldOK(v, Put(hold, s, hold[s] - 1)) /\ Spares(w, v, {s}) /\ v.obj[s] = Free
<1>1. PICK c, after : c = Free /\ after = Put(hold, s, hold[s] - 1)
  OBVIOUS
<1>2. Replaces(w, hold, s, c, Put(w.obj, s, c), after) /\ c.kind \notin {"ref", "nbt"}
  BY <1>1, GoneReplaces, FreeTypes
<1>3. Plainly(w, hold, s, c, after)
  BY <1>2 DEF Plainly
<1>4. v = WithObject(w, s, c)
  BY <1>1
<1>5. WorldOK(v, after) /\ Spares(w, v, {s}) /\ v.obj[s] = c
  BY <1>3, <1>4, PlainBecomes
<1> QED BY <1>1, <1>5

(* The handle goes, and then the object: _String_Destroy, _Target_Destroy  *)
(* and the end of a builder of execute.                                    *)
LEMMA Destroyed ==
  ASSUME NEW w, NEW hold, WorldOK(w, hold), NEW s \in Objects,
         w.obj[s].kind \in {"string", "target", "exec"}, w.obj[s].rc = 1, hold[s] # 0,
         NEW v, v = WithObject(InvalidateMcf(w, s), s, Free)
  PROVE  /\ WorldOK(v, Put(hold, s, hold[s] - 1)) /\ v.obj[s] = Free
         /\ Spares(w, v, {s} \cup Alone(w, hold, s))
         /\ AllFree(v, Alone(w, hold, s))
<1>1. PICK u, A : u = InvalidateMcf(w, s) /\ A = Alone(w, hold, s)
  OBVIOUS
<1>2. s \in Places /\ w.obj[s] \in ObjRec
  BY WorldParts
<1>3. /\ WorldOK(u, hold) /\ u.obj[s] = Keeping(w.obj[s], Null)
      /\ Spares(w, u, {s} \cup A) /\ s \notin A
      /\ \A p \in A : u.obj[p] = Free
  BY <1>1, <1>2, Invalidated
<1>4. u.obj[s].kind \in {"string", "target", "exec"} /\ u.obj[s].mcf = Null /\ u.obj[s].rc = 1
  BY <1>2, <1>3, KeepingTypes
<1>5. v = WithObject(u, s, Free)
  BY <1>1
<1>6. WorldOK(v, Put(hold, s, hold[s] - 1)) /\ Spares(u, v, {s}) /\ v.obj[s] = Free
  BY <1>3, <1>4, <1>5, PlainGone
<1>7. Spares(u, v, {s} \cup A)
  BY <1>6, SparesMore
<1>8. Spares(w, v, {s} \cup A)
  BY <1>3, <1>7, SparesChain
<1>9. ASSUME NEW p \in A PROVE v.obj[p].kind = "none"
  <2>1. p \in Places \ {s} /\ u.obj[p] = Free
    BY <1>1, <1>3, PlaceTypes DEF Alone
  <2> QED BY <1>6, <2>1, FreeTypes DEF Spares, Same, Alike
<1> QED BY <1>1, <1>6, <1>8, <1>9 DEF AllFree

(* A text is held once more or less.                                       *)
LEMMA PlainCounted ==
  ASSUME NEW w, NEW hold, WorldOK(w, hold), NEW s \in Objects,
         w.obj[s].kind \in {"string", "target"}, NEW n \in Nat, n # 0, NEW k \in Nat, n = k + Keeps(w.obj, s),
         NEW v, v = WithObject(w, s, Counted(w.obj[s], n))
  PROVE  WorldOK(v, Put(hold, s, k)) /\ Spares(w, v, {})
<1>1. PICK c, after : c = Counted(w.obj[s], n) /\ after = Put(hold, s, k)
  OBVIOUS
<1>2. w.obj[s].kind \notin {"none", "exec"} /\ w.obj[s].kind \notin {"ref", "nbt"}
  OBVIOUS
<1>3. Replaces(w, hold, s, c, Put(w.obj, s, c), after) /\ Alike(c, w.obj[s])
  BY <1>1, <1>2, CountReplaces
<1>4. Plainly(w, hold, s, c, after)
  BY <1>2, <1>3 DEF Alike, Plainly
<1>5. v = WithObject(w, s, c)
  BY <1>1
<1>6. WorldOK(v, after) /\ Spares(w, v, {s}) /\ v.obj[s] = c
  BY <1>4, <1>5, PlainBecomes
<1>7. Same(w, v, s)
  BY <1>2, <1>3, <1>6 DEF Same
<1> QED BY <1>1, <1>6, <1>7 DEF Spares

(* McRef_Retain.                                                           *)
LEMMA TextRetained ==
  ASSUME NEW w, NEW hold, WorldOK(w, hold), NEW s \in Objects, w.obj[s].kind \in {"string", "target"},
         NEW v, v = [w EXCEPT !.obj[s].rc = @ + 1]
  PROVE  WorldOK(v, Put(hold, s, hold[s] + 1)) /\ Spares(w, v, {})
<1>1. PICK n, k : n = w.obj[s].rc + 1 /\ k = hold[s] + 1
  OBVIOUS
<1>2. n \in Nat /\ n # 0 /\ k \in Nat /\ n = k + Keeps(w.obj, s)
  BY <1>1, WorldParts, KeepsTypes
<1>3. v = WithObject(w, s, Counted(w.obj[s], n))
  BY <1>1 DEF WithObject, Counted
<1> QED BY <1>1, <1>2, <1>3, PlainCounted

(* McRef_Release of an object that is counted.                             *)
LEMMA TextReleased ==
  ASSUME NEW w, NEW hold, WorldOK(w, hold), NEW s \in Objects, w.obj[s].kind \in {"string", "target"},
         hold[s] # 0, NEW v, v = TextRelease(w, s)
  PROVE  /\ WorldOK(v, Put(hold, s, hold[s] - 1))
         /\ Spares(w, v, {s} \cup Alone(w, hold, s))
         /\ hold[s] = 1 => v.obj[s] = Free /\ AllFree(v, Alone(w, hold, s))
         /\ hold[s] # 1 => Spares(w, v, {})
<1>1. /\ w.obj[s].rc \in Nat /\ w.obj[s].rc # 0 /\ w.obj[s].rc = hold[s] /\ hold[s] \in Nat
      /\ Keeps(w.obj, s) = 0
  <2>1. Keeps(w.obj, s) = 0
    BY OthersNotKept DEF WorldOK, GraphOK
  <2> QED BY <2>1, Alive, WorldParts
<1>2. CASE w.obj[s].rc = 1
  <2>1. v = WithObject(InvalidateMcf(w, s), s, Free)
    BY <1>2 DEF TextRelease, WithObject
  <2>2. w.obj[s].kind \in {"string", "target", "exec"}
    OBVIOUS
  <2>3. WorldOK(v, Put(hold, s, hold[s] - 1)) /\ Spares(w, v, {s} \cup Alone(w, hold, s))
    BY <1>2, <2>1, <2>2, Destroyed
  <2>4. v.obj[s] = Free /\ AllFree(v, Alone(w, hold, s))
    BY <1>2, <2>1, <2>2, Destroyed
  <2> QED BY <1>1, <1>2, <2>3, <2>4
<1>3. CASE w.obj[s].rc # 1
  <2>1. PICK n : n = w.obj[s].rc - 1
    OBVIOUS
  <2>2. n \in Nat /\ n # 0 /\ n = n + Keeps(w.obj, s) /\ hold[s] - 1 = n
    BY <1>1, <1>3, <2>1
  <2>3. v = [w EXCEPT !.obj[s].rc = @ - 1]
    BY <1>1, <1>3 DEF TextRelease
  <2>4. v = WithObject(w, s, Counted(w.obj[s], n))
    BY <2>1, <2>3 DEF WithObject, Counted
  <2>5. WorldOK(v, Put(hold, s, n)) /\ Spares(w, v, {})
    BY <2>2, <2>4, PlainCounted
  <2>6. Spares(w, v, {s} \cup Alone(w, hold, s))
    BY <2>5, SparesMore
  <2> QED BY <1>1, <1>3, <2>2, <2>5, <2>6
<1> QED BY <1>2, <1>3

-----------------------------------------------------------------------------
(***************************************************************************)
(* New objects                                                             *)
(***************************************************************************)
(* c is what a new object without a slot begins with.                      *)
Begins(w, hold, o, c) ==
  /\ WorldOK(w, hold) /\ o \in Objects /\ w.obj[o].kind = "none"
  /\ c \in ObjRec /\ c.kind \in {"string", "target", "exec"} /\ Shape(o, c) /\ c.mcf = Null /\ c.rc = 1
  /\ c.lit # Null => c.len <= Len(w.mem[c.lit])

(* The new object has one holder, and the other objects stay.              *)
LEMMA Begun ==
  ASSUME NEW w, NEW hold, NEW o, NEW c, Begins(w, hold, o, c),
         NEW v, v = WithObject(w, o, c)
  PROVE  WorldOK(v, Put(hold, o, 1)) /\ Spares(w, v, {o}) /\ v.obj[o] = c
<1>1. PICK after : after = Put(hold, o, 1)
  OBVIOUS
<1>2. Replaces(w, hold, o, c, Put(w.obj, o, c), after)
  BY <1>1, NewReplaces DEF Begins
<1>3. Plainly(w, hold, o, c, after)
  BY <1>2 DEF Begins, Plainly
<1>4. WorldOK(v, after) /\ Spares(w, v, {o}) /\ v.obj[o] = c
  BY <1>3, PlainBecomes
<1> QED BY <1>1, <1>4

TextKinds == {"string", "target"}

(* What MC_REF_INIT_DYNAMIC makes is a well-formed object.                 *)
LEMMA DynamicTypes ==
  ASSUME NEW k \in {"string", "target", "exec"}, NEW c, c = Dynamic(k)
  PROVE  /\ c \in ObjRec /\ c.kind = k /\ c.rc = 1 /\ c.data = <<>> /\ c.lit = Null /\ c.mcf = Null
         /\ \A o \in Objects : Shape(o, c)
<1>1. c = [kind |-> k, rc |-> 1, data |-> <<>>, lit |-> Null, len |-> 0, mcf |-> Null, slot |-> -1]
  BY DEF Dynamic, Free
<1>2. <<>> \in Bytestring /\ k \in Kinds
  BY DEF Bytestring, Kinds
<1>3. c \in ObjRec /\ c.kind = k /\ c.rc = 1 /\ c.data = <<>> /\ c.lit = Null /\ c.mcf = Null
  BY <1>1, <1>2 DEF ObjRec
<1> QED BY <1>3, PlaceTypes DEF Shape

(* String_FromCString and _Target_New.                                     *)
LEMMA TextMade ==
  ASSUME NEW w, NEW hold, WorldOK(w, hold), NEW o \in Objects, w.obj[o].kind = "none",
         NEW k \in TextKinds, NEW t \in Bytestring,
         NEW v, v = WithObject(w, o, [Dynamic(k) EXCEPT !.data = t])
  PROVE  /\ WorldOK(v, Put(hold, o, 1)) /\ Spares(w, v, {o})
         /\ v.obj[o].kind = k /\ v.obj[o].data = t /\ v.obj[o].lit = Null /\ v.obj[o].mcf = Null
<1>1. PICK d, c : d = Dynamic(k) /\ c = Saying(d, t)
  OBVIOUS
<1>2. d \in ObjRec /\ d.kind = k /\ d.rc = 1 /\ d.lit = Null /\ d.mcf = Null /\ Shape(o, d)
  BY <1>1, DynamicTypes DEF TextKinds
<1>3. /\ c \in ObjRec /\ c.kind = k /\ c.rc = 1 /\ c.lit = Null /\ c.mcf = Null /\ c.data = t
      /\ Shape(o, c) /\ c = [d EXCEPT !.data = t]
  <2>1. d.kind # "none"
    BY <1>2 DEF TextKinds
  <2> QED BY <1>1, <1>2, <2>1, SayingTypes, PlaceTypes
<1>4. Begins(w, hold, o, c)
  BY <1>3 DEF Begins, TextKinds
<1>5. v = WithObject(w, o, c)
  BY <1>1, <1>3
<1>6. WorldOK(v, Put(hold, o, 1)) /\ Spares(w, v, {o}) /\ v.obj[o] = c
  BY <1>4, <1>5, Begun
<1> QED BY <1>3, <1>6

Borrowing(k, l, n) == [Dynamic(k) EXCEPT !.lit = l, !.len = n]

Taking(w, o, k, l, r) == EnsureMcf(WithObject(w, o, Borrowing(k, l, Len(CString(w.mem[l])))), o, r)

Takes(w, hold, o, k, l, r) ==
  /\ WorldOK(w, hold) /\ o \in Objects /\ w.obj[o].kind = "none"
  /\ r \in Objects /\ w.obj[r].kind = "none" /\ r # o
  /\ k \in TextKinds /\ l \in Literals

(* String_FromLiteral, _Target_FromLiteral: the handle is made at once.    *)
LEMMA LiteralTaken ==
  ASSUME NEW w, NEW hold, NEW o, NEW k, NEW l, NEW r, Takes(w, hold, o, k, l, r),
         NEW v, v = Taking(w, o, k, l, r)
  PROVE  /\ WorldOK(v, Put(hold, o, 1)) /\ Spares(w, v, {o, r})
         /\ v.obj[o].kind = k /\ v.obj[o].lit = l /\ v.obj[o].len = Len(CString(w.mem[l]))
         /\ v.obj[o].mcf = r
         /\ v.obj[r].kind = "ref" /\ StrValue(v, r) = BeginRt(CString(w.mem[l]))
<1>0. /\ WorldOK(w, hold) /\ o \in Objects /\ w.obj[o].kind = "none"
      /\ r \in Objects /\ w.obj[r].kind = "none" /\ r # o
      /\ k \in TextKinds /\ l \in Literals
  BY DEF Takes
<1>1. PICK d, n : d = Dynamic(k) /\ n = Len(CString(w.mem[l]))
  OBVIOUS
<1>2. d \in ObjRec /\ d.kind = k /\ d.rc = 1 /\ d.lit = Null /\ d.mcf = Null
  BY <1>0, <1>1, DynamicTypes DEF TextKinds
<1>3. n \in Nat /\ n <= Len(w.mem[l]) /\ l # Null
  <2>1. w.mem[l] \in Bytestring
    BY <1>0 DEF WorldOK, LiteralsFit
  <2> QED BY <1>0, <1>1, <2>1, CStringTyped, ObjectsAssumption DEF Bytestring
<1>4. PICK c : c = [d EXCEPT !.lit = l, !.len = n]
  OBVIOUS
<1>5. c \in ObjRec /\ c.kind = k /\ c.rc = 1 /\ c.lit = l /\ c.len = n /\ c.mcf = Null
  BY <1>0, <1>2, <1>3, <1>4 DEF ObjRec
<1>6. Shape(o, c)
  BY <1>0, <1>5, PlaceTypes DEF Shape, TextKinds
<1>7. Begins(w, hold, o, c)
  BY <1>0, <1>3, <1>5, <1>6 DEF Begins, TextKinds
<1>8. PICK u : u = WithObject(w, o, c)
  OBVIOUS
<1>9. WorldOK(u, Put(hold, o, 1)) /\ Spares(w, u, {o}) /\ u.obj[o] = c
  BY <1>7, <1>8, Begun
<1>10. v = EnsureMcf(u, o, r)
  BY <1>1, <1>4, <1>8 DEF Borrowing, Taking
<1>11. u.obj[r].kind = "none"
  BY <1>0, <1>9, PlaceTypes DEF Spares, Same, Alike
<1>12. u.obj[o].kind \in {"string", "target"} /\ u.obj[o].mcf = Null /\ o \in Places
  BY <1>0, <1>5, <1>9, PlaceTypes DEF TextKinds
<1>13. /\ WorldOK(v, Put(hold, o, 1)) /\ Spares(u, v, {o, r}) /\ v.obj[o] = Keeping(c, r)
       /\ v.obj[r].kind = "ref" /\ StrValue(v, r) = BeginRt(CStr(u, o))
  <2>1. PICK h : h = Put(hold, o, 1)
    OBVIOUS
  <2>2. WorldOK(u, h) /\ r \in Objects
    BY <1>0, <1>9, <2>1
  <2>3. /\ WorldOK(v, h) /\ Spares(u, v, {o, r}) /\ v.obj[o] = Keeping(u.obj[o], r)
        /\ v.obj[r].kind = "ref" /\ StrValue(v, r) = BeginRt(CStr(u, o))
    BY <1>10, <1>11, <1>12, <2>2, Ensured
  <2> QED BY <1>9, <2>1, <2>3
<1>14. CStr(u, o) = CString(w.mem[l])
  BY <1>3, <1>5, <1>9 DEF CStr, Bytes, Spares
<1>15. v.obj[o].kind = k /\ v.obj[o].lit = l /\ v.obj[o].len = n /\ v.obj[o].mcf = r
  BY <1>0, <1>5, <1>13, KeepingTypes
<1>16. Spares(w, v, {o, r})
  <2>1. Spares(w, u, {o, r})
    BY <1>9, SparesMore
  <2> QED BY <1>13, <2>1, SparesChain
<1> QED BY <1>1, <1>13, <1>14, <1>15, <1>16

(* The beginning of a command: its prefix is a handle of its own.          *)
Starts(w, hold, e, r) ==
  /\ WorldOK(w, hold) /\ e \in Objects /\ w.obj[e].kind = "none"
  /\ r \in Objects /\ w.obj[r].kind = "none" /\ r # e

Starting(w, e, r) == WithObject(McfStrRefFrom(w, r, <<>>), e, Keeping(Dynamic("exec"), r))

(* execute_begin makes the builder and its prefix, which the builder alone *)
(* holds.                                                                  *)
LEMMA ExecuteBegun ==
  ASSUME NEW w, NEW hold, NEW e, NEW r, Starts(w, hold, e, r),
         NEW v, v = Starting(w, e, r)
  PROVE  /\ WorldOK(v, Put(hold, e, 1)) /\ Spares(w, v, {e, r})
         /\ v.obj[e].kind = "exec" /\ v.obj[e].mcf = r
         /\ v.obj[r].kind = "ref" /\ StrValue(v, r) = BeginRt(<<>>)
<1>a. /\ WorldOK(w, hold) /\ e \in Objects /\ w.obj[e].kind = "none"
      /\ r \in Objects /\ w.obj[r].kind = "none" /\ r # e
  BY DEF Starts
<1>0. PICK src : src = <<>> /\ src \in Bytestring
  BY EmptySeq DEF Bytestring
<1>1. PICK c, x : c = Dynamic("exec") /\ x = McfStrRefFrom(w, r, src)
  OBVIOUS
<1>2. src \in Bytestring
  BY <1>0
<1>3. c \in ObjRec /\ c.kind = "exec" /\ c.rc = 1 /\ c.lit = Null /\ c.mcf = Null /\ Shape(e, c)
  BY <1>a, <1>1, DynamicTypes
<1>4. PICK h : h = Put(hold, r, 1)
  OBVIOUS
<1>5. /\ WorldOK(x, h) /\ Spares(w, x, {r})
      /\ x.obj[r].kind = "ref" /\ StrValue(x, r) = BeginRt(src) /\ Keeps(x.obj, r) = 0
  <2>1. WorldOK(x, Put(hold, r, 1)) /\ Spares(w, x, {r})
    BY <1>a, <1>1, <1>2, RefFrom
  <2>2. x.obj[r].kind = "ref" /\ StrValue(x, r) = BeginRt(src) /\ Keeps(x.obj, r) = 0
    BY <1>a, <1>1, <1>2, <2>1, RefFrom
  <2> QED BY <1>4, <2>1, <2>2
<1>6. /\ e \in Places /\ r \in Places /\ r # Null
      /\ x.obj[e].kind = "none" /\ hold[e] = 0 /\ hold[r] = 0 /\ hold \in [Places -> Nat]
  BY <1>a, <1>5, BlockIsFree, WorldParts, PlaceTypes DEF Spares, Same, Alike
<1>7. Begins(x, h, e, c)
  BY <1>a, <1>3, <1>5, <1>6 DEF Begins
<1>8. PICK y, g : y = WithObject(x, e, c) /\ g = Put(h, e, 1)
  OBVIOUS
<1>9. WorldOK(y, g) /\ Spares(x, y, {e}) /\ y.obj[e] = c
  BY <1>7, <1>8, Begun
<1>10. y.obj[r].kind = "ref" /\ StrValue(y, r) = StrValue(x, r)
  BY <1>a, <1>5, <1>6, <1>9 DEF Spares, Same, Alike
<1>11. Keeps(y.obj, r) = 0
  <2>1. \A p \in Places : x.obj[p].mcf # r
    BY <1>5, KeepsTypes
  <2>2. \A p \in Places \ {e} : y.obj[p].mcf = x.obj[p].mcf
    BY <1>9 DEF Spares, Same, Alike
  <2>3. \A p \in Places : y.obj[p].mcf # r
    BY <1>a, <1>3, <1>6, <1>9, <2>1, <2>2
  <2> QED BY <2>3, KeepsTypes
<1>12. g[r] = 1 /\ g[r] # 0 /\ Put(g, r, g[r] - 1) = Put(hold, e, 1)
  <2>1. g[r] = 1
    BY <1>a, <1>4, <1>6, <1>8 DEF Put
  <2>2. Put(Put(h, e, 1), r, 0) = Put(Put(h, r, 0), e, 1)
    BY <1>a, PutSwap
  <2>3. Put(h, r, 0) = hold
    BY <1>4, <1>6 DEF Put
  <2>4. g[r] - 1 = 0
    BY <2>1
  <2> QED BY <1>8, <2>1, <2>2, <2>3, <2>4
<1>13. v = WithObject(y, e, Keeping(y.obj[e], r))
  <2>1. Has(y, Put(x.obj, e, c), x.str, x.nbt, x.mem)
    BY <1>5, <1>8, WithObjectHas, WorldParts
  <2>2. Has(v, Put(x.obj, e, Keeping(c, r)), x.str, x.nbt, x.mem)
    BY <1>0, <1>1, <1>5, WithObjectHas, WorldParts DEF Starting
  <2>3. Has(WithObject(y, e, Keeping(c, r)), Put(y.obj, e, Keeping(c, r)), y.str, y.nbt, y.mem)
    BY <1>9, WithObjectHas, WorldParts
  <2>4. Put(y.obj, e, Keeping(c, r)) = Put(x.obj, e, Keeping(c, r))
    BY <2>1, PutPut, HasFields
  <2>5. y.str = x.str /\ y.nbt = x.nbt /\ y.mem = x.mem
    BY <2>1, HasFields
  <2> QED BY <1>9, <2>2, <2>3, <2>4, <2>5, HasSame
<1>14. y.obj[e].kind \in {"string", "target", "exec"} /\ y.obj[e].mcf = Null
  BY <1>3, <1>9
<1>15. WorldOK(v, Put(hold, e, 1)) /\ Spares(y, v, {e}) /\ v.obj[e] = Keeping(c, r)
  <2>1. y.obj[r].kind = "ref" /\ Keeps(y.obj, r) = 0 /\ g[r] # 0 /\ WorldOK(y, g) /\ e \in Places
    BY <1>a, <1>6, <1>9, <1>10, <1>11, <1>12
  <2>2. WorldOK(v, Put(g, r, g[r] - 1))
    BY <1>a, <1>13, <1>14, <2>1, KeptBy
  <2>3. Spares(y, v, {e}) /\ v.obj[e] = Keeping(y.obj[e], r)
    BY <1>a, <1>13, <1>14, <2>1, KeptBy
  <2> QED BY <1>9, <1>12, <2>2, <2>3
<1>16. v.obj[e].kind = "exec" /\ v.obj[e].mcf = r
  BY <1>a, <1>3, <1>15, KeepingTypes
<1>17. v.obj[r].kind = "ref" /\ StrValue(v, r) = BeginRt(<<>>)
  BY <1>a, <1>0, <1>5, <1>6, <1>10, <1>15 DEF Spares, Same, Alike
<1>18. Spares(w, v, {e, r})
  <2>1. Spares(w, x, {e, r}) /\ Spares(x, y, {e, r}) /\ Spares(y, v, {e, r})
    BY <1>5, <1>9, <1>15, SparesMore
  <2>2. Spares(w, y, {e, r})
    BY <2>1, SparesChain
  <2> QED BY <2>1, <2>2, SparesChain
<1> QED BY <1>15, <1>16, <1>17, <1>18

-----------------------------------------------------------------------------
(***************************************************************************)
(* Floats: the digits pass through a handle of their own.                  *)
(***************************************************************************)
LEMMA LastTyped ==
  ASSUME NEW w, NEW hold, WorldOK(w, hold)
  PROVE  LastValue(w.str, <<"-1">>) \in Bytestring
<1>1. IsHeap(w.str, Bytestring)
  BY DEF WorldOK, Housed, HeapOK
<1>2. PICK h : h = w.str
  OBVIOUS
<1>3. h.slots \in Seq(Cells(h))
  BY <1>1, <1>2 DEF IsHeap, Cells
<1>4. CASE h.slots = <<>>
  BY <1>2, <1>4 DEF LastValue, Bytestring
<1>5. CASE h.slots # <<>>
  <2>1. h.slots[Len(h.slots)] \in Cells(h)
    BY <1>3, <1>5
  <2> QED BY <1>2, <1>5, <2>1 DEF LastValue, Cells
<1> QED BY <1>4, <1>5

(* NBT_SetFloatStr, without memory for the handle.                         *)
LEMMA FloatLost ==
  ASSUME NEW w, NEW hold, WorldOK(w, hold), NEW n \in Places, w.obj[n].kind = "nbt", NEW t,
         NEW v, v = NbtSetFloatStr(w, n, t, Null)
  PROVE  WorldOK(v, hold) /\ Spares(w, v, {n})
<1>1. PICK x : x = LastValue(w.str, <<"-1">>)
  OBVIOUS
<1>2. x \in Bytestring
  BY <1>1, LastTyped
<1>3. v = NbtSet(w, n, x)
  BY <1>1 DEF NbtSetFloatStr
<1> QED BY <1>2, <1>3, NbtText

(* And with it.                                                            *)
LEMMA FloatSet ==
  ASSUME NEW w, NEW hold, WorldOK(w, hold), NEW n \in Places, w.obj[n].kind = "nbt",
         NEW r \in Objects, w.obj[r].kind = "none", NEW t \in Bytestring,
         NEW v, v = NbtSetFloatStr(w, n, t, r)
  PROVE  /\ WorldOK(v, hold) /\ Spares(w, v, {n, r})
         /\ v.obj[n].kind = "nbt" /\ v.obj[r].kind = "none"
         /\ NbtValue(v, n) = AppendRt(BeginRt(t), <<"f">>)
<1>1. PICK f : f = <<"f">> /\ f \in Bytestring /\ f # <<>>
  <2>1. "f" \in Chars \cup {Nul, "f", "-1"}
    OBVIOUS
  <2>2. PICK C : C = Chars \cup {Nul, "f", "-1"} /\ "f" \in C
    BY <2>1
  <2>3. <<"f">> \in Seq(C) /\ Len(<<"f">>) = 1
    BY <2>2
  <2> QED BY <2>2, <2>3, EmptySeq DEF Bytestring
<1>2. PICK x, h : x = McfStrRefFrom(w, r, t) /\ h = Put(hold, r, 1)
  OBVIOUS
<1>3. /\ r \in Places /\ r # Null /\ n # r /\ hold[r] = 0 /\ hold \in [Places -> Nat]
  BY BlockIsFree, WorldParts, PlaceTypes
<1>4. WorldOK(x, h) /\ Spares(w, x, {r}) /\ x.obj[r].kind = "ref" /\ StrValue(x, r) = BeginRt(t)
  <2>1. WorldOK(x, Put(hold, r, 1)) /\ Spares(w, x, {r})
    BY <1>2, RefFrom
  <2>2. x.obj[r].kind = "ref" /\ StrValue(x, r) = BeginRt(t)
    BY <1>2, <2>1, RefFrom
  <2> QED BY <1>2, <2>1, <2>2
<1>5. PICK y : y = AppendSource(x, r, f)
  OBVIOUS
<1>0. f \in Bytestring /\ f # <<>>
  BY <1>1
<1>6. WorldOK(y, h) /\ Spares(x, y, {r}) /\ y.obj = x.obj /\ StrValue(y, r) = AppendRt(BeginRt(t), f)
  <2>1. WorldOK(y, h) /\ Spares(x, y, {r}) /\ y.obj = x.obj
    BY <1>0, <1>3, <1>4, <1>5, RefAppend
  <2>2. StrValue(y, r) = AppendRt(StrValue(x, r), f)
    BY <1>0, <1>3, <1>4, <1>5, <2>1, RefAppend
  <2> QED BY <1>4, <2>1, <2>2
<1>7. PICK a : a = StrValue(y, r)
  OBVIOUS
<1>8. a \in Bytestring
  BY <1>3, <1>4, <1>6, <1>7, RefFacts DEF StrValue
<1>9. y.obj[n].kind = "nbt"
  BY <1>3, <1>4, <1>6 DEF Spares, Same, Alike
<1>10. PICK z : z = NbtSet(y, n, a)
  OBVIOUS
<1>11. WorldOK(z, h) /\ Spares(y, z, {n}) /\ z.obj = y.obj /\ NbtValue(z, n) = a
  BY <1>6, <1>8, <1>9, <1>10, NbtText
<1>12. v = McfStrRefRelease(z, r)
  BY <1>1, <1>2, <1>3, <1>5, <1>7, <1>10 DEF NbtSetFloatStr, StrValue
<1>13. h[r] = 1 /\ h[r] # 0 /\ Put(h, r, h[r] - 1) = hold
  <2>1. h[r] = 1
    BY <1>2, <1>3 DEF Put
  <2>2. Put(h, r, 0) = Put(hold, r, 0)
    BY <1>2, PutPut
  <2>3. Put(hold, r, 0) = hold
    BY <1>3 DEF Put
  <2>4. h[r] - 1 = 0
    BY <2>1
  <2> QED BY <2>1, <2>2, <2>3, <2>4
<1>14. z.obj[r].kind = "ref" /\ z.obj[r].rc = 1 /\ z.obj[n].kind = "nbt"
  <2>1. Keeps(x.obj, r) = 0
    BY <1>2, <1>4, RefFrom
  <2>2. z.obj[r].rc = h[r] + Keeps(z.obj, r)
    BY <1>11, WorldParts
  <2> QED BY <1>4, <1>6, <1>9, <1>11, <1>13, <2>1, <2>2
<1>15. WorldOK(v, hold) /\ Spares(z, v, {r}) /\ v.obj[r] = Free
  <2>1. WorldOK(v, Put(h, r, h[r] - 1)) /\ Spares(z, v, {r})
    BY <1>3, <1>11, <1>12, <1>13, <1>14, RefRelease
  <2>2. v.obj[r] = Free
    BY <1>3, <1>11, <1>12, <1>13, <1>14, RefRelease
  <2> QED BY <1>13, <2>1, <2>2
<1>16. v.obj[n].kind = "nbt" /\ NbtValue(v, n) = a
  BY <1>3, <1>11, <1>14, <1>15 DEF Spares, Same, Alike
<1>17. Spares(w, v, {n, r})
  <2>1. Spares(w, x, {n, r}) /\ Spares(x, y, {n, r}) /\ Spares(y, z, {n, r}) /\ Spares(z, v, {n, r})
    BY <1>4, <1>6, <1>11, <1>15, SparesMore
  <2>2. Spares(w, y, {n, r})
    BY <2>1, SparesChain
  <2>3. Spares(w, z, {n, r})
    BY <2>1, <2>2, SparesChain
  <2> QED BY <2>1, <2>3, SparesChain
<1> QED BY <1>1, <1>6, <1>7, <1>15, <1>16, <1>17, FreeTypes

-----------------------------------------------------------------------------
(***************************************************************************)
(* What objects say, where no character breaks a command and literals stay *)
(* as they are.                                                            *)
(***************************************************************************)
Tells(w, p) ==
  CASE w.obj[p].kind = "ref" -> StrValue(w, p)
    [] w.obj[p].kind = "nbt" -> NbtValue(w, p)
    [] w.obj[p].kind \in TextKinds -> CStr(w, p)
    [] w.obj[p].kind = "exec" /\ w.obj[p].mcf # Null -> StrValue(w, w.obj[p].mcf)
    [] OTHER -> <<>>

(* A text is its own, without a terminator, or a literal from end to end.  *)
Clean(w, p) ==
  w.obj[p].kind \in TextKinds =>
    IF w.obj[p].lit = Null THEN w.obj[p].data \in Seq(Chars)
    ELSE w.obj[p].len = Len(TextOf(w.obj[p].lit))

Current(w, p) == w.obj[p].mcf # Null => StrValue(w, w.obj[p].mcf) = Tells(w, p)

TextsOK(w) ==
  /\ w.mem = [l \in Literals |-> TextOf(l)]
  /\ \A p \in Places : Clean(w, p) /\ Current(w, p)

(* The client owns own, and wants its objects to say say.  The builder of  *)
(* execute writes through the handle it keeps, which is nobody else's.     *)
ClientTexts(w, own, say) ==
  /\ \A p \in Places : own[p] # 0 \/ p \in Statics => Tells(w, p) = say[p]
  /\ \A p \in Places : w.obj[p].kind = "exec" /\ w.obj[p].mcf # Null => own[w.obj[p].mcf] = 0

(* What is seen of a clean text is the whole of it.                        *)
LEMMA SeenWhole ==
  ASSUME NEW w, NEW hold, WorldOK(w, hold), w.mem = [l \in Literals |-> TextOf(l)],
         NEW p \in Places, w.obj[p].kind \in TextKinds, Clean(w, p)
  PROVE  /\ CStr(w, p) = Buffer(w, p) /\ CStr(w, p) \in Seq(Chars)
         /\ w.obj[p].lit # Null => CStr(w, p) = TextOf(w.obj[p].lit)
<1>1. w.obj[p] \in ObjRec
  BY WorldParts
<1>2. PICK b : b = Bytes(w, p)
  OBVIOUS
<1>3. CASE w.obj[p].lit = Null
  <2>1. b = w.obj[p].data /\ b \in Seq(Chars) /\ Buffer(w, p) = b
    BY <1>2, <1>3 DEF Bytes, Clean, Buffer
  <2>2. \A k \in DOMAIN b : b[k] # Nul
    BY <2>1, CharsAssumption
  <2>3. CStr(w, p) = b
    BY <1>2, <2>2, CStringWhole DEF CStr
  <2> QED BY <1>3, <2>1, <2>3
<1>4. CASE w.obj[p].lit # Null
  <2>1. PICK l : l = w.obj[p].lit /\ l \in Literals
    BY <1>1, <1>4 DEF ObjRec
  <2>2. b = TextOf(l) /\ b \in Seq(Chars) /\ Len(b) \in Nat /\ w.obj[p].len = Len(b)
    BY <1>2, <1>4, <2>1, TextsAssumption DEF Bytes, Clean
  <2>3. \A k \in DOMAIN b : b[k] # Nul
    BY <2>2, CharsAssumption
  <2>4. CStr(w, p) = b
    BY <1>2, <2>3, CStringWhole DEF CStr
  <2>5. Buffer(w, p) = SubSeq(b, 1, Len(b))
    BY <1>2, <1>4, <2>1, <2>2 DEF Buffer, Bytes
  <2>6. SubSeq(b, 1, Len(b)) = b
    BY <2>2
  <2> QED BY <2>1, <2>2, <2>4, <2>5, <2>6
<1> QED BY <1>3, <1>4

(* What is spared, and keeps no handle that is not, says what it said.     *)
LEMMA Unchanged ==
  ASSUME NEW w, NEW hold, WorldOK(w, hold), NEW v, NEW R, Spares(w, v, R),
         NEW p \in Places \ R, w.obj[p].mcf = Null \/ w.obj[p].mcf \notin R
  PROVE  /\ Tells(v, p) = Tells(w, p)
         /\ Clean(w, p) => Clean(v, p)
         /\ Current(w, p) => Current(v, p)
         /\ v.obj[p].kind = w.obj[p].kind /\ v.obj[p].mcf = w.obj[p].mcf
<1>1. Same(w, v, p) /\ v.mem = w.mem
  BY DEF Spares
<1>2. Alike(v.obj[p], w.obj[p])
  BY <1>1 DEF Same
<1>3. /\ v.obj[p].kind = w.obj[p].kind /\ v.obj[p].mcf = w.obj[p].mcf /\ v.obj[p].lit = w.obj[p].lit
      /\ v.obj[p].data = w.obj[p].data /\ v.obj[p].len = w.obj[p].len
  BY <1>2 DEF Alike
<1>4. CStr(v, p) = CStr(w, p)
  BY <1>1, <1>3 DEF CStr, Bytes
<1>5. ASSUME w.obj[p].mcf # Null
      PROVE  StrValue(v, w.obj[p].mcf) = StrValue(w, w.obj[p].mcf)
  <2>1. PICK r : r = w.obj[p].mcf
    OBVIOUS
  <2>2. r \in Places \ R /\ w.obj[r].kind = "ref"
    BY <1>5, <2>1, PlaceTypes DEF WorldOK, GraphOK, HandlesOK
  <2>3. Same(w, v, r)
    BY <2>2 DEF Spares
  <2> QED BY <2>1, <2>2, <2>3 DEF Same
<1>6. Tells(v, p) = Tells(w, p)
  BY <1>1, <1>3, <1>4, <1>5 DEF Tells, Same
<1>7. Clean(w, p) => Clean(v, p)
  BY <1>3 DEF Clean
<1>8. Current(w, p) => Current(v, p)
  BY <1>3, <1>5, <1>6 DEF Current
<1> QED BY <1>3, <1>6, <1>7, <1>8

(* Who keeps a handle of R is in R.                                        *)
Closed(w, R) == \A p \in Places \ R : w.obj[p].mcf = Null \/ w.obj[p].mcf \notin R

(* A step in which only R changes, after which the client owns after and   *)
(* wants tell, and what must be seen of R for it to be in order.           *)
Carries(w, v, R, own, say, after, tell) ==
  /\ TextsOK(w) /\ ClientTexts(w, own, say)
  /\ Spares(w, v, R) /\ Closed(w, R)
  /\ \A p \in Places \ R : /\ after[p] # 0 => own[p] # 0
                           /\ after[p] # 0 \/ p \in Statics => tell[p] = say[p]
  /\ \A p \in Places \cap R : /\ Clean(v, p) /\ Current(v, p)
                              /\ after[p] # 0 \/ p \in Statics => Tells(v, p) = tell[p]
                              /\ v.obj[p].kind = "exec" /\ v.obj[p].mcf # Null => after[v.obj[p].mcf] = 0

(* Then everything is in order.                                            *)
LEMMA Carried ==
  ASSUME NEW w, NEW hold, WorldOK(w, hold), NEW v, NEW R, NEW own, NEW say, NEW after, NEW tell,
         Carries(w, v, R, own, say, after, tell)
  PROVE  TextsOK(v) /\ ClientTexts(v, after, tell)
<1>1. Spares(w, v, R) /\ Closed(w, R) /\ TextsOK(w) /\ ClientTexts(w, own, say)
  BY DEF Carries
<1>2. v.mem = [l \in Literals |-> TextOf(l)]
  BY <1>1 DEF Spares, TextsOK
<1>3. ASSUME NEW p \in Places, p \notin R
      PROVE  /\ Clean(v, p) /\ Current(v, p)
             /\ after[p] # 0 \/ p \in Statics => Tells(v, p) = tell[p]
             /\ v.obj[p].kind = "exec" /\ v.obj[p].mcf # Null => after[v.obj[p].mcf] = 0
  <2>1. w.obj[p].mcf = Null \/ w.obj[p].mcf \notin R
    BY <1>1, <1>3 DEF Closed
  <2>2. /\ Tells(v, p) = Tells(w, p) /\ Clean(v, p) /\ Current(v, p)
        /\ v.obj[p].kind = w.obj[p].kind /\ v.obj[p].mcf = w.obj[p].mcf
    BY <1>1, <1>3, <2>1, Unchanged DEF TextsOK
  <2>3. after[p] # 0 \/ p \in Statics => Tells(w, p) = tell[p]
    BY <1>1, <1>3 DEF Carries, ClientTexts
  <2>4. ASSUME w.obj[p].kind = "exec", w.obj[p].mcf # Null PROVE after[w.obj[p].mcf] = 0
    <3>1. own[w.obj[p].mcf] = 0
      BY <1>1, <2>4 DEF ClientTexts
    <3>2. w.obj[p].mcf \in Places \ R
      BY <2>1, <2>4, PlaceTypes DEF WorldOK, GraphOK, HandlesOK
    <3> QED BY <3>1, <3>2 DEF Carries
  <2> QED BY <2>2, <2>3, <2>4
<1>4. \A p \in Places \cap R :
        /\ Clean(v, p) /\ Current(v, p)
        /\ after[p] # 0 \/ p \in Statics => Tells(v, p) = tell[p]
        /\ v.obj[p].kind = "exec" /\ v.obj[p].mcf # Null => after[v.obj[p].mcf] = 0
  BY DEF Carries
<1> QED BY <1>2, <1>3, <1>4 DEF TextsOK, ClientTexts

(* An object and the handle it keeps are closed, and so is a handle that   *)
(* nobody keeps.                                                           *)
LEMMA ClosedSets ==
  ASSUME NEW w, NEW hold, WorldOK(w, hold)
  PROVE  /\ \A s \in Places : w.obj[s].kind # "ref" => Closed(w, {s} \cup {w.obj[s].mcf})
         /\ \A s \in Places : w.obj[s].kind # "ref" => Closed(w, {s} \cup Alone(w, hold, s))
         /\ \A s \in Places : w.obj[s].kind # "ref" => Closed(w, {s})
         /\ \A r \in Places : Keeps(w.obj, r) = 0 => Closed(w, {r})
         /\ \A r, s \in Places : Keeps(w.obj, r) = 0 /\ w.obj[s].kind # "ref" => Closed(w, {s, r})
         /\ Closed(w, {})
<1>1. /\ \A s \in Places : w.obj[s].mcf # Null => w.obj[s].mcf \in Objects /\ w.obj[w.obj[s].mcf].kind = "ref"
      /\ \A s, t \in Places : w.obj[s].mcf # Null /\ w.obj[s].mcf = w.obj[t].mcf => s = t
  BY DEF WorldOK, GraphOK, HandlesOK
<1>2. \A r \in Places : Keeps(w.obj, r) = 0 => \A s \in Places : w.obj[s].mcf # r
  BY KeepsTypes
<1>3. \A s \in Places : w.obj[s].kind # "ref" => Closed(w, {s})
  BY <1>1 DEF Closed
<1>4. \A s \in Places : w.obj[s].kind # "ref" => Closed(w, {s} \cup {w.obj[s].mcf})
  BY <1>1 DEF Closed
<1>5. \A s \in Places : w.obj[s].kind # "ref" => Closed(w, {s} \cup Alone(w, hold, s))
  BY <1>1 DEF Closed, Alone
<1>6. \A r \in Places : Keeps(w.obj, r) = 0 => Closed(w, {r})
  BY <1>2 DEF Closed
<1>7. \A r, s \in Places : Keeps(w.obj, r) = 0 /\ w.obj[s].kind # "ref" => Closed(w, {s, r})
  BY <1>1, <1>2 DEF Closed
<1>8. Closed(w, {})
  BY DEF Closed
<1> QED BY <1>3, <1>4, <1>5, <1>6, <1>7, <1>8

(* Of what is gone nothing is seen.                                        *)
LEMMA GoneSeen ==
  ASSUME NEW v, NEW hold, WorldOK(v, hold), NEW p \in Objects, v.obj[p].kind = "none"
  PROVE  Clean(v, p) /\ Current(v, p) /\ hold[p] = 0
<1>1. v.obj[p] = Free /\ hold[p] = 0
  BY BlockIsFree
<1> QED BY <1>1, FreeTypes DEF Clean, Current, TextKinds

(* Handles and values keep nothing.                                        *)
LEMMA SlotSeen ==
  ASSUME NEW v, NEW hold, WorldOK(v, hold), NEW p \in Places, v.obj[p].kind \in {"ref", "nbt"}
  PROVE  Clean(v, p) /\ Current(v, p)
<1>1. v.obj[p].mcf = Null
  BY WorldParts DEF Shape
<1> QED BY <1>1 DEF Clean, Current, TextKinds

(* A text that a String has written itself.                                *)
LEMMA OwnSeen ==
  ASSUME NEW v, NEW p, v.obj[p].kind \in TextKinds, v.obj[p].lit = Null, v.obj[p].mcf = Null,
         v.obj[p].data \in Seq(Chars)
  PROVE  Clean(v, p) /\ Current(v, p) /\ Tells(v, p) = v.obj[p].data
<1>1. Clean(v, p) /\ Current(v, p)
  BY DEF Clean, Current
<1>2. \A k \in DOMAIN v.obj[p].data : v.obj[p].data[k] # Nul
  BY CharsAssumption
<1>3. CStr(v, p) = v.obj[p].data
  BY <1>2, CStringWhole DEF CStr, Bytes
<1> QED BY <1>1, <1>3 DEF Tells, TextKinds
=============================================================================
