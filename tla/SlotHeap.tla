------------------------------ MODULE SlotHeap ------------------------------
(***************************************************************************)
(* The slots that strings and NBT values live in, in the storage of the    *)
(* game: a list that only grows, and a free list threaded through it.  The *)
(* functions std:_internal/mcstr_* and nbt_* are the same but for the name *)
(* of the storage.  A heap is a record of both; next_id is Len(slots).     *)
(***************************************************************************)
EXTENDS Integers, Sequences

(* Slot ids count from 0.                                                  *)
Ids(h) == 0..(Len(h.slots) - 1)

IsHeap(h, Values) ==
  h \in [slots : Seq([value : Values, refcnt : Nat, next : {-1} \cup Ids(h)]),
         free : {-1} \cup Ids(h)]

EmptyHeap == [slots |-> <<>>, free |-> -1]

Fresh == [value |-> <<>>, refcnt |-> 0, next |-> -1]

Slot(h, id) == h.slots[id + 1]

SetValue(h, id, v) == [h EXCEPT !.slots[id + 1].value = v]

SetRefcnt(h, id, n) == [h EXCEPT !.slots[id + 1].refcnt = n]

AllocNew(h) == [h |-> [h EXCEPT !.slots = Append(@, Fresh)], id |-> Len(h.slots)]

AllocReuse(h) ==
  [h |-> [h EXCEPT !.free = Slot(h, h.free).next, !.slots[h.free + 1] = Fresh], id |-> h.free]

(* Variant: the free list is not looked at.                                *)
AllocNeverReuses(h) == AllocNew(h)

(* Variant: the head of the free list stays where it is.                   *)
AllocKeepsHead(h) ==
  IF h.free >= 0
  THEN [h |-> [h EXCEPT !.slots[h.free + 1] = Fresh], id |-> h.free]
  ELSE AllocNew(h)

Alloc(h) == IF h.free >= 0 THEN AllocReuse(h) ELSE AllocNew(h)

FreeSlot(h, id) ==
  [h EXCEPT !.slots[id + 1] = [value |-> <<>>, refcnt |-> 0, next |-> h.free], !.free = id]

(* What the free list may be: no id twice, and it ends.                    *)
Lists(h) == UNION {[1..n -> Ids(h)] : n \in 0..Len(h.slots)}

IsFreeList(h, list) ==
  /\ \A i, k \in DOMAIN list : list[i] = list[k] => i = k
  /\ h.free = IF 1 \in DOMAIN list THEN list[1] ELSE -1
  /\ \A i \in DOMAIN list :
       Slot(h, list[i]).next = IF i + 1 \in DOMAIN list THEN list[i + 1] ELSE -1

(* The value last in the list, which the index -1 of an NBT path names.    *)
LastValue(h, none) == IF h.slots = <<>> THEN none ELSE h.slots[Len(h.slots)].value
=============================================================================
