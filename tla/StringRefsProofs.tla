---------------------------- MODULE StringRefsProofs ----------------------------
(***************************************************************************)
(* Whatever the client calls and whatever commands it runs, with memory or *)
(* without, the objects, their counts and the slots of both heaps agree.   *)
(***************************************************************************)
EXTENDS StringRefsWorlds

(* How often the client, or the binding at work, holds an object.          *)
Holds == [p \in Places |-> owns[p] + IF \E k \in DOMAIN made : made[k] = p THEN 1 ELSE 0]

(* The handles of a binding: each once, and none but handles.              *)
MadeOK ==
  /\ made \in Seq(Objects)
  /\ \A j, k \in DOMAIN made : made[j] = made[k] => j = k
  /\ \A k \in DOMAIN made : obj[made[k]].kind = "ref"

ClientOK ==
  /\ owns \in [Places -> Nat]
  /\ \A p \in Statics : owns[p] = 0
  /\ want \in [Places -> Bytestring]

(* The inductive invariant.                                                *)
RefsInv ==
  /\ WorldOK(World, Holds)
  /\ ClientOK
  /\ MadeOK
  /\ asks \in Seq({Own, Kept})

(* The same while no binding is at work.                                   *)
Quiet == WorldOK(World, owns) /\ ClientOK

(* The world of a state by its parts.                                      *)
LEMMA WorldFields ==
  World.obj = obj /\ World.str = str /\ World.nbt = nbt /\ World.mem = mem /\ IsWorld(World)
BY DEF World, IsWorld

(* The world that a call leaves is the world of the next state.            *)
LEMMA BecomesWorld ==
  ASSUME NEW v, IsWorld(v), Becomes(v)
  PROVE  World' = v
BY DEF Becomes, World, IsWorld

(* While no binding is at work, all that is held is held by the client.    *)
LEMMA QuietHolds ==
  ASSUME made = <<>>, owns \in [Places -> Nat]
  PROVE  Holds = owns
<1>1. \A p : ~ \E k \in DOMAIN made : made[k] = p
  OBVIOUS
<1>2. \A p \in Places : owns[p] \in Nat /\ owns[p] + 0 = owns[p]
  OBVIOUS
<1>3. Holds = [p \in Places |-> owns[p]]
  BY <1>1, <1>2 DEF Holds
<1> QED BY <1>3

(* While no binding is at work, the invariant is Quiet.                    *)
LEMMA QuietInv ==
  ASSUME made = <<>>
  PROVE  (RefsInv => Quiet) /\ (Quiet /\ asks \in Seq({Own, Kept}) => RefsInv)
<1>1. owns \in [Places -> Nat] => Holds = owns
  BY QuietHolds
<1>2. MadeOK
  BY DEF MadeOK
<1> QED BY <1>1, <1>2 DEF RefsInv, Quiet, ClientOK

(* A call whose world is well formed for the references the client then    *)
(* has.                                                                    *)
LEMMA Settles ==
  ASSUME NEW v, NEW h, WorldOK(v, h), Becomes(v), owns' = h,
         \A p \in Statics : h[p] = 0, want' \in [Places -> Bytestring]
  PROVE  Quiet'
<1>1. World' = v /\ h \in [Places -> Nat]
  BY BecomesWorld, WorldParts
<1> QED BY <1>1 DEF Quiet, ClientOK

(* Texts that a client writes.                                             *)
LEMMA TextsTyped ==
  /\ Texts \subseteq Seq(Chars) /\ Seq(Chars) \subseteq Bytestring /\ Texts \subseteq Bytestring
  /\ <<>> \in Bytestring /\ <<>> \in Seq(Chars)
  /\ \A l \in Literals \cup Statics : TextOf(l) \in Seq(Chars)
<1>1. Texts \subseteq Seq(Chars)
  BY TextsAssumption DEF Texts
<1>2. Seq(Chars) \subseteq Bytestring
  BY DEF Bytestring
<1> QED BY <1>1, <1>2, TextsAssumption, EmptySeq

-----------------------------------------------------------------------------
(* Nothing is allocated at first.                                          *)
LEMMA EmptyHoused ==
  ASSUME NEW f \in [Places -> ObjRec], NEW k, \A p \in Places : f[p].kind # k
  PROVE  Housed(f, EmptyHeap, k)
<1>1. PICK h : h = EmptyHeap
  OBVIOUS
<1>2. h.slots = <<>> /\ h.free = -1 /\ Len(h.slots) = 0 /\ Ids(h) = {}
  BY <1>1 DEF EmptyHeap, Ids
<1>3. IsHeap(h, Bytestring)
  <2>1. h = [slots |-> <<>>, free |-> -1]
    BY <1>1 DEF EmptyHeap
  <2>2. \A S : <<>> \in Seq(S)
    BY EmptySeq
  <2> QED BY <1>2, <2>1, <2>2 DEF IsHeap
<1>4. PICK list : list = [i \in 1..0 |-> i]
  OBVIOUS
<1>5. list \in Lists(h) /\ DOMAIN list = {} /\ Range(list) = {}
  <2>1. 1..0 = {} /\ DOMAIN list = {}
    BY <1>4
  <2>2. list \in [1..0 -> Ids(h)]
    BY <1>4
  <2>3. 0 \in 0..Len(h.slots)
    BY <1>2
  <2>4. list \in Lists(h)
    BY <2>2, <2>3 DEF Lists
  <2> QED BY <2>1, <2>4 DEF Range
<1>6. IsFreeList(h, list)
  BY <1>2, <1>5 DEF IsFreeList
<1>7. SlotsUsed(f, k) = {}
  BY DEF SlotsUsed
<1>8. HeapOK(h, {})
  BY <1>2, <1>3, <1>5, <1>6 DEF HeapOK
<1>9. Bounded(h)
  BY <1>2, FS_CardinalityType DEF Bounded
<1> QED BY <1>1, <1>7, <1>8, <1>9 DEF Housed, OwnSlots, SlotCounts

(* The invariant holds at first.                                           *)
LEMMA InitInv ==
  ASSUME Init
  PROVE  RefsInv
<1>1. owns = [p \in Places |-> 0] /\ made = <<>> /\ asks = <<>> /\ str = EmptyHeap /\ nbt = EmptyHeap
  BY DEF Init
<1>2. ASSUME NEW p \in Places
      PROVE  /\ obj[p] \in ObjRec /\ Shape(p, obj[p]) /\ obj[p].mcf = Null /\ obj[p].lit = Null
             /\ obj[p].kind \notin {"ref", "nbt"}
             /\ p \in Objects => obj[p].rc = 0
  <2>1. CASE p \in Objects
    <3>1. obj[p] = Free
      BY <1>2, <2>1 DEF Init
    <3> QED BY <2>1, <3>1, FreeTypes
  <2>2. CASE p \in Statics
    <3>1. p \notin Objects
      BY <2>2, PlaceTypes
    <3>2. PICK c, t : t = TextOf(p) /\ c = [Free EXCEPT !.kind = "target", !.rc = -1, !.data = t]
      OBVIOUS
    <3>3. obj[p] = c
      BY <1>2, <3>1, <3>2 DEF Init
    <3>4. t \in Bytestring
      BY <2>2, <3>2, TextsTyped
    <3>5. c = [kind |-> "target", rc |-> -1, data |-> t, lit |-> Null, len |-> 0, mcf |-> Null, slot |-> -1]
      BY <3>2 DEF Free
    <3>6. c \in ObjRec /\ c.kind = "target" /\ c.rc = -1 /\ c.lit = Null /\ c.mcf = Null
      BY <3>4, <3>5 DEF ObjRec, Kinds
    <3> QED BY <3>1, <3>3, <3>6 DEF Shape
  <2> QED BY <1>2, <2>1, <2>2, PlaceTypes
<1>3. obj \in [Places -> ObjRec] /\ owns \in [Places -> Nat]
  <2>1. obj = [p \in Places |-> obj[p]]
    BY DEF Init
  <2> QED BY <1>1, <1>2, <2>1
<1>4. \A o : o # Null => Keeps(obj, o) = 0
  BY <1>2, KeepsTypes
<1>5. GraphOK(obj, owns)
  <2>1. HandlesOK(obj)
    BY <1>2 DEF HandlesOK
  <2>2. \A o \in Objects : obj[o].rc = owns[o] + Keeps(obj, o)
    BY <1>1, <1>2, <1>4, PlaceTypes
  <2> QED BY <1>2, <1>3, <2>1, <2>2 DEF GraphOK
<1>6. Housed(obj, str, "ref") /\ Housed(obj, nbt, "nbt")
  <2>1. (\A p \in Places : obj[p].kind # "ref") /\ (\A p \in Places : obj[p].kind # "nbt")
    BY <1>2
  <2> QED BY <1>1, <1>3, <2>1, EmptyHoused
<1>7. LiteralsFit(obj, mem)
  <2>1. mem \in [Literals -> Bytestring]
    BY TextsTyped DEF Init
  <2> QED BY <1>2, <2>1 DEF LiteralsFit
<1>8. WorldOK(World, owns)
  BY <1>5, <1>6, <1>7, WorldFields DEF WorldOK
<1>9. ClientOK
  <2>1. want \in [Places -> Bytestring]
    BY TextsTyped, PlaceTypes DEF Init
  <2>2. \A p \in Statics : owns[p] = 0
    BY <1>1, PlaceTypes
  <2> QED BY <1>3, <2>1, <2>2 DEF ClientOK
<1>10. asks \in Seq({Own, Kept})
  BY <1>1, EmptySeq
<1> QED BY <1>1, <1>8, <1>9, <1>10, QuietInv DEF Quiet

-----------------------------------------------------------------------------
(***************************************************************************)
(* The client's calls                                                      *)
(***************************************************************************)
LEMMA BlockFacts ==
  ASSUME NEW o \in Blocks(World)
  PROVE  o \in Objects /\ World.obj[o].kind = "none"
BY DEF Blocks

(* What the client may call a function on is alive, and a block it owns is *)
(* owned.                                                                  *)
LEMMA IsFacts ==
  ASSUME NEW o, NEW K, Is(o, K), Quiet
  PROVE  World.obj[o].kind \in K /\ obj[o].kind \in K /\ (o \in Objects => o \in Places /\ owns[o] \in Nat /\ owns[o] # 0)
BY WorldFields, PlaceTypes DEF Is, Quiet, ClientOK

(* Another text is wanted of one object.                                   *)
LEMMA PutWant ==
  ASSUME Quiet, NEW o \in Places, NEW t \in Bytestring
  PROVE  Put(want, o, t) \in [Places -> Bytestring]
BY DEF Quiet, ClientOK, Put

(* The client never owns a static.                                         *)
LEMMA PutOwns ==
  ASSUME Quiet, NEW o \in Objects, NEW n
  PROVE  \A p \in Statics : Put(owns, o, n)[p] = 0
BY PlaceTypes DEF Quiet, ClientOK, Put

(* A call that makes an object.                                            *)
LEMMA MadeSettles ==
  ASSUME Quiet, NEW o \in Objects, NEW t \in Bytestring, Made(o, t),
         NEW v, Becomes(v), WorldOK(v, Put(owns, o, 1))
  PROVE  Quiet'
<1>1. owns' = Put(owns, o, 1) /\ want' = Put(want, o, t)
  BY DEF Made, Put
<1>2. want' \in [Places -> Bytestring] /\ \A p \in Statics : Put(owns, o, 1)[p] = 0
  BY <1>1, PutWant, PutOwns, PlaceTypes
<1> QED BY <1>1, <1>2, Settles

(* A call that changes what an object is to say.                           *)
LEMMA MeansSettles ==
  ASSUME Quiet, NEW o \in Places, NEW t \in Bytestring, Means(o, t),
         NEW v, Becomes(v), WorldOK(v, owns)
  PROVE  Quiet'
<1>1. owns' = owns /\ want' = Put(want, o, t)
  BY DEF Means, Put
<1>2. want' \in [Places -> Bytestring] /\ \A p \in Statics : owns[p] = 0
  BY <1>1, PutWant DEF Quiet, ClientOK
<1> QED BY <1>1, <1>2, Settles

(* A call that changes neither texts nor references.                       *)
LEMMA KeepsSettles ==
  ASSUME Quiet, UNCHANGED <<owns, want>>, NEW v, Becomes(v), WorldOK(v, owns)
  PROVE  Quiet'
<1>1. owns' = owns /\ want' \in [Places -> Bytestring] /\ \A p \in Statics : owns[p] = 0
  BY DEF Quiet, ClientOK
<1> QED BY <1>1, Settles

(* String_FromCString, _Target_New and McfStrRef_FromCString.              *)
LEMMA FromCStringQuiet ==
  ASSUME Quiet, FromCString
  PROVE  Quiet'
<1>1. PICK o \in Blocks(World), t \in Texts :
        /\ \/ Becomes([World EXCEPT !.obj[o] = [Dynamic("string") EXCEPT !.data = t]])
           \/ t # <<>> /\ Becomes([World EXCEPT !.obj[o] = [Dynamic("target") EXCEPT !.data = t]])
           \/ Becomes(McfStrRefFrom(World, o, t))
        /\ Made(o, t)
  BY DEF FromCString
<1>2. o \in Objects /\ World.obj[o].kind = "none" /\ t \in Bytestring /\ WorldOK(World, owns)
  BY BlockFacts, TextsTyped DEF Quiet
<1>3. ASSUME NEW k \in TextKinds,
             Becomes([World EXCEPT !.obj[o] = [Dynamic(k) EXCEPT !.data = t]])
      PROVE  Quiet'
  <2>1. PICK v : v = WithObject(World, o, [Dynamic(k) EXCEPT !.data = t])
    OBVIOUS
  <2>2. Becomes(v)
    BY <1>3, <2>1 DEF WithObject
  <2>3. WorldOK(v, Put(owns, o, 1))
    BY <1>2, <2>1, TextMade
  <2> QED BY <1>1, <1>2, <2>2, <2>3, MadeSettles
<1>4. ASSUME Becomes(McfStrRefFrom(World, o, t)) PROVE Quiet'
  <2>1. PICK v : v = McfStrRefFrom(World, o, t)
    OBVIOUS
  <2>2. WorldOK(v, Put(owns, o, 1))
    BY <1>2, <2>1, RefFrom
  <2>3. Becomes(v)
    BY <1>4, <2>1
  <2> QED BY <1>1, <1>2, <2>2, <2>3, MadeSettles
<1> QED BY <1>1, <1>3, <1>4 DEF TextKinds

(* String_FromLiteral and _Target_FromLiteral.                             *)
LEMMA FromLiteralQuiet ==
  ASSUME Quiet, FromLiteral
  PROVE  Quiet'
<1>1. PICK o \in Blocks(World), l \in Literals, k \in TextKinds :
        \E r \in Blocks(World) \ {o} :
          /\ LET new == [Dynamic(k) EXCEPT !.lit = l, !.len = Len(CString(mem[l]))]
             IN Becomes(EnsureMcf([World EXCEPT !.obj[o] = new], o, r))
          /\ Made(o, TextOf(l))
  BY DEF FromLiteral, TextKinds
<1>2. PICK r \in Blocks(World) \ {o} :
        /\ LET new == [Dynamic(k) EXCEPT !.lit = l, !.len = Len(CString(mem[l]))]
           IN Becomes(EnsureMcf([World EXCEPT !.obj[o] = new], o, r))
        /\ Made(o, TextOf(l))
  BY <1>1
<1>3. /\ o \in Objects /\ World.obj[o].kind = "none" /\ r \in Objects /\ World.obj[r].kind = "none" /\ r # o
      /\ TextOf(l) \in Bytestring /\ WorldOK(World, owns)
  BY BlockFacts, TextsTyped DEF Quiet
<1>4. PICK v : v = Taking(World, o, k, l, r)
  OBVIOUS
<1>5. Becomes(v)
  BY <1>2, <1>4, WorldFields DEF WithObject, Borrowing, Taking
<1>6. WorldOK(v, Put(owns, o, 1))
  <2>1. Takes(World, owns, o, k, l, r)
    BY <1>3 DEF Takes
  <2> QED BY <1>4, <2>1, LiteralTaken
<1> QED BY <1>2, <1>3, <1>5, <1>6, MadeSettles

(* Nbt_New.                                                                *)
LEMMA NewNbtQuiet ==
  ASSUME Quiet, NewNbt
  PROVE  Quiet'
<1>1. PICK n \in Blocks(World) : Becomes(NbtNew(World, n)) /\ Made(n, <<>>)
  BY DEF NewNbt
<1>2. PICK t : t = <<>> /\ t \in Bytestring
  BY TextsTyped
<1>3. n \in Objects /\ World.obj[n].kind = "none" /\ WorldOK(World, owns)
  BY BlockFacts DEF Quiet
<1>4. PICK v : v = NbtNew(World, n)
  OBVIOUS
<1>5. WorldOK(v, Put(owns, n, 1))
  BY <1>3, <1>4, NbtMade
<1>6. Becomes(v) /\ Made(n, t) /\ t \in Bytestring
  BY <1>1, <1>2, <1>4
<1> QED BY <1>3, <1>5, <1>6, MadeSettles

(* McRef_Retain, McfStrRef_Retain and Nbt_Retain.                          *)
LEMMA RetainQuiet ==
  ASSUME Quiet, Retain
  PROVE  Quiet'
<1>1. PICK o \in Objects :
        /\ Is(o, {"string", "target", "ref", "nbt"})
        /\ CASE obj[o].kind = "ref" -> Becomes(McfStrRefRetain(World, o))
             [] obj[o].kind = "nbt" -> Becomes(NbtRetain(World, o))
             [] OTHER -> Becomes([World EXCEPT !.obj[o].rc = @ + 1])
        /\ owns' = [owns EXCEPT ![o] = @ + 1]
        /\ UNCHANGED want
  BY DEF Retain
<1>2. /\ obj[o].kind \in {"string", "target", "ref", "nbt"} /\ World.obj[o].kind = obj[o].kind
      /\ o \in Places /\ WorldOK(World, owns)
  BY <1>1, IsFacts, WorldFields DEF Quiet
<1>3. owns' = Put(owns, o, owns[o] + 1) /\ want' \in [Places -> Bytestring]
  BY <1>1 DEF Put, Quiet, ClientOK
<1>4. \A p \in Statics : Put(owns, o, owns[o] + 1)[p] = 0
  BY PutOwns
<1>5. \E v : Becomes(v) /\ WorldOK(v, Put(owns, o, owns[o] + 1))
  <2>1. CASE obj[o].kind = "ref"
    BY <1>1, <1>2, <2>1, RefRetain
  <2>2. CASE obj[o].kind = "nbt"
    BY <1>1, <1>2, <2>2, NbtRetained
  <2>3. CASE obj[o].kind \in {"string", "target"}
    BY <1>1, <1>2, <2>3, TextRetained
  <2> QED BY <1>2, <2>1, <2>2, <2>3
<1> QED BY <1>3, <1>4, <1>5, Settles

(* String_GetMcfStrRef, whose handle the client retains.                   *)
LEMMA RetainCachedQuiet ==
  ASSUME Quiet, RetainCached
  PROVE  Quiet'
<1>1. PICK s \in Places :
        /\ obj[s].mcf # Null
        /\ Becomes(McfStrRefRetain(World, obj[s].mcf))
        /\ owns' = [owns EXCEPT ![obj[s].mcf] = @ + 1]
        /\ want' = IF owns[obj[s].mcf] = 0 THEN [want EXCEPT ![obj[s].mcf] = want[s]] ELSE want
  BY DEF RetainCached
<1>2. PICK r : r = obj[s].mcf
  OBVIOUS
<1>3. r \in Objects /\ r \in Places /\ World.obj[r].kind = "ref" /\ WorldOK(World, owns)
  BY <1>1, <1>2, WorldFields, PlaceTypes DEF Quiet, WorldOK, GraphOK, HandlesOK
<1>4. owns' = Put(owns, r, owns[r] + 1)
  BY <1>1, <1>2 DEF Put
<1>5. want' \in [Places -> Bytestring]
  <2>1. want[s] \in Bytestring /\ want \in [Places -> Bytestring]
    BY DEF Quiet, ClientOK
  <2>2. want' = Put(want, r, want[s]) \/ want' = want
    BY <1>1, <1>2 DEF Put
  <2> QED BY <1>3, <2>1, <2>2, PutWant
<1>6. \A p \in Statics : Put(owns, r, owns[r] + 1)[p] = 0
  BY <1>3, PutOwns
<1>7. PICK v : v = McfStrRefRetain(World, r)
  OBVIOUS
<1>8. WorldOK(v, Put(owns, r, owns[r] + 1))
  BY <1>3, <1>7, RefRetain
<1>9. Becomes(v)
  BY <1>1, <1>2, <1>7
<1> QED BY <1>4, <1>5, <1>6, <1>8, <1>9, Settles

(* McRef_Release, McfStrRef_Release and Nbt_Release; a static stays.       *)
LEMMA ReleaseQuiet ==
  ASSUME Quiet, Release
  PROVE  Quiet'
<1>1. PICK o \in Places :
        /\ Is(o, {"string", "target", "ref", "nbt"})
        /\ CASE obj[o].kind = "ref" -> Becomes(McfStrRefRelease(World, o))
             [] obj[o].kind = "nbt" -> Becomes(NbtRelease(World, o))
             [] OTHER -> Becomes(TextRelease(World, o))
        /\ owns' = [owns EXCEPT ![o] = IF o \in Statics THEN 0 ELSE @ - 1]
        /\ want' = IF owns[o] = 1 THEN [want EXCEPT ![o] = <<>>] ELSE want
  BY DEF Release
<1>2. /\ obj[o].kind \in {"string", "target", "ref", "nbt"} /\ World.obj[o].kind = obj[o].kind
      /\ o \in Objects => owns[o] \in Nat /\ owns[o] # 0
      /\ WorldOK(World, owns) /\ owns \in [Places -> Nat] /\ \A p \in Statics : owns[p] = 0
  BY <1>1, IsFacts, WorldFields DEF Quiet, ClientOK
<1>3. want' \in [Places -> Bytestring]
  <2>1. PICK t : t = <<>> /\ t \in Bytestring
    BY TextsTyped
  <2>2. want' = Put(want, o, t) \/ want' = want
    BY <1>1, <2>1 DEF Put
  <2>3. Put(want, o, t) \in [Places -> Bytestring]
    BY <2>1, PutWant
  <2> QED BY <2>2, <2>3 DEF Quiet, ClientOK
<1>4. CASE o \in Statics
  <2>1. Shape(o, World.obj[o])
    BY <1>2, WorldParts
  <2>2. World.obj[o].kind = "target" /\ World.obj[o].rc = -1
    BY <1>4, <2>1 DEF Shape
  <2>3. TextRelease(World, o) = World
    BY <2>2 DEF TextRelease
  <2>4. Becomes(World)
    BY <1>1, <1>2, <2>2, <2>3
  <2>5. owns' = owns
    BY <1>1, <1>2, <1>4
  <2> QED BY <1>2, <1>3, <2>4, <2>5, Settles
<1>5. CASE o \in Objects
  <2>1. owns' = Put(owns, o, owns[o] - 1)
    BY <1>1, <1>5, PlaceTypes DEF Put
  <2>2. \E v : Becomes(v) /\ WorldOK(v, Put(owns, o, owns[o] - 1))
    <3>1. CASE obj[o].kind = "ref"
      BY <1>1, <1>2, <1>5, <3>1, RefRelease
    <3>2. CASE obj[o].kind = "nbt"
      BY <1>1, <1>2, <1>5, <3>2, NbtReleased
    <3>3. CASE obj[o].kind \in {"string", "target"}
      BY <1>1, <1>2, <1>5, <3>3, TextReleased
    <3> QED BY <1>2, <3>1, <3>2, <3>3
  <2>3. \A p \in Statics : Put(owns, o, owns[o] - 1)[p] = 0
    BY <1>5, PutOwns
  <2> QED BY <1>3, <2>1, <2>2, <2>3, Settles
<1> QED BY <1>4, <1>5 DEF Places

(* String_AssignCString and McfStrRef_AssignCString.                       *)
LEMMA AssignQuiet ==
  ASSUME Quiet, Assign
  PROVE  Quiet'
<1>1. PICK o \in Objects, t \in Texts :
        /\ \/ Is(o, {"string"}) /\ Becomes(AssignCString(World, o, t))
           \/ Writable(o) /\ Becomes(AssignSource(World, o, t))
        /\ Means(o, t)
  BY DEF Assign
<1>2. t \in Bytestring /\ o \in Places /\ WorldOK(World, owns)
  BY TextsTyped, PlaceTypes DEF Quiet
<1>3. \E v : Becomes(v) /\ WorldOK(v, owns)
  <2>1. CASE Is(o, {"string"}) /\ Becomes(AssignCString(World, o, t))
    <3>1. World.obj[o].kind = "string"
      BY <2>1, IsFacts
    <3> QED BY <1>2, <2>1, <3>1, Assigned
  <2>2. CASE Writable(o) /\ Becomes(AssignSource(World, o, t))
    <3>1. World.obj[o].kind = "ref"
      BY <2>2, IsFacts DEF Writable
    <3> QED BY <1>2, <2>2, <3>1, RefAssign
  <2> QED BY <1>1, <2>1, <2>2
<1> QED BY <1>1, <1>2, <1>3, MeansSettles

(* The texts that the client has made out of two.                          *)
LEMMA Joined ==
  ASSUME Quiet, NEW o \in Places, NEW t \in Bytestring
  PROVE  want[o] \o t \in Bytestring
BY DEF Quiet, ClientOK, Bytestring

(* String_AppendCString and McfStrRef_AppendCString.                       *)
LEMMA AppendToQuiet ==
  ASSUME Quiet, AppendTo
  PROVE  Quiet'
<1>1. PICK o \in Objects, t \in Texts \ {<<>>} :
        /\ \/ Is(o, {"string"}) /\ Becomes(AppendCString(World, o, t))
           \/ Writable(o) /\ Becomes(AppendSource(World, o, t))
        /\ Means(o, want[o] \o t)
  BY DEF AppendTo
<1>2. t \in Bytestring /\ o \in Places /\ WorldOK(World, owns)
  BY TextsTyped, PlaceTypes DEF Quiet
<1>3. \E v : Becomes(v) /\ WorldOK(v, owns)
  <2>1. CASE Is(o, {"string"}) /\ Becomes(AppendCString(World, o, t))
    <3>1. World.obj[o].kind = "string"
      BY <2>1, IsFacts
    <3> QED BY <1>1, <1>2, <2>1, <3>1, Appended
  <2>2. CASE Writable(o) /\ Becomes(AppendSource(World, o, t))
    <3>1. World.obj[o].kind = "ref"
      BY <2>2, IsFacts DEF Writable
    <3> QED BY <1>2, <2>2, <3>1, RefAppend
  <2> QED BY <1>1, <2>1, <2>2
<1>4. PICK u : u = want[o] \o t /\ u \in Bytestring
  BY <1>2, Joined
<1>5. Means(o, u)
  BY <1>1, <1>4
<1> QED BY <1>2, <1>3, <1>4, <1>5, MeansSettles

(* String_Clear.                                                           *)
LEMMA ClearStringQuiet ==
  ASSUME Quiet, ClearString
  PROVE  Quiet'
<1>1. PICK s \in Objects : Is(s, {"string"}) /\ Becomes(StringClear(World, s)) /\ Means(s, <<>>)
  BY DEF ClearString
<1>2. PICK t : t = <<>> /\ t \in Bytestring
  BY TextsTyped
<1>3. World.obj[s].kind = "string" /\ s \in Places /\ WorldOK(World, owns)
  BY <1>1, IsFacts, PlaceTypes DEF Quiet
<1>4. PICK v : v = StringClear(World, s)
  OBVIOUS
<1>5. WorldOK(v, owns)
  BY <1>3, <1>4, Cleared
<1>6. Becomes(v) /\ Means(s, t) /\ t \in Bytestring
  BY <1>1, <1>2, <1>4
<1> QED BY <1>3, <1>5, <1>6, MeansSettles

(* String_EnsureMcfStrRef and Target_EnsureMcf.                            *)
LEMMA EnsureQuiet ==
  ASSUME Quiet, Ensure
  PROVE  Quiet'
<1>1. PICK s \in Places, r \in Blocks(World) :
        /\ Is(s, {"string", "target"})
        /\ obj[s].mcf = Null
        /\ Becomes(EnsureMcf(World, s, r))
        /\ UNCHANGED <<owns, want>>
  BY DEF Ensure
<1>2. /\ World.obj[s].kind \in {"string", "target"} /\ World.obj[s].mcf = Null
      /\ r \in Objects /\ World.obj[r].kind = "none" /\ WorldOK(World, owns)
  BY <1>1, IsFacts, BlockFacts, WorldFields DEF Quiet
<1>3. PICK v : v = EnsureMcf(World, s, r)
  OBVIOUS
<1>4. WorldOK(v, owns)
  BY <1>2, <1>3, Ensured
<1>5. Becomes(v) /\ UNCHANGED <<owns, want>>
  BY <1>1, <1>3
<1> QED BY <1>4, <1>5, KeepsSettles

(* A text of one character.                                                *)
LEMMA OneTyped ==
  ASSUME NEW C, NEW c \in C
  PROVE  <<c>> \in Seq(C)
OBVIOUS

(* The texts of one character that the code writes.                        *)
LEMMA LettersTyped ==
  /\ \A c \in Chars : <<c>> \in Seq(Chars) /\ <<c>> \in Bytestring
  /\ <<"f">> \in Bytestring
<1>1. \A c \in Chars \cup {Nul, "f", "-1"} : <<c>> \in Bytestring
  BY OneTyped DEF Bytestring
<1>2. \A c \in Chars : <<c>> \in Seq(Chars)
  BY OneTyped
<1> QED BY <1>1, <1>2

(* Two texts joined are a text.                                            *)
LEMMA JoinTyped ==
  ASSUME NEW s \in Bytestring, NEW t \in Bytestring
  PROVE  s \o t \in Bytestring
BY DEF Bytestring

(* Nbt_SetInt.                                                             *)
LEMMA SetIntQuiet ==
  ASSUME Quiet, SetInt
  PROVE  Quiet'
<1>1. PICK n \in Objects, c \in Chars :
        /\ Is(n, {"nbt"})
        /\ Becomes(NbtSet(World, n, <<c>>))
        /\ Means(n, <<c>>)
  BY DEF SetInt
<1>2. PICK t : t = <<c>> /\ t \in Bytestring
  BY LettersTyped
<1>3. World.obj[n].kind = "nbt" /\ n \in Places /\ WorldOK(World, owns)
  BY <1>1, IsFacts, PlaceTypes DEF Quiet
<1>4. PICK v : v = NbtSet(World, n, t)
  OBVIOUS
<1>5. t \in Bytestring
  BY <1>2
<1>6. WorldOK(v, owns)
  BY <1>3, <1>4, <1>5, NbtText
<1>7. Becomes(v) /\ Means(n, t)
  BY <1>1, <1>2, <1>4
<1> QED BY <1>3, <1>5, <1>6, <1>7, MeansSettles

(* Nbt_SetFloatStr, with memory for its handle or without.                 *)
LEMMA SetFloatQuiet ==
  ASSUME Quiet, SetFloat
  PROVE  Quiet'
<1>0. PICK n \in Objects :
        /\ Is(n, {"nbt"})
        /\ \E t \in Texts \ {<<>>}, r \in Blocks(World) \cup {Null} :
             Becomes(NbtSetFloatStr(World, n, t, r)) /\ Means(n, t \o <<"f">>)
  BY DEF SetFloat
<1>a. World.obj[n].kind = "nbt"
  BY <1>0, IsFacts
<1>1. PICK t \in Texts \ {<<>>}, r \in Blocks(World) \cup {Null} :
        Becomes(NbtSetFloatStr(World, n, t, r)) /\ Means(n, t \o <<"f">>)
  BY <1>0
<1>2. World.obj[n].kind = "nbt" /\ n \in Places /\ WorldOK(World, owns) /\ t \in Bytestring
  <2>1. t \in Bytestring
    BY <1>1, TextsTyped
  <2> QED BY <1>a, <2>1, PlaceTypes DEF Quiet
<1>3. PICK u : u = t \o <<"f">> /\ u \in Bytestring
  <2>1. PICK f : f = <<"f">> /\ f \in Bytestring
    BY LettersTyped
  <2> QED BY <1>2, <2>1, JoinTyped
<1>4. PICK v : v = NbtSetFloatStr(World, n, t, r)
  OBVIOUS
<1>5. WorldOK(v, owns)
  <2>1. CASE r = Null
    BY <1>2, <1>4, <2>1, FloatLost
  <2>2. CASE r \in Blocks(World)
    BY <1>2, <1>4, <2>2, BlockFacts, FloatSet
  <2> QED BY <2>1, <2>2
<1>6. Becomes(v) /\ Means(n, u) /\ u \in Bytestring
  BY <1>1, <1>3, <1>4
<1> QED BY <1>2, <1>5, <1>6, MeansSettles

(* Nbt_SetFromSlot.                                                        *)
LEMMA SetFromSlotQuiet ==
  ASSUME Quiet, SetFromSlot
  PROVE  Quiet'
<1>1. PICK n \in Objects, src \in Objects :
        /\ Is(n, {"nbt"}) /\ Is(src, {"nbt"})
        /\ Becomes(NbtSet(World, n, Slot(nbt, obj[src].slot).value))
        /\ Means(n, want[src])
  BY DEF SetFromSlot
<1>2. /\ World.obj[n].kind = "nbt" /\ n \in Places /\ World.obj[src].kind = "nbt" /\ src \in Places
      /\ WorldOK(World, owns) /\ want[src] \in Bytestring
  BY <1>1, IsFacts, PlaceTypes DEF Quiet, ClientOK
<1>3. PICK t : t = Slot(nbt, obj[src].slot).value
  OBVIOUS
<1>4. t \in Bytestring
  BY <1>2, <1>3, NbtFacts, WorldFields
<1>5. PICK v : v = NbtSet(World, n, t)
  OBVIOUS
<1>6. WorldOK(v, owns)
  BY <1>2, <1>4, <1>5, NbtText
<1>7. Becomes(v)
  BY <1>1, <1>3, <1>5
<1> QED BY <1>1, <1>2, <1>6, <1>7, MeansSettles

-----------------------------------------------------------------------------
(***************************************************************************)
(* The builder of execute                                                  *)
(***************************************************************************)
LEMMA ExecuteBeginQuiet ==
  ASSUME Quiet, ExecuteBegin
  PROVE  Quiet'
<1>0. PICK e \in Blocks(World) : \E r \in Blocks(World) \ {e} :
        /\ Becomes([McfStrRefFrom(World, r, <<>>) EXCEPT
                      !.obj[e] = [Free EXCEPT !.kind = "exec", !.rc = 1, !.mcf = r]])
        /\ Made(e, <<>>)
  BY DEF ExecuteBegin
<1>1. PICK r \in Blocks(World) \ {e} :
        /\ Becomes([McfStrRefFrom(World, r, <<>>) EXCEPT
                      !.obj[e] = [Free EXCEPT !.kind = "exec", !.rc = 1, !.mcf = r]])
        /\ Made(e, <<>>)
  BY <1>0
<1>2. /\ e \in Objects /\ World.obj[e].kind = "none" /\ r \in Objects /\ World.obj[r].kind = "none" /\ r # e
      /\ WorldOK(World, owns)
  BY BlockFacts DEF Quiet
<1>3. PICK t : t = <<>> /\ t \in Bytestring
  BY TextsTyped
<1>4. Keeping(Dynamic("exec"), r) = [Free EXCEPT !.kind = "exec", !.rc = 1, !.mcf = r]
  BY DEF Dynamic, Free, Keeping
<1>5. PICK v : v = Starting(World, e, r)
  OBVIOUS
<1>6. Becomes(v)
  BY <1>1, <1>4, <1>5 DEF Starting, WithObject
<1>7. WorldOK(v, Put(owns, e, 1)) /\ Spares(World, v, {e, r})
  <2>1. Starts(World, owns, e, r)
    BY <1>2 DEF Starts
  <2> QED BY <1>5, <2>1, ExecuteBegun
<1>8. Made(e, t) /\ t \in Bytestring
  BY <1>1, <1>3
<1> QED BY <1>2, <1>6, <1>7, <1>8, MadeSettles

(* A clause is added to the prefix.                                        *)
LEMMA ExecuteAppendQuiet ==
  ASSUME Quiet, ExecuteAppend
  PROVE  Quiet'
<1>1. PICK e \in Objects, c \in Chars :
        /\ Is(e, {"exec"}) /\ obj[e].mcf # Null
        /\ Becomes(AppendSource(World, obj[e].mcf, <<c>>))
        /\ Means(e, want[e] \o <<c>>)
  BY DEF ExecuteAppend
<1>2. PICK r, t : r = obj[e].mcf /\ t = <<c>> /\ t \in Bytestring
  BY LettersTyped
<1>3. r \in Objects /\ r \in Places /\ e \in Places /\ World.obj[r].kind = "ref" /\ WorldOK(World, owns)
  BY <1>1, <1>2, WorldFields, PlaceTypes DEF Quiet, WorldOK, GraphOK, HandlesOK
<1>4. PICK v : v = AppendSource(World, r, t)
  OBVIOUS
<1>5. t \in Bytestring
  BY <1>2
<1>6. WorldOK(v, owns)
  BY <1>3, <1>4, <1>5, RefAppend
<1>7. PICK u : u = want[e] \o t /\ u \in Bytestring
  BY <1>3, <1>5, Joined
<1>8. Becomes(v) /\ Means(e, u) /\ u \in Bytestring
  BY <1>1, <1>2, <1>4, <1>7
<1> QED BY <1>3, <1>6, <1>8, MeansSettles

(* A clause fails, and the prefix is released.                             *)
LEMMA ExecuteFailQuiet ==
  ASSUME Quiet, ExecuteFail
  PROVE  Quiet'
<1>1. PICK e \in Objects : Is(e, {"exec"}) /\ Becomes(InvalidateMcf(World, e)) /\ Means(e, <<>>)
  BY DEF ExecuteFail
<1>2. PICK t : t = <<>> /\ t \in Bytestring
  BY TextsTyped
<1>3. World.obj[e].kind \in {"string", "target", "exec"} /\ e \in Places /\ WorldOK(World, owns)
  BY <1>1, IsFacts, PlaceTypes DEF Quiet
<1>4. PICK v : v = InvalidateMcf(World, e)
  OBVIOUS
<1>5. WorldOK(v, owns)
  BY <1>3, <1>4, Invalidated
<1>6. Becomes(v) /\ Means(e, t) /\ t \in Bytestring
  BY <1>1, <1>2, <1>4
<1> QED BY <1>3, <1>5, <1>6, MeansSettles

(* The client holds a builder once.                                        *)
LEMMA ExecuteHeld ==
  ASSUME Quiet, NEW e \in Objects, Is(e, {"exec"})
  PROVE  World.obj[e].kind = "exec" /\ World.obj[e].rc = 1 /\ owns[e] = 1 /\ Put(owns, e, owns[e] - 1) = Put(owns, e, 0)
<1>1. World.obj[e].kind = "exec" /\ e \in Places /\ owns[e] \in Nat /\ owns[e] # 0 /\ WorldOK(World, owns)
  BY IsFacts DEF Quiet
<1>2. World.obj[e].rc = 1
  BY <1>1, WorldParts DEF Shape
<1>3. World.obj[e].rc = owns[e] + Keeps(World.obj, e)
  BY <1>1, WorldParts
<1>4. owns[e] = 1
  BY <1>1, <1>2, <1>3, KeepsTypes
<1>5. owns[e] - 1 = 0
  BY <1>4
<1> QED BY <1>1, <1>2, <1>4, <1>5

(* The command has run or failed, and the builder is freed.                *)
LEMMA ExecuteEndQuiet ==
  ASSUME Quiet, ExecuteEnd
  PROVE  Quiet'
<1>1. PICK e \in Objects :
        /\ Is(e, {"exec"})
        /\ Becomes([InvalidateMcf(World, e) EXCEPT !.obj[e] = Free])
        /\ owns' = [owns EXCEPT ![e] = 0]
        /\ want' = [want EXCEPT ![e] = <<>>]
  BY DEF ExecuteEnd
<1>2. PICK t : t = <<>> /\ t \in Bytestring
  BY TextsTyped
<1>3. /\ World.obj[e].kind = "exec" /\ World.obj[e].rc = 1 /\ owns[e] = 1
      /\ Put(owns, e, owns[e] - 1) = Put(owns, e, 0) /\ e \in Places /\ WorldOK(World, owns)
  BY <1>1, ExecuteHeld, PlaceTypes DEF Quiet
<1>4. PICK v : v = WithObject(InvalidateMcf(World, e), e, Free)
  OBVIOUS
<1>5. WorldOK(v, Put(owns, e, owns[e] - 1))
  <2>1. World.obj[e].kind \in {"string", "target", "exec"} /\ owns[e] # 0
    BY <1>3
  <2> QED BY <1>3, <1>4, <2>1, Destroyed
<1>6. Becomes(v)
  BY <1>1, <1>4 DEF WithObject
<1>7. owns' = Put(owns, e, owns[e] - 1) /\ \A p \in Statics : Put(owns, e, owns[e] - 1)[p] = 0
  BY <1>1, <1>3, PutOwns DEF Put
<1>8. want' \in [Places -> Bytestring]
  <2>1. want' = Put(want, e, t)
    BY <1>1, <1>2 DEF Put
  <2>2. Put(want, e, t) \in [Places -> Bytestring]
    BY <1>2, <1>3, PutWant
  <2> QED BY <2>1, <2>2
<1> QED BY <1>5, <1>6, <1>7, <1>8, Settles

(* Every call of a client that no binding is working for.                  *)
LEMMA CallsQuiet ==
  ASSUME Quiet, ClientCalls
  PROVE  Quiet'
<1>1. CASE FromCString \/ FromLiteral \/ NewNbt
  BY <1>1, FromCStringQuiet, FromLiteralQuiet, NewNbtQuiet
<1>2. CASE Retain \/ RetainCached \/ Release
  BY <1>2, RetainQuiet, RetainCachedQuiet, ReleaseQuiet
<1>3. CASE Assign \/ AppendTo \/ ClearString \/ Ensure
  BY <1>3, AssignQuiet, AppendToQuiet, ClearStringQuiet, EnsureQuiet
<1>4. CASE SetInt \/ SetFloat \/ SetFromSlot
  BY <1>4, SetIntQuiet, SetFloatQuiet, SetFromSlotQuiet
<1>5. CASE ExecuteBegin \/ ExecuteAppend \/ ExecuteFail \/ ExecuteEnd
  BY <1>5, ExecuteBeginQuiet, ExecuteAppendQuiet, ExecuteFailQuiet, ExecuteEndQuiet
<1> QED BY <1>1, <1>2, <1>3, <1>4, <1>5 DEF ClientCalls

-----------------------------------------------------------------------------
(***************************************************************************)
(* Commands                                                                *)
(***************************************************************************)
Among(s, p) == \E k \in DOMAIN s : s[k] = p

Once(s) == \A j, k \in DOMAIN s : s[j] = s[k] => j = k

(* A handle more at the end of the list, each still in it once.            *)
LEMMA AppendAmong ==
  ASSUME NEW S, NEW s \in Seq(S), NEW e \in S, NEW t, t = Append(s, e)
  PROVE  /\ t \in Seq(S)
         /\ \A p : Among(t, p) <=> p = e \/ Among(s, p)
         /\ ~ Among(s, e) /\ Once(s) => Once(t)
<1>1. /\ t \in Seq(S) /\ DOMAIN t = 1..(Len(s) + 1) /\ DOMAIN s = 1..Len(s) /\ Len(s) \in Nat
      /\ t[Len(s) + 1] = e /\ \A k \in 1..Len(s) : t[k] = s[k]
  OBVIOUS
<1>2. ASSUME NEW p PROVE Among(t, p) <=> p = e \/ Among(s, p)
  <2>1. Among(t, p) => p = e \/ Among(s, p)
    BY <1>1 DEF Among
  <2>2. p = e => Among(t, p)
    <3>1. Len(s) + 1 \in DOMAIN t
      BY <1>1
    <3> QED BY <1>1, <3>1 DEF Among
  <2>3. Among(s, p) => Among(t, p)
    BY <1>1 DEF Among
  <2> QED BY <2>1, <2>2, <2>3
<1>3. ASSUME ~ Among(s, e), Once(s), NEW j \in DOMAIN t, NEW k \in DOMAIN t, t[j] = t[k]
      PROVE  j = k
  <2>1. CASE j \in DOMAIN s /\ k \in DOMAIN s
    BY <1>1, <1>3, <2>1 DEF Once
  <2>2. CASE j \notin DOMAIN s /\ k \notin DOMAIN s
    BY <1>1, <2>2
  <2>3. CASE j \in DOMAIN s /\ k \notin DOMAIN s
    <3>1. s[j] = e
      BY <1>1, <1>3, <2>3
    <3> QED BY <1>3, <2>3, <3>1 DEF Among
  <2>4. CASE j \notin DOMAIN s /\ k \in DOMAIN s
    <3>1. s[k] = e
      BY <1>1, <1>3, <2>4
    <3> QED BY <1>3, <2>4, <3>1 DEF Among
  <2> QED BY <2>1, <2>2, <2>3, <2>4
<1> QED BY <1>1, <1>2, <1>3 DEF Once

Queue(S, s, r, t) == s \in Seq(S) /\ s # <<>> /\ Once(s) /\ r = Head(s) /\ t = Tail(s)

(* The first handle leaves the list.                                       *)
LEMMA TailAmong ==
  ASSUME NEW S, NEW s, NEW r, NEW t, Queue(S, s, r, t)
  PROVE  /\ t \in Seq(S) /\ r \in S /\ Once(t) /\ Among(s, r) /\ ~ Among(t, r)
         /\ \A p : p # r => (Among(t, p) <=> Among(s, p))
<1>1. /\ t \in Seq(S) /\ DOMAIN t = 1..(Len(s) - 1) /\ DOMAIN s = 1..Len(s) /\ Len(s) \in Nat /\ Len(s) # 0
      /\ r = s[1] /\ \A k \in 1..(Len(s) - 1) : t[k] = s[k + 1]
  BY DEF Queue
<1>2. 1 \in DOMAIN s /\ r \in S /\ Among(s, r)
  <2>1. 1 \in DOMAIN s /\ s[1] \in S
    BY <1>1 DEF Queue
  <2> QED BY <1>1, <2>1 DEF Among
<1>3. \A k \in DOMAIN t : k + 1 \in DOMAIN s /\ t[k] = s[k + 1] /\ k + 1 # 1 /\ k \in Int
  BY <1>1
<1>4. Once(t)
  <2>1. ASSUME NEW j \in DOMAIN t, NEW k \in DOMAIN t, t[j] = t[k] PROVE j = k
    <3>1. j + 1 = k + 1 /\ j \in Int /\ k \in Int
      BY <1>3, <2>1 DEF Once, Queue
    <3> QED BY <3>1
  <2> QED BY <2>1 DEF Once
<1>5. ~ Among(t, r)
  BY <1>1, <1>2, <1>3 DEF Once, Among, Queue
<1>6. ASSUME NEW p, p # r PROVE Among(t, p) <=> Among(s, p)
  <2>1. Among(t, p) => Among(s, p)
    BY <1>3 DEF Among
  <2>2. ASSUME Among(s, p) PROVE Among(t, p)
    <3>1. PICK k \in DOMAIN s : s[k] = p
      BY <2>2 DEF Among
    <3>2. k # 1 /\ k \in 1..Len(s)
      BY <1>1, <1>6, <3>1
    <3>3. PICK j : j = k - 1
      OBVIOUS
    <3>4. j \in 1..(Len(s) - 1) /\ j + 1 = k
      BY <1>1, <3>2, <3>3
    <3>5. j \in DOMAIN t /\ t[j] = p
      BY <1>1, <3>1, <3>4
    <3> QED BY <3>5 DEF Among
  <2> QED BY <2>1, <2>2
<1> QED BY <1>1, <1>2, <1>4, <1>5, <1>6

(* Who holds what while a binding is at work.                              *)
LEMMA HoldsHas ==
  ASSUME RefsInv
  PROVE  /\ WorldOK(World, Holds) /\ Holds \in [Places -> Nat] /\ owns \in [Places -> Nat]
         /\ \A p \in Places : Holds[p] = owns[p] + IF Among(made, p) THEN 1 ELSE 0
         /\ made \in Seq(Objects) /\ Once(made)
         /\ \A p : Among(made, p) => p \in Objects /\ p \in Places /\ World.obj[p].kind = "ref" /\ Holds[p] # 0
<1>1. /\ WorldOK(World, Holds) /\ owns \in [Places -> Nat] /\ made \in Seq(Objects) /\ Once(made)
      /\ \A k \in DOMAIN made : obj[made[k]].kind = "ref"
  BY DEF RefsInv, ClientOK, MadeOK, Once
<1>2. \A p \in Places : Holds[p] = owns[p] + IF Among(made, p) THEN 1 ELSE 0
  BY DEF Holds, Among
<1>3. Holds \in [Places -> Nat]
  BY <1>1, WorldParts
<1>4. ASSUME NEW p, Among(made, p)
      PROVE  p \in Objects /\ p \in Places /\ World.obj[p].kind = "ref" /\ Holds[p] # 0
  <2>1. PICK k \in DOMAIN made : made[k] = p
    BY <1>4 DEF Among
  <2>2. p \in Objects
    BY <1>1, <2>1
  <2>3. p \in Places /\ owns[p] \in Nat
    BY <1>1, <2>2, PlaceTypes
  <2>4. World.obj[p].kind = "ref"
    BY <1>1, <2>1, WorldFields
  <2>5. Holds[p] = owns[p] + 1
    BY <1>2, <1>4, <2>3
  <2> QED BY <2>2, <2>3, <2>4, <2>5
<1> QED BY <1>1, <1>2, <1>3, <1>4

(* The next value of Holds, when the client's references stay.             *)
LEMMA HoldsNext ==
  ASSUME owns' = owns
  PROVE  Holds' = [p \in Places |-> owns[p] + IF Among(made', p) THEN 1 ELSE 0]
BY DEF Holds, Among, Places

(* A step of a binding whose world is well formed for those who then hold  *)
(* handles.                                                                *)
LEMMA WorkSettles ==
  ASSUME RefsInv, UNCHANGED <<owns, want>>, asks' \in Seq({Own, Kept}),
         NEW v, Becomes(v), WorldOK(v, Holds'),
         made' \in Seq(Objects), Once(made'),
         \A p : Among(made', p) => v.obj[p].kind = "ref"
  PROVE  RefsInv'
<1>1. World' = v /\ obj' = v.obj
  BY BecomesWorld, WorldParts DEF Becomes
<1>2. ClientOK'
  BY DEF RefsInv, ClientOK
<1>3. MadeOK'
  <2>1. ASSUME NEW k \in DOMAIN made' PROVE obj'[made'[k]].kind = "ref"
    <3>1. Among(made', made'[k])
      BY DEF Among
    <3> QED BY <1>1, <3>1
  <2> QED BY <2>1 DEF MadeOK, Once
<1> QED BY <1>1, <1>2, <1>3 DEF RefsInv

(* What is left to ask for after one request.                              *)
LEMMA AsksTyped ==
  ASSUME NEW a \in Seq({Own, Kept})
  PROVE  a # <<>> => Tail(a) \in Seq({Own, Kept})
OBVIOUS

(* Nothing but the requests to come has changed.                           *)
LEMMA StillInv ==
  ASSUME RefsInv, asks' \in Seq({Own, Kept}), UNCHANGED <<obj, str, nbt, mem, made, owns, want>>
  PROVE  RefsInv'
<1>1. World' = World
  BY DEF World
<1>2. Holds' = Holds
  BY DEF Holds, Places
<1> QED BY <1>1, <1>2 DEF RefsInv, ClientOK, MadeOK

(* A command begins.                                                       *)
LEMMA CommandInv ==
  ASSUME RefsInv, Command
  PROVE  RefsInv'
<1>1. asks' \in Bindings /\ UNCHANGED <<obj, str, nbt, mem, made, owns, want>>
  BY DEF Command
<1>2. asks' \in Seq({Own, Kept})
  BY <1>1, BindingsAssumption
<1> QED BY <1>1, <1>2, StillInv

(* A request is taken off the list.                                        *)
LEMMA AskedTyped ==
  ASSUME RefsInv, NEW a, Asks(a)
  PROVE  asks' \in Seq({Own, Kept})
BY AsksTyped DEF RefsInv, Asks

(* _Command_RequireCStringRef makes a handle for the binding, or has no    *)
(* memory for it.                                                          *)
LEMMA RequireOwnInv ==
  ASSUME RefsInv, RequireOwn
  PROVE  RefsInv'
<1>1. asks' \in Seq({Own, Kept}) /\ UNCHANGED <<owns, want>>
  BY AskedTyped DEF RequireOwn
<1>2. CASE UNCHANGED <<obj, str, nbt, mem, made>>
  BY <1>1, <1>2, StillInv
<1>3. ASSUME NEW r \in Blocks(World), Becomes(McfStrRefFrom(World, r, <<>>)), made' = Append(made, r)
      PROVE  RefsInv'
  <2>1. r \in Objects /\ r \in Places /\ World.obj[r].kind = "none" /\ WorldOK(World, Holds)
    BY <1>3, BlockFacts, PlaceTypes, HoldsHas
  <2>2. PICK t, v : t = <<>> /\ t \in Bytestring /\ v = McfStrRefFrom(World, r, t)
    BY TextsTyped
  <2>3. t \in Bytestring
    BY <2>2
  <2>4. WorldOK(v, Put(Holds, r, 1)) /\ Spares(World, v, {r})
    BY <2>1, <2>2, <2>3, RefFrom
  <2>5. v.obj[r].kind = "ref"
    BY <2>1, <2>2, <2>3, <2>4, RefFrom
  <2>6. Holds[r] = 0
    BY <2>1, BlockIsFree
  <2>7. ~ Among(made, r)
    BY <2>6, HoldsHas
  <2>8. PICK m : m = made'
    OBVIOUS
  <2>9. m = Append(made, r) /\ made \in Seq(Objects) /\ Once(made)
    BY <1>3, <2>8, HoldsHas
  <2>10. m \in Seq(Objects) /\ Once(m) /\ \A p : Among(m, p) <=> p = r \/ Among(made, p)
    BY <2>1, <2>7, <2>9, AppendAmong
  <2>11. Holds' = Put(Holds, r, 1)
    <3>1. Holds' = [p \in Places |-> owns[p] + IF Among(m, p) THEN 1 ELSE 0]
      BY <1>1, <2>8, HoldsNext
    <3>2. owns[r] = 0 /\ Holds \in [Places -> Nat]
      BY <2>1, <2>6, <2>7, HoldsHas
    <3>3. \A p \in Places \ {r} : owns[p] + (IF Among(m, p) THEN 1 ELSE 0) = Holds[p]
      BY <2>10, HoldsHas
    <3>4. owns[r] + (IF Among(m, r) THEN 1 ELSE 0) = 1
      BY <2>10, <3>2
    <3> QED BY <2>1, <3>1, <3>2, <3>3, <3>4 DEF Put
  <2>12. ASSUME NEW p, Among(m, p) PROVE v.obj[p].kind = "ref"
    <3>1. CASE p = r
      BY <2>5, <3>1
    <3>2. CASE p # r
      BY <2>4, <2>10, <2>12, <3>2, HoldsHas DEF Spares, Same, Alike
    <3> QED BY <3>1, <3>2
  <2>13. Becomes(v)
    BY <1>3, <2>2
  <2>14. WorldOK(v, Holds')
    BY <2>4, <2>11
  <2> QED BY <1>1, <2>8, <2>10, <2>12, <2>13, <2>14, WorkSettles
<1> QED BY <1>2, <1>3 DEF RequireOwn

(* _Command_RequireStringRef makes the handle an object keeps, or has no   *)
(* memory for it.                                                          *)
LEMMA RequireKeptInv ==
  ASSUME RefsInv, RequireKept
  PROVE  RefsInv'
<1>1. asks' \in Seq({Own, Kept}) /\ UNCHANGED <<made, owns, want>>
  BY AskedTyped DEF RequireKept
<1>2. CASE UNCHANGED <<obj, str, nbt, mem>>
  BY <1>1, <1>2, StillInv
<1>3. ASSUME NEW s \in Handed, NEW r \in Blocks(World), obj[s].mcf = Null, Becomes(EnsureMcf(World, s, r))
      PROVE  RefsInv'
  <2>1. /\ r \in Objects /\ r \in Places /\ World.obj[r].kind = "none" /\ WorldOK(World, Holds)
        /\ s \in Places /\ World.obj[s].kind \in {"string", "target"} /\ World.obj[s].mcf = Null
    BY <1>3, BlockFacts, PlaceTypes, HoldsHas, WorldFields DEF Handed, Is
  <2>2. PICK v : v = EnsureMcf(World, s, r)
    OBVIOUS
  <2>3. WorldOK(v, Holds) /\ Spares(World, v, {s, r})
    BY <2>1, <2>2, Ensured
  <2>4. Holds' = Holds
    BY <1>1 DEF Holds, Places
  <2>5. ASSUME NEW p, Among(made, p) PROVE v.obj[p].kind = "ref"
    <3>1. p \in Places /\ World.obj[p].kind = "ref"
      BY <2>5, HoldsHas
    <3>2. p # s /\ p # r
      BY <2>1, <3>1
    <3> QED BY <2>3, <3>1, <3>2 DEF Spares, Same, Alike
  <2>6. Becomes(v)
    BY <1>3, <2>2
  <2>7. made' = made /\ made \in Seq(Objects) /\ Once(made) /\ WorldOK(v, Holds')
    BY <1>1, <2>3, <2>4, HoldsHas
  <2> QED BY <1>1, <2>5, <2>6, <2>7, WorkSettles
<1> QED BY <1>2, <1>3 DEF RequireKept

(* At the end of a binding its handles are released one after the other.   *)
LEMMA ReleaseMadeInv ==
  ASSUME RefsInv, ReleaseMade
  PROVE  RefsInv'
<1>1. /\ made # <<>> /\ Becomes(McfStrRefRelease(World, Head(made))) /\ made' = Tail(made)
      /\ UNCHANGED <<owns, want>> /\ asks' = asks
  BY DEF ReleaseMade
<1>2. PICK r, m : r = Head(made) /\ m = Tail(made)
  OBVIOUS
<1>3. /\ m \in Seq(Objects) /\ r \in Objects /\ Once(m) /\ Among(made, r) /\ ~ Among(m, r)
      /\ \A p : p # r => (Among(m, p) <=> Among(made, p))
  <2>1. Queue(Objects, made, r, m)
    BY <1>1, <1>2, HoldsHas DEF Queue
  <2> QED BY <2>1, TailAmong
<1>4. /\ r \in Places /\ World.obj[r].kind = "ref" /\ Holds[r] # 0 /\ WorldOK(World, Holds)
  BY <1>3, HoldsHas
<1>5. PICK v : v = McfStrRefRelease(World, r)
  OBVIOUS
<1>6. WorldOK(v, Put(Holds, r, Holds[r] - 1)) /\ Spares(World, v, {r})
  BY <1>4, <1>5, RefRelease
<1>7. Holds' = Put(Holds, r, Holds[r] - 1)
  <2>1. Holds' = [p \in Places |-> owns[p] + IF Among(m, p) THEN 1 ELSE 0]
    BY <1>1, <1>2, HoldsNext
  <2>2. Holds[r] = owns[r] + 1 /\ Holds \in [Places -> Nat] /\ owns[r] \in Nat
    BY <1>3, <1>4, HoldsHas
  <2>3. \A p \in Places \ {r} : owns[p] + (IF Among(m, p) THEN 1 ELSE 0) = Holds[p]
    BY <1>3, HoldsHas
  <2>4. owns[r] + (IF Among(m, r) THEN 1 ELSE 0) = Holds[r] - 1
    BY <1>3, <2>2
  <2> QED BY <1>4, <2>1, <2>2, <2>3, <2>4 DEF Put
<1>8. ASSUME NEW p, Among(m, p) PROVE v.obj[p].kind = "ref"
  <2>1. p # r
    BY <1>3, <1>8
  <2>2. p \in Places /\ World.obj[p].kind = "ref"
    BY <1>3, <1>8, <2>1, HoldsHas
  <2> QED BY <1>6, <2>1, <2>2 DEF Spares, Same, Alike
<1>9. Becomes(v) /\ WorldOK(v, Holds')
  BY <1>1, <1>2, <1>5, <1>6, <1>7
<1>10. asks' \in Seq({Own, Kept}) /\ made' = m
  BY <1>1, <1>2 DEF RefsInv
<1> QED BY <1>1, <1>3, <1>8, <1>9, <1>10, WorkSettles

(* The step of an invariant.                                               *)
LEMMA NextInv ==
  ASSUME RefsInv, [Next]_vars
  PROVE  RefsInv'
<1>1. CASE Idle /\ ClientCalls /\ UNCHANGED <<asks, made>>
  <2>1. Quiet /\ asks \in Seq({Own, Kept}) /\ made = <<>>
    BY <1>1, QuietInv DEF Idle, RefsInv
  <2>2. Quiet'
    BY <1>1, <2>1, CallsQuiet
  <2>3. asks' \in Seq({Own, Kept}) /\ made' = <<>>
    BY <1>1, <2>1
  <2>4. Holds' = owns'
    <3>1. owns' \in [Places -> Nat]
      BY <2>2 DEF Quiet, ClientOK, Places
    <3>2. Holds' = [p \in Places |-> owns'[p] + IF Among(made', p) THEN 1 ELSE 0]
      BY DEF Holds, Among, Places
    <3>3. \A p : ~ Among(made', p)
      BY <2>3 DEF Among
    <3>4. \A p \in Places : owns'[p] + (IF Among(made', p) THEN 1 ELSE 0) = owns'[p]
      BY <3>1, <3>3
    <3>5. Holds' = [p \in Places |-> owns'[p]]
      BY <3>2, <3>4
    <3> QED BY <3>1, <3>5
  <2>5. MadeOK'
    BY <2>3 DEF MadeOK
  <2> QED BY <2>2, <2>3, <2>4, <2>5 DEF RefsInv, Quiet
<1>2. CASE Idle /\ Command
  BY <1>2, CommandInv
<1>3. CASE RequireOwn \/ RequireKept \/ ReleaseMade
  BY <1>3, RequireOwnInv, RequireKeptInv, ReleaseMadeInv
<1>4. CASE UNCHANGED vars
  BY <1>4, StillInv DEF RefsInv, vars
<1> QED BY <1>1, <1>2, <1>3, <1>4 DEF Next

-----------------------------------------------------------------------------
(* RefsInv holds throughout, whatever the client and its commands do.      *)
THEOREM RefsInvKept == Spec => []RefsInv
<1>1. Init => RefsInv
  BY InitInv
<1>2. RefsInv /\ [Next]_vars => RefsInv'
  BY NextInv
<1> QED BY <1>1, <1>2, PTL DEF Spec

(* The invariant has the types of TypeOK.                                  *)
LEMMA InvTypes == RefsInv => TypeOK
<1> SUFFICES ASSUME RefsInv PROVE TypeOK
  OBVIOUS
<1>1. WorldOK(World, Holds) /\ World.obj = obj /\ World.str = str /\ World.nbt = nbt /\ World.mem = mem
  BY HoldsHas, WorldFields
<1>2. obj \in [Places -> ObjRec] /\ mem \in [Literals -> Bytestring]
  BY <1>1, WorldParts DEF WorldOK, LiteralsFit
<1>3. IsHeap(str, Bytestring) /\ IsHeap(nbt, Bytestring)
  BY <1>1 DEF WorldOK, Housed, HeapOK
<1>4. asks \in Seq({Own, Kept}) /\ made \in Seq(Objects) /\ owns \in [Places -> Nat] /\ want \in [Places -> Bytestring]
  BY DEF RefsInv, ClientOK, MadeOK
<1> QED BY <1>2, <1>3, <1>4 DEF TypeOK, ObjRec, Bytestring

(* The invariant says where the slots are.                                 *)
LEMMA InvSlots == RefsInv => SlotsAccounted
<1> SUFFICES ASSUME RefsInv PROVE SlotsAccounted
  OBVIOUS
<1>1. Housed(obj, str, "ref") /\ Housed(obj, nbt, "nbt")
  BY HoldsHas, WorldFields DEF WorldOK
<1>2. ASSUME NEW h, NEW k, Housed(obj, h, k)
      PROVE  /\ \A o, p \in Live({k}) : obj[o].slot = obj[p].slot => o = p
             /\ \E list \in Lists(h) :
                  /\ IsFreeList(h, list)
                  /\ Range(list) \cap {obj[o].slot : o \in Live({k})} = {}
                  /\ Range(list) \cup {obj[o].slot : o \in Live({k})} = Ids(h)
  <2>1. Live({k}) = {q \in Places : obj[q].kind = k}
    BY DEF Live
  <2>2. {obj[o].slot : o \in Live({k})} = SlotsUsed(obj, k)
    BY <2>1 DEF SlotsUsed
  <2>3. \A o, p \in Live({k}) : obj[o].slot = obj[p].slot => o = p
    BY <1>2, <2>1 DEF Housed, OwnSlots
  <2>4. HeapOK(h, SlotsUsed(obj, k))
    BY <1>2 DEF Housed
  <2> QED BY <2>2, <2>3, <2>4 DEF HeapOK
<1>3. ASSUME NEW h \in {<<str, "ref">>, <<nbt, "nbt">>}
      PROVE  Housed(obj, h[1], h[2])
  BY <1>1
<1> QED BY <1>2, <1>3 DEF SlotsAccounted

(* The invariant bounds the heaps.                                         *)
LEMMA InvReused == RefsInv /\ IsFiniteSet(Objects) => SlotsReused
<1> SUFFICES ASSUME RefsInv, IsFiniteSet(Objects) PROVE SlotsReused
  OBVIOUS
<1>1. Housed(obj, str, "ref") /\ Housed(obj, nbt, "nbt")
  BY HoldsHas, WorldFields DEF WorldOK
<1> QED BY <1>1 DEF Housed, Bounded, SlotsReused

(* A set without two different members has none or one.                    *)
LEMMA AtMostOne ==
  ASSUME NEW S, \A x, y \in S : x = y
  PROVE  Cardinality(S) = IF S = {} THEN 0 ELSE 1
<1>1. CASE S = {}
  BY <1>1, FS_EmptySet
<1>2. CASE S # {}
  <2>1. PICK x : S = {x}
    BY <1>2
  <2> QED BY <1>2, <2>1, FS_Singleton
<1> QED BY <1>1, <1>2

(* The invariant says what the counts are.                                 *)
LEMMA InvRefs == RefsInv => RefsAccounted
<1> SUFFICES ASSUME RefsInv, NEW o \in Objects,
                    NEW n, n = owns[o] + Cardinality({s \in Caching : obj[s].mcf = o})
                               + Cardinality({k \in DOMAIN made : made[k] = o})
             PROVE  /\ obj[o].rc = n
                    /\ (obj[o].kind = "none") <=> (n = 0)
                    /\ obj[o].kind = "ref" => Slot(str, obj[o].slot).refcnt = n
                    /\ obj[o].kind = "nbt" => Slot(nbt, obj[o].slot).refcnt = n
  BY DEF RefsAccounted
<1>1. WorldOK(World, Holds) /\ World.obj = obj /\ World.str = str /\ World.nbt = nbt
  BY HoldsHas, WorldFields
<1>2. o \in Places /\ o # Null /\ owns[o] \in Nat
  BY PlaceTypes, HoldsHas
<1>3. HandlesOK(obj) /\ \A p \in Places : Shape(p, obj[p])
  BY <1>1 DEF WorldOK, GraphOK
<1>4. Cardinality({s \in Caching : obj[s].mcf = o}) = Keeps(obj, o)
  <2>1. PICK S : S = {s \in Caching : obj[s].mcf = o}
    OBVIOUS
  <2>2. S = {s \in Places : obj[s].mcf = o}
    BY <1>2, <1>3, <2>1 DEF Caching, Live, Shape
  <2>3. \A x, y \in S : x = y
    BY <1>2, <1>3, <2>2 DEF HandlesOK
  <2>4. Cardinality(S) = IF S = {} THEN 0 ELSE 1
    BY <2>3, AtMostOne
  <2> QED BY <2>1, <2>2, <2>4 DEF Keeps
<1>5. Cardinality({k \in DOMAIN made : made[k] = o}) = IF Among(made, o) THEN 1 ELSE 0
  <2>1. PICK S : S = {k \in DOMAIN made : made[k] = o}
    OBVIOUS
  <2>2. \A x, y \in S : x = y
    BY <2>1, HoldsHas DEF Once
  <2>3. Cardinality(S) = IF S = {} THEN 0 ELSE 1
    BY <2>2, AtMostOne
  <2> QED BY <2>1, <2>3 DEF Among
<1>6. n = Holds[o] + Keeps(obj, o)
  BY <1>2, <1>4, <1>5, HoldsHas, KeepsTypes
<1>7. obj[o].rc = n
  BY <1>1, <1>6, WorldParts
<1>8. (obj[o].kind = "none") <=> (n = 0)
  BY <1>2, <1>3, <1>7 DEF Shape, Free
<1>9. obj[o].kind = "ref" => Slot(str, obj[o].slot).refcnt = n
  BY <1>1, <1>2, <1>7, RefFacts
<1>10. obj[o].kind = "nbt" => Slot(nbt, obj[o].slot).refcnt = n
  BY <1>1, <1>2, <1>7, NbtFacts
<1> QED BY <1>7, <1>8, <1>9, <1>10

(* The objects, the slots and the literals stay well formed, whatever is   *)
(* written into what is borrowed and however short memory is.              *)
THEOREM TypesKept == Spec => []TypeOK
BY RefsInvKept, InvTypes, PTL

(* A slot of a heap is free or has one owner: for any number of blocks no  *)
(* sequence of calls, commands and failures loses one or gives it twice.   *)
THEOREM NoSlotLost == Spec => []SlotsAccounted
BY RefsInvKept, InvSlots, PTL

(* No heap has more slots than there are blocks of memory.                 *)
THEOREM HeapsBounded ==
  ASSUME IsFiniteSet(Objects)
  PROVE  Spec => []SlotsReused
<1>1. RefsInv => SlotsReused
  BY InvReused
<1> QED BY <1>1, RefsInvKept, PTL

(* An object and its slot count exactly those who hold it: what someone    *)
(* holds is never freed, and what nobody holds does not stay.              *)
THEOREM CountsExact == Spec => []RefsAccounted
BY RefsInvKept, InvRefs, PTL

-----------------------------------------------------------------------------
(***************************************************************************)
(* What objects say, where no character breaks a command.                  *)
(***************************************************************************)
Telling == TextsOK(World) /\ ClientTexts(World, owns, want)

(* A step that carries what the client wants to be told.                   *)
LEMMA CarriedOver ==
  ASSUME NEW hold, WorldOK(World, hold), NEW v, IsWorld(v), Becomes(v),
         NEW R, NEW after, NEW tell, owns' = after, want' = tell,
         Carries(World, v, R, owns, want, after, tell)
  PROVE  Telling'
<1>1. TextsOK(v) /\ ClientTexts(v, after, tell)
  BY Carried
<1>2. World' = v
  BY BecomesWorld
<1> QED BY <1>1, <1>2 DEF Telling

(* Of R, o says t, and what else is in R is no concern of the client's.    *)
Speaks(v, R, o, t) ==
  /\ o \in Places \cap R /\ Tells(v, o) = t /\ Clean(v, o) /\ Current(v, o)
  /\ v.obj[o].kind = "exec" /\ v.obj[o].mcf # Null => v.obj[o].mcf # o /\ owns[v.obj[o].mcf] = 0
  /\ \A p \in (Places \cap R) \ {o} :
       /\ Clean(v, p) /\ Current(v, p)
       /\ v.obj[p].kind # "exec" /\ owns[p] = 0 /\ p \notin Statics

(* v comes from the world by a step in which no more than R changes.       *)
Leads(v, R) ==
  /\ \E hold : WorldOK(World, hold)
  /\ IsWorld(v) /\ Becomes(v) /\ Spares(World, v, R) /\ Closed(World, R)

(* A step after which o says what it should, and the rest what it said.    *)
LEMMA Spoken ==
  ASSUME ClientOK, Telling, NEW v, NEW R, Leads(v, R), NEW o, NEW t, Speaks(v, R, o, t),
         NEW n, owns' = Put(owns, o, n), want' = Put(want, o, t)
  PROVE  Telling'
<1>1. PICK hold : WorldOK(World, hold)
  BY DEF Leads
<1>2. PICK after, tell : after = Put(owns, o, n) /\ tell = Put(want, o, t)
  OBVIOUS
<1>3. o \in Places \cap R
  BY DEF Speaks
<1>4. \A p \in Places : p # o => after[p] = owns[p] /\ tell[p] = want[p]
  BY <1>2 DEF Put, ClientOK
<1>5. tell[o] = t
  BY <1>2, <1>3 DEF Put, ClientOK
<1>6. Spares(World, v, R) /\ Closed(World, R) /\ IsWorld(v) /\ Becomes(v)
  BY DEF Leads
<1>7. \A q \in Places : after[q] = owns[q] \/ q = o
  BY <1>4
<1>8. ASSUME NEW p \in Places \cap R
      PROVE  /\ Clean(v, p) /\ Current(v, p)
             /\ after[p] # 0 \/ p \in Statics => Tells(v, p) = tell[p]
             /\ v.obj[p].kind = "exec" /\ v.obj[p].mcf # Null => after[v.obj[p].mcf] = 0
  <2>1. CASE p = o
    <3>1. ASSUME v.obj[o].kind = "exec", v.obj[o].mcf # Null PROVE after[v.obj[o].mcf] = 0
      <4>1. v.obj[o].mcf # o /\ owns[v.obj[o].mcf] = 0
        BY <3>1 DEF Speaks
      <4> QED BY <1>2, <4>1 DEF Put, ClientOK
    <3> QED BY <1>5, <2>1, <3>1 DEF Speaks
  <2>2. CASE p # o
    BY <1>4, <1>8, <2>2 DEF Speaks
  <2> QED BY <2>1, <2>2
<1>9. Carries(World, v, R, owns, want, after, tell)
  BY <1>3, <1>4, <1>6, <1>8 DEF Carries, Telling
<1> QED BY <1>1, <1>2, <1>6, <1>9, CarriedOver

(* Blocks without an object are owned by nobody, and change what they like.*)
LEMMA BlockSilent ==
  ASSUME Quiet, NEW p \in Objects, World.obj[p].kind = "none"
  PROVE  owns[p] = 0 /\ p \notin Statics /\ p \in Places /\ Keeps(World.obj, p) = 0
BY BlockIsFree, PlaceTypes DEF Quiet

(* A call that makes o, which says t, and may make a handle r besides.     *)
LEMMA MadeTells ==
  ASSUME Quiet, Telling, NEW o \in Objects, World.obj[o].kind = "none",
         NEW r \in Objects, World.obj[r].kind = "none",
         NEW v, Becomes(v), WorldOK(v, Put(owns, o, 1)), Spares(World, v, {o, r}),
         NEW t, Made(o, t), Tells(v, o) = t, Clean(v, o), Current(v, o),
         r # o => v.obj[r].kind = "ref",
         v.obj[o].kind = "exec" => v.obj[o].mcf = r /\ r # o
  PROVE  Telling'
<1>1. owns' = Put(owns, o, 1) /\ want' = Put(want, o, t)
  BY DEF Made, Put
<1>2. WorldOK(World, owns) /\ ClientOK
  BY DEF Quiet
<1>3. /\ owns[o] = 0 /\ o \notin Statics /\ o \in Places
      /\ owns[r] = 0 /\ r \notin Statics /\ r \in Places /\ Keeps(World.obj, r) = 0
  BY BlockSilent
<1>4. Closed(World, {o, r})
  BY <1>2, <1>3, ClosedSets
<1>5. r # o => Clean(v, r) /\ Current(v, r)
  BY <1>3, SlotSeen
<1>6. Speaks(v, {o, r}, o, t)
  BY <1>3, <1>5 DEF Speaks
<1>7. Leads(v, {o, r})
  BY <1>2, <1>4, WorldParts DEF Leads
<1> QED BY <1>1, <1>2, <1>6, <1>7, Spoken

(* A call that changes what o says to t.                                   *)
LEMMA MeansTells ==
  ASSUME Quiet, Telling, NEW o \in Places, NEW t, Means(o, t),
         NEW v, Becomes(v), WorldOK(v, owns), NEW R, Spares(World, v, R), Closed(World, R),
         Speaks(v, R, o, t)
  PROVE  Telling'
<1>1. owns' = Put(owns, o, owns[o]) /\ want' = Put(want, o, t)
  BY DEF Means, Put, Quiet, ClientOK
<1>2. Leads(v, R) /\ ClientOK
  BY WorldParts DEF Leads, Quiet
<1> QED BY <1>1, <1>2, Spoken

(* Texts go to a slot, and are appended to what is there, as they are.     *)
LEMMA SlotsWhole ==
  ASSUME Breaking = {}
  PROVE  \A s, t \in Bytestring : BeginRt(t) = t /\ AppendRt(s, t) = s \o t
<1>1. ASSUME NEW C, NEW s \in Seq(C), NEW t \in Seq(C)
      PROVE  BeginRt(t) = t /\ AppendRt(s, t) = s \o t
  BY <1>1, BeginWhole, AppendWhole
<1> QED BY <1>1 DEF Bytestring

(* What handles and values say.                                            *)
LEMMA SlotTells ==
  ASSUME NEW w, NEW p
  PROVE  /\ w.obj[p].kind = "ref" => Tells(w, p) = StrValue(w, p)
         /\ w.obj[p].kind = "nbt" => Tells(w, p) = NbtValue(w, p)
         /\ w.obj[p].kind \in TextKinds => Tells(w, p) = CStr(w, p)
         /\ w.obj[p].kind = "exec" /\ w.obj[p].mcf # Null => Tells(w, p) = StrValue(w, w.obj[p].mcf)
         /\ w.obj[p].kind = "exec" /\ w.obj[p].mcf = Null => Tells(w, p) = <<>>
BY DEF Tells, TextKinds

(* What the client looks at says what it should.                           *)
LEMMA ToldNow ==
  ASSUME Telling, NEW o, NEW K, Is(o, K), o \in Places, Quiet
  PROVE  Tells(World, o) = want[o]
BY DEF Telling, ClientTexts, Is, Quiet, ClientOK

(* String_FromCString, _Target_New and McfStrRef_FromCString.              *)
LEMMA FromCStringTells ==
  ASSUME Quiet, Telling, Breaking = {}, FromCString
  PROVE  Telling'
<1>1. PICK o \in Blocks(World), t \in Texts :
        /\ \/ Becomes([World EXCEPT !.obj[o] = [Dynamic("string") EXCEPT !.data = t]])
           \/ t # <<>> /\ Becomes([World EXCEPT !.obj[o] = [Dynamic("target") EXCEPT !.data = t]])
           \/ Becomes(McfStrRefFrom(World, o, t))
        /\ Made(o, t)
  BY DEF FromCString
<1>2. /\ o \in Objects /\ World.obj[o].kind = "none" /\ t \in Bytestring /\ t \in Seq(Chars) /\ WorldOK(World, owns)
      /\ o \in Places
  BY BlockFacts, TextsTyped, PlaceTypes DEF Quiet
<1>3. ASSUME NEW k \in TextKinds,
             Becomes([World EXCEPT !.obj[o] = [Dynamic(k) EXCEPT !.data = t]])
      PROVE  Telling'
  <2>1. PICK v : v = WithObject(World, o, [Dynamic(k) EXCEPT !.data = t])
    OBVIOUS
  <2>2. Becomes(v)
    BY <1>3, <2>1 DEF WithObject
  <2>3. WorldOK(v, Put(owns, o, 1)) /\ Spares(World, v, {o})
    BY <1>2, <2>1, TextMade
  <2>4. v.obj[o].kind = k /\ v.obj[o].data = t /\ v.obj[o].lit = Null /\ v.obj[o].mcf = Null
    BY <1>2, <2>1, <2>3, TextMade
  <2>5. Clean(v, o) /\ Current(v, o) /\ Tells(v, o) = t
    BY <1>2, <2>4, OwnSeen
  <2>6. Spares(World, v, {o, o}) /\ v.obj[o].kind # "exec"
    BY <2>3, <2>4 DEF TextKinds
  <2> QED BY <1>1, <1>2, <2>2, <2>3, <2>5, <2>6, MadeTells
<1>4. ASSUME Becomes(McfStrRefFrom(World, o, t)) PROVE Telling'
  <2>1. PICK v : v = McfStrRefFrom(World, o, t)
    OBVIOUS
  <2>2. WorldOK(v, Put(owns, o, 1)) /\ Spares(World, v, {o}) /\ v.obj[o].kind = "ref" /\ StrValue(v, o) = BeginRt(t)
    <3>1. PICK w, hold : w = World /\ hold = owns
      OBVIOUS
    <3>2. WorldOK(w, hold) /\ o \in Objects /\ w.obj[o].kind = "none" /\ t \in Bytestring
      BY <1>2, <3>1
    <3>3. v = McfStrRefFrom(w, o, t)
      BY <2>1, <3>1
    <3>4. /\ WorldOK(v, Put(hold, o, 1)) /\ Spares(w, v, {o})
          /\ v.obj[o].kind = "ref" /\ StrValue(v, o) = BeginRt(t)
      BY <3>2, <3>3, RefFrom
    <3> QED BY <3>1, <3>4
  <2>3. Clean(v, o) /\ Current(v, o) /\ Tells(v, o) = t
    BY <1>2, <2>2, SlotSeen, SlotTells, SlotsWhole
  <2>4. Becomes(v) /\ Spares(World, v, {o, o}) /\ v.obj[o].kind # "exec"
    BY <1>4, <2>1, <2>2
  <2> QED BY <1>1, <1>2, <2>2, <2>3, <2>4, MadeTells
<1> QED BY <1>1, <1>3, <1>4 DEF TextKinds

(* String_FromLiteral and _Target_FromLiteral.                             *)
LEMMA FromLiteralTells ==
  ASSUME Quiet, Telling, Breaking = {}, FromLiteral
  PROVE  Telling'
<1>1. PICK o \in Blocks(World), l \in Literals, k \in TextKinds :
        \E r \in Blocks(World) \ {o} :
          /\ LET new == [Dynamic(k) EXCEPT !.lit = l, !.len = Len(CString(mem[l]))]
             IN Becomes(EnsureMcf([World EXCEPT !.obj[o] = new], o, r))
          /\ Made(o, TextOf(l))
  BY DEF FromLiteral, TextKinds
<1>2. PICK r \in Blocks(World) \ {o} :
        /\ LET new == [Dynamic(k) EXCEPT !.lit = l, !.len = Len(CString(mem[l]))]
           IN Becomes(EnsureMcf([World EXCEPT !.obj[o] = new], o, r))
        /\ Made(o, TextOf(l))
  BY <1>1
<1>3. /\ o \in Objects /\ World.obj[o].kind = "none" /\ r \in Objects /\ World.obj[r].kind = "none" /\ r # o
      /\ TextOf(l) \in Bytestring /\ TextOf(l) \in Seq(Chars) /\ WorldOK(World, owns) /\ o \in Places
  BY BlockFacts, TextsTyped, PlaceTypes DEF Quiet
<1>4. PICK v : v = Taking(World, o, k, l, r)
  OBVIOUS
<1>5. Becomes(v)
  BY <1>2, <1>4, WorldFields DEF WithObject, Borrowing, Taking
<1>6. /\ WorldOK(v, Put(owns, o, 1)) /\ Spares(World, v, {o, r})
      /\ v.obj[o].kind = k /\ v.obj[o].lit = l /\ v.obj[o].len = Len(CString(World.mem[l]))
      /\ v.obj[o].mcf = r
      /\ v.obj[r].kind = "ref" /\ StrValue(v, r) = BeginRt(CString(World.mem[l]))
  <2>1. Takes(World, owns, o, k, l, r)
    BY <1>3 DEF Takes
  <2> QED BY <1>4, <2>1, LiteralTaken
<1>7. PICK t : t = TextOf(l) /\ t \in Bytestring /\ t \in Seq(Chars)
  BY <1>3
<1>8. World.mem[l] = t /\ CString(World.mem[l]) = t
  <2>1. World.mem[l] = t
    BY <1>7 DEF Telling, TextsOK
  <2>2. \A n \in DOMAIN t : t[n] # Nul
    BY <1>7, CharsAssumption
  <2> QED BY <2>1, <2>2, CStringWhole
<1>9. l # Null
  BY ObjectsAssumption
<1>10. v.mem = [m \in Literals |-> TextOf(m)]
  BY <1>6 DEF Spares, Telling, TextsOK
<1>11. Clean(v, o)
  BY <1>6, <1>7, <1>8, <1>9 DEF Clean
<1>12. Tells(v, o) = t
  BY <1>3, <1>6, <1>7, <1>9, <1>10, <1>11, SeenWhole, SlotTells
<1>13. Current(v, o)
  BY <1>6, <1>7, <1>8, <1>12, SlotsWhole DEF Current
<1>14. Made(o, t) /\ v.obj[o].kind # "exec"
  BY <1>2, <1>6, <1>7 DEF TextKinds
<1> QED BY <1>3, <1>5, <1>6, <1>11, <1>12, <1>13, <1>14, MadeTells

(* Nbt_New.                                                                *)
LEMMA NewNbtTells ==
  ASSUME Quiet, Telling, NewNbt
  PROVE  Telling'
<1>1. PICK n \in Blocks(World) : Becomes(NbtNew(World, n)) /\ Made(n, <<>>)
  BY DEF NewNbt
<1>2. PICK t : t = <<>>
  OBVIOUS
<1>3. n \in Objects /\ World.obj[n].kind = "none" /\ WorldOK(World, owns) /\ n \in Places
  BY BlockFacts, PlaceTypes DEF Quiet
<1>4. PICK v : v = NbtNew(World, n)
  OBVIOUS
<1>5. WorldOK(v, Put(owns, n, 1)) /\ Spares(World, v, {n}) /\ v.obj[n].kind = "nbt" /\ NbtValue(v, n) = t
  BY <1>2, <1>3, <1>4, NbtMade
<1>6. Clean(v, n) /\ Current(v, n) /\ Tells(v, n) = t
  BY <1>3, <1>5, SlotSeen, SlotTells
<1>7. Becomes(v) /\ Made(n, t) /\ Spares(World, v, {n, n}) /\ v.obj[n].kind # "exec"
  BY <1>1, <1>2, <1>4, <1>5
<1> QED BY <1>3, <1>5, <1>6, <1>7, MadeTells

(* A String that is written anew says what is written, and the handle that *)
(* nobody else holds is gone.                                              *)
LEMMA RewrittenTells ==
  ASSUME Quiet, Telling, NEW s \in Objects, World.obj[s].kind = "string",
         NEW t \in Seq(Chars), Means(s, t),
         NEW v, Becomes(v), WorldOK(v, owns), Rewrote(World, v, s, t),
         Spares(World, v, {s} \cup Alone(World, owns, s)), AllFree(v, Alone(World, owns, s))
  PROVE  Telling'
<1>1. PICK A, R : A = Alone(World, owns, s) /\ R = {s} \cup A
  OBVIOUS
<1>2. WorldOK(World, owns) /\ s \in Places
  BY PlaceTypes DEF Quiet
<1>3. v.obj[s].kind = "string" /\ v.obj[s].mcf = Null /\ v.obj[s].lit = Null /\ v.obj[s].data = t
  BY DEF Rewrote
<1>4. Clean(v, s) /\ Current(v, s) /\ Tells(v, s) = t
  BY <1>3, OwnSeen DEF TextKinds
<1>5. ASSUME NEW p \in A
      PROVE  Clean(v, p) /\ Current(v, p) /\ v.obj[p].kind # "exec" /\ owns[p] = 0 /\ p \notin Statics
  <2>1. p \in Objects /\ v.obj[p].kind = "none"
    BY <1>1 DEF Alone, AllFree
  <2> QED BY <2>1, GoneSeen, PlaceTypes
<1>6. Speaks(v, R, s, t)
  BY <1>1, <1>2, <1>3, <1>4, <1>5 DEF Speaks
<1>7. Closed(World, R) /\ Spares(World, v, R)
  BY <1>1, <1>2, ClosedSets
<1> QED BY <1>2, <1>6, <1>7, MeansTells

(* The slot of a handle that no object keeps is the client's to write to.  *)
LEMMA HandleTells ==
  ASSUME Quiet, Telling, NEW o \in Objects, Writable(o), NEW t, Means(o, t),
         NEW v, Becomes(v), WorldOK(v, owns), Spares(World, v, {o}), v.obj = World.obj, StrValue(v, o) = t
  PROVE  Telling'
<1>1. WorldOK(World, owns) /\ o \in Places /\ World.obj[o].kind = "ref"
  BY IsFacts, PlaceTypes DEF Quiet, Writable
<1>2. Closed(World, {o})
  <2>1. \A s \in Places : World.obj[s].mcf # o
    BY WorldFields DEF Writable
  <2> QED BY <2>1 DEF Closed
<1>3. Clean(v, o) /\ Current(v, o) /\ Tells(v, o) = t
  BY <1>1, SlotSeen, SlotTells
<1>4. Speaks(v, {o}, o, t)
  BY <1>1, <1>3 DEF Speaks
<1> QED BY <1>1, <1>2, <1>4, MeansTells

(* String_AssignCString and McfStrRef_AssignCString.                       *)
LEMMA AssignTells ==
  ASSUME Quiet, Telling, Breaking = {}, Assign
  PROVE  Telling'
<1>1. PICK o \in Objects, t \in Texts :
        /\ \/ Is(o, {"string"}) /\ Becomes(AssignCString(World, o, t))
           \/ Writable(o) /\ Becomes(AssignSource(World, o, t))
        /\ Means(o, t)
  BY DEF Assign
<1>2. t \in Bytestring /\ t \in Seq(Chars) /\ o \in Places /\ WorldOK(World, owns)
  BY TextsTyped, PlaceTypes DEF Quiet
<1>3. CASE Is(o, {"string"}) /\ Becomes(AssignCString(World, o, t))
  <2>1. World.obj[o].kind = "string"
    BY <1>3, IsFacts
  <2>2. PICK v : v = AssignCString(World, o, t)
    OBVIOUS
  <2>3. /\ WorldOK(v, owns) /\ Rewrote(World, v, o, t)
        /\ Spares(World, v, {o} \cup Alone(World, owns, o)) /\ AllFree(v, Alone(World, owns, o))
    BY <1>2, <2>1, <2>2, Assigned
  <2>4. Becomes(v)
    BY <1>3, <2>2
  <2> QED BY <1>1, <1>2, <2>1, <2>3, <2>4, RewrittenTells
<1>4. CASE Writable(o) /\ Becomes(AssignSource(World, o, t))
  <2>1. World.obj[o].kind = "ref"
    BY <1>4, IsFacts DEF Writable
  <2>2. PICK v : v = AssignSource(World, o, t)
    OBVIOUS
  <2>3. WorldOK(v, owns) /\ Spares(World, v, {o})
    BY <1>2, <2>1, <2>2, RefAssign
  <2>4. v.obj = World.obj /\ StrValue(v, o) = BeginRt(t)
    BY <1>2, <2>1, <2>2, <2>3, RefAssign
  <2>5. Becomes(v) /\ StrValue(v, o) = t
    BY <1>2, <1>4, <2>2, <2>4, SlotsWhole
  <2> QED BY <1>1, <1>4, <2>3, <2>4, <2>5, HandleTells
<1> QED BY <1>1, <1>3, <1>4

(* What a String holds is what the client sees of it, and should.          *)
LEMMA BufferTells ==
  ASSUME Quiet, Telling, NEW o \in Objects, Is(o, {"string"})
  PROVE  Buffer(World, o) = want[o] /\ want[o] \in Seq(Chars)
<1>1. WorldOK(World, owns) /\ o \in Places /\ World.obj[o].kind \in TextKinds
  BY IsFacts, PlaceTypes DEF Quiet, TextKinds
<1>2. Clean(World, o) /\ World.mem = [l \in Literals |-> TextOf(l)]
  BY <1>1 DEF Telling, TextsOK
<1>3. CStr(World, o) = Buffer(World, o) /\ CStr(World, o) \in Seq(Chars)
  BY <1>1, <1>2, SeenWhole
<1>4. Tells(World, o) = want[o] /\ Tells(World, o) = CStr(World, o)
  BY <1>1, ToldNow, SlotTells
<1> QED BY <1>3, <1>4

(* String_AppendCString and McfStrRef_AppendCString.                       *)
LEMMA AppendToTells ==
  ASSUME Quiet, Telling, Breaking = {}, AppendTo
  PROVE  Telling'
<1>1. PICK o \in Objects, t \in Texts \ {<<>>} :
        /\ \/ Is(o, {"string"}) /\ Becomes(AppendCString(World, o, t))
           \/ Writable(o) /\ Becomes(AppendSource(World, o, t))
        /\ Means(o, want[o] \o t)
  BY DEF AppendTo
<1>2. t \in Bytestring /\ t \in Seq(Chars) /\ o \in Places /\ WorldOK(World, owns)
  BY TextsTyped, PlaceTypes DEF Quiet
<1>3. PICK u : u = want[o] \o t
  OBVIOUS
<1>4. CASE Is(o, {"string"}) /\ Becomes(AppendCString(World, o, t))
  <2>1. World.obj[o].kind = "string"
    BY <1>4, IsFacts
  <2>2. PICK v : v = AppendCString(World, o, t)
    OBVIOUS
  <2>3. /\ WorldOK(v, owns) /\ Rewrote(World, v, o, Buffer(World, o) \o t)
        /\ Spares(World, v, {o} \cup Alone(World, owns, o)) /\ AllFree(v, Alone(World, owns, o))
    BY <1>1, <1>2, <2>1, <2>2, Appended
  <2>4. Buffer(World, o) = want[o] /\ want[o] \in Seq(Chars)
    BY <1>4, BufferTells
  <2>5. u \in Seq(Chars) /\ Rewrote(World, v, o, u)
    BY <1>2, <1>3, <2>3, <2>4
  <2>6. Becomes(v) /\ Means(o, u)
    BY <1>1, <1>3, <1>4, <2>2
  <2> QED BY <2>1, <2>3, <2>5, <2>6, RewrittenTells
<1>5. CASE Writable(o) /\ Becomes(AppendSource(World, o, t))
  <2>1. World.obj[o].kind = "ref" /\ Is(o, {"ref"})
    BY <1>5, IsFacts DEF Writable
  <2>2. PICK v : v = AppendSource(World, o, t)
    OBVIOUS
  <2>3. WorldOK(v, owns) /\ Spares(World, v, {o})
    BY <1>2, <2>1, <2>2, RefAppend
  <2>4. v.obj = World.obj /\ (t # <<>> => StrValue(v, o) = AppendRt(StrValue(World, o), t))
    BY <1>2, <2>1, <2>2, <2>3, RefAppend
  <2>5. StrValue(World, o) = want[o] /\ want[o] \in Bytestring
    BY <1>2, <2>1, ToldNow, SlotTells DEF Quiet, ClientOK
  <2>6. StrValue(v, o) = u
    BY <1>1, <1>2, <1>3, <2>4, <2>5, SlotsWhole
  <2>7. Becomes(v) /\ Means(o, u)
    BY <1>1, <1>3, <1>5, <2>2
  <2> QED BY <1>5, <2>3, <2>4, <2>6, <2>7, HandleTells
<1> QED BY <1>1, <1>4, <1>5

(* The client does not clear a String that borrows a literal.              *)
ClearsOwn == "clear literal" \in Left

(* There is memory for the handle of a float.                              *)
FloatsStored == "float without memory" \in Left

(* String_Clear, of a text that is the String's own.                       *)
LEMMA ClearStringTells ==
  ASSUME Quiet, Telling, ClearsOwn, ClearString
  PROVE  Telling'
<1>1. PICK s \in Objects :
        /\ Is(s, {"string"}) /\ obj[s].lit = Null
        /\ Becomes(StringClear(World, s)) /\ Means(s, <<>>)
  BY Zenon DEF ClearString, ClearsOwn
<1>2. PICK t : t = <<>> /\ t \in Seq(Chars)
  BY TextsTyped
<1>3. World.obj[s].kind = "string" /\ s \in Places /\ WorldOK(World, owns) /\ World.obj[s].lit = Null
  BY <1>1, IsFacts, PlaceTypes, WorldFields DEF Quiet
<1>4. PICK v : v = StringClear(World, s)
  OBVIOUS
<1>5. /\ WorldOK(v, owns)
      /\ Rewrote(World, v, s, t)
      /\ Spares(World, v, {s} \cup Alone(World, owns, s)) /\ AllFree(v, Alone(World, owns, s))
  BY <1>2, <1>3, <1>4, Cleared
<1>6. Becomes(v) /\ Means(s, t) /\ t \in Seq(Chars)
  BY <1>1, <1>2, <1>4
<1> QED BY <1>3, <1>5, <1>6, RewrittenTells

(* A text gets its handle, which says what the text says.                  *)
LEMMA EnsuredTells ==
  ASSUME ClientOK, Telling, Breaking = {}, UNCHANGED <<owns, want>>,
         NEW hold, WorldOK(World, hold), NEW s, Is(s, {"string", "target"}), s \in Places, World.obj[s].mcf = Null,
         NEW r \in Objects, World.obj[r].kind = "none", owns[r] = 0, Becomes(EnsureMcf(World, s, r))
  PROVE  Telling'
<1>1. PICK v, R : v = EnsureMcf(World, s, r) /\ R = {s, r}
  OBVIOUS
<1>2. World.obj[s].kind \in TextKinds /\ World.obj[s].kind \in {"string", "target"} /\ r # s /\ Becomes(v)
  BY <1>1, WorldFields DEF Is, TextKinds
<1>3. /\ WorldOK(v, hold) /\ Spares(World, v, R) /\ v.obj[s] = Keeping(World.obj[s], r)
      /\ v.obj[r].kind = "ref" /\ StrValue(v, r) = BeginRt(CStr(World, s))
  BY <1>1, <1>2, Ensured
<1>4. PICK t : t = want[s] /\ t \in Bytestring /\ t = Tells(World, s) /\ t = CStr(World, s)
  <2>1. Tells(World, s) = want[s]
    BY DEF Telling, ClientTexts, Is, ClientOK
  <2> QED BY <1>2, <2>1, SlotTells DEF ClientOK
<1>5. /\ v.obj[s].kind = World.obj[s].kind /\ v.obj[s].mcf = r /\ v.obj[s].lit = World.obj[s].lit
      /\ v.obj[s].data = World.obj[s].data /\ v.obj[s].len = World.obj[s].len
  <2>1. World.obj[s] \in ObjRec
    BY WorldParts
  <2> QED BY <1>3, <2>1, KeepingTypes
<1>6. v.mem = World.mem
  BY <1>3 DEF Spares
<1>7. Clean(World, s)
  BY DEF Telling, TextsOK
<1>8. Clean(v, s) /\ Tells(v, s) = t
  <2>1. CStr(v, s) = CStr(World, s)
    BY <1>5, <1>6 DEF CStr, Bytes
  <2>2. Clean(v, s)
    BY <1>5, <1>7 DEF Clean
  <2> QED BY <1>2, <1>4, <1>5, <2>1, <2>2, SlotTells
<1>9. Current(v, s)
  BY <1>3, <1>4, <1>5, <1>8, SlotsWhole DEF Current
<1>10. r \in Places /\ r \notin Statics /\ Clean(v, r) /\ Current(v, r)
  BY <1>3, SlotSeen, PlaceTypes
<1>11. Speaks(v, R, s, t)
  <2>1. v.obj[s].kind # "exec" /\ v.obj[r].kind # "exec"
    BY <1>2, <1>3, <1>5 DEF TextKinds
  <2>2. s \in Places \cap R /\ \A p \in (Places \cap R) \ {s} : p = r
    BY <1>1
  <2> QED BY <1>8, <1>9, <1>10, <2>1, <2>2 DEF Speaks
<1>12. Leads(v, R)
  <2>1. Keeps(World.obj, r) = 0 /\ World.obj[s].kind # "ref"
    BY <1>2, BlockIsFree DEF TextKinds
  <2>2. Closed(World, R)
    BY <1>1, <1>10, <2>1, ClosedSets
  <2> QED BY <1>2, <1>3, <2>2, WorldParts DEF Leads
<1>13. owns' = Put(owns, s, owns[s]) /\ want' = Put(want, s, t)
  <2>1. owns' = owns /\ want' = want
    OBVIOUS
  <2>2. owns = Put(owns, s, owns[s])
    BY DEF Put, ClientOK
  <2>3. t = want[s]
    BY <1>4
  <2>4. want = Put(want, s, t)
    BY <2>3 DEF Put, ClientOK
  <2> QED BY Zenon, <2>1, <2>2, <2>4
<1> QED BY <1>11, <1>12, <1>13, Spoken

(* String_EnsureMcfStrRef and Target_EnsureMcf.                            *)
LEMMA EnsureTells ==
  ASSUME Quiet, Telling, Breaking = {}, Ensure
  PROVE  Telling'
<1>1. PICK s \in Places, r \in Blocks(World) :
        /\ Is(s, {"string", "target"})
        /\ obj[s].mcf = Null
        /\ Becomes(EnsureMcf(World, s, r))
        /\ UNCHANGED <<owns, want>>
  BY DEF Ensure
<1>2. r \in Objects /\ World.obj[r].kind = "none" /\ owns[r] = 0 /\ World.obj[s].mcf = Null
  BY <1>1, BlockFacts, BlockSilent, WorldFields
<1> QED BY <1>1, <1>2, EnsuredTells DEF Quiet

(* A value is set, and nothing else.                                       *)
LEMMA ValueTells ==
  ASSUME Quiet, Telling, NEW n \in Objects, Is(n, {"nbt"}), NEW t, Means(n, t),
         NEW v, Becomes(v), WorldOK(v, owns), Spares(World, v, {n}), v.obj[n].kind = "nbt", NbtValue(v, n) = t
  PROVE  Telling'
<1>1. WorldOK(World, owns) /\ n \in Places /\ World.obj[n].kind = "nbt"
  BY IsFacts, PlaceTypes DEF Quiet
<1>2. Closed(World, {n})
  BY <1>1, ClosedSets
<1>3. Clean(v, n) /\ Current(v, n) /\ Tells(v, n) = t
  BY <1>1, SlotSeen, SlotTells
<1>4. Speaks(v, {n}, n, t)
  BY <1>1, <1>3 DEF Speaks
<1> QED BY <1>1, <1>2, <1>4, MeansTells

(* Nbt_SetInt.                                                             *)
LEMMA SetIntTells ==
  ASSUME Quiet, Telling, SetInt
  PROVE  Telling'
<1>1. PICK n \in Objects, c \in Chars :
        /\ Is(n, {"nbt"})
        /\ Becomes(NbtSet(World, n, <<c>>))
        /\ Means(n, <<c>>)
  BY DEF SetInt
<1>2. PICK t : t = <<c>> /\ t \in Bytestring
  BY LettersTyped
<1>3. World.obj[n].kind = "nbt" /\ n \in Places /\ WorldOK(World, owns)
  BY <1>1, IsFacts, PlaceTypes DEF Quiet
<1>4. PICK v : v = NbtSet(World, n, t)
  OBVIOUS
<1>5. t \in Bytestring
  BY <1>2
<1>6. WorldOK(v, owns) /\ Spares(World, v, {n})
  BY <1>3, <1>4, <1>5, NbtText
<1>7. v.obj = World.obj /\ NbtValue(v, n) = t
  BY <1>3, <1>4, <1>5, <1>6, NbtText
<1>8. Becomes(v) /\ Means(n, t)
  BY <1>1, <1>2, <1>4
<1> QED BY <1>1, <1>3, <1>6, <1>7, <1>8, ValueTells

(* Nbt_SetFromSlot.                                                        *)
LEMMA SetFromSlotTells ==
  ASSUME Quiet, Telling, SetFromSlot
  PROVE  Telling'
<1>1. PICK n \in Objects, src \in Objects :
        /\ Is(n, {"nbt"}) /\ Is(src, {"nbt"})
        /\ Becomes(NbtSet(World, n, Slot(nbt, obj[src].slot).value))
        /\ Means(n, want[src])
  BY DEF SetFromSlot
<1>2. /\ World.obj[n].kind = "nbt" /\ n \in Places /\ World.obj[src].kind = "nbt" /\ src \in Places
      /\ WorldOK(World, owns) /\ want[src] \in Bytestring
  BY <1>1, IsFacts, PlaceTypes DEF Quiet, ClientOK
<1>3. PICK t : t = want[src]
  OBVIOUS
<1>4. t = Slot(nbt, obj[src].slot).value /\ t \in Bytestring
  <2>1. Tells(World, src) = want[src]
    BY <1>1, <1>2, ToldNow
  <2>2. Tells(World, src) = NbtValue(World, src)
    BY <1>2, SlotTells
  <2> QED BY <1>2, <1>3, <2>1, <2>2, WorldFields DEF NbtValue
<1>5. PICK v : v = NbtSet(World, n, t)
  OBVIOUS
<1>6. WorldOK(v, owns) /\ Spares(World, v, {n})
  BY <1>2, <1>4, <1>5, NbtText
<1>7. v.obj = World.obj /\ NbtValue(v, n) = t
  BY <1>2, <1>4, <1>5, <1>6, NbtText
<1>8. Becomes(v) /\ Means(n, t)
  BY <1>1, <1>3, <1>4, <1>5
<1> QED BY <1>1, <1>2, <1>6, <1>7, <1>8, ValueTells

(* Nbt_SetFloatStr, with memory for its handle.                            *)
LEMMA SetFloatTells ==
  ASSUME Quiet, Telling, Breaking = {}, FloatsStored, SetFloat
  PROVE  Telling'
<1>1. PICK n \in Objects, t \in Texts \ {<<>>} :
        \E r \in Blocks(World) :
          /\ Is(n, {"nbt"})
          /\ Becomes(NbtSetFloatStr(World, n, t, r))
          /\ Means(n, t \o <<"f">>)
  BY Zenon DEF SetFloat, FloatsStored
<1>2. PICK r \in Blocks(World) :
        /\ Is(n, {"nbt"})
        /\ Becomes(NbtSetFloatStr(World, n, t, r))
        /\ Means(n, t \o <<"f">>)
  BY <1>1
<1>3. /\ World.obj[n].kind = "nbt" /\ n \in Places /\ WorldOK(World, owns) /\ t \in Bytestring
      /\ r \in Objects /\ World.obj[r].kind = "none" /\ n # r
  <2>1. t \in Bytestring
    BY TextsTyped
  <2>2. r \in Objects /\ World.obj[r].kind = "none"
    BY BlockFacts
  <2> QED BY <1>2, <2>1, <2>2, IsFacts, PlaceTypes DEF Quiet
<1>4. PICK f : f = <<"f">> /\ f \in Bytestring
  BY LettersTyped
<1>5. PICK u, v, R : u = t \o f /\ v = NbtSetFloatStr(World, n, t, r) /\ R = {n, r}
  OBVIOUS
<1>6. WorldOK(v, owns) /\ Spares(World, v, R)
  BY <1>3, <1>5, FloatSet
<1>7. v.obj[n].kind = "nbt" /\ v.obj[r].kind = "none" /\ NbtValue(v, n) = AppendRt(BeginRt(t), f)
  BY <1>3, <1>4, <1>5, <1>6, FloatSet
<1>8. f \in Bytestring
  BY <1>4
<1>9. NbtValue(v, n) = u
  BY <1>3, <1>5, <1>7, <1>8, SlotsWhole
<1>10. Becomes(v) /\ Means(n, u)
  BY <1>2, <1>4, <1>5
<1>11. Clean(v, n) /\ Current(v, n) /\ Tells(v, n) = u
  BY <1>3, <1>6, <1>7, <1>9, SlotSeen, SlotTells
<1>12. r \in Places /\ r \notin Statics /\ Clean(v, r) /\ Current(v, r) /\ owns[r] = 0
  BY <1>3, <1>6, <1>7, GoneSeen, PlaceTypes
<1>13. Speaks(v, R, n, u)
  BY <1>3, <1>5, <1>7, <1>11, <1>12 DEF Speaks
<1>14. Closed(World, R)
  <2>1. Keeps(World.obj, r) = 0 /\ World.obj[n].kind # "ref"
    BY <1>3, BlockIsFree
  <2> QED BY <1>3, <1>5, <1>12, <2>1, ClosedSets
<1> QED BY <1>3, <1>6, <1>10, <1>13, <1>14, MeansTells

-----------------------------------------------------------------------------
(* A call after which what says something else is gone, and that the       *)
(* client then neither owns nor wants to say anything.                     *)
LEMMA LeavesTells ==
  ASSUME Telling, NEW hold, WorldOK(World, hold), NEW v, Becomes(v), NEW after, WorldOK(v, after),
         NEW R, Spares(World, v, R), Closed(World, R),
         \A p \in R : p \in Objects /\ v.obj[p].kind = "none",
         \A p \in Places : after[p] = 0 => owns'[p] = 0,
         \A p \in Places : owns'[p] # 0 => owns[p] # 0,
         \A p \in Places : owns'[p] # 0 \/ p \in Statics => want'[p] = want[p]
  PROVE  Telling'
<1>1. PICK own, tell : own = owns' /\ tell = want'
  OBVIOUS
<1>2. ASSUME NEW p \in Places \cap R
      PROVE  Clean(v, p) /\ Current(v, p) /\ own[p] = 0 /\ p \notin Statics /\ v.obj[p].kind # "exec"
  <2>1. p \in Objects /\ v.obj[p].kind = "none"
    BY <1>2
  <2> QED BY <1>1, <1>2, <2>1, GoneSeen, PlaceTypes
<1>3. /\ \A p \in Places : own[p] # 0 => owns[p] # 0
      /\ \A p \in Places : own[p] # 0 \/ p \in Statics => tell[p] = want[p]
  BY <1>1
<1>4. Carries(World, v, R, owns, want, own, tell)
  BY <1>2, <1>3 DEF Carries, Telling
<1> QED BY <1>1, <1>4, WorldParts, CarriedOver

(* The client has one reference less.                                      *)
LEMMA FewerTells ==
  ASSUME Quiet, Telling, NEW o \in Objects, owns[o] # 0,
         owns' = Put(owns, o, owns[o] - 1), \A p \in Places : want'[p] = want[p] \/ (p = o /\ owns[o] = 1),
         NEW v, Becomes(v), WorldOK(v, Put(owns, o, owns[o] - 1)),
         NEW R, Spares(World, v, R), Closed(World, R), \A p \in R : p \in Objects /\ v.obj[p].kind = "none"
  PROVE  Telling'
<1>1. PICK after : after = Put(owns, o, owns[o] - 1)
  OBVIOUS
<1>2. owns' = after /\ WorldOK(v, after) /\ WorldOK(World, owns)
  BY <1>1 DEF Quiet
<1>3. after[o] = owns[o] - 1 /\ \A p \in Places : p # o => after[p] = owns[p]
  BY <1>1, PlaceTypes DEF Put, Quiet, ClientOK
<1>4. /\ \A p \in Places : after[p] # 0 => owns[p] # 0
      /\ \A p \in Places : after[p] # 0 \/ p \in Statics => want'[p] = want[p]
  BY <1>3, PlaceTypes
<1> QED BY <1>2, <1>4, LeavesTells

(* McRef_Retain, McfStrRef_Retain and Nbt_Retain.                          *)
LEMMA RetainTells ==
  ASSUME Quiet, Telling, Retain
  PROVE  Telling'
<1>1. PICK o \in Objects :
        /\ Is(o, {"string", "target", "ref", "nbt"})
        /\ CASE obj[o].kind = "ref" -> Becomes(McfStrRefRetain(World, o))
             [] obj[o].kind = "nbt" -> Becomes(NbtRetain(World, o))
             [] OTHER -> Becomes([World EXCEPT !.obj[o].rc = @ + 1])
        /\ owns' = [owns EXCEPT ![o] = @ + 1]
        /\ UNCHANGED want
  BY DEF Retain
<1>2. /\ obj[o].kind \in {"string", "target", "ref", "nbt"} /\ World.obj[o].kind = obj[o].kind
      /\ o \in Places /\ owns[o] # 0 /\ WorldOK(World, owns)
  BY <1>1, IsFacts, WorldFields DEF Quiet
<1>3. PICK after : after = Put(owns, o, owns[o] + 1)
  OBVIOUS
<1>4. owns' = after /\ want' = want /\ \A p \in Places : p # o => after[p] = owns[p]
  BY <1>1, <1>3 DEF Put, Quiet, ClientOK
<1>5. PICK v : Becomes(v) /\ WorldOK(v, after) /\ Spares(World, v, {})
  <2>1. CASE obj[o].kind = "ref"
    BY <1>1, <1>2, <1>3, <2>1, RefRetain
  <2>2. CASE obj[o].kind = "nbt"
    BY <1>1, <1>2, <1>3, <2>2, NbtRetained
  <2>3. CASE obj[o].kind \in {"string", "target"}
    BY <1>1, <1>2, <1>3, <2>3, TextRetained
  <2> QED BY <1>2, <2>1, <2>2, <2>3
<1>6. PICK R : R = {} /\ Closed(World, R) /\ Spares(World, v, R)
  BY <1>2, <1>5, ClosedSets
<1>7. \A p \in Places : after[p] # 0 => owns[p] # 0
  BY <1>2, <1>4
<1> QED BY <1>2, <1>4, <1>5, <1>6, <1>7, LeavesTells

(* McRef_Release, McfStrRef_Release and Nbt_Release; a static stays.       *)
LEMMA ReleaseTells ==
  ASSUME Quiet, Telling, Release
  PROVE  Telling'
<1>1. PICK o \in Places :
        /\ Is(o, {"string", "target", "ref", "nbt"})
        /\ CASE obj[o].kind = "ref" -> Becomes(McfStrRefRelease(World, o))
             [] obj[o].kind = "nbt" -> Becomes(NbtRelease(World, o))
             [] OTHER -> Becomes(TextRelease(World, o))
        /\ owns' = [owns EXCEPT ![o] = IF o \in Statics THEN 0 ELSE @ - 1]
        /\ want' = IF owns[o] = 1 THEN [want EXCEPT ![o] = <<>>] ELSE want
  BY DEF Release
<1>2. /\ obj[o].kind \in {"string", "target", "ref", "nbt"} /\ World.obj[o].kind = obj[o].kind
      /\ o \in Objects => owns[o] \in Nat /\ owns[o] # 0
      /\ WorldOK(World, owns) /\ owns \in [Places -> Nat] /\ \A p \in Statics : owns[p] = 0
  BY <1>1, IsFacts, WorldFields DEF Quiet, ClientOK
<1>3. /\ \A p \in Places : want'[p] = want[p] \/ (p = o /\ owns[o] = 1)
      /\ owns[o] # 1 => want' = want
  BY <1>1 DEF Quiet, ClientOK
<1>4. CASE o \in Statics
  <2>1. Shape(o, World.obj[o])
    BY <1>2, WorldParts
  <2>2. World.obj[o].kind = "target" /\ World.obj[o].rc = -1
    BY <1>4, <2>1 DEF Shape
  <2>3. TextRelease(World, o) = World
    BY <2>2 DEF TextRelease
  <2>4. Becomes(World) /\ IsWorld(World)
    BY <1>1, <1>2, <2>2, <2>3, WorldFields
  <2>5. owns' = owns /\ want' = want
    BY <1>1, <1>2, <1>3, <1>4
  <2>6. World' = World
    BY <2>4, BecomesWorld
  <2> QED BY <2>5, <2>6 DEF Telling
<1>5. CASE o \in Objects
  <2>1. owns' = Put(owns, o, owns[o] - 1) /\ owns[o] # 0 /\ owns[o] \in Nat
    BY <1>1, <1>2, <1>5, PlaceTypes DEF Put
  <2>2. ASSUME NEW v, Becomes(v), WorldOK(v, Put(owns, o, owns[o] - 1)), Spares(World, v, {})
        PROVE  Telling'
    <3>1. PICK R : R = {} /\ Closed(World, R) /\ Spares(World, v, R)
      BY <1>2, <2>2, ClosedSets
    <3> QED BY <1>3, <1>5, <2>1, <2>2, <3>1, FewerTells
  <2>3. ASSUME NEW v, Becomes(v), WorldOK(v, Put(owns, o, owns[o] - 1)), Spares(World, v, {o}),
               v.obj[o] = Free, World.obj[o].rc = 1
        PROVE  Telling'
    <3>1. Keeps(World.obj, o) = 0
      <4>1. World.obj[o].rc = owns[o] + Keeps(World.obj, o)
        BY <1>2, <1>5, WorldParts
      <4> QED BY <2>1, <2>3, <4>1, KeepsTypes
    <3>2. Closed(World, {o}) /\ v.obj[o].kind = "none"
      BY <1>2, <2>3, <3>1, ClosedSets, FreeTypes
    <3> QED BY <1>3, <1>5, <2>1, <2>3, <3>2, FewerTells
  <2>4. CASE obj[o].kind = "ref"
    <3>1. PICK v : v = McfStrRefRelease(World, o)
      OBVIOUS
    <3>2. /\ WorldOK(v, Put(owns, o, owns[o] - 1)) /\ Spares(World, v, {o})
          /\ World.obj[o].rc # 1 => Spares(World, v, {})
          /\ World.obj[o].rc = 1 => v.obj[o] = Free
      BY <1>2, <2>1, <2>4, <3>1, RefRelease
    <3>3. Becomes(v)
      BY <1>1, <2>4, <3>1
    <3> QED BY <2>2, <2>3, <3>2, <3>3
  <2>5. CASE obj[o].kind = "nbt"
    <3>1. PICK v : v = NbtRelease(World, o)
      OBVIOUS
    <3>2. /\ WorldOK(v, Put(owns, o, owns[o] - 1)) /\ Spares(World, v, {o})
          /\ World.obj[o].rc # 1 => Spares(World, v, {})
          /\ World.obj[o].rc = 1 => v.obj[o] = Free
      BY <1>2, <2>1, <2>5, <3>1, NbtReleased
    <3>3. Becomes(v)
      BY <1>1, <2>5, <3>1
    <3> QED BY <2>2, <2>3, <3>2, <3>3
  <2>6. CASE obj[o].kind \in {"string", "target"}
    <3>1. PICK v, A : v = TextRelease(World, o) /\ A = Alone(World, owns, o)
      OBVIOUS
    <3>2. /\ WorldOK(v, Put(owns, o, owns[o] - 1))
          /\ Spares(World, v, {o} \cup A)
          /\ owns[o] = 1 => v.obj[o] = Free /\ AllFree(v, A)
          /\ owns[o] # 1 => Spares(World, v, {})
      BY <1>2, <1>5, <2>1, <2>6, <3>1, TextReleased
    <3>3. Becomes(v)
      BY <1>1, <2>6, <3>1
    <3>4. CASE owns[o] # 1
      BY <2>2, <3>2, <3>3, <3>4
    <3>5. CASE owns[o] = 1
      <4>1. PICK R : R = {o} \cup A
        OBVIOUS
      <4>2. \A p \in R : p \in Objects /\ v.obj[p].kind = "none"
        BY <1>5, <3>1, <3>2, <3>5, <4>1, FreeTypes DEF AllFree, Alone
      <4>3. Closed(World, R) /\ Spares(World, v, R)
        BY <1>2, <2>6, <3>1, <3>2, <4>1, ClosedSets
      <4> QED BY <1>3, <1>5, <2>1, <3>2, <3>3, <4>2, <4>3, FewerTells
    <3> QED BY <3>4, <3>5
  <2> QED BY <1>2, <2>4, <2>5, <2>6
<1> QED BY <1>4, <1>5 DEF Places

(* String_GetMcfStrRef: the handle says what the text says.                *)
LEMMA RetainCachedTells ==
  ASSUME Quiet, Telling, RetainCached
  PROVE  Telling'
<1>1. PICK s \in Places :
        /\ Is(s, {"string", "target"})
        /\ obj[s].mcf # Null
        /\ Becomes(McfStrRefRetain(World, obj[s].mcf))
        /\ owns' = [owns EXCEPT ![obj[s].mcf] = @ + 1]
        /\ want' = IF owns[obj[s].mcf] = 0 THEN [want EXCEPT ![obj[s].mcf] = want[s]] ELSE want
  BY DEF RetainCached
<1>2. PICK r, R : r = obj[s].mcf /\ R = {s, r}
  OBVIOUS
<1>3. /\ r \in Objects /\ r \in Places /\ World.obj[r].kind = "ref" /\ WorldOK(World, owns)
      /\ World.obj[s].kind \in {"string", "target"} /\ r # s /\ World.obj[s].mcf = r /\ World.obj[s].mcf # Null
      /\ owns[s] # 0 \/ s \in Statics
  BY <1>1, <1>2, WorldFields, PlaceTypes DEF Quiet, ClientOK, WorldOK, GraphOK, HandlesOK, Is
<1>4. PICK v, after : v = McfStrRefRetain(World, r) /\ after = Put(owns, r, owns[r] + 1)
  OBVIOUS
<1>5. WorldOK(v, after) /\ Spares(World, v, {})
  BY <1>3, <1>4, RefRetain
<1>6. Becomes(v) /\ owns' = after /\ Spares(World, v, R)
  BY <1>1, <1>2, <1>4, <1>5, SparesMore DEF Put
<1>7. PICK tell : tell = want'
  OBVIOUS
<1>8. /\ \A p \in Places : p # r => after[p] = owns[p] /\ tell[p] = want[p]
      /\ tell[r] = IF owns[r] = 0 THEN want[s] ELSE want[r]
  BY <1>1, <1>2, <1>3, <1>4, <1>7 DEF Put, Quiet, ClientOK
<1>9. /\ \A p \in Places : Clean(World, p) /\ Current(World, p)
      /\ \A p \in Places : owns[p] # 0 \/ p \in Statics => Tells(World, p) = want[p]
  BY DEF Telling, TextsOK, ClientTexts
<1>10. Tells(World, r) = tell[r] /\ Tells(World, s) = tell[s]
  <2>1. Tells(World, s) = want[s] /\ Tells(World, r) = StrValue(World, r)
    BY <1>3, <1>9, SlotTells
  <2>2. StrValue(World, r) = Tells(World, s)
    BY <1>3, <1>9 DEF Current
  <2> QED BY <1>3, <1>8, <1>9, <2>1, <2>2
<1>11. ASSUME NEW p \in {s, r}
       PROVE  /\ Clean(v, p) /\ Current(v, p) /\ Tells(v, p) = tell[p] /\ v.obj[p].kind # "exec"
  <2>1. PICK none : none = {} /\ Spares(World, v, none)
    BY <1>5
  <2>2. p \in Places \ none /\ World.obj[p].mcf \notin none
    BY <1>3, <1>11, <2>1
  <2>3. /\ Tells(v, p) = Tells(World, p) /\ Clean(v, p) /\ Current(v, p)
        /\ v.obj[p].kind = World.obj[p].kind
    BY <1>3, <1>9, <2>1, <2>2, Unchanged
  <2> QED BY <1>3, <1>10, <1>11, <2>3
<1>12. Closed(World, R)
  BY <1>2, <1>3, ClosedSets
<1>13. Carries(World, v, R, owns, want, after, tell)
  BY <1>2, <1>6, <1>8, <1>11, <1>12 DEF Carries, Telling
<1> QED BY <1>3, <1>5, <1>6, <1>7, <1>13, WorldParts, CarriedOver

-----------------------------------------------------------------------------
(* execute_begin.                                                          *)
LEMMA ExecuteBeginTells ==
  ASSUME Quiet, Telling, Breaking = {}, ExecuteBegin
  PROVE  Telling'
<1>1. PICK e \in Blocks(World) : \E r \in Blocks(World) \ {e} :
        /\ Becomes([McfStrRefFrom(World, r, <<>>) EXCEPT
                      !.obj[e] = [Free EXCEPT !.kind = "exec", !.rc = 1, !.mcf = r]])
        /\ Made(e, <<>>)
  BY Zenon DEF ExecuteBegin
<1>2. PICK r \in Blocks(World) \ {e} :
        /\ Becomes([McfStrRefFrom(World, r, <<>>) EXCEPT
                      !.obj[e] = [Free EXCEPT !.kind = "exec", !.rc = 1, !.mcf = r]])
        /\ Made(e, <<>>)
  BY Zenon, <1>1
<1>3. /\ e \in Objects /\ World.obj[e].kind = "none" /\ r \in Objects /\ World.obj[r].kind = "none" /\ r # e
      /\ WorldOK(World, owns) /\ e \in Places
  BY BlockFacts, PlaceTypes DEF Quiet
<1>4. PICK t : t = <<>> /\ t \in Bytestring
  BY TextsTyped
<1>5. Keeping(Dynamic("exec"), r) = [Free EXCEPT !.kind = "exec", !.rc = 1, !.mcf = r]
  BY DEF Dynamic, Free, Keeping
<1>6. PICK v : v = Starting(World, e, r)
  OBVIOUS
<1>7. Becomes(v)
  BY <1>2, <1>5, <1>6 DEF Starting, WithObject
<1>8. /\ WorldOK(v, Put(owns, e, 1)) /\ Spares(World, v, {e, r})
      /\ v.obj[e].kind = "exec" /\ v.obj[e].mcf = r
      /\ v.obj[r].kind = "ref" /\ StrValue(v, r) = BeginRt(t)
  <2>1. Starts(World, owns, e, r)
    BY <1>3 DEF Starts
  <2> QED BY <1>4, <1>6, <2>1, ExecuteBegun
<1>9. Made(e, t) /\ t \in Bytestring
  BY <1>2, <1>4
<1>10. StrValue(v, r) = t
  BY <1>8, <1>9, SlotsWhole
<1>11. r # Null
  BY <1>3, PlaceTypes
<1>12. Tells(v, e) = t /\ Clean(v, e) /\ Current(v, e)
  <2>1. Tells(v, e) = t
    BY <1>8, <1>10, <1>11, SlotTells
  <2>2. Clean(v, e)
    BY <1>8 DEF Clean, TextKinds
  <2> QED BY <1>8, <1>10, <2>1, <2>2 DEF Current
<1> QED BY <1>3, <1>7, <1>8, <1>9, <1>12, MadeTells

(* A text of one character is a text.                                      *)
LEMMA OneFilled == \A c : <<c>> # <<>>
OBVIOUS

(* A clause is added to the prefix, through a handle that is nobody else's.*)
LEMMA ExecuteAppendTells ==
  ASSUME Quiet, Telling, Breaking = {}, ExecuteAppend
  PROVE  Telling'
<1>1. PICK e \in Objects, c \in Chars :
        /\ Is(e, {"exec"}) /\ obj[e].mcf # Null
        /\ Becomes(AppendSource(World, obj[e].mcf, <<c>>))
        /\ Means(e, want[e] \o <<c>>)
  BY DEF ExecuteAppend
<1>2. PICK t : t = <<c>> /\ t \in Bytestring
  BY LettersTyped
<1>3. PICK r, u : r = obj[e].mcf /\ u = want[e] \o t
  OBVIOUS
<1>4. /\ r \in Objects /\ r \in Places /\ e \in Places /\ World.obj[r].kind = "ref" /\ WorldOK(World, owns)
      /\ World.obj[e].kind = "exec" /\ World.obj[e].mcf = r /\ r # e /\ r # Null
  <2>1. World.obj[e].kind = "exec" /\ e \in Places
    BY <1>1, IsFacts, PlaceTypes
  <2>2. r \in Objects /\ World.obj[r].kind = "ref" /\ World.obj[e].mcf = r
    BY <1>1, <1>3, <2>1, WorldFields DEF Quiet, WorldOK, GraphOK, HandlesOK
  <2> QED BY <2>1, <2>2, PlaceTypes DEF Quiet
<1>5. PICK v, R : v = AppendSource(World, r, t) /\ R = {e, r}
  OBVIOUS
<1>6. t \in Bytestring /\ t # <<>>
  <2>1. t \in Bytestring
    BY <1>2
  <2>2. t # <<>>
    BY <1>2, OneFilled
  <2> QED BY <2>1, <2>2
<1>7. WorldOK(v, owns) /\ Spares(World, v, {r})
  BY <1>4, <1>5, <1>6, RefAppend
<1>8. v.obj = World.obj /\ StrValue(v, r) = AppendRt(StrValue(World, r), t)
  BY <1>4, <1>5, <1>6, <1>7, RefAppend
<1>9. StrValue(World, r) = want[e] /\ want[e] \in Bytestring
  BY <1>1, <1>4, ToldNow, SlotTells DEF Quiet, ClientOK
<1>10. StrValue(v, r) = u
  BY <1>3, <1>6, <1>8, <1>9, SlotsWhole
<1>11. Tells(v, e) = u /\ Clean(v, e) /\ Current(v, e)
  <2>1. Tells(v, e) = u
    BY <1>4, <1>8, <1>10, SlotTells
  <2>2. Clean(v, e)
    BY <1>4, <1>8 DEF Clean, TextKinds
  <2> QED BY <1>4, <1>8, <1>10, <2>1, <2>2 DEF Current
<1>12. owns[r] = 0
  BY <1>4 DEF Telling, ClientTexts
<1>13. Clean(v, r) /\ Current(v, r) /\ r \notin Statics
  BY <1>4, <1>7, <1>8, SlotSeen, PlaceTypes
<1>14. Speaks(v, R, e, u)
  BY <1>4, <1>5, <1>8, <1>11, <1>12, <1>13 DEF Speaks
<1>15. Closed(World, R) /\ Spares(World, v, R)
  BY <1>4, <1>5, <1>7, ClosedSets, SparesMore
<1>16. Becomes(v) /\ Means(e, u)
  BY <1>1, <1>2, <1>3, <1>5
<1> QED BY <1>4, <1>7, <1>14, <1>15, <1>16, MeansTells

(* A clause fails, and the prefix is released.                             *)
LEMMA ExecuteFailTells ==
  ASSUME Quiet, Telling, ExecuteFail
  PROVE  Telling'
<1>1. PICK e \in Objects : Is(e, {"exec"}) /\ Becomes(InvalidateMcf(World, e)) /\ Means(e, <<>>)
  BY DEF ExecuteFail
<1>2. PICK t : t = <<>>
  OBVIOUS
<1>3. World.obj[e].kind = "exec" /\ e \in Places /\ WorldOK(World, owns) /\ World.obj[e] \in ObjRec
  BY <1>1, IsFacts, PlaceTypes, WorldParts DEF Quiet
<1>4. PICK v, A, R : v = InvalidateMcf(World, e) /\ A = Alone(World, owns, e) /\ R = {e} \cup A
  OBVIOUS
<1>5. /\ WorldOK(v, owns) /\ v.obj[e] = Keeping(World.obj[e], Null)
      /\ Spares(World, v, R)
      /\ \A p \in A : v.obj[p] = Free
  BY <1>3, <1>4, Invalidated
<1>6. v.obj[e].kind = "exec" /\ v.obj[e].mcf = Null
  BY <1>3, <1>5, KeepingTypes
<1>7. Tells(v, e) = t /\ Clean(v, e) /\ Current(v, e)
  BY <1>2, <1>6, SlotTells DEF Clean, Current, TextKinds
<1>8. ASSUME NEW p \in A
      PROVE  Clean(v, p) /\ Current(v, p) /\ v.obj[p].kind # "exec" /\ owns[p] = 0 /\ p \notin Statics
  <2>1. p \in Objects /\ v.obj[p].kind = "none"
    BY <1>4, <1>5, FreeTypes DEF Alone
  <2> QED BY <1>5, <2>1, GoneSeen, PlaceTypes
<1>9. Speaks(v, R, e, t)
  BY <1>3, <1>4, <1>6, <1>7, <1>8 DEF Speaks
<1>10. Closed(World, R)
  BY <1>3, <1>4, ClosedSets
<1>11. Becomes(v) /\ Means(e, t)
  BY <1>1, <1>2, <1>4
<1> QED BY <1>3, <1>5, <1>9, <1>10, <1>11, MeansTells

(* The builder is freed, with its prefix.                                  *)
LEMMA ExecuteEndTells ==
  ASSUME Quiet, Telling, ExecuteEnd
  PROVE  Telling'
<1>1. PICK e \in Objects :
        /\ Is(e, {"exec"})
        /\ Becomes([InvalidateMcf(World, e) EXCEPT !.obj[e] = Free])
        /\ owns' = [owns EXCEPT ![e] = 0]
        /\ want' = [want EXCEPT ![e] = <<>>]
  BY DEF ExecuteEnd
<1>2. /\ World.obj[e].kind = "exec" /\ World.obj[e].rc = 1 /\ owns[e] = 1
      /\ Put(owns, e, owns[e] - 1) = Put(owns, e, 0) /\ e \in Places /\ WorldOK(World, owns)
  BY <1>1, ExecuteHeld, PlaceTypes DEF Quiet
<1>3. PICK v, A, R : v = WithObject(InvalidateMcf(World, e), e, Free) /\ A = Alone(World, owns, e) /\ R = {e} \cup A
  OBVIOUS
<1>4. /\ WorldOK(v, Put(owns, e, owns[e] - 1)) /\ v.obj[e] = Free
      /\ Spares(World, v, R) /\ AllFree(v, A)
  <2>1. World.obj[e].kind \in {"string", "target", "exec"} /\ owns[e] # 0
    BY <1>2
  <2> QED BY <1>2, <1>3, <2>1, Destroyed
<1>5. Becomes(v)
  BY <1>1, <1>3 DEF WithObject
<1>6. owns' = Put(owns, e, owns[e] - 1) /\ \A p \in Places : want'[p] = want[p] \/ (p = e /\ owns[e] = 1)
  BY <1>1, <1>2 DEF Put, Quiet, ClientOK
<1>7. \A p \in R : p \in Objects /\ v.obj[p].kind = "none"
  BY <1>3, <1>4, FreeTypes DEF AllFree, Alone
<1>8. Closed(World, R)
  BY <1>2, <1>3, ClosedSets
<1>9. owns[e] # 0
  BY <1>2
<1> QED BY <1>4, <1>5, <1>6, <1>7, <1>8, <1>9, FewerTells

(* Every call of a client that no binding is working for.                  *)
LEMMA CallsTell ==
  ASSUME Quiet, Telling, Breaking = {}, ClearsOwn, FloatsStored, ClientCalls
  PROVE  Telling'
<1>1. CASE FromCString \/ FromLiteral \/ NewNbt
  BY <1>1, FromCStringTells, FromLiteralTells, NewNbtTells
<1>2. CASE Retain \/ RetainCached \/ Release
  BY <1>2, RetainTells, RetainCachedTells, ReleaseTells
<1>3. CASE Assign \/ AppendTo \/ ClearString \/ Ensure
  BY <1>3, AssignTells, AppendToTells, ClearStringTells, EnsureTells
<1>4. CASE SetInt \/ SetFloat \/ SetFromSlot
  BY <1>4, SetIntTells, SetFloatTells, SetFromSlotTells
<1>5. CASE ExecuteBegin \/ ExecuteAppend \/ ExecuteFail \/ ExecuteEnd
  BY <1>5, ExecuteBeginTells, ExecuteAppendTells, ExecuteFailTells, ExecuteEndTells
<1> QED BY <1>1, <1>2, <1>3, <1>4, <1>5 DEF ClientCalls

-----------------------------------------------------------------------------
(* A step that leaves the world and the client as they are.                *)
LEMMA StillTells ==
  ASSUME Telling, UNCHANGED <<obj, str, nbt, mem, owns, want>>
  PROVE  Telling'
<1>1. World' = World
  BY DEF World
<1> QED BY <1>1 DEF Telling

(* The handle of a binding says what is of no consequence to the client.   *)
LEMMA RequireOwnTells ==
  ASSUME RefsInv, Telling, RequireOwn
  PROVE  Telling'
<1>1. CASE UNCHANGED <<obj, str, nbt, mem, made>>
  BY <1>1, StillTells DEF RequireOwn
<1>2. ASSUME NEW r \in Blocks(World), Becomes(McfStrRefFrom(World, r, <<>>))
      PROVE  Telling'
  <2>1. r \in Objects /\ r \in Places /\ r \notin Statics /\ World.obj[r].kind = "none" /\ WorldOK(World, Holds)
    BY BlockFacts, PlaceTypes, HoldsHas
  <2>2. PICK t, v : t = <<>> /\ t \in Bytestring /\ v = McfStrRefFrom(World, r, t)
    BY TextsTyped
  <2>3. t \in Bytestring
    BY <2>2
  <2>4. WorldOK(v, Put(Holds, r, 1)) /\ Spares(World, v, {r})
    BY <2>1, <2>2, <2>3, RefFrom
  <2>5. v.obj[r].kind = "ref"
    BY <2>1, <2>2, <2>3, <2>4, RefFrom
  <2>6. Clean(v, r) /\ Current(v, r)
    BY <2>1, <2>4, <2>5, SlotSeen
  <2>7. owns[r] = 0 /\ Keeps(World.obj, r) = 0
    <3>1. Holds[r] = 0 /\ Keeps(World.obj, r) = 0
      BY <2>1, BlockIsFree
    <3> QED BY <2>1, <3>1, HoldsHas
  <2>8. Closed(World, {r})
    BY <2>1, <2>7, ClosedSets
  <2>9. PICK own, tell : own = owns /\ tell = want
    OBVIOUS
  <2>10. Carries(World, v, {r}, owns, want, own, tell)
    BY <2>1, <2>4, <2>5, <2>6, <2>7, <2>8, <2>9 DEF Carries, Telling
  <2>11. Becomes(v) /\ owns' = own /\ want' = tell
    BY <1>2, <2>2, <2>9 DEF RequireOwn
  <2> QED BY <2>1, <2>4, <2>10, <2>11, WorldParts, CarriedOver
<1> QED BY <1>1, <1>2 DEF RequireOwn

(* The handle that an object keeps from now on says what the object says.  *)
LEMMA RequireKeptTells ==
  ASSUME RefsInv, Telling, Breaking = {}, RequireKept
  PROVE  Telling'
<1>1. CASE UNCHANGED <<obj, str, nbt, mem>>
  BY <1>1, StillTells DEF RequireKept
<1>2. ASSUME NEW s \in Handed, NEW r \in Blocks(World), obj[s].mcf = Null, Becomes(EnsureMcf(World, s, r))
      PROVE  Telling'
  <2>1. /\ r \in Objects /\ r \in Places /\ World.obj[r].kind = "none" /\ WorldOK(World, Holds)
        /\ s \in Places /\ Is(s, {"string", "target"}) /\ World.obj[s].mcf = Null
    BY <1>2, BlockFacts, PlaceTypes, HoldsHas, WorldFields DEF Handed
  <2>2. owns[r] = 0
    <3>1. Holds[r] = 0
      BY <2>1, BlockIsFree
    <3> QED BY <2>1, <3>1, HoldsHas
  <2>3. ClientOK /\ UNCHANGED <<owns, want>>
    BY DEF RefsInv, RequireKept
  <2> QED BY <1>2, <2>1, <2>2, <2>3, EnsuredTells
<1> QED BY <1>1, <1>2 DEF RequireKept

(* What a binding releases is the client's only if the client holds it too.*)
LEMMA ReleaseMadeTells ==
  ASSUME RefsInv, Telling, ReleaseMade
  PROVE  Telling'
<1>1. PICK r : r = Head(made)
  OBVIOUS
<1>2. made # <<>> /\ Becomes(McfStrRefRelease(World, r)) /\ owns' = owns /\ want' = want
  BY <1>1 DEF ReleaseMade
<1>3. Among(made, r) /\ r \in Objects
  <2>1. PICK m : m = Tail(made)
    OBVIOUS
  <2>2. Queue(Objects, made, r, m)
    BY <1>1, <1>2, <2>1, HoldsHas DEF Queue
  <2> QED BY <2>2, TailAmong
<1>4. /\ r \in Places /\ World.obj[r].kind = "ref" /\ Holds[r] # 0 /\ WorldOK(World, Holds)
      /\ Holds[r] = owns[r] + 1 /\ owns[r] \in Nat
  BY <1>3, HoldsHas
<1>5. PICK v, after : v = McfStrRefRelease(World, r) /\ after = Put(Holds, r, Holds[r] - 1)
  OBVIOUS
<1>6. /\ WorldOK(v, after) /\ Spares(World, v, {r})
      /\ World.obj[r].rc # 1 => Spares(World, v, {})
      /\ World.obj[r].rc = 1 => v.obj[r] = Free
  BY <1>4, <1>5, RefRelease
<1>7. \A p \in Places : after[p] = 0 => owns[p] = 0
  <2>1. after[r] = owns[r] /\ \A p \in Places : p # r => after[p] = Holds[p]
    BY <1>4, <1>5, HoldsHas DEF Put
  <2>2. \A p \in Places : Holds[p] = 0 => owns[p] = 0
    BY HoldsHas
  <2> QED BY <2>1, <2>2
<1>8. PICK R : /\ Spares(World, v, R) /\ Closed(World, R)
               /\ \A p \in R : p \in Objects /\ v.obj[p].kind = "none"
  <2>1. CASE World.obj[r].rc # 1
    <3>1. Closed(World, {})
      BY <1>4, ClosedSets
    <3> QED BY <1>6, <2>1, <3>1
  <2>2. CASE World.obj[r].rc = 1
    <3>1. World.obj[r].rc = Holds[r] + Keeps(World.obj, r)
      BY <1>3, <1>4, WorldParts
    <3>2. Keeps(World.obj, r) = 0
      BY <1>4, <2>2, <3>1, KeepsTypes
    <3>3. Closed(World, {r}) /\ v.obj[r].kind = "none"
      BY <1>4, <1>6, <2>2, <3>2, ClosedSets, FreeTypes
    <3> QED BY <1>3, <1>6, <3>3
  <2> QED BY <2>1, <2>2
<1>9. /\ Becomes(v) /\ \A p \in Places : after[p] = 0 => owns'[p] = 0
      /\ \A p \in Places : owns'[p] # 0 => owns[p] # 0
      /\ \A p \in Places : owns'[p] # 0 \/ p \in Statics => want'[p] = want[p]
  BY <1>2, <1>5, <1>7
<1> QED BY <1>4, <1>6, <1>8, <1>9, LeavesTells

(* At first the statics say what they are for.                             *)
LEMMA InitTells ==
  ASSUME Init
  PROVE  Telling
<1>1. RefsInv /\ World.obj = obj /\ World.mem = mem
  BY InitInv, WorldFields
<1>2. mem = [l \in Literals |-> TextOf(l)] /\ owns = [p \in Places |-> 0]
  BY DEF Init
<1>3. ASSUME NEW p \in Places
      PROVE  /\ Clean(World, p) /\ Current(World, p)
             /\ World.obj[p].kind # "exec" /\ owns[p] = 0
             /\ p \in Statics => Tells(World, p) = want[p]
  <2>1. CASE p \in Objects
    <3>1. World.obj[p] = Free
      BY <1>1, <1>3, <2>1 DEF Init
    <3> QED BY <1>2, <2>1, <3>1, FreeTypes, PlaceTypes DEF Clean, Current, TextKinds
  <2>2. CASE p \in Statics
    <3>1. p \notin Objects
      BY <2>2, PlaceTypes
    <3>2. PICK c, t : t = TextOf(p) /\ c = [Free EXCEPT !.kind = "target", !.rc = -1, !.data = t]
      OBVIOUS
    <3>3. World.obj[p] = c
      BY <1>1, <1>3, <3>1, <3>2 DEF Init
    <3>4. t \in Seq(Chars) /\ want[p] = t
      BY <1>3, <2>2, <3>1, <3>2, TextsTyped DEF Init
    <3>5. c = [kind |-> "target", rc |-> -1, data |-> t, lit |-> Null, len |-> 0, mcf |-> Null, slot |-> -1]
      BY <3>2 DEF Free
    <3>6. World.obj[p].kind \in TextKinds /\ World.obj[p].lit = Null /\ World.obj[p].mcf = Null /\ World.obj[p].data = t
      BY <3>3, <3>5 DEF TextKinds
    <3>7. Clean(World, p) /\ Current(World, p) /\ Tells(World, p) = t
      BY <3>4, <3>6, OwnSeen
    <3> QED BY <1>2, <1>3, <3>4, <3>6, <3>7 DEF TextKinds
  <2> QED BY <1>3, <2>1, <2>2, PlaceTypes
<1> QED BY <1>1, <1>2, <1>3 DEF Telling, TextsOK, ClientTexts

(* The step of the second invariant.                                       *)
LEMMA NextTells ==
  ASSUME RefsInv, Telling, Breaking = {}, ClearsOwn, FloatsStored, [Next]_vars
  PROVE  Telling'
<1>1. CASE Idle /\ ClientCalls /\ UNCHANGED <<asks, made>>
  <2>1. Quiet
    BY <1>1, QuietInv DEF Idle
  <2> QED BY <1>1, <2>1, CallsTell
<1>2. CASE Idle /\ Command
  BY <1>2, StillTells DEF Command
<1>3. CASE RequireOwn \/ RequireKept \/ ReleaseMade
  BY <1>3, RequireOwnTells, RequireKeptTells, ReleaseMadeTells
<1>4. CASE UNCHANGED vars
  BY <1>4, StillTells DEF vars
<1> QED BY <1>1, <1>2, <1>3, <1>4 DEF Next

-----------------------------------------------------------------------------
(* Telling holds throughout, where no character breaks a command and the   *)
(* client is careful.                                                      *)
THEOREM TellingKept ==
  ASSUME Breaking = {}, ClearsOwn, FloatsStored
  PROVE  Spec => []Telling
<1>1. Init => Telling
  BY InitTells
<1>2. RefsInv /\ Telling /\ [Next]_vars => Telling'
  BY NextTells
<1> QED BY <1>1, <1>2, RefsInvKept, PTL DEF Spec

(* What an object says is what is told of it.                              *)
LEMMA SaysTells ==
  ASSUME NEW o
  PROVE  Says(o) = Tells(World, o)
BY Zenon, WorldFields DEF Says, Tells, StrValue, NbtValue, TextKinds

(* The invariants say that every text is kept.                             *)
LEMMA TellingTexts == RefsInv /\ Telling => TextKept
<1> SUFFICES ASSUME RefsInv, Telling, NEW o \in Places, owns[o] > 0 \/ o \in Statics
             PROVE  Says(o) = want[o]
  BY DEF TextKept
<1>1. owns[o] # 0 \/ o \in Statics
  BY DEF RefsInv, ClientOK
<1> QED BY <1>1, SaysTells DEF Telling, ClientTexts

(* The invariants say that every handle is current.                        *)
LEMMA TellingHandles == RefsInv /\ Telling => CacheCurrent
<1> SUFFICES ASSUME RefsInv, Telling, NEW s \in Places, obj[s].mcf # Null
             PROVE  obj[obj[s].mcf].kind = "ref" /\ Says(obj[s].mcf) = Says(s)
  BY DEF CacheCurrent, Caching, Live
<1>1. PICK r : r = obj[s].mcf
  OBVIOUS
<1>2. World.obj[s].mcf = r /\ World.obj[r].kind = "ref" /\ obj[r].kind = "ref"
  BY <1>1, HoldsHas, WorldFields DEF WorldOK, GraphOK, HandlesOK
<1>3. StrValue(World, r) = Tells(World, s)
  BY <1>1, <1>2 DEF Telling, TextsOK, Current
<1>4. Tells(World, r) = StrValue(World, r)
  BY <1>2, SlotTells
<1> QED BY <1>1, <1>2, <1>3, <1>4, SaysTells

(* Every object says what the calls made on it amount to, and calls on     *)
(* others have no effect on it: a handle that changes hands, a slot that   *)
(* is used again, a buffer that is copied or shared never shows.           *)
THEOREM TextsTold ==
  ASSUME Breaking = {}, ClearsOwn, FloatsStored
  PROVE  Spec => []TextKept
BY TellingKept, RefsInvKept, TellingTexts, PTL

(* The handle that an object keeps is a handle to the text it has now.     *)
THEOREM HandlesCurrent ==
  ASSUME Breaking = {}, ClearsOwn, FloatsStored
  PROVE  Spec => []CacheCurrent
BY TellingKept, RefsInvKept, TellingHandles, PTL

-----------------------------------------------------------------------------
(* Where only R says something else, the literals stay.                    *)
LEMMA SparesMem ==
  ASSUME NEW v, Becomes(v), NEW R, Spares(World, v, R)
  PROVE  mem' = mem
BY WorldFields DEF Becomes, Spares

(* Making an object, or a handle for one, writes to no literal.            *)
LEMMA MakingMem ==
  ASSUME NEW hold, WorldOK(World, hold), NEW r \in Objects, World.obj[r].kind = "none"
  PROVE  /\ \A t \in Bytestring : Becomes(McfStrRefFrom(World, r, t)) => mem' = mem
         /\ Becomes(NbtNew(World, r)) => mem' = mem
         /\ \A s \in Places : /\ World.obj[s].kind \in {"string", "target"} /\ World.obj[s].mcf = Null
                              /\ Becomes(EnsureMcf(World, s, r))
                              => mem' = mem
         /\ \A k \in TextKinds, t \in Bytestring :
              Becomes(WithObject(World, r, [Dynamic(k) EXCEPT !.data = t])) => mem' = mem
<1>1. ASSUME NEW t \in Bytestring, Becomes(McfStrRefFrom(World, r, t)) PROVE mem' = mem
  <2>1. PICK v : v = McfStrRefFrom(World, r, t)
    OBVIOUS
  <2>2. WorldOK(v, Put(hold, r, 1)) /\ Spares(World, v, {r})
    BY <2>1, RefFrom
  <2> QED BY <1>1, <2>1, <2>2, SparesMem
<1>2. ASSUME Becomes(NbtNew(World, r)) PROVE mem' = mem
  <2>1. PICK v : v = NbtNew(World, r)
    OBVIOUS
  <2>2. WorldOK(v, Put(hold, r, 1)) /\ Spares(World, v, {r})
    BY <2>1, NbtMade
  <2> QED BY <1>2, <2>1, <2>2, SparesMem
<1>3. ASSUME NEW s \in Places, World.obj[s].kind \in {"string", "target"}, World.obj[s].mcf = Null,
             Becomes(EnsureMcf(World, s, r))
      PROVE  mem' = mem
  <2>1. PICK v : v = EnsureMcf(World, s, r)
    OBVIOUS
  <2>2. WorldOK(v, hold) /\ Spares(World, v, {s, r})
    BY <1>3, <2>1, Ensured
  <2> QED BY <1>3, <2>1, <2>2, SparesMem
<1>4. ASSUME NEW k \in TextKinds, NEW t \in Bytestring,
             Becomes(WithObject(World, r, [Dynamic(k) EXCEPT !.data = t]))
      PROVE  mem' = mem
  <2>1. PICK v : v = WithObject(World, r, [Dynamic(k) EXCEPT !.data = t])
    OBVIOUS
  <2>2. WorldOK(v, Put(hold, r, 1)) /\ Spares(World, v, {r})
    BY <2>1, TextMade
  <2> QED BY <1>4, <2>1, <2>2, SparesMem
<1> QED BY <1>1, <1>2, <1>3, <1>4

(* The calls that make objects and handles.                                *)
LEMMA MakersMem ==
  ASSUME Quiet
  PROVE  FromCString \/ FromLiteral \/ NewNbt \/ Ensure \/ ExecuteBegin => mem' = mem
<1>1. WorldOK(World, owns)
  BY DEF Quiet
<1>2. ASSUME FromCString PROVE mem' = mem
  <2>1. PICK o \in Blocks(World), t \in Texts :
          \/ Becomes([World EXCEPT !.obj[o] = [Dynamic("string") EXCEPT !.data = t]])
          \/ Becomes([World EXCEPT !.obj[o] = [Dynamic("target") EXCEPT !.data = t]])
          \/ Becomes(McfStrRefFrom(World, o, t))
    BY <1>2 DEF FromCString
  <2>2. PICK k \in TextKinds :
          \/ Becomes(WithObject(World, o, [Dynamic(k) EXCEPT !.data = t]))
          \/ Becomes(McfStrRefFrom(World, o, t))
    BY <2>1 DEF WithObject, TextKinds
  <2> QED BY <1>1, <2>2, BlockFacts, TextsTyped, MakingMem
<1>3. ASSUME FromLiteral PROVE mem' = mem
  <2>1. PICK o \in Blocks(World), l \in Literals, k \in TextKinds :
          \E r \in Blocks(World) \ {o} :
            LET new == [Dynamic(k) EXCEPT !.lit = l, !.len = Len(CString(mem[l]))]
            IN Becomes(EnsureMcf([World EXCEPT !.obj[o] = new], o, r))
    BY <1>3 DEF FromLiteral, TextKinds
  <2>2. PICK r \in Blocks(World) \ {o} :
          LET new == [Dynamic(k) EXCEPT !.lit = l, !.len = Len(CString(mem[l]))]
          IN Becomes(EnsureMcf([World EXCEPT !.obj[o] = new], o, r))
    BY <2>1
  <2>3. PICK v : v = Taking(World, o, k, l, r)
    OBVIOUS
  <2>4. Becomes(v)
    BY <2>2, <2>3, WorldFields DEF WithObject, Borrowing, Taking
  <2>5. Takes(World, owns, o, k, l, r)
    BY <1>1, BlockFacts DEF Takes
  <2>6. WorldOK(v, Put(owns, o, 1)) /\ Spares(World, v, {o, r})
    BY <2>3, <2>5, LiteralTaken
  <2> QED BY <2>4, <2>6, SparesMem
<1>4. ASSUME NewNbt PROVE mem' = mem
  <2>1. PICK n \in Blocks(World) : Becomes(NbtNew(World, n))
    BY <1>4 DEF NewNbt
  <2> QED BY <1>1, <2>1, BlockFacts, MakingMem
<1>5. ASSUME Ensure PROVE mem' = mem
  <2>1. PICK s \in Places, r \in Blocks(World) :
          Is(s, {"string", "target"}) /\ obj[s].mcf = Null /\ Becomes(EnsureMcf(World, s, r))
    BY <1>5 DEF Ensure
  <2> QED BY <1>1, <2>1, BlockFacts, WorldFields, MakingMem DEF Is
<1>6. ASSUME ExecuteBegin PROVE mem' = mem
  <2>1. PICK e \in Blocks(World) : \E r \in Blocks(World) \ {e} :
          Becomes([McfStrRefFrom(World, r, <<>>) EXCEPT
                     !.obj[e] = [Free EXCEPT !.kind = "exec", !.rc = 1, !.mcf = r]])
    BY Zenon, <1>6 DEF ExecuteBegin
  <2>2. PICK r \in Blocks(World) \ {e} :
          Becomes([McfStrRefFrom(World, r, <<>>) EXCEPT
                     !.obj[e] = [Free EXCEPT !.kind = "exec", !.rc = 1, !.mcf = r]])
    BY Zenon, <2>1
  <2>3. PICK v : v = Starting(World, e, r)
    OBVIOUS
  <2>4. Keeping(Dynamic("exec"), r) = [Free EXCEPT !.kind = "exec", !.rc = 1, !.mcf = r]
    BY DEF Dynamic, Free, Keeping
  <2>5. Becomes(v)
    BY <2>2, <2>3, <2>4 DEF Starting, WithObject
  <2>6. Starts(World, owns, e, r)
    BY <1>1, BlockFacts DEF Starts
  <2>7. WorldOK(v, Put(owns, e, 1)) /\ Spares(World, v, {e, r})
    BY <2>3, <2>6, ExecuteBegun
  <2> QED BY <2>5, <2>7, SparesMem
<1> QED BY <1>2, <1>3, <1>4, <1>5, <1>6

(* Writing to a handle or a value writes to no literal.                    *)
LEMMA SettingMem ==
  ASSUME Quiet, NEW o \in Places, NEW t \in Bytestring
  PROVE  /\ World.obj[o].kind = "ref" /\ Becomes(AssignSource(World, o, t)) => mem' = mem
         /\ World.obj[o].kind = "ref" /\ Becomes(AppendSource(World, o, t)) => mem' = mem
         /\ World.obj[o].kind = "nbt" /\ Becomes(NbtSet(World, o, t)) => mem' = mem
<1>1. WorldOK(World, owns)
  BY DEF Quiet
<1>2. ASSUME World.obj[o].kind = "ref", Becomes(AssignSource(World, o, t)) PROVE mem' = mem
  <2>1. PICK v : v = AssignSource(World, o, t)
    OBVIOUS
  <2>2. WorldOK(v, owns) /\ Spares(World, v, {o})
    BY <1>1, <1>2, <2>1, RefAssign
  <2> QED BY <1>2, <2>1, <2>2, SparesMem
<1>3. ASSUME World.obj[o].kind = "ref", Becomes(AppendSource(World, o, t)) PROVE mem' = mem
  <2>1. PICK v : v = AppendSource(World, o, t)
    OBVIOUS
  <2>2. WorldOK(v, owns) /\ Spares(World, v, {o})
    BY <1>1, <1>3, <2>1, RefAppend
  <2> QED BY <1>3, <2>1, <2>2, SparesMem
<1>4. ASSUME World.obj[o].kind = "nbt", Becomes(NbtSet(World, o, t)) PROVE mem' = mem
  <2>1. PICK v : v = NbtSet(World, o, t)
    OBVIOUS
  <2>2. WorldOK(v, owns) /\ Spares(World, v, {o})
    BY <1>1, <1>4, <2>1, NbtText
  <2> QED BY <1>4, <2>1, <2>2, SparesMem
<1> QED BY <1>2, <1>3, <1>4

(* A String copies what it borrows before it writes.                       *)
LEMMA StringsMem ==
  ASSUME Quiet
  PROVE  /\ Assign \/ AppendTo => mem' = mem
         /\ ClearsOwn /\ ClearString => mem' = mem
<1>1. WorldOK(World, owns)
  BY DEF Quiet
<1>2. ASSUME Assign PROVE mem' = mem
  <2>1. PICK o \in Objects, t \in Texts :
          \/ Is(o, {"string"}) /\ Becomes(AssignCString(World, o, t))
          \/ Writable(o) /\ Becomes(AssignSource(World, o, t))
    BY <1>2 DEF Assign
  <2>2. t \in Bytestring /\ o \in Places
    BY TextsTyped, PlaceTypes
  <2>3. CASE Is(o, {"string"}) /\ Becomes(AssignCString(World, o, t))
    <3>1. PICK v : v = AssignCString(World, o, t)
      OBVIOUS
    <3>2. World.obj[o].kind = "string" /\ Becomes(v)
      BY <2>3, <3>1, IsFacts
    <3>3. WorldOK(v, owns) /\ Spares(World, v, {o} \cup Alone(World, owns, o))
      BY <1>1, <2>2, <3>1, <3>2, Assigned
    <3> QED BY <3>2, <3>3, SparesMem
  <2>4. CASE Writable(o) /\ Becomes(AssignSource(World, o, t))
    BY <2>2, <2>4, IsFacts, SettingMem DEF Writable
  <2> QED BY <2>1, <2>3, <2>4
<1>3. ASSUME AppendTo PROVE mem' = mem
  <2>1. PICK o \in Objects, t \in Texts \ {<<>>} :
          \/ Is(o, {"string"}) /\ Becomes(AppendCString(World, o, t))
          \/ Writable(o) /\ Becomes(AppendSource(World, o, t))
    BY <1>3 DEF AppendTo
  <2>2. t \in Bytestring /\ o \in Places
    BY TextsTyped, PlaceTypes
  <2>3. CASE Is(o, {"string"}) /\ Becomes(AppendCString(World, o, t))
    <3>1. PICK v : v = AppendCString(World, o, t)
      OBVIOUS
    <3>2. World.obj[o].kind = "string" /\ Becomes(v)
      BY <2>3, <3>1, IsFacts
    <3>3. WorldOK(v, owns) /\ Rewrote(World, v, o, Buffer(World, o) \o t)
          /\ Spares(World, v, {o} \cup Alone(World, owns, o))
      BY <1>1, <2>1, <2>2, <3>1, <3>2, Appended
    <3> QED BY <3>2, <3>3, SparesMem
  <2>4. CASE Writable(o) /\ Becomes(AppendSource(World, o, t))
    BY <2>2, <2>4, IsFacts, SettingMem DEF Writable
  <2> QED BY <2>1, <2>3, <2>4
<1>4. ASSUME ClearsOwn, ClearString PROVE mem' = mem
  <2>1. PICK s \in Objects : Is(s, {"string"}) /\ obj[s].lit = Null /\ Becomes(StringClear(World, s))
    BY Zenon, <1>4 DEF ClearString, ClearsOwn
  <2>2. World.obj[s].kind = "string" /\ s \in Places /\ World.obj[s].lit = Null
    BY <2>1, IsFacts, PlaceTypes, WorldFields
  <2>3. PICK v : v = StringClear(World, s)
    OBVIOUS
  <2>4. PICK t : t = <<>>
    OBVIOUS
  <2>5. WorldOK(v, owns) /\ Rewrote(World, v, s, t) /\ Spares(World, v, {s} \cup Alone(World, owns, s))
    BY <1>1, <2>2, <2>3, <2>4, Cleared
  <2>6. Becomes(v)
    BY <2>1, <2>3
  <2> QED BY <2>5, <2>6, SparesMem
<1> QED BY <1>2, <1>3, <1>4

(* Values and builders write to slots only.                                *)
LEMMA ValuesMem ==
  ASSUME Quiet
  PROVE  SetInt \/ SetFloat \/ SetFromSlot \/ ExecuteAppend => mem' = mem
<1>1. WorldOK(World, owns)
  BY DEF Quiet
<1>2. ASSUME SetInt PROVE mem' = mem
  <2>1. PICK n \in Objects, c \in Chars : Is(n, {"nbt"}) /\ Becomes(NbtSet(World, n, <<c>>))
    BY <1>2 DEF SetInt
  <2>2. PICK t : t = <<c>> /\ t \in Bytestring
    BY LettersTyped
  <2>3. t \in Bytestring /\ n \in Places /\ World.obj[n].kind = "nbt"
    BY <2>1, <2>2, IsFacts, PlaceTypes
  <2>4. Becomes(NbtSet(World, n, t))
    BY <2>1, <2>2
  <2> QED BY <2>3, <2>4, SettingMem
<1>3. ASSUME SetFloat PROVE mem' = mem
  <2>1. PICK n \in Objects :
          /\ Is(n, {"nbt"})
          /\ \E t \in Texts, r \in Blocks(World) \cup {Null} : Becomes(NbtSetFloatStr(World, n, t, r))
    BY <1>3 DEF SetFloat
  <2>2. PICK t \in Texts, r \in Blocks(World) \cup {Null} : Becomes(NbtSetFloatStr(World, n, t, r))
    BY <2>1
  <2>3. PICK v : v = NbtSetFloatStr(World, n, t, r)
    OBVIOUS
  <2>4. n \in Places /\ World.obj[n].kind = "nbt" /\ t \in Bytestring /\ Becomes(v)
    BY <2>1, <2>2, <2>3, IsFacts, PlaceTypes, TextsTyped
  <2>5. CASE r = Null
    <3>1. WorldOK(v, owns) /\ Spares(World, v, {n})
      BY <1>1, <2>3, <2>4, <2>5, FloatLost
    <3> QED BY <2>4, <3>1, SparesMem
  <2>6. CASE r \in Blocks(World)
    <3>1. WorldOK(v, owns) /\ Spares(World, v, {n, r})
      BY <1>1, <2>3, <2>4, <2>6, BlockFacts, FloatSet
    <3> QED BY <2>4, <3>1, SparesMem
  <2> QED BY <2>5, <2>6
<1>4. ASSUME SetFromSlot PROVE mem' = mem
  <2>1. PICK n \in Objects, src \in Objects :
          /\ Is(n, {"nbt"}) /\ Is(src, {"nbt"})
          /\ Becomes(NbtSet(World, n, Slot(nbt, obj[src].slot).value))
    BY <1>4 DEF SetFromSlot
  <2>2. World.obj[n].kind = "nbt" /\ n \in Places /\ World.obj[src].kind = "nbt" /\ src \in Places
    BY <2>1, IsFacts, PlaceTypes
  <2>3. Slot(nbt, obj[src].slot).value \in Bytestring
    BY <1>1, <2>2, NbtFacts, WorldFields
  <2> QED BY <2>1, <2>2, <2>3, SettingMem
<1>5. ASSUME ExecuteAppend PROVE mem' = mem
  <2>1. PICK e \in Objects, c \in Chars : obj[e].mcf # Null /\ Becomes(AppendSource(World, obj[e].mcf, <<c>>))
    BY <1>5 DEF ExecuteAppend
  <2>2. PICK t : t = <<c>> /\ t \in Bytestring
    BY LettersTyped
  <2>3. PICK r : r = obj[e].mcf
    OBVIOUS
  <2>4. r \in Places /\ World.obj[r].kind = "ref" /\ t \in Bytestring
    BY <1>1, <2>1, <2>2, <2>3, WorldFields, PlaceTypes DEF WorldOK, GraphOK, HandlesOK
  <2>5. Becomes(AppendSource(World, r, t))
    BY <2>1, <2>2, <2>3
  <2> QED BY <2>4, <2>5, SettingMem
<1> QED BY <1>2, <1>3, <1>4, <1>5

(* Counting and freeing write to no literal.                               *)
LEMMA CountingMem ==
  ASSUME Quiet
  PROVE  Retain \/ RetainCached \/ Release \/ ExecuteFail \/ ExecuteEnd => mem' = mem
<1>1. WorldOK(World, owns)
  BY DEF Quiet
<1>2. ASSUME Retain PROVE mem' = mem
  <2>1. PICK o \in Objects :
          /\ Is(o, {"string", "target", "ref", "nbt"})
          /\ CASE obj[o].kind = "ref" -> Becomes(McfStrRefRetain(World, o))
               [] obj[o].kind = "nbt" -> Becomes(NbtRetain(World, o))
               [] OTHER -> Becomes([World EXCEPT !.obj[o].rc = @ + 1])
    BY <1>2 DEF Retain
  <2>2. obj[o].kind \in {"string", "target", "ref", "nbt"} /\ World.obj[o].kind = obj[o].kind /\ o \in Places
    BY <2>1, IsFacts, WorldFields
  <2>3. PICK v : Becomes(v) /\ WorldOK(v, Put(owns, o, owns[o] + 1)) /\ Spares(World, v, {})
    <3>1. CASE obj[o].kind = "ref"
      BY <1>1, <2>1, <2>2, <3>1, RefRetain
    <3>2. CASE obj[o].kind = "nbt"
      BY <1>1, <2>1, <2>2, <3>2, NbtRetained
    <3>3. CASE obj[o].kind \in {"string", "target"}
      BY <1>1, <2>1, <2>2, <3>3, TextRetained
    <3> QED BY <2>2, <3>1, <3>2, <3>3
  <2> QED BY <2>3, SparesMem
<1>3. ASSUME RetainCached PROVE mem' = mem
  <2>1. PICK s \in Places : obj[s].mcf # Null /\ Becomes(McfStrRefRetain(World, obj[s].mcf))
    BY <1>3 DEF RetainCached
  <2>2. PICK r, v : r = obj[s].mcf /\ v = McfStrRefRetain(World, r)
    OBVIOUS
  <2>3. r \in Places /\ World.obj[r].kind = "ref"
    BY <1>1, <2>1, <2>2, WorldFields, PlaceTypes DEF WorldOK, GraphOK, HandlesOK
  <2>4. WorldOK(v, Put(owns, r, owns[r] + 1)) /\ Spares(World, v, {})
    BY <1>1, <2>2, <2>3, RefRetain
  <2> QED BY <2>1, <2>2, <2>4, SparesMem
<1>4. ASSUME Release PROVE mem' = mem
  <2>1. PICK o \in Places :
          /\ Is(o, {"string", "target", "ref", "nbt"})
          /\ CASE obj[o].kind = "ref" -> Becomes(McfStrRefRelease(World, o))
               [] obj[o].kind = "nbt" -> Becomes(NbtRelease(World, o))
               [] OTHER -> Becomes(TextRelease(World, o))
    BY <1>4 DEF Release
  <2>2. /\ obj[o].kind \in {"string", "target", "ref", "nbt"} /\ World.obj[o].kind = obj[o].kind
        /\ o \in Objects => owns[o] # 0
    BY <2>1, IsFacts, WorldFields
  <2>3. CASE o \in Statics
    <3>1. Shape(o, World.obj[o])
      BY <1>1, WorldParts
    <3>2. World.obj[o].kind = "target" /\ World.obj[o].rc = -1
      BY <2>3, <3>1 DEF Shape
    <3>3. TextRelease(World, o) = World
      BY <3>2 DEF TextRelease
    <3>4. Becomes(World)
      BY <2>1, <2>2, <3>2, <3>3
    <3> QED BY <3>4, WorldFields DEF Becomes
  <2>4. CASE o \in Objects
    <3>1. PICK v, R : Becomes(v) /\ WorldOK(v, Put(owns, o, owns[o] - 1)) /\ Spares(World, v, R)
      <4>1. CASE obj[o].kind = "ref"
        BY <1>1, <2>1, <2>2, <2>4, <4>1, RefRelease
      <4>2. CASE obj[o].kind = "nbt"
        BY <1>1, <2>1, <2>2, <2>4, <4>2, NbtReleased
      <4>3. CASE obj[o].kind \in {"string", "target"}
        BY <1>1, <2>1, <2>2, <2>4, <4>3, TextReleased
      <4> QED BY <2>2, <4>1, <4>2, <4>3
    <3> QED BY <3>1, SparesMem
  <2> QED BY <2>3, <2>4 DEF Places
<1>5. ASSUME ExecuteFail PROVE mem' = mem
  <2>1. PICK e \in Objects : Is(e, {"exec"}) /\ Becomes(InvalidateMcf(World, e))
    BY <1>5 DEF ExecuteFail
  <2>2. PICK v : v = InvalidateMcf(World, e)
    OBVIOUS
  <2>3. World.obj[e].kind \in {"string", "target", "exec"} /\ e \in Places
    BY <2>1, IsFacts, PlaceTypes
  <2>4. WorldOK(v, owns) /\ Spares(World, v, {e} \cup Alone(World, owns, e))
    BY <1>1, <2>2, <2>3, Invalidated
  <2> QED BY <2>1, <2>2, <2>4, SparesMem
<1>6. ASSUME ExecuteEnd PROVE mem' = mem
  <2>1. PICK e \in Objects : Is(e, {"exec"}) /\ Becomes([InvalidateMcf(World, e) EXCEPT !.obj[e] = Free])
    BY <1>6 DEF ExecuteEnd
  <2>2. PICK v : v = WithObject(InvalidateMcf(World, e), e, Free)
    OBVIOUS
  <2>3. World.obj[e].kind \in {"string", "target", "exec"} /\ World.obj[e].rc = 1 /\ owns[e] # 0 /\ e \in Places
    BY <2>1, ExecuteHeld, PlaceTypes
  <2>4. WorldOK(v, Put(owns, e, owns[e] - 1)) /\ Spares(World, v, {e} \cup Alone(World, owns, e))
    BY <1>1, <2>2, <2>3, Destroyed
  <2>5. Becomes(v)
    BY <2>1, <2>2 DEF WithObject
  <2> QED BY <2>4, <2>5, SparesMem
<1> QED BY <1>2, <1>3, <1>4, <1>5, <1>6

(* No call and no command writes to a literal.                             *)
LEMMA NextMem ==
  ASSUME RefsInv, ClearsOwn, [Next]_vars
  PROVE  mem' = mem
<1>1. CASE Idle /\ ClientCalls /\ UNCHANGED <<asks, made>>
  <2>1. Quiet
    BY <1>1, QuietInv DEF Idle
  <2> QED BY <1>1, <2>1, MakersMem, StringsMem, ValuesMem, CountingMem DEF ClientCalls
<1>2. CASE (Idle /\ Command) \/ UNCHANGED vars
  BY <1>2 DEF Command, vars
<1>3. CASE RequireOwn
  <2>1. PICK t : t = <<>> /\ t \in Bytestring
    BY TextsTyped
  <2>2. UNCHANGED mem \/ \E r \in Blocks(World) : Becomes(McfStrRefFrom(World, r, t))
    BY <1>3, <2>1 DEF RequireOwn
  <2>3. t \in Bytestring
    BY <2>1
  <2> QED BY <2>2, <2>3, HoldsHas, BlockFacts, MakingMem
<1>4. CASE RequireKept
  <2>1. \/ UNCHANGED mem
        \/ \E s \in Handed, r \in Blocks(World) : obj[s].mcf = Null /\ Becomes(EnsureMcf(World, s, r))
    BY <1>4 DEF RequireKept
  <2>2. \A s \in Handed : s \in Places /\ World.obj[s].kind \in {"string", "target"}
    BY WorldFields DEF Handed, Is
  <2> QED BY <2>1, <2>2, HoldsHas, BlockFacts, WorldFields, MakingMem
<1>5. CASE ReleaseMade
  <2>1. PICK r, m, v : r = Head(made) /\ m = Tail(made) /\ v = McfStrRefRelease(World, r)
    OBVIOUS
  <2>2. made # <<>> /\ Becomes(v)
    BY <1>5, <2>1 DEF ReleaseMade
  <2>3. Queue(Objects, made, r, m)
    BY <2>1, <2>2, HoldsHas DEF Queue
  <2>4. r \in Places /\ World.obj[r].kind = "ref" /\ Holds[r] # 0 /\ WorldOK(World, Holds)
    BY <2>3, TailAmong, HoldsHas
  <2>5. WorldOK(v, Put(Holds, r, Holds[r] - 1)) /\ Spares(World, v, {r})
    BY <2>1, <2>4, RefRelease
  <2> QED BY <2>2, <2>5, SparesMem
<1> QED BY <1>1, <1>2, <1>3, <1>4, <1>5 DEF Next

(* The data that a String borrows is never written to.                     *)
THEOREM LiteralsUntouched ==
  ASSUME ClearsOwn
  PROVE  Spec => []LiteralsKept
<1>1. Init => LiteralsKept
  BY DEF Init, LiteralsKept
<1>2. RefsInv /\ LiteralsKept /\ [Next]_vars => LiteralsKept'
  BY NextMem DEF LiteralsKept
<1> QED BY <1>1, <1>2, RefsInvKept, PTL DEF Spec
=============================================================================
