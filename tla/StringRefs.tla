----------------------------- MODULE StringRefs -----------------------------
(***************************************************************************)
(* The reference-counted objects of libmc: McfStrRef, a handle to a string *)
(* slot of the game; String and Target, texts in memory that keep a handle *)
(* to the same text once a command has needed it; Nbt, a handle to a slot  *)
(* of values.  A client calls the functions of the headers, as often as it *)
(* likes, on what it owns.                                                 *)
(*                                                                         *)
(* Operators named for C functions map a world, that is the objects, both  *)
(* slot heaps and the string literals, to the one after the call.          *)
(***************************************************************************)
EXTENDS SlotHeap, CommandBindings, FiniteSets

CONSTANTS
  Objects,    \* blocks of memory that malloc hands out for objects
  Statics,    \* TARGET_*, blocks and entity types: never freed
  Literals,   \* string literals of the program
  TextOf(_),  \* what a literal or a static target says
  Chars,      \* characters, as sequences of which texts are written
  Breaking,   \* those that a quoted macro argument does not survive: ' and \
  Nul,        \* the terminator of C
  Null,
  MaxLen,     \* bound: length of a text
  MaxArgs,    \* bound: handles that a command asks for
  MaxRefs,    \* bound: references the client holds at one time
  Left        \* calls the client does not make, see Clear and SetFloatStr

ASSUME ObjectsAssumption ==
  Objects \cap Statics = {} /\ Null \notin Objects \cup Statics \cup Literals
ASSUME CharsAssumption == Nul \notin Chars /\ Breaking \subseteq Chars /\ "f" \notin Chars
ASSUME TextsAssumption ==
  MaxLen \in Nat /\ \A l \in Literals \cup Statics : TextOf(l) \in Seq(Chars) /\ Len(TextOf(l)) <= MaxLen
ASSUME LeftAssumption == Left \subseteq {"clear literal", "float without memory"}

VARIABLES
  obj,        \* what is in each block
  str,        \* the slot heap mcstr
  nbt,        \* the slot heap nbt
  mem,        \* the bytes of the literals
  asks,       \* of the binding at work: the handles it has still to ask for
  made,       \* those it has made, to be released in this order
  owns,       \* references the client has to release
  want        \* history: what each object should say

vars == <<obj, str, nbt, mem, asks, made, owns, want>>

(* No binding is at work.                                                  *)
Idle == asks = <<>> /\ made = <<>>

-----------------------------------------------------------------------------
Places == Objects \cup Statics

Kinds == {"none", "ref", "string", "target", "nbt", "exec"}

Texts == UNION {[1..n -> Chars] : n \in 0..MaxLen}

(* One record for all kinds: refcnt; the object's own bytes or the literal *)
(* whose first len bytes it borrows; the cached handle; the slot.          *)
Free ==
  [kind |-> "none", rc |-> 0, data |-> <<>>, lit |-> Null, len |-> 0, mcf |-> Null, slot |-> -1]

(* MC_REF_INIT_DYNAMIC                                                      *)
Dynamic(kind) == [Free EXCEPT !.kind = kind, !.rc = 1]

World == [obj |-> obj, str |-> str, nbt |-> nbt, mem |-> mem]

Becomes(w) == obj' = w.obj /\ str' = w.str /\ nbt' = w.nbt /\ mem' = w.mem

Blocks(w) == {o \in Objects : w.obj[o].kind = "none"}

Is(o, kinds) == obj[o].kind \in kinds /\ (owns[o] > 0 \/ o \in Statics)

(* What the client may hand to a function that wants a text.              *)
Handed == {s \in Places : Is(s, {"string", "target"})}

(* The bytes a C string function sees.                                     *)
UpToNul(b) == SubSeq(b, 1, (CHOOSE k \in DOMAIN b : b[k] = Nul /\ \A j \in 1..(k - 1) : b[j] # Nul) - 1)

CString(b) == IF \E k \in DOMAIN b : b[k] = Nul THEN UpToNul(b) ELSE b

Bytes(w, s) == IF w.obj[s].lit = Null THEN w.obj[s].data ELSE w.mem[w.obj[s].lit]

CStr(w, s) == CString(Bytes(w, s))

Plain(t) == \A k \in DOMAIN t : t[k] \notin Breaking

(* merge_string: a command that the characters have broken does not run.   *)
Merged(scratch, c) == IF Plain(Append(scratch, c)) THEN Append(scratch, c) ELSE scratch

(* Once for each character of src.                                         *)
AppendRt(scratch, src) ==
  LET after[n \in 0..Len(src)] == IF n = 0 THEN scratch ELSE Merged(after[n - 1], src[n])
  IN after[Len(src)]

BeginRt(src) == IF src = <<>> THEN <<>> ELSE AppendRt(SubSeq(src, 1, 1), Tail(src))

-----------------------------------------------------------------------------
(***************************************************************************)
(* McfStrRef                                                               *)
(***************************************************************************)
(* AssignSource on a handle that has a slot.                               *)
AssignSource(w, r, src) ==
  LET id == w.obj[r].slot
  IN [w EXCEPT !.str = SetRefcnt(SetValue(@, id, BeginRt(src)), id, w.obj[r].rc)]

AppendSource(w, r, src) ==
  LET id == w.obj[r].slot
  IN IF src = <<>> THEN w
     ELSE [w EXCEPT !.str = SetRefcnt(SetValue(@, id, AppendRt(Slot(@, id).value, src)), id,
                                      w.obj[r].rc)]

McfStrRefFrom(w, r, src) ==
  LET a == Alloc(w.str)
      fresh == [w EXCEPT !.obj[r] = [Dynamic("ref") EXCEPT !.slot = a.id], !.str = a.h]
  IN AssignSource(fresh, r, src)

McfStrRefRetain(w, r) ==
  LET n == w.obj[r].rc + 1
  IN [w EXCEPT !.obj[r].rc = n, !.str = SetRefcnt(@, w.obj[r].slot, n)]

(* Variant: the slot is not given back.                                    *)
DestroyRefLeaks(w, r) == [w EXCEPT !.obj[r] = Free]

DestroyRef(w, r) == [w EXCEPT !.obj[r] = Free, !.str = FreeSlot(@, w.obj[r].slot)]

McfStrRefRelease(w, r) ==
  CASE r = Null -> w
    [] r # Null /\ w.obj[r].rc = 1 -> DestroyRef(w, r)
    [] OTHER ->
         [w EXCEPT !.obj[r].rc = @ - 1, !.str = SetRefcnt(@, w.obj[r].slot, w.obj[r].rc - 1)]

-----------------------------------------------------------------------------
(***************************************************************************)
(* String and Target                                                       *)
(***************************************************************************)
(* Variant: the handle is dropped and its slot stays.                      *)
KeepsMcf(w, s) == w

InvalidateMcf(w, s) == [McfStrRefRelease(w, w.obj[s].mcf) EXCEPT !.obj[s].mcf = Null]

OwnCopy(w, s) ==
  [w EXCEPT !.obj[s].data = SubSeq(w.mem[w.obj[s].lit], 1, w.obj[s].len), !.obj[s].lit = Null]

(* Variant: what fits where the text is now is written there.              *)
EnsureCapacityInPlace(w, s, n) ==
  IF w.obj[s].lit = Null \/ w.obj[s].len >= n THEN w ELSE OwnCopy(w, s)

(* A borrowed literal is copied before it is written to; an own buffer may *)
(* move, with what is in it.                                               *)
EnsureCapacity(w, s, n) == IF w.obj[s].lit = Null THEN w ELSE OwnCopy(w, s)

(* t and its terminator, written over b.                                   *)
Over(b, t) == t \o (IF Len(t) < Len(b) THEN <<Nul>> ELSE <<>>) \o SubSeq(b, Len(t) + 2, Len(b))

Write(w, s, t) ==
  LET l == w.obj[s].lit
  IN IF l = Null THEN [w EXCEPT !.obj[s].data = t]
     ELSE [w EXCEPT !.obj[s].len = Len(t), !.mem[l] = Over(@, t)]

AssignCString(w, s, src) == Write(InvalidateMcf(EnsureCapacity(w, s, Len(src)), s), s, src)

AppendCString(w, s, suffix) ==
  LET v == EnsureCapacity(w, s, Len(Bytes(w, s) \o suffix))
  IN IF suffix = <<>> THEN w ELSE Write(InvalidateMcf(v, s), s, Bytes(v, s) \o suffix)

(* Without EnsureCapacity: what is written to may be the literal.          *)
StringClear(w, s) == Write(InvalidateMcf(w, s), s, <<>>)

(* EnsureMcfStrRef, Target_EnsureMcf: r is the block for a handle, if one  *)
(* is needed.                                                              *)
EnsureMcf(w, s, r) ==
  IF w.obj[s].mcf # Null THEN w
  ELSE [McfStrRefFrom(w, r, CStr(w, s)) EXCEPT !.obj[s].mcf = r]

(* Variant: targets that are never freed are counted like others.          *)
TextReleaseCounts(w, s) ==
  IF w.obj[s].rc = 1 THEN [InvalidateMcf(w, s) EXCEPT !.obj[s] = Free]
  ELSE [w EXCEPT !.obj[s].rc = @ - 1]

(* McRef_Release, with _String_Destroy and _Target_Destroy.                *)
TextRelease(w, s) ==
  CASE w.obj[s].rc < 0 -> w
    [] w.obj[s].rc = 1 -> [InvalidateMcf(w, s) EXCEPT !.obj[s] = Free]
    [] OTHER -> [w EXCEPT !.obj[s].rc = @ - 1]

-----------------------------------------------------------------------------
(***************************************************************************)
(* Nbt                                                                     *)
(***************************************************************************)
NbtNew(w, n) ==
  LET a == Alloc(w.nbt)
  IN [w EXCEPT !.obj[n] = [Dynamic("nbt") EXCEPT !.slot = a.id], !.nbt = SetRefcnt(a.h, a.id, 1)]

NbtRetain(w, n) ==
  LET rc == w.obj[n].rc + 1
  IN [w EXCEPT !.obj[n].rc = rc, !.nbt = SetRefcnt(@, w.obj[n].slot, rc)]

NbtRelease(w, n) ==
  IF w.obj[n].rc = 1
  THEN [w EXCEPT !.obj[n] = Free, !.nbt = FreeSlot(@, w.obj[n].slot)]
  ELSE [w EXCEPT !.obj[n].rc = @ - 1, !.nbt = SetRefcnt(@, w.obj[n].slot, w.obj[n].rc - 1)]

NbtSet(w, n, v) == [w EXCEPT !.nbt = SetValue(@, w.obj[n].slot, v)]

(* A handle r to the digits and an "f", whose slot is read.  Without       *)
(* memory the handle is NULL, its slot -1, and -1 names the last one.      *)
NbtSetFloatStr(w, n, digits, r) ==
  IF r = Null THEN NbtSet(w, n, LastValue(w.str, <<"-1">>))
  ELSE LET v == AppendSource(McfStrRefFrom(w, r, digits), r, <<"f">>)
       IN McfStrRefRelease(NbtSet(v, n, Slot(v.str, v.obj[r].slot).value), r)

-----------------------------------------------------------------------------
(***************************************************************************)
(* The client's calls                                                      *)
(***************************************************************************)
Init ==
  /\ obj = [p \in Places |->
              IF p \in Objects THEN Free
              ELSE [Free EXCEPT !.kind = "target", !.rc = -1, !.data = TextOf(p)]]
  /\ str = EmptyHeap
  /\ nbt = EmptyHeap
  /\ mem = [l \in Literals |-> TextOf(l)]
  /\ asks = <<>> /\ made = <<>>
  /\ owns = [p \in Places |-> 0]
  /\ want = [p \in Places |-> IF p \in Objects THEN <<>> ELSE TextOf(p)]

Owned == FoldFunction(+, 0, owns)

(* A new object o, owned by the client and meant to say t.                 *)
Made(o, t) ==
  /\ Owned < MaxRefs
  /\ owns' = [owns EXCEPT ![o] = 1]
  /\ want' = [want EXCEPT ![o] = t]

Means(o, t) == want' = [want EXCEPT ![o] = t] /\ UNCHANGED owns

FromCString ==
  \E o \in Blocks(World), t \in Texts :
    /\ \/ Becomes([World EXCEPT !.obj[o] = [Dynamic("string") EXCEPT !.data = t]])
       \/ t # <<>> /\ Becomes([World EXCEPT !.obj[o] = [Dynamic("target") EXCEPT !.data = t]])
       \/ Becomes(McfStrRefFrom(World, o, t))
    /\ Made(o, t)

(* The handle is made at once.                                             *)
FromLiteral ==
  \E o \in Blocks(World), l \in Literals, kind \in {"string", "target"} :
    \E r \in Blocks(World) \ {o} :
      /\ kind = "target" => CString(mem[l]) # <<>>
      /\ LET new == [Dynamic(kind) EXCEPT !.lit = l, !.len = Len(CString(mem[l]))]
         IN Becomes(EnsureMcf([World EXCEPT !.obj[o] = new], o, r))
      /\ Made(o, TextOf(l))

NewNbt == \E n \in Blocks(World) : Becomes(NbtNew(World, n)) /\ Made(n, <<>>)

Retain ==
  \E o \in Objects :
    /\ Is(o, {"string", "target", "ref", "nbt"})
    /\ Owned < MaxRefs
    /\ CASE obj[o].kind = "ref" -> Becomes(McfStrRefRetain(World, o))
         [] obj[o].kind = "nbt" -> Becomes(NbtRetain(World, o))
         [] OTHER -> Becomes([World EXCEPT !.obj[o].rc = @ + 1])
    /\ owns' = [owns EXCEPT ![o] = @ + 1]
    /\ UNCHANGED want

(* String_GetMcfStrRef, and the client keeps the handle for itself.        *)
RetainCached ==
  \E s \in Places :
    LET r == obj[s].mcf
    IN /\ Is(s, {"string", "target"})
       /\ r # Null
       /\ Owned < MaxRefs
       /\ Becomes(McfStrRefRetain(World, r))
       /\ owns' = [owns EXCEPT ![r] = @ + 1]
       /\ want' = IF owns[r] = 0 THEN [want EXCEPT ![r] = want[s]] ELSE want

Release ==
  \E o \in Places :
    /\ Is(o, {"string", "target", "ref", "nbt"})
    /\ CASE obj[o].kind = "ref" -> Becomes(McfStrRefRelease(World, o))
         [] obj[o].kind = "nbt" -> Becomes(NbtRelease(World, o))
         [] OTHER -> Becomes(TextRelease(World, o))
    /\ owns' = [owns EXCEPT ![o] = IF o \in Statics THEN 0 ELSE @ - 1]
    /\ want' = IF owns[o] = 1 THEN [want EXCEPT ![o] = <<>>] ELSE want

(* A handle that an object keeps for its text is not the client's to write *)
(* through.                                                                *)
Writable(r) == Is(r, {"ref"}) /\ \A s \in Places : obj[s].mcf # r

Assign ==
  \E o \in Objects, t \in Texts :
    /\ \/ Is(o, {"string"}) /\ Becomes(AssignCString(World, o, t))
       \/ Writable(o) /\ Becomes(AssignSource(World, o, t))
    /\ Means(o, t)

AppendTo ==
  \E o \in Objects, t \in Texts \ {<<>>} :
    /\ Len(want[o] \o t) <= MaxLen
    /\ \/ Is(o, {"string"}) /\ Becomes(AppendCString(World, o, t))
       \/ Writable(o) /\ Becomes(AppendSource(World, o, t))
    /\ Means(o, want[o] \o t)

ClearString ==
  \E s \in Objects :
    /\ Is(s, {"string"})
    /\ "clear literal" \in Left => obj[s].lit = Null
    /\ Becomes(StringClear(World, s))
    /\ Means(s, <<>>)

(* String_EnsureMcfStrRef, Target_EnsureMcf.                               *)
Ensure ==
  \E s \in Places, r \in Blocks(World) :
    /\ Is(s, {"string", "target"})
    /\ obj[s].mcf = Null
    /\ Becomes(EnsureMcf(World, s, r))
    /\ UNCHANGED <<owns, want>>

SetInt ==
  \E n \in Objects, c \in Chars :
    /\ Is(n, {"nbt"})
    /\ Becomes(NbtSet(World, n, <<c>>))
    /\ Means(n, <<c>>)

SetFloat ==
  \E n \in Objects, t \in Texts \ {<<>>} :
    \E r \in Blocks(World) \cup (IF "float without memory" \in Left THEN {} ELSE {Null}) :
      /\ Is(n, {"nbt"})
      /\ Becomes(NbtSetFloatStr(World, n, t, r))
      /\ Means(n, t \o <<"f">>)

SetFromSlot ==
  \E n, src \in Objects :
    /\ Is(n, {"nbt"}) /\ Is(src, {"nbt"})
    /\ Becomes(NbtSet(World, n, Slot(nbt, obj[src].slot).value))
    /\ Means(n, want[src])

-----------------------------------------------------------------------------
(* The builder of execute: the prefix so far, none once a clause failed.   *)
ExecuteBegin ==
  \E e \in Blocks(World) : \E r \in Blocks(World) \ {e} :
    /\ Becomes([McfStrRefFrom(World, r, <<>>) EXCEPT
                  !.obj[e] = [Free EXCEPT !.kind = "exec", !.rc = 1, !.mcf = r]])
    /\ Made(e, <<>>)

ExecuteAppend ==
  \E e \in Objects, c \in Chars :
    /\ Is(e, {"exec"}) /\ obj[e].mcf # Null
    /\ Len(want[e]) < MaxLen
    /\ Becomes(AppendSource(World, obj[e].mcf, <<c>>))
    /\ Means(e, want[e] \o <<c>>)

(* A clause without its target.                                            *)
ExecuteFail ==
  \E e \in Objects :
    /\ Is(e, {"exec"}) /\ obj[e].mcf # Null
    /\ Becomes(InvalidateMcf(World, e))
    /\ Means(e, <<>>)

(* execute_end, and execute_run_str once the command has run or failed.    *)
ExecuteEnd ==
  \E e \in Objects :
    /\ Is(e, {"exec"})
    /\ Becomes([InvalidateMcf(World, e) EXCEPT !.obj[e] = Free])
    /\ owns' = [owns EXCEPT ![e] = 0]
    /\ want' = [want EXCEPT ![e] = <<>>]

-----------------------------------------------------------------------------
(***************************************************************************)
(* Commands: the wrappers under bindings/ ask for one handle after the     *)
(* other.  Without memory they get none and go on, as for NULL; at the     *)
(* end, whether the command was run or not, they release what they made.   *)
(***************************************************************************)
Command ==
  /\ asks' \in {b \in Bindings : Len(b) <= MaxArgs}
  /\ UNCHANGED <<obj, str, nbt, mem, made, owns, want>>

Asks(wants) == asks # <<>> /\ Head(asks) = wants /\ asks' = Tail(asks)

(* What the handle says is of no consequence.                              *)
RequireOwn ==
  /\ Asks(Own)
  /\ \/ \E r \in Blocks(World) :
          Becomes(McfStrRefFrom(World, r, <<>>)) /\ made' = Append(made, r)
     \/ UNCHANGED <<obj, str, nbt, mem, made>>
  /\ UNCHANGED <<owns, want>>

(* Variant: a handle the binding was lent is one of its own.               *)
RequireKeptAsOwn ==
  /\ Asks(Kept)
  /\ \/ \E s \in Handed, r \in Blocks(World) :
          obj[s].mcf = Null /\ Becomes(EnsureMcf(World, s, r)) /\ made' = Append(made, r)
     \/ UNCHANGED <<obj, str, nbt, mem, made>>
  /\ UNCHANGED <<owns, want>>

(* From one of the objects the client hands it; it may have the handle.    *)
RequireKept ==
  /\ Asks(Kept)
  /\ \/ \E s \in Handed, r \in Blocks(World) :
          obj[s].mcf = Null /\ Becomes(EnsureMcf(World, s, r))
     \/ UNCHANGED <<obj, str, nbt, mem>>
  /\ UNCHANGED <<made, owns, want>>

ReleaseMade ==
  /\ asks = <<>> /\ made # <<>>
  /\ Becomes(McfStrRefRelease(World, Head(made)))
  /\ made' = Tail(made)
  /\ UNCHANGED <<asks, owns, want>>

-----------------------------------------------------------------------------
ClientCalls ==
  \/ FromCString \/ FromLiteral \/ NewNbt
  \/ Retain \/ RetainCached \/ Release
  \/ Assign \/ AppendTo \/ ClearString \/ Ensure
  \/ SetInt \/ SetFloat \/ SetFromSlot
  \/ ExecuteBegin \/ ExecuteAppend \/ ExecuteFail \/ ExecuteEnd

Next ==
  \/ Idle /\ ClientCalls /\ UNCHANGED <<asks, made>>
  \/ Idle /\ Command
  \/ RequireOwn
  \/ RequireKept
  \/ ReleaseMade

Spec == Init /\ [][Next]_vars

-----------------------------------------------------------------------------
(***************************************************************************)
(* Properties                                                              *)
(***************************************************************************)
Live(kinds) == {o \in Places : obj[o].kind \in kinds}

Caching == Live({"string", "target", "exec"})

(* What an object says to the one who looks at it.                         *)
Says(o) ==
  CASE obj[o].kind = "ref" -> Slot(str, obj[o].slot).value
    [] obj[o].kind = "nbt" -> Slot(nbt, obj[o].slot).value
    [] obj[o].kind \in {"string", "target"} -> CStr(World, o)
    [] obj[o].kind = "exec" /\ obj[o].mcf # Null -> Slot(str, obj[obj[o].mcf].slot).value
    [] OTHER -> <<>>

(* The objects, the slots and the literals are well formed.                *)
TypeOK ==
  LET Bytestring == Seq(Chars \cup {Nul, "f", "-1"})
  IN /\ obj \in [Places -> [kind : Kinds, rc : Nat \cup {-1}, data : Bytestring, lit : Literals \cup {Null},
                            len : Nat, mcf : Objects \cup {Null}, slot : Int]]
     /\ IsHeap(str, Bytestring) /\ IsHeap(nbt, Bytestring)
     /\ mem \in [Literals -> Bytestring]
     /\ asks \in Seq({Own, Kept}) /\ made \in Seq(Objects)
     /\ owns \in [Places -> Nat]
     /\ want \in [Places -> Bytestring]

(* Every slot is on the free list, once, or belongs to one live handle: no *)
(* sequence of calls, out of memory or not, loses a slot or gives it out   *)
(* twice.                                                                  *)
SlotsAccounted ==
  \A h \in {<<str, "ref">>, <<nbt, "nbt">>} :
    LET used == {obj[o].slot : o \in Live({h[2]})}
    IN /\ \A o, p \in Live({h[2]}) : obj[o].slot = obj[p].slot => o = p
       /\ \E list \in Lists(h[1]) :
            /\ IsFreeList(h[1], list)
            /\ Range(list) \cap used = {}
            /\ Range(list) \cup used = Ids(h[1])

(* The list of slots grows only as far as there were handles at one time.  *)
SlotsReused ==
  /\ Len(str.slots) <= Cardinality(Objects)
  /\ Len(nbt.slots) <= Cardinality(Objects)

(* A count is the number of those who hold the object, the client, the     *)
(* objects that keep it and the binding that made it, and the slot has the *)
(* same count; nothing that is held is freed and nothing that nobody holds *)
(* stays, not even between two requests of a binding.                      *)
RefsAccounted ==
  \A o \in Objects :
    LET holders == owns[o] + Cardinality({s \in Caching : obj[s].mcf = o})
                   + Cardinality({k \in DOMAIN made : made[k] = o})
    IN /\ obj[o].rc = holders
       /\ (obj[o].kind = "none") <=> (holders = 0)
       /\ obj[o].kind = "ref" => Slot(str, obj[o].slot).refcnt = holders
       /\ obj[o].kind = "nbt" => Slot(nbt, obj[o].slot).refcnt = holders

(* Every object says what the calls made on it amount to; calls on others  *)
(* have no effect on it.                                                   *)
TextKept == \A o \in Places : owns[o] > 0 \/ o \in Statics => Says(o) = want[o]

(* The handle an object keeps is a handle to the text it has now.          *)
CacheCurrent ==
  \A s \in Caching : obj[s].mcf # Null => /\ obj[obj[s].mcf].kind = "ref"
                                          /\ Says(obj[s].mcf) = Says(s)

(* Data that a String borrows it only looks at.                            *)
LiteralsKept == \A l \in Literals : mem[l] = TextOf(l)
=============================================================================
