----------------------------- MODULE MallocTiny -----------------------------
(***************************************************************************)
(* The allocator of the C library: one address-ordered free list threaded  *)
(* through the free blocks, first fit, splitting, merging of neighbours.   *)
(*                                                                         *)
(* A block is a header word with the block's size, then its payload; the   *)
(* first payload word of a free block is the address of the next one.  A   *)
(* C byte takes a whole word.  The loops over the list are steps of their  *)
(* own, straight-line code between two of them is one step.                *)
(***************************************************************************)
EXTENDS Integers, FiniteSets

CONSTANTS
  DataStart,  \* LIBC_HEAP_DATA_START
  HeapMax,    \* LIBC_HEAP_MAX_ADDR
  SizeMod,    \* size_t counts modulo SizeMod
  Sizes,      \* the sizes a program asks for
  Data        \* the words a program stores

ASSUME AddressAssumption ==
  /\ DataStart \in Nat \ {0}
  /\ HeapMax \in Nat
  /\ DataStart <= HeapMax
  /\ SizeMod \in Nat
  /\ HeapMax + 2 < SizeMod
ASSUME SizesAssumption == Sizes \subseteq 0..(SizeMod - 1)
ASSUME DataAssumption == Data \subseteq Int

VARIABLES
  mem,        \* the words of the heap
  heapEnd,    \* LIBC_HEAP_END, 0 before the first call
  freeHead,   \* LIBC_FREE_HEAD
  ready,      \* the magic word is there
  live,       \* the program's blocks: payload address |-> size asked for
  call,       \* the call at work, "none" or a record
  pc,         \* the loop it is in: "idle", "malloc", "free" or "grow"
  prev, cur,  \* the loop's variables
  arg         \* malloc: the words needed; free, grow: the block's header

vars == <<mem, heapEnd, freeHead, ready, live, call, pc, prev, cur, arg>>

Addr == DataStart..(HeapMax - 1)

NoBlocks == [a \in {} |-> 0]

-----------------------------------------------------------------------------
(* Variant: four bytes to a word.                                          *)
PackedSizeWords(sz) == IF sz = 0 THEN 2 ELSE 1 + ((sz + 3) \div 4)

RealSizeWords(sz) ==
  LET total == (sz + 1) % SizeMod IN IF total < 2 THEN 2 ELSE total

CanAlloc(words, end) ==
  /\ DataStart <= end /\ end <= HeapMax
  /\ words <= HeapMax - end

(* A remainder of fewer than two words stays with the block.               *)
TooSmallToSplit(words, need) == words < (need + 2) % SizeMod

Size(b) == mem[b]
NextFree(b) == mem[b + 1]

(* ensure_heap_init, and the values it leaves.                             *)
End == IF ready THEN heapEnd ELSE DataStart
Head == IF ready THEN freeHead ELSE 0
EnsureHeapInit == ready' = TRUE /\ heapEnd' = End /\ freeHead' = Head

Idle == pc = "idle"

NoCall == [kind |-> "none", p |-> 0, sz |-> 0, result |-> 0]

Done == pc' = "idle" /\ call' = NoCall /\ prev' = 0 /\ cur' = 0 /\ arg' = 0

(* A loop over the list from its head h.                                   *)
Scan(loop, h, a) == pc' = loop /\ prev' = 0 /\ cur' = h /\ arg' = a

(* The link that led to cur gets the value v: the head of the list, or the *)
(* next word of the block before, in memory m.                             *)
LinkedHead(v) == IF prev = 0 THEN v ELSE freeHead
Linked(m, v) == IF prev = 0 THEN m ELSE [m EXCEPT ![prev + 1] = v]

(* Variant: the scan does not get on.                                      *)
Stay ==
  /\ prev' = cur
  /\ UNCHANGED <<mem, heapEnd, freeHead, ready, live, call, pc, cur, arg>>

Advance ==
  /\ prev' = cur
  /\ cur' = NextFree(cur)
  /\ UNCHANGED <<mem, heapEnd, freeHead, ready, live, call, pc, arg>>

WithBlock(p, sz) == [a \in DOMAIN live \cup {p} |-> IF a = p THEN sz ELSE live[a]]
WithoutBlock(p) == [a \in DOMAIN live \ {p} |-> live[a]]

-----------------------------------------------------------------------------
Init ==
  /\ mem = [a \in Addr |-> 0]
  /\ heapEnd = 0
  /\ freeHead = 0
  /\ ready = FALSE
  /\ live = NoBlocks
  /\ call = NoCall
  /\ pc = "idle"
  /\ prev = 0
  /\ cur = 0
  /\ arg = 0

(* The program stores a word in a block of its own.                        *)
Write ==
  /\ Idle
  /\ \E p \in DOMAIN live, v \in Data :
       \E k \in 0..(live[p] - 1) : mem' = [mem EXCEPT ![p + k] = v]
  /\ UNCHANGED <<heapEnd, freeHead, ready, live, call, pc, prev, cur, arg>>

-----------------------------------------------------------------------------
(***************************************************************************)
(* malloc, and calloc, which is malloc and memset                          *)
(***************************************************************************)
MallocCall ==
  /\ Idle
  /\ EnsureHeapInit
  /\ \E sz \in Sizes, kind \in {"malloc", "calloc"} :
       /\ call' = [NoCall EXCEPT !.kind = kind, !.sz = sz]
       /\ Scan("malloc", Head, RealSizeWords(sz))
  /\ UNCHANGED <<mem, live>>

Zeroed(m, p, n) == [a \in Addr |-> IF a \in p..(p + n - 1) THEN 0 ELSE m[a]]
Copied(m, p, q, n) == [a \in Addr |-> IF a \in p..(p + n - 1) THEN m[q + (a - p)] ELSE m[a]]

(* Variant: the header is counted twice.                                   *)
ShortCopyLength ==
  LET old == Size(call.p - 1) - 2 IN IF old < call.sz THEN old ELSE call.sz

(* memcpy's length in realloc.                                             *)
CopyLength ==
  LET old == Size(call.p - 1) - 1 IN IF old < call.sz THEN old ELSE call.sz

(* malloc returns the block at b, with the memory m and the list's head h. *)
(* realloc goes on to copy and to free the old block.                      *)
Return(b, m, h) ==
  /\ freeHead' = h
  /\ \/ /\ call.kind = "malloc"
        /\ mem' = m
        /\ live' = WithBlock(b + 1, call.sz)
        /\ Done
     \/ /\ call.kind = "calloc"
        /\ mem' = Zeroed(m, b + 1, call.sz)
        /\ live' = WithBlock(b + 1, call.sz)
        /\ Done
     \/ /\ call.kind = "realloc"
        /\ mem' = Copied(m, b + 1, call.p, CopyLength)
        /\ call' = [call EXCEPT !.result = b + 1]
        /\ Scan("free", h, call.p - 1)
        /\ UNCHANGED live

Fits == cur # 0 /\ Size(cur) >= arg

(* Variant: the block stays on the list.                                   *)
TakeLinked ==
  /\ pc = "malloc"
  /\ Fits
  /\ TooSmallToSplit(Size(cur), arg)
  /\ Return(cur, mem, freeHead)
  /\ UNCHANGED <<heapEnd, ready>>

TakeWhole ==
  /\ pc = "malloc"
  /\ Fits
  /\ TooSmallToSplit(Size(cur), arg)
  /\ Return(cur, Linked(mem, NextFree(cur)), LinkedHead(NextFree(cur)))
  /\ UNCHANGED <<heapEnd, ready>>

Split ==
  /\ pc = "malloc"
  /\ Fits
  /\ ~TooSmallToSplit(Size(cur), arg)
  /\ LET rest == cur + arg
         m == [mem EXCEPT ![rest] = Size(cur) - arg, ![rest + 1] = NextFree(cur), ![cur] = arg]
     IN Return(cur, Linked(m, rest), LinkedHead(rest))
  /\ UNCHANGED <<heapEnd, ready>>

(* The last free block reaches the end of the heap.                        *)
AtHeapEnd == NextFree(cur) = 0 /\ heapEnd = cur + Size(cur)

GrowLast ==
  /\ pc = "malloc"
  /\ cur # 0 /\ ~Fits /\ AtHeapEnd
  /\ CanAlloc(arg - Size(cur), heapEnd)
  /\ heapEnd' = cur + arg
  /\ Return(cur, [Linked(mem, 0) EXCEPT ![cur] = arg], LinkedHead(0))
  /\ UNCHANGED ready

NextMalloc ==
  /\ pc = "malloc"
  /\ cur # 0 /\ ~Fits /\ ~AtHeapEnd
  /\ Advance

(* Variant: the heap's limit is not looked at.                             *)
BumpUnchecked ==
  /\ pc = "malloc"
  /\ cur = 0
  /\ heapEnd' = heapEnd + arg
  /\ Return(heapEnd, [mem EXCEPT ![heapEnd] = arg], freeHead)
  /\ UNCHANGED ready

Bump ==
  /\ pc = "malloc"
  /\ cur = 0
  /\ CanAlloc(arg, heapEnd)
  /\ heapEnd' = heapEnd + arg
  /\ Return(heapEnd, [mem EXCEPT ![heapEnd] = arg], freeHead)
  /\ UNCHANGED ready

(* NULL; realloc hands it on and leaves the old block alone.               *)
ReturnNull ==
  /\ pc = "malloc"
  /\ \/ cur = 0 /\ ~CanAlloc(arg, heapEnd)
     \/ cur # 0 /\ ~Fits /\ AtHeapEnd /\ ~CanAlloc(arg - Size(cur), heapEnd)
  /\ Done
  /\ UNCHANGED <<mem, heapEnd, freeHead, ready, live>>

-----------------------------------------------------------------------------
(***************************************************************************)
(* free                                                                    *)
(***************************************************************************)
(* realloc(p, 0) is the same.                                              *)
FreeCall ==
  /\ Idle
  /\ EnsureHeapInit
  /\ \E p \in DOMAIN live :
       /\ call' = [NoCall EXCEPT !.kind = "free", !.p = p]
       /\ Scan("free", Head, p - 1)
  /\ UNCHANGED <<mem, live>>

BeforeBlock == cur # 0 /\ cur < arg

NextFreeing ==
  /\ pc = "free"
  /\ BeforeBlock
  /\ Advance

(* What LinkFree does to the program's blocks.                             *)
Settle ==
  live' = CASE call.kind = "free" -> WithoutBlock(call.p)
            [] call.kind = "realloc" ->
                 [a \in (DOMAIN live \ {call.p}) \cup {call.result} |->
                    IF a = call.result THEN call.sz ELSE live[a]]
            [] call.kind = "shrink" -> live

(* Variant: only the block before is merged.                               *)
LinkFreeLeft ==
  /\ pc = "free"
  /\ ~BeforeBlock
  /\ LET left == prev # 0 /\ prev + Size(prev) = arg
     IN /\ mem' = IF left
                 THEN [mem EXCEPT ![prev] = @ + Size(arg)]
                 ELSE [Linked(mem, arg) EXCEPT ![arg + 1] = cur]
        /\ freeHead' = IF left THEN freeHead ELSE LinkedHead(arg)
  /\ Settle
  /\ Done
  /\ UNCHANGED <<heapEnd, ready>>

(* The block goes between prev and cur, merged with those it touches.      *)
LinkFree ==
  /\ pc = "free"
  /\ ~BeforeBlock
  /\ LET left == prev # 0 /\ prev + Size(prev) = arg
         b == IF left THEN prev ELSE arg
         m == IF left
              THEN [mem EXCEPT ![prev] = @ + Size(arg)]
              ELSE [Linked(mem, arg) EXCEPT ![arg + 1] = cur]
         right == cur # 0 /\ b + m[b] = cur
     IN /\ mem' = IF right THEN [m EXCEPT ![b] = m[b] + m[cur], ![b + 1] = m[cur + 1]] ELSE m
        /\ freeHead' = IF left THEN freeHead ELSE LinkedHead(arg)
  /\ Settle
  /\ Done
  /\ UNCHANGED <<heapEnd, ready>>

-----------------------------------------------------------------------------
(***************************************************************************)
(* realloc of a block to a size that is not 0                              *)
(***************************************************************************)
Resizing(p, sz) ==
  /\ Idle
  /\ p \in DOMAIN live
  /\ sz \in Sizes \ {0}

Grows(p, sz) == Size(p - 1) < RealSizeWords(sz)
More(p, sz) == RealSizeWords(sz) - Size(p - 1)
BlockEnd(p) == (p - 1) + Size(p - 1)

Realloc(p, sz) == [NoCall EXCEPT !.kind = "realloc", !.p = p, !.sz = sz]

GrowAtEnd(p, sz) ==
  /\ Resizing(p, sz)
  /\ Grows(p, sz) /\ BlockEnd(p) = End /\ CanAlloc(More(p, sz), End)
  /\ ready' = TRUE
  /\ heapEnd' = BlockEnd(p) + More(p, sz)
  /\ freeHead' = Head
  /\ mem' = [mem EXCEPT ![p - 1] = RealSizeWords(sz)]
  /\ live' = WithBlock(p, sz)
  /\ UNCHANGED <<call, pc, prev, cur, arg>>

(* malloc(sz), its own ensure_heap_init included.                          *)
MoveFromEnd(p, sz) ==
  /\ Resizing(p, sz)
  /\ Grows(p, sz) /\ BlockEnd(p) = End /\ ~CanAlloc(More(p, sz), End)
  /\ EnsureHeapInit
  /\ call' = Realloc(p, sz)
  /\ Scan("malloc", Head, RealSizeWords(sz))
  /\ UNCHANGED <<mem, live>>

(* Is the block behind it free?                                            *)
GrowSearch(p, sz) ==
  /\ Resizing(p, sz)
  /\ Grows(p, sz) /\ BlockEnd(p) # End
  /\ EnsureHeapInit
  /\ call' = Realloc(p, sz)
  /\ Scan("grow", Head, p - 1)
  /\ UNCHANGED <<mem, live>>

(* The tail becomes a block, and is freed.                                 *)
Shrink(p, sz) ==
  /\ Resizing(p, sz)
  /\ ~Grows(p, sz) /\ Size(p - 1) - RealSizeWords(sz) >= 2
  /\ EnsureHeapInit
  /\ LET tail == (p - 1) + RealSizeWords(sz)
     IN /\ mem' = [mem EXCEPT ![p - 1] = RealSizeWords(sz),
                              ![tail] = Size(p - 1) - RealSizeWords(sz)]
        /\ Scan("free", Head, tail)
  /\ call' = [Realloc(p, sz) EXCEPT !.kind = "shrink"]
  /\ live' = WithBlock(p, sz)

KeepSize(p, sz) ==
  /\ Resizing(p, sz)
  /\ ~Grows(p, sz) /\ Size(p - 1) - RealSizeWords(sz) < 2
  /\ EnsureHeapInit
  /\ live' = WithBlock(p, sz)
  /\ UNCHANGED <<mem, call, pc, prev, cur, arg>>

BeforeEnd == cur # 0 /\ cur < BlockEnd(call.p)

NextGrow ==
  /\ pc = "grow"
  /\ BeforeEnd
  /\ Advance

RightFits == cur = BlockEnd(call.p) /\ Size(cur) >= More(call.p, call.sz)

AbsorbWhole ==
  /\ pc = "grow"
  /\ ~BeforeEnd /\ RightFits
  /\ TooSmallToSplit(Size(cur), More(call.p, call.sz))
  /\ mem' = Linked([mem EXCEPT ![arg] = Size(arg) + Size(cur)], NextFree(cur))
  /\ freeHead' = LinkedHead(NextFree(cur))
  /\ live' = WithBlock(call.p, call.sz)
  /\ Done
  /\ UNCHANGED <<heapEnd, ready>>

AbsorbPart ==
  /\ pc = "grow"
  /\ ~BeforeEnd /\ RightFits
  /\ ~TooSmallToSplit(Size(cur), More(call.p, call.sz))
  /\ LET rest == cur + More(call.p, call.sz)
         m == [mem EXCEPT ![rest] = Size(cur) - More(call.p, call.sz),
                          ![rest + 1] = NextFree(cur),
                          ![arg] = RealSizeWords(call.sz)]
     IN /\ mem' = Linked(m, rest)
        /\ freeHead' = LinkedHead(rest)
  /\ live' = WithBlock(call.p, call.sz)
  /\ Done
  /\ UNCHANGED <<heapEnd, ready>>

GrowElsewhere ==
  /\ pc = "grow"
  /\ ~BeforeEnd /\ ~RightFits
  /\ Scan("malloc", freeHead, RealSizeWords(call.sz))
  /\ UNCHANGED <<mem, heapEnd, freeHead, ready, live, call>>

-----------------------------------------------------------------------------
ReallocCall ==
  \E p \in DOMAIN live, sz \in Sizes \ {0} :
    \/ GrowAtEnd(p, sz)
    \/ MoveFromEnd(p, sz)
    \/ GrowSearch(p, sz)
    \/ Shrink(p, sz)
    \/ KeepSize(p, sz)

(* The allocator's own steps.                                              *)
Work ==
  \/ TakeWhole \/ Split \/ GrowLast \/ NextMalloc \/ Bump \/ ReturnNull
  \/ NextFreeing \/ LinkFree
  \/ NextGrow \/ AbsorbWhole \/ AbsorbPart \/ GrowElsewhere

Next == Write \/ MallocCall \/ FreeCall \/ ReallocCall \/ Work

(* A call, once made, is run to its end.                                   *)
Spec == Init /\ [][Next]_vars /\ WF_vars(Work)

-----------------------------------------------------------------------------
Call == [kind : {"none", "malloc", "calloc", "realloc", "free", "shrink"},
         p : Addr \cup {0}, sz : Sizes \cup {0}, result : Addr \cup {0}]

(* Type correctness of every variable.                                     *)
TypeOK ==
  /\ mem \in [Addr -> Int]
  /\ heapEnd \in {0} \cup DataStart..HeapMax
  /\ freeHead \in {0} \cup Addr
  /\ ready \in BOOLEAN
  /\ DOMAIN live \subseteq Addr /\ \A p \in DOMAIN live : live[p] \in Sizes
  /\ call \in Call
  /\ pc \in {"idle", "malloc", "free", "grow"}
  /\ prev \in {0} \cup Addr
  /\ cur \in {0} \cup Addr
  /\ arg \in Nat

-----------------------------------------------------------------------------
(* Blocks in use: the program's, and one that realloc is about to give or  *)
(* to give back.                                                           *)
Used ==
  {p - 1 : p \in DOMAIN live}
  \cup (IF pc = "free" /\ call.kind = "realloc" THEN {call.result - 1} ELSE {})
  \cup (IF pc = "free" /\ call.kind = "shrink" THEN {arg} ELSE {})

(* B tiles the heap: each block ends where another one, or nothing, begins.*)
Tiles(B) ==
  /\ DataStart \in B \cup {End}
  /\ \A b \in B :
       /\ DataStart <= b /\ Size(b) >= 2 /\ b + Size(b) <= End
       /\ b + Size(b) \in B \cup {End}
       /\ \A c \in B : b < c => b + Size(b) <= c

(* The list runs through F in the order of addresses.                      *)
Threads(F) ==
  /\ IF F = {} THEN Head = 0 ELSE Head \in F /\ \A g \in F : Head <= g
  /\ \A f \in F :
       \/ NextFree(f) = 0 /\ \A g \in F : g <= f
       \/ /\ NextFree(f) \in F /\ f < NextFree(f)
          /\ \A g \in F : g <= f \/ NextFree(f) <= g

(* No two free blocks touch.                                               *)
Merged(F) == \A f, g \in F : f + Size(f) # g

HeapOK(F) ==
  /\ F \cap Used = {}
  /\ Tiles(F \cup Used)
  /\ Threads(F)
  /\ Merged(F)

(* The heap is never torn: between any two steps the headers cut it into   *)
(* blocks without a gap or an overlap, each in use or on the free list,    *)
(* the list is in order of addresses, ends, and holds no two neighbours.   *)
HeapWhole == \E F \in SUBSET Addr : HeapOK(F)

(* A block holds what was asked for ("A request for N C bytes therefore    *)
(* needs N addressable VM words").                                         *)
PayloadFits == \A p \in DOMAIN live : live[p] <= Size(p - 1) - 1

(* assert(cur != block) in free: what the program frees is not free.       *)
FreeAsserts == pc = "free" => cur # arg

(* malloc answers NULL only if no run of free words is long enough: first  *)
(* fit in a list of merged blocks, and the words behind the last of them,  *)
(* overlook none.                                                          *)
FailsWhenFull ==
  [][ReturnNull =>
       \A a \in DataStart..(HeapMax - arg) :
         \E b \in Used : b < a + arg /\ a < b + Size(b)]_vars

(* Every call comes back: the list has no cycle.                           *)
CallsReturn == (pc # "idle") ~> (pc = "idle")

(* The program's blocks, as it sees them.                                  *)
Contents == [p \in DOMAIN live |-> [k \in 0..(live[p] - 1) |-> mem[p + k]]]

H == INSTANCE Heap WITH Space <- Addr, blocks <- Contents

(* Blocks are disjoint, keep their contents until freed, and move with     *)
(* them: splitting, merging and the list's links in the payloads of free   *)
(* blocks touch no word of a block in use.                                 *)
ImplementsHeap == H!Spec
=============================================================================
