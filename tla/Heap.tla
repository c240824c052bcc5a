-------------------------------- MODULE Heap --------------------------------
(***************************************************************************)
(* What malloc, free, realloc and calloc promise to their caller: disjoint *)
(* blocks that hold what was last written to them.  Nothing here knows of  *)
(* headers or a free list.                                                 *)
(***************************************************************************)
EXTENDS Integers

CONSTANTS
  Space,      \* the addresses blocks are taken from
  Sizes,      \* the sizes asked for, in addressable words
  Data        \* the words the caller writes

VARIABLE
  blocks      \* address |-> contents, a function on 0..(size - 1)

Region(a) == {a + k : k \in DOMAIN blocks[a]}

Disjoint ==
  \A a, b \in DOMAIN blocks :
    /\ Region(a) \subseteq Space
    /\ a # b => Region(a) \cap Region(b) = {}

Untouched(S) == \A a \in S : blocks'[a] = blocks[a]

Init == blocks = [a \in {} |-> 0]

(* malloc and calloc; the contents are whatever the memory holds.          *)
Alloc ==
  \E a \in Space \ DOMAIN blocks, n \in Sizes :
    /\ DOMAIN blocks' = DOMAIN blocks \cup {a}
    /\ DOMAIN blocks'[a] = 0..(n - 1)
    /\ Untouched(DOMAIN blocks)
    /\ Disjoint'

Free ==
  \E a \in DOMAIN blocks :
    /\ DOMAIN blocks' = DOMAIN blocks \ {a}
    /\ Untouched(DOMAIN blocks \ {a})

(* realloc: in place or not, what fits of the contents stays.              *)
Resize ==
  \E a \in DOMAIN blocks, n \in Sizes :
    \E b \in (Space \ DOMAIN blocks) \cup {a} :
      /\ DOMAIN blocks' = (DOMAIN blocks \ {a}) \cup {b}
      /\ DOMAIN blocks'[b] = 0..(n - 1)
      /\ \A k \in DOMAIN blocks[a] \cap DOMAIN blocks'[b] : blocks'[b][k] = blocks[a][k]
      /\ Untouched(DOMAIN blocks \ {a})
      /\ Disjoint'

Write ==
  \E a \in DOMAIN blocks, v \in Data :
    \E k \in DOMAIN blocks[a] : blocks' = [blocks EXCEPT ![a][k] = v]

Next == Alloc \/ Free \/ Resize \/ Write

Spec == Init /\ [][Next]_blocks
=============================================================================
