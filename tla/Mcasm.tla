------------------------------- MODULE Mcasm -------------------------------
(***************************************************************************)
(* The mcasm program of one compilation unit, as IR::parse leaves it in    *)
(* IR::values: a sequence of ops.  An op that only computes is abstracted  *)
(* to "add" (one scoreboard addition on the register x); "jcc" stands for  *)
(* the six conditional jumps and "retc" for the six conditional returns,   *)
(* with the condition x = 0.                                               *)
(***************************************************************************)
EXTENDS Naturals, Sequences

CONSTANTS
  Labels      \* label names; Op.l of an op that names no label is arbitrary

OpNames == {"label", "static", "nop", "add", "call", "jmp", "jcc", "ret", "retc"}

LabelKinds == {"plain", "start", "export", "api", "extern"}

(* kind is read on a "label" op only; "start" is the plain label _start.   *)
Op == [op : OpNames, l : Labels, kind : LabelKinds]

-----------------------------------------------------------------------------
IsLabel(o) == o.op = "label"

(* Ret and Jmp end a block: isTerminate.                                   *)
IsTerminate(o) == o.op \in {"ret", "jmp"}

(* CallLike: the ops that name a label.                                    *)
IsCallLike(o) == o.op \in {"call", "jmp", "jcc"}

LabelPos(p) == {i \in 1..Len(p) : IsLabel(p[i])}

IsExtern(p, b) == p[b].kind = "extern"

(* The position that defines label l.                                      *)
PosOf(p, l) == CHOOSE b \in LabelPos(p) : p[b].l = l

(* A block is what lies between its label, at b, and the next one.         *)
InBlock(p, b, i) ==
  /\ i \in (b + 1)..Len(p)
  /\ \A j \in (b + 1)..i : ~IsLabel(p[j])

(* Some op of the block at b ends it, wherever in the block it stands.     *)
Terminated(p, b) == \E j \in (b + 1)..Len(p) : InBlock(p, b, j) /\ IsTerminate(p[j])

(* n is the label right after the one at b.                                *)
IsNextLabel(p, b, n) ==
  /\ n \in LabelPos(p)
  /\ b < n
  /\ \A j \in (b + 1)..(n - 1) : ~IsLabel(p[j])

(* Labels that code outside the unit may enter.                            *)
Roots(p) == {b \in LabelPos(p) : p[b].kind \in {"start", "export", "api"}}
=============================================================================
