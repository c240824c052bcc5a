------------------------------ MODULE Verifier ------------------------------
(***************************************************************************)
(* Verifier::handleSingle, labels and blocks: what it accepts of one unit  *)
(* and the blocks it prunes.  Its check of symbols and of _start is in     *)
(* Units.                                                                  *)
(***************************************************************************)
EXTENDS Mcasm

-----------------------------------------------------------------------------
UniqueLabels(p) ==
  \A a, b \in LabelPos(p) : p[a].l = p[b].l => a = b

LabelsDeclared(p) ==
  \A i \in 1..Len(p) : IsCallLike(p[i]) => \E b \in LabelPos(p) : p[b].l = p[i].l

(* The scan ends unreachable: its last op but statics ends a block, or is  *)
(* an extern label.                                                        *)
EndsUnreachable(p) ==
  \E i \in 1..Len(p) :
    /\ \A j \in (i + 1)..Len(p) : p[j].op = "static"
    /\ IsTerminate(p[i]) \/ (IsLabel(p[i]) /\ IsExtern(p, i))

(* LineState::lastLabel of the last op.  The nop IR::parse puts behind an  *)
(* export or api label has no LineState, a label has that of its           *)
(* predecessor: never_return is not reported then.                         *)
LastLabelKnown(p) ==
  /\ p # <<>>
  /\ p[Len(p)].op # "nop"
  /\ \E b \in LabelPos(p) : b < Len(p)

Accepts(p) ==
  /\ UniqueLabels(p)
  /\ LabelsDeclared(p)
  /\ LastLabelKnown(p) => EndsUnreachable(p)

(* Variant: a block that falls through is not a reference.                 *)
RefersWithoutFallThrough(p, b, a) ==
  \E i \in 1..Len(p) : InBlock(p, b, i) /\ IsCallLike(p[i]) /\ p[i].l = p[a].l

(* labelRefMap: the block at b names label a, or falls through into it.    *)
Refers(p, b, a) ==
  \/ \E i \in 1..Len(p) : InBlock(p, b, i) /\ IsCallLike(p[i]) /\ p[i].l = p[a].l
  \/ IsNextLabel(p, b, a) /\ ~Terminated(p, b) /\ ~IsExtern(p, b)

(* The sets of labels that contain the roots and what their own refer to.  *)
Closed(p) ==
  LET refs == {r \in LabelPos(p) \X LabelPos(p) : Refers(p, r[1], r[2])}
  IN {S \in {Roots(p) \cup T : T \in SUBSET (LabelPos(p) \ Roots(p))} :
        \A r \in refs : r[1] \in S => r[2] \in S}

(* keepLabels: what the worklist reaches from the roots.                   *)
Keep(p) == LET closed == Closed(p) IN {a \in LabelPos(p) : \A S \in closed : a \in S}

(* The last loop: an unused label and the ops behind it become nops, up to *)
(* the next label or, as it is written, up to a static.                    *)
Erased(p, unused, i) ==
  \E b \in unused :
    /\ i = b \/ InBlock(p, b, i)
    /\ \A j \in b..i : p[j].op # "static"

Prune(p) ==
  LET unused == LabelPos(p) \ Keep(p)
  IN [i \in 1..Len(p) |-> IF Erased(p, unused, i) THEN [p[i] EXCEPT !.op = "nop"] ELSE p[i]]
=============================================================================
