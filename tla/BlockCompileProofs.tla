-------------------------- MODULE BlockCompileProofs --------------------------
(***************************************************************************)
(* Proofs about BlockCompile.  The argument: control of a function is      *)
(* always at an op of its own block with no end of block before it, or at  *)
(* the label that follows a block without an end (At).  The Verifier's     *)
(* checks make this inductive: the last block ends, and a block that falls *)
(* through keeps its successor from being pruned.                          *)
(***************************************************************************)
EXTENDS BlockCompile, SequenceTheorems, FiniteSetTheorems, WellFoundedInduction, TLAPS

(* Where control of the function of the block at b may stand in unit p.    *)
At(p, b, i) ==
  \/ InBlock(p, b, i) /\ \A j \in (b + 1)..(i - 1) : ~IsTerminate(p[j])
  \/ IsNextLabel(p, b, i) /\ ~Terminated(p, b)

Live(p, b) == b \in Keep(p) /\ ~IsExtern(p, b)

FrameOK(p, f) ==
  /\ f \in Frame
  /\ Live(p, f.fn)
  /\ At(p, f.fn, f.i)
  /\ f.c # 0 => Live(p, f.c)

StackOK(p, s) == s \in Seq(Frame) /\ \A k \in 1..Len(s) : FrameOK(p, s[k])

Valid(p) == p \in Seq(Op) /\ Accepts(p) /\ Defined(p)

-----------------------------------------------------------------------------
(* The kept labels are labels, contain the roots, and are closed under the *)
(* Verifier's references.                                                  *)
LEMMA KeepClosed ==
  ASSUME NEW p
  PROVE  /\ Keep(p) \subseteq LabelPos(p)
         /\ Roots(p) \subseteq Keep(p)
         /\ \A b \in Keep(p), c \in LabelPos(p) : Refers(p, b, c) => c \in Keep(p)
<1>1. Keep(p) \subseteq LabelPos(p)
  BY DEF Keep
<1>2. Roots(p) \subseteq LabelPos(p)
  BY DEF Roots
<1>3. Roots(p) \subseteq Keep(p)
  BY <1>2 DEF Keep, Closed
<1>4. ASSUME NEW b \in Keep(p), NEW c \in LabelPos(p), Refers(p, b, c)
      PROVE  c \in Keep(p)
  <2> SUFFICES ASSUME NEW S \in Closed(p)
               PROVE  c \in S
    BY DEF Keep
  <2>1. b \in S /\ b \in LabelPos(p)
    BY DEF Keep
  <2>2. <<b, c>> \in {r \in LabelPos(p) \X LabelPos(p) : Refers(p, r[1], r[2])}
    BY <2>1, <1>4
  <2> QED BY <2>1, <2>2 DEF Closed
<1> QED BY <1>1, <1>3, <1>4

(* A position belongs to one block, and a label to none.                   *)
LEMMA BlockUnique ==
  ASSUME NEW p \in Seq(Op), NEW a \in LabelPos(p), NEW b \in LabelPos(p), NEW i \in Nat,
         i = a \/ InBlock(p, a, i), i = b \/ InBlock(p, b, i)
  PROVE  a = b
BY DEF InBlock, LabelPos

(* Pruning leaves the ops of a kept block, and of labels just the kept.    *)
LEMMA PruneKept ==
  ASSUME NEW p \in Seq(Op)
  PROVE  /\ Prune(p) \in Seq(Op)
         /\ Len(Prune(p)) = Len(p)
         /\ LabelPos(Prune(p)) = Keep(p)
         /\ \A b \in Keep(p), i \in 1..Len(p) :
              i = b \/ InBlock(p, b, i) => Prune(p)[i] = p[i]
<1> DEFINE q == Prune(p)
<1> DEFINE unused == LabelPos(p) \ Keep(p)
<1>1. \A i \in 1..Len(p) : p[i] \in Op /\ [p[i] EXCEPT !.op = "nop"] \in Op
  <2> SUFFICES ASSUME NEW i \in 1..Len(p)
               PROVE  p[i] \in Op /\ [p[i] EXCEPT !.op = "nop"] \in Op
    OBVIOUS
  <2>1. p[i] \in Op
    OBVIOUS
  <2>2. p[i] = [op |-> p[i].op, l |-> p[i].l, kind |-> p[i].kind]
    BY <2>1 DEF Op
  <2>3. [p[i] EXCEPT !.op = "nop"] = [op |-> "nop", l |-> p[i].l, kind |-> p[i].kind]
    BY <2>2
  <2> QED BY <2>1, <2>3 DEF Op, OpNames
<1>2. q \in [1..Len(p) -> Op]
  BY <1>1 DEF Prune
<1>3. Len(p) \in Nat
  OBVIOUS
<1>4. q \in Seq(Op) /\ Len(q) = Len(p)
  <2>1. DOMAIN q = 1..Len(p)
    BY DEF Prune
  <2>2. q \in Seq(Op)
    BY <1>2, <1>3
  <2> QED BY <2>1, <2>2, <1>3
<1>5. Keep(p) \subseteq LabelPos(p)
  BY KeepClosed
<1>6. ASSUME NEW b \in Keep(p), NEW i \in 1..Len(p), i = b \/ InBlock(p, b, i)
      PROVE  q[i] = p[i]
  <2>1. ~Erased(p, unused, i)
    <3> SUFFICES ASSUME NEW a \in LabelPos(p) \ Keep(p), i = a \/ InBlock(p, a, i)
                 PROVE  FALSE
      BY DEF Erased
    <3>1. a = b
      BY <1>5, <1>6, BlockUnique
    <3> QED BY <3>1
  <2> QED BY <2>1 DEF Prune
<1>7. LabelPos(q) = Keep(p)
  <2>1. ASSUME NEW i \in Keep(p) PROVE i \in LabelPos(q)
    BY <1>4, <1>5, <1>6, <2>1 DEF LabelPos
  <2>2. ASSUME NEW i \in LabelPos(q) PROVE i \in Keep(p)
    <3>1. i \in 1..Len(p) /\ q[i].op = "label"
      BY <1>4 DEF LabelPos, IsLabel
    <3>2. ~Erased(p, unused, i) /\ p[i].op = "label"
      <4>1. CASE Erased(p, unused, i)
        <5>1. q[i].op = "nop"
          BY <4>1, <3>1, <1>1 DEF Prune, Op
        <5> QED BY <5>1, <3>1
      <4>2. CASE ~Erased(p, unused, i)
        BY <4>2, <3>1 DEF Prune
      <4> QED BY <4>1, <4>2
    <3>3. i \in LabelPos(p)
      BY <3>1, <3>2 DEF LabelPos, IsLabel
    <3>4. i \notin Keep(p) => Erased(p, unused, i)
      <4> SUFFICES ASSUME i \notin Keep(p) PROVE Erased(p, unused, i)
        OBVIOUS
      <4>1. \A j \in i..i : p[j].op # "static"
        BY <3>1, <3>2
      <4> QED BY <3>3, <4>1 DEF Erased
    <3> QED BY <3>2, <3>4
  <2> QED BY <2>1, <2>2
<1> QED BY <1>4, <1>6, <1>7

-----------------------------------------------------------------------------
(* A block of a defined unit that is not extern ends, or another follows.  *)
LEMMA LastBlockEnds ==
  ASSUME NEW p, Valid(p), NEW b \in LabelPos(p), ~IsExtern(p, b), ~Terminated(p, b)
  PROVE  \E n \in LabelPos(p) : b < n
<1> SUFFICES ASSUME \A n \in LabelPos(p) : n <= b
             PROVE  FALSE
  BY DEF LabelPos
<1>1. PICK e \in 1..Len(p) :
        /\ \A j \in (e + 1)..Len(p) : p[j].op = "static"
        /\ IsTerminate(p[e]) \/ (IsLabel(p[e]) /\ IsExtern(p, e))
  BY DEF Valid, Defined, EndsUnreachable
<1>2. b \in 1..Len(p) /\ IsLabel(p[b])
  BY DEF LabelPos
<1>3. CASE e < b
  BY <1>1, <1>2, <1>3 DEF IsLabel
<1>4. CASE e = b
  BY <1>1, <1>2, <1>4 DEF IsLabel, IsTerminate
<1>5. CASE e > b
  <2>1. \A j \in (b + 1)..e : ~IsLabel(p[j])
    BY <1>1, <1>2 DEF LabelPos
  <2>2. InBlock(p, b, e)
    BY <1>1, <1>2, <1>5, <2>1 DEF InBlock
  <2>3. IsTerminate(p[e])
    BY <1>1, <1>2, <1>5, <2>1
  <2> QED BY <1>1, <1>2, <1>5, <2>2, <2>3 DEF Terminated
<1> QED BY <1>1, <1>2, <1>3, <1>4, <1>5

(* The first label behind b, where there is one.                           *)
LEMMA NextLabelExists ==
  ASSUME NEW p \in Seq(Op), NEW b \in LabelPos(p), \E n \in LabelPos(p) : b < n
  PROVE  \E n \in LabelPos(p) : IsNextLabel(p, b, n)
<1> DEFINE T == {n \in LabelPos(p) : b < n}
<1>1. T \subseteq Nat /\ T # {}
  BY DEF LabelPos
<1>2. PICK n \in T : \A m \in T : ~(<<m, n>> \in OpToRel(<, Nat))
  BY <1>1, WFMin, NatLessThanWellFounded
<1>3. \A m \in T : ~(m < n)
  BY <1>1, <1>2 DEF OpToRel
<1>4. \A j \in (b + 1)..(n - 1) : ~IsLabel(p[j])
  BY <1>3 DEF LabelPos
<1> QED BY <1>4 DEF IsNextLabel

(* NextLabel chooses the label behind b.                                   *)
LEMMA NextLabelIsNext ==
  ASSUME NEW p \in Seq(Op), NEW b \in LabelPos(p), ~LastLabel(p, b)
  PROVE  NextLabel(p, b) \in LabelPos(p) /\ IsNextLabel(p, b, NextLabel(p, b))
<1>1. PICK m \in LabelPos(p) : b < m
  BY DEF LastLabel, LabelPos
<1>2. \E n \in LabelPos(p) : IsNextLabel(p, b, n)
  BY <1>1, NextLabelExists
<1>3. IsNextLabel(p, b, NextLabel(p, b))
  BY <1>2 DEF NextLabel
<1> QED BY <1>3 DEF IsNextLabel

(* The successor of a live block that falls through is live.               *)
LEMMA NextLive ==
  ASSUME NEW p, Valid(p), NEW b, Live(p, b), ~Terminated(p, b)
  PROVE  \E n : IsNextLabel(p, b, n) /\ Live(p, n)
<1>1. b \in LabelPos(p) /\ b \in Keep(p) /\ ~IsExtern(p, b) /\ p \in Seq(Op)
  BY KeepClosed DEF Live, Valid
<1>2. PICK n \in LabelPos(p) : IsNextLabel(p, b, n)
  BY <1>1, LastBlockEnds, NextLabelExists
<1>3. n \in Keep(p)
  BY <1>1, <1>2, KeepClosed DEF Refers
<1>4. ~IsExtern(p, n)
  BY <1>1, <1>2 DEF Valid, Defined
<1> QED BY <1>2, <1>3, <1>4 DEF Live

(* Pruning changes neither the end nor the successor of a live block.      *)
LEMMA SpanKept ==
  ASSUME NEW p, Valid(p), NEW b, Live(p, b)
  PROVE  /\ Terminated(p, b) <=> Terminated(Prune(p), b)
         /\ \A n : IsNextLabel(p, b, n) /\ Live(p, n) => IsNextLabel(Prune(p), b, n)
<1> DEFINE q == Prune(p)
<1>1. b \in LabelPos(p) /\ b \in Keep(p) /\ p \in Seq(Op)
  BY KeepClosed DEF Live, Valid
<1>2. /\ q \in Seq(Op)
      /\ Len(q) = Len(p)
      /\ LabelPos(q) = Keep(p)
      /\ \A i \in 1..Len(p) : i = b \/ InBlock(p, b, i) => q[i] = p[i]
  BY <1>1, PruneKept
<1>3. b \in 1..Len(p) /\ Len(p) \in Nat
  BY <1>1 DEF LabelPos
<1> HIDE DEF q
<1>4. \A i : InBlock(p, b, i) => InBlock(q, b, i) /\ q[i] = p[i]
  <2> SUFFICES ASSUME NEW i, InBlock(p, b, i)
               PROVE  InBlock(q, b, i) /\ q[i] = p[i]
    OBVIOUS
  <2>1. i \in (b + 1)..Len(p) /\ \A j \in (b + 1)..i : ~IsLabel(p[j])
    BY DEF InBlock
  <2>2. \A j \in (b + 1)..i : InBlock(p, b, j)
    BY <1>3, <2>1 DEF InBlock
  <2>3. \A j \in (b + 1)..i : q[j] = p[j]
    BY <1>2, <1>3, <2>1, <2>2
  <2> QED BY <1>2, <1>3, <2>1, <2>3 DEF InBlock
<1>5. Terminated(p, b) => Terminated(q, b)
  BY <1>2, <1>4 DEF Terminated
<1>6. ASSUME NEW n, IsNextLabel(p, b, n), Live(p, n)
      PROVE  IsNextLabel(q, b, n) /\ \A i : InBlock(q, b, i) => InBlock(p, b, i)
  <2>1. n \in Keep(p) /\ b < n /\ n \in 1..Len(p) /\ \A j \in (b + 1)..(n - 1) : ~IsLabel(p[j])
    BY <1>6 DEF IsNextLabel, LabelPos, Live
  <2>2. \A j \in (b + 1)..(n - 1) : InBlock(p, b, j)
    BY <1>3, <2>1 DEF InBlock
  <2>3. \A j \in (b + 1)..(n - 1) : q[j] = p[j]
    BY <1>2, <1>3, <2>1, <2>2
  <2>4. IsNextLabel(q, b, n)
    BY <1>2, <1>3, <2>1, <2>3 DEF IsNextLabel
  <2>5. IsLabel(q[n])
    BY <1>2, <2>1 DEF LabelPos
  <2>6. ASSUME NEW i, InBlock(q, b, i) PROVE InBlock(p, b, i)
    <3>1. i \in (b + 1)..Len(p) /\ \A j \in (b + 1)..i : ~IsLabel(q[j])
      BY <1>2, <2>6 DEF InBlock
    <3>2. i < n
      BY <1>3, <2>1, <2>5, <3>1
    <3> QED BY <1>3, <2>1, <2>2, <3>1, <3>2
  <2> QED BY <2>4, <2>6
<1>7. ~Terminated(p, b) => ~Terminated(q, b)
  <2> SUFFICES ASSUME ~Terminated(p, b) PROVE ~Terminated(q, b)
    OBVIOUS
  <2>1. PICK n : IsNextLabel(p, b, n) /\ Live(p, n)
    BY NextLive
  <2>2. \A i : InBlock(q, b, i) => InBlock(p, b, i) /\ q[i] = p[i]
    BY <1>4, <1>6, <2>1
  <2> QED BY <1>2, <2>2 DEF Terminated
<1> QED BY <1>5, <1>6, <1>7 DEF q

-----------------------------------------------------------------------------
(* Where control may stand.                                                *)
LEMMA EnterAt ==
  ASSUME NEW p, Valid(p), NEW b, Live(p, b)
  PROVE  At(p, b, b + 1)
<1>1. b \in LabelPos(p) /\ ~IsExtern(p, b) /\ b \in 1..Len(p) /\ Len(p) \in Nat
  BY KeepClosed DEF Live, Valid, LabelPos
<1>2. CASE b + 1 \in LabelPos(p)
  <2>1. IsNextLabel(p, b, b + 1)
    BY <1>1, <1>2 DEF IsNextLabel
  <2>2. ~Terminated(p, b)
    BY <1>1, <1>2 DEF Terminated, InBlock, LabelPos
  <2> QED BY <2>1, <2>2 DEF At
<1>3. CASE b + 1 \notin LabelPos(p) /\ b < Len(p)
  <2>1. InBlock(p, b, b + 1)
    BY <1>1, <1>3 DEF InBlock, LabelPos
  <2>2. \A j \in (b + 1)..((b + 1) - 1) : FALSE
    BY <1>1
  <2> QED BY <2>1, <2>2 DEF At
<1>4. CASE b >= Len(p)
  <2>1. ~Terminated(p, b)
    BY <1>1, <1>4 DEF Terminated
  <2>2. \E n \in LabelPos(p) : b < n
    BY <1>1, <2>1, LastBlockEnds
  <2> QED BY <1>1, <1>4, <2>2 DEF LabelPos
<1>5. b < Len(p) \/ b >= Len(p)
  BY <1>1
<1> QED BY <1>2, <1>3, <1>4, <1>5

(* Stepping over an op stays in its block, or arrives at the next label.   *)
LEMMA AdvanceAt ==
  ASSUME NEW p, Valid(p), NEW b, Live(p, b), NEW i, At(p, b, i),
         ~IsLabel(p[i]), ~IsTerminate(p[i])
  PROVE  At(p, b, i + 1)
<1>1. b \in LabelPos(p) /\ ~IsExtern(p, b) /\ b \in 1..Len(p) /\ Len(p) \in Nat
  BY KeepClosed DEF Live, Valid, LabelPos
<1>2. InBlock(p, b, i) /\ \A j \in (b + 1)..(i - 1) : ~IsTerminate(p[j])
  BY DEF At, IsNextLabel, LabelPos
<1>3. i \in (b + 1)..Len(p) /\ \A j \in (b + 1)..i : ~IsLabel(p[j])
  BY <1>2 DEF InBlock
<1>4. \A j \in (b + 1)..i : ~IsTerminate(p[j])
  BY <1>1, <1>2, <1>3
<1>5. CASE i + 1 \in LabelPos(p)
  <2>1. IsNextLabel(p, b, i + 1)
    BY <1>1, <1>3, <1>5 DEF IsNextLabel
  <2>2. \A j \in (b + 1)..Len(p) : InBlock(p, b, j) => j <= i
    BY <1>1, <1>3, <1>5 DEF InBlock, LabelPos
  <2>3. ~Terminated(p, b)
    BY <1>1, <1>3, <1>4, <2>2 DEF Terminated
  <2> QED BY <2>1, <2>3 DEF At
<1>6. CASE i + 1 \notin LabelPos(p) /\ i < Len(p)
  <2>1. InBlock(p, b, i + 1)
    BY <1>1, <1>3, <1>6 DEF InBlock, LabelPos
  <2> QED BY <1>1, <1>3, <1>4, <2>1 DEF At
<1>7. CASE i >= Len(p)
  <2>1. ~Terminated(p, b)
    BY <1>1, <1>3, <1>4, <1>7 DEF Terminated
  <2>2. \E n \in LabelPos(p) : b < n
    BY <1>1, <2>1, LastBlockEnds
  <2> QED BY <1>1, <1>3, <1>7, <2>2 DEF LabelPos
<1>8. i < Len(p) \/ i >= Len(p)
  BY <1>1, <1>3
<1> QED BY <1>5, <1>6, <1>7, <1>8

(* Pruning leaves the op that control stands at.                           *)
LEMMA OpKept ==
  ASSUME NEW p, Valid(p), NEW b, Live(p, b), NEW i, At(p, b, i)
  PROVE  i \in 1..Len(p) /\ Prune(p)[i] = p[i]
<1>1. b \in LabelPos(p) /\ b \in Keep(p) /\ ~IsExtern(p, b) /\ p \in Seq(Op)
  BY KeepClosed DEF Live, Valid
<1>2. b \in 1..Len(p) /\ Len(p) \in Nat
  BY <1>1 DEF LabelPos
<1>3. CASE InBlock(p, b, i)
  <2>1. i \in 1..Len(p)
    BY <1>2, <1>3 DEF InBlock
  <2> QED BY <1>1, <1>3, <2>1, PruneKept
<1>4. CASE IsNextLabel(p, b, i) /\ ~Terminated(p, b)
  <2>1. i \in LabelPos(p) /\ i \in 1..Len(p)
    BY <1>4 DEF IsNextLabel, LabelPos
  <2>2. i \in Keep(p)
    BY <1>1, <1>4, <2>1, KeepClosed DEF Refers
  <2> QED BY <1>1, <2>1, <2>2, PruneKept
<1> QED BY <1>3, <1>4 DEF At

(* Control at a label is about to fall through into its live block.        *)
LEMMA AtLabel ==
  ASSUME NEW p, Valid(p), NEW b, Live(p, b), NEW i, At(p, b, i), IsLabel(p[i])
  PROVE  Live(p, i) /\ ~Terminated(Prune(p), b)
<1>1. b \in LabelPos(p) /\ b \in Keep(p) /\ ~IsExtern(p, b) /\ p \in Seq(Op)
  BY KeepClosed DEF Live, Valid
<1>2. b \in 1..Len(p) /\ Len(p) \in Nat
  BY <1>1 DEF LabelPos
<1>3. ~InBlock(p, b, i)
  BY <1>2 DEF InBlock
<1>4. IsNextLabel(p, b, i) /\ ~Terminated(p, b)
  BY <1>3 DEF At
<1>5. i \in LabelPos(p)
  BY <1>4 DEF IsNextLabel
<1>6. i \in Keep(p)
  BY <1>1, <1>4, <1>5, KeepClosed DEF Refers
<1>7. ~IsExtern(p, i)
  BY <1>1, <1>4, <1>5 DEF Valid, Defined
<1>8. ~Terminated(Prune(p), b)
  BY <1>4, SpanKept
<1> QED BY <1>6, <1>7, <1>8 DEF Live

(* What a live block names is left, and live if it is jumped to.           *)
LEMMA TargetKept ==
  ASSUME NEW p, Valid(p), NEW b, Live(p, b), NEW i, At(p, b, i), IsCallLike(p[i])
  PROVE  LET t == PosOf(Prune(p), Prune(p)[i].l)
         IN  /\ t \in Keep(p)
             /\ Prune(p)[t] = p[t]
             /\ p[i].op \in {"jmp", "jcc"} => Live(p, t)
<1> DEFINE q == Prune(p)
           t == PosOf(q, q[i].l)
<1>1. b \in LabelPos(p) /\ b \in Keep(p) /\ ~IsExtern(p, b) /\ p \in Seq(Op)
  BY KeepClosed DEF Live, Valid
<1>2. i \in 1..Len(p) /\ q[i] = p[i]
  BY OpKept
<1>3. InBlock(p, b, i)
  BY DEF At, IsNextLabel, LabelPos, IsLabel, IsCallLike
<1>4. PICK c \in LabelPos(p) : p[c].l = p[i].l
  BY <1>2 DEF Valid, Accepts, LabelsDeclared
<1>5. c \in Keep(p)
  BY <1>1, <1>2, <1>3, <1>4, KeepClosed DEF Refers
<1>6. LabelPos(q) = Keep(p) /\ \A a \in Keep(p) : q[a] = p[a]
  BY <1>1, PruneKept, KeepClosed DEF LabelPos
<1>7. c \in LabelPos(q) /\ q[c].l = q[i].l
  BY <1>2, <1>4, <1>5, <1>6
<1>8. t \in LabelPos(q) /\ q[t].l = q[i].l
  BY <1>7 DEF PosOf
<1>9. t \in Keep(p) /\ q[t] = p[t] /\ p[t].l = p[i].l /\ t \in LabelPos(p)
  BY <1>2, <1>6, <1>8, KeepClosed
<1>10. p[i].op \in {"jmp", "jcc"} => ~IsExtern(p, t)
  BY <1>2, <1>9 DEF Valid, Defined
<1> QED BY <1>9, <1>10 DEF Live

(* The block of the next line of a jump.                                   *)
LEMMA NextLabelLive ==
  ASSUME NEW p, Valid(p), NEW c, Live(p, c), ~EndsSpan(Prune(p), c)
  PROVE  Live(p, NextLabel(Prune(p), c))
<1> DEFINE q == Prune(p)
           m == NextLabel(q, c)
<1>1. c \in Keep(p) /\ p \in Seq(Op)
  BY DEF Live, Valid
<1>2. q \in Seq(Op) /\ LabelPos(q) = Keep(p)
  BY <1>1, PruneKept
<1>3. ~Terminated(p, c) /\ ~LastLabel(q, c)
  BY SpanKept DEF EndsSpan
<1>4. PICK n : IsNextLabel(p, c, n) /\ Live(p, n)
  BY <1>3, NextLive
<1>5. IsNextLabel(q, c, n)
  BY <1>4, SpanKept
<1>6. IsNextLabel(q, c, m)
  BY <1>1, <1>2, <1>3, NextLabelIsNext
<1>7. m = n
  BY <1>1, <1>2, <1>5, <1>6 DEF IsNextLabel, LabelPos
<1> QED BY <1>4, <1>7

-----------------------------------------------------------------------------
(* The frames of the stack.                                                *)
LEMMA FrameTypes ==
  ASSUME NEW f \in Frame
  PROVE  /\ [f EXCEPT !.i = @ + 1] = [fn |-> f.fn, i |-> f.i + 1, c |-> f.c, via |-> f.via]
         /\ [f EXCEPT !.i = @ + 1] \in Frame
         /\ \A n \in Nat : /\ [f EXCEPT !.c = n] = [fn |-> f.fn, i |-> f.i, c |-> n, via |-> f.via]
                           /\ [f EXCEPT !.c = n] \in Frame
         /\ \A b \in Nat, how \in Via : Enter(b, how) \in Frame
<1>1. f = [fn |-> f.fn, i |-> f.i, c |-> f.c, via |-> f.via] /\ f.i + 1 \in Nat
  BY DEF Frame
<1>2. f.fn \in Nat /\ f.i \in Nat /\ f.c \in Nat /\ f.via \in Via
  BY DEF Frame
<1>3. \A b \in Nat, how \in Via : Enter(b, how) \in Frame
  BY DEF Enter, Frame
<1>4. /\ [f EXCEPT !.i = @ + 1] = [fn |-> f.fn, i |-> f.i + 1, c |-> f.c, via |-> f.via]
      /\ [f EXCEPT !.i = @ + 1] \in Frame
  BY <1>1, <1>2 DEF Frame
<1>5. \A n \in Nat : /\ [f EXCEPT !.c = n] = [fn |-> f.fn, i |-> f.i, c |-> n, via |-> f.via]
                    /\ [f EXCEPT !.c = n] \in Frame
  BY <1>1, <1>2 DEF Frame
<1> QED BY <1>3, <1>4, <1>5

(* A counting fact for the length of the stack.                            *)
LEMMA OneOrMore == \A n \in Nat : n > 0 => n = 1 \/ n > 1
OBVIOUS

(* Popping, replacing the innermost frame, and pushing on it.              *)
LEMMA StackTypes ==
  ASSUME NEW S, NEW s \in Seq(S), s # <<>>
  PROVE  /\ s[Len(s)] \in S
         /\ SubSeq(s, 1, Len(s) - 1) \in Seq(S)
         /\ \A f \in S : Append(SubSeq(s, 1, Len(s) - 1), f) \in Seq(S)
         /\ \A f, g \in S : SubSeq(s, 1, Len(s) - 1) \o <<f, g>> \in Seq(S)
         /\ Len(s) > 1 => SubSeq(s, 1, Len(s) - 1) # <<>> /\ SubSeq(s, 1, Len(s) - 1)[1] = s[1]
         /\ Len(s) = 1 => SubSeq(s, 1, Len(s) - 1) = <<>>
<1>1. Len(s) \in Nat /\ Len(s) > 0
  BY EmptySeq
<1>2. s[Len(s)] \in S
  BY <1>1
<1>3. SubSeq(s, 1, Len(s) - 1) \in Seq(S)
  BY <1>1, SubSeqProperties
<1>4. Len(s) > 1 => SubSeq(s, 1, Len(s) - 1) # <<>> /\ SubSeq(s, 1, Len(s) - 1)[1] = s[1]
  <2>1. \A i \in 1..(Len(s) - 1) : s[i] \in S
    BY <1>1
  <2>2. /\ Len(SubSeq(s, 1, Len(s) - 1)) = IF 1 <= Len(s) - 1 THEN (Len(s) - 1) - 1 + 1 ELSE 0
        /\ \A i \in 1..((Len(s) - 1) - 1 + 1) : SubSeq(s, 1, Len(s) - 1)[i] = s[1 + i - 1]
    BY <1>1, <2>1, SubSeqProperties
  <2>3. Len(s) > 1 => Len(SubSeq(s, 1, Len(s) - 1)) > 0 /\ SubSeq(s, 1, Len(s) - 1)[1] = s[1]
    BY <1>1, <2>2
  <2>4. Len(<<>>) = 0
    OBVIOUS
  <2>5. SubSeq(s, 1, Len(s) - 1) = <<>> => Len(SubSeq(s, 1, Len(s) - 1)) = 0
    BY <2>4, Zenon
  <2>6. \A n : n > 0 => ~(n = 0)
    OBVIOUS
  <2>7. Len(s) > 1 => ~(Len(SubSeq(s, 1, Len(s) - 1)) = 0)
    BY <2>3, <2>6, Zenon
  <2> QED BY <2>3, <2>5, <2>7, Zenon
<1>5. Len(s) = 1 => SubSeq(s, 1, Len(s) - 1) = <<>>
  BY <1>1, SubSeqEmpty
<1> QED BY <1>2, <1>3, <1>4, <1>5, AppendProperties, ConcatProperties

(* Replacing the innermost frame, and pushing on it, change no first frame *)
(* but that of a stack of one.                                             *)
LEMMA FirstFrame ==
  ASSUME NEW S, NEW r \in Seq(S), NEW f \in S, NEW g \in S
  PROVE  /\ Append(r, f) # <<>> /\ Append(r, f)[1] = IF r = <<>> THEN f ELSE r[1]
         /\ r \o <<f, g>> # <<>> /\ (r \o <<f, g>>)[1] = IF r = <<>> THEN f ELSE r[1]
<1>1. Len(r) \in Nat /\ (r = <<>> <=> Len(r) = 0)
  BY EmptySeq
<1>2. Append(r, f) # <<>> /\ Append(r, f)[1] = IF r = <<>> THEN f ELSE r[1]
  BY <1>1, AppendProperties, EmptySeq
<1>3. <<f, g>> \in Seq(S) /\ Len(<<f, g>>) = 2 /\ <<f, g>>[1] = f
  OBVIOUS
<1>4. /\ Len(r \o <<f, g>>) = Len(r) + 2
      /\ (r \o <<f, g>>)[1] = IF 1 <= Len(r) THEN r[1] ELSE <<f, g>>[1 - Len(r)]
  BY <1>1, <1>3, ConcatProperties
<1>5. r \o <<f, g>> # <<>>
  BY <1>1, <1>4, EmptySeq
<1> QED BY <1>1, <1>2, <1>3, <1>4, <1>5

(* Frames whose next line, if any, is that of a label that is left.        *)
LineFrame(p) == {f \in Frame : f.i > 0 /\ (f.c # 0 => f.c \in LabelPos(p))}

(* Stacks with an outermost frame that hands its value to nobody.          *)
Stacks(p) == {s \in Seq(LineFrame(p)) : s # <<>> => s[1].via = "top"}

(* Entering a block, stepping and waiting in a jump give frames again.     *)
LEMMA LineFrames ==
  ASSUME NEW p, NEW f \in LineFrame(p)
  PROVE  /\ f \in Frame
         /\ [f EXCEPT !.i = @ + 1] \in LineFrame(p) /\ [f EXCEPT !.i = @ + 1].via = f.via
         /\ \A n \in LabelPos(p) : [f EXCEPT !.c = n] \in LineFrame(p) /\ [f EXCEPT !.c = n].via = f.via
         /\ \A b \in Nat, how \in Via : Enter(b, how) \in LineFrame(p)
<1>1. f \in Frame
  BY DEF LineFrame
<1>2. LabelPos(p) \subseteq Nat
  BY DEF LabelPos
<1>3. [f EXCEPT !.i = @ + 1] \in LineFrame(p) /\ [f EXCEPT !.i = @ + 1].via = f.via
  <2> DEFINE g == [f EXCEPT !.i = @ + 1]
  <2>1. g \in Frame /\ g = [fn |-> f.fn, i |-> f.i + 1, c |-> f.c, via |-> f.via]
    BY <1>1, FrameTypes
  <2>2. f.i \in Nat /\ (f.c # 0 => f.c \in LabelPos(p))
    BY DEF LineFrame, Frame
  <2> HIDE DEF g
  <2>3. g \in LineFrame(p) /\ g.via = f.via
    BY <2>1, <2>2 DEF LineFrame
  <2> QED BY <2>3 DEF g
<1>4. ASSUME NEW n \in LabelPos(p)
      PROVE  [f EXCEPT !.c = n] \in LineFrame(p) /\ [f EXCEPT !.c = n].via = f.via
  <2> DEFINE g == [f EXCEPT !.c = n]
  <2>1. g \in Frame /\ g = [fn |-> f.fn, i |-> f.i, c |-> n, via |-> f.via]
    BY <1>1, <1>2, FrameTypes
  <2>2. f.i > 0
    BY DEF LineFrame
  <2> HIDE DEF g
  <2>3. g \in LineFrame(p) /\ g.via = f.via
    BY <2>1, <2>2 DEF LineFrame
  <2> QED BY <2>3 DEF g
<1>5. ASSUME NEW b \in Nat, NEW how \in Via
      PROVE  Enter(b, how) \in LineFrame(p)
  BY DEF LineFrame, Enter, Frame
<1> QED BY <1>1, <1>3, <1>4, <1>5

(* The stacks that the steps of the machine make.                          *)
LEMMA StackFrames ==
  ASSUME NEW p, NEW s, StackOK(p, s), s # <<>>
  PROVE  /\ FrameOK(p, s[Len(s)])
         /\ StackOK(p, SubSeq(s, 1, Len(s) - 1))
         /\ \A f : FrameOK(p, f) => StackOK(p, Append(SubSeq(s, 1, Len(s) - 1), f))
         /\ \A f, g : FrameOK(p, f) /\ FrameOK(p, g)
                     => StackOK(p, SubSeq(s, 1, Len(s) - 1) \o <<f, g>>)
<1> DEFINE r == SubSeq(s, 1, Len(s) - 1)
<1>1. s \in Seq(Frame) /\ Len(s) \in Nat /\ Len(s) > 0
  BY EmptySeq DEF StackOK
<1>2. FrameOK(p, s[Len(s)])
  BY <1>1 DEF StackOK
<1>3. r \in Seq(Frame) /\ Len(r) = Len(s) - 1 /\ \A k \in 1..Len(r) : r[k] = s[k]
  <2>1. \A m \in 1..Len(s) + 1, n \in 0..Len(s) : m <= n + 1 =>
          /\ SubSeq(s, m, n) \in Seq(Frame)
          /\ Len(SubSeq(s, m, n)) = n - m + 1
          /\ \A k \in 1..(n - m + 1) : SubSeq(s, m, n)[k] = s[m + k - 1]
    BY <1>1, SubSeqProperties
  <2>2. 1 \in 1..Len(s) + 1 /\ Len(s) - 1 \in 0..Len(s) /\ 1 <= (Len(s) - 1) + 1
    BY <1>1
  <2>3. /\ r \in Seq(Frame)
        /\ Len(r) = (Len(s) - 1) - 1 + 1
        /\ \A k \in 1..((Len(s) - 1) - 1 + 1) : r[k] = s[1 + k - 1]
    BY <2>1, <2>2
  <2> QED BY <1>1, <2>3
<1> HIDE DEF r
<1>4. \A k \in 1..Len(r) : FrameOK(p, r[k])
  BY <1>1, <1>3 DEF StackOK
<1>5. ASSUME NEW f, FrameOK(p, f)
      PROVE  StackOK(p, Append(r, f))
  <2>1. f \in Frame
    BY <1>5 DEF FrameOK
  <2>2. Append(r, f) \in Seq(Frame) /\ Len(Append(r, f)) = Len(r) + 1
    BY <1>3, <2>1, AppendProperties
  <2>3. \A k \in 1..Len(Append(r, f)) : Append(r, f)[k] = IF k = Len(r) + 1 THEN f ELSE r[k]
    <3>0. r \in Seq(Frame)
      BY <1>3
    <3>1. /\ \A k \in 1..Len(r) : Append(r, f)[k] = r[k]
          /\ Append(r, f)[Len(r) + 1] = f
      BY <2>1, <3>0, AppendProperties
    <3>2. Len(r) \in Nat
      BY <1>1, <1>3
    <3>3. \A k \in 1..(Len(r) + 1) : k = Len(r) + 1 \/ (k \in 1..Len(r) /\ k # Len(r) + 1)
      BY <3>2
    <3> QED BY <2>2, <3>1, <3>3, Zenon
  <2>4. \A k \in 1..Len(Append(r, f)) : FrameOK(p, Append(r, f)[k])
    <3> TAKE k \in 1..Len(Append(r, f))
    <3>1. CASE k = Len(r) + 1
      BY <1>5, <2>3, <3>1
    <3>2. CASE k # Len(r) + 1
      <4>1. k \in 1..Len(r)
        BY <1>1, <1>3, <2>2, <3>2
      <4> QED BY <1>4, <2>3, <3>2, <4>1
    <3> QED BY <3>1, <3>2
  <2> QED BY <2>2, <2>4 DEF StackOK
<1>6. ASSUME NEW f, NEW g, FrameOK(p, f), FrameOK(p, g)
      PROVE  StackOK(p, r \o <<f, g>>)
  <2>1. f \in Frame /\ g \in Frame
    BY <1>6 DEF FrameOK
  <2>2. <<f, g>> \in Seq(Frame) /\ Len(<<f, g>>) = 2
    BY <2>1
  <2> DEFINE t == r \o <<f, g>>
  <2>3. t \in Seq(Frame) /\ Len(t) = Len(r) + 2
    BY <1>3, <2>2, ConcatProperties
  <2>4. \A k \in 1..Len(t) : t[k] = IF k <= Len(r) THEN r[k] ELSE <<f, g>>[k - Len(r)]
    BY <1>3, <2>2, <2>3, ConcatProperties
  <2> HIDE DEF t
  <2>5. \A k \in 1..Len(t) : FrameOK(p, t[k])
    <3> TAKE k \in 1..Len(t)
    <3>1. CASE k \in 1..Len(r)
      BY <1>1, <1>3, <1>4, <2>4, <3>1
    <3>2. CASE k = Len(r) + 1
      <4>1. t[k] = f
        BY <1>1, <1>3, <2>4, <3>2
      <4> QED BY <1>6, <4>1
    <3>3. CASE k = Len(r) + 2
      <4>1. t[k] = g
        BY <1>1, <1>3, <2>4, <3>3
      <4> QED BY <1>6, <4>1
    <3> QED BY <1>1, <1>3, <2>3, <3>1, <3>2, <3>3
  <2> QED BY <2>3, <2>5 DEF StackOK, t
<1> QED BY <1>2, <1>3, <1>4, <1>5, <1>6 DEF StackOK, r

-----------------------------------------------------------------------------
(* Type correctness is inductive once the state also knows that functions  *)
(* run only after a compile that has found every label.                    *)
TypeInv ==
  /\ prog \in Programs
  /\ out \in Seq(Op)
  /\ phase \in {"parsed", "rejected", "crashed", "built"}
  /\ x \in 0..(Width - 1)
  /\ stack \in Stacks(out)
  /\ ret \in {"none", "zero", "one"}
  /\ phase # "built" => stack = <<>> /\ ret = "none"
  /\ phase = "built" => Accepts(prog) /\ out = Prune(prog) /\ LabelsDeclared(out)
  /\ ret # "none" => stack # <<>>

(* TypeInv is stronger than TypeOK.                                        *)
LEMMA TypeInvImplies == TypeInv => TypeOK
<1> SUFFICES ASSUME TypeInv PROVE TypeOK
  OBVIOUS
<1>1. prog \in Seq(Op)
  BY ProgramsAssumption DEF TypeInv
<1>2. stack \in Seq(Frame)
  <2>1. stack \in Seq(LineFrame(out)) /\ LineFrame(out) \subseteq Frame
    BY DEF TypeInv, LineFrame, Stacks
  <2> QED BY <2>1 DEF Stacks
<1> QED BY <1>1, <1>2 DEF TypeInv, TypeOK

(* It holds at first,                                                      *)
LEMMA TypeInvInit == Init => TypeInv
<1> SUFFICES ASSUME Init PROVE TypeInv
  OBVIOUS
<1>1. 0 \in 0..(Width - 1)
  BY WidthAssumption
<1>2. <<>> \in Stacks(out) /\ <<>> \in Seq(Op)
  BY DEF Stacks
<1> QED BY <1>1, <1>2 DEF Init, TypeInv

(* What a running function makes of the stack.                             *)
LEMMA RunningTypes ==
  ASSUME TypeInv, Running
  PROVE  /\ phase = "built" /\ ret = "none"
         /\ stack # <<>>
         /\ Top \in LineFrame(out)
         /\ Advance => stack' \in Stacks(out) /\ stack' # <<>>
         /\ \A b \in Nat : TailCall(b) => stack' \in Stacks(out) /\ stack' # <<>>
         /\ \A b \in Nat, how \in Via, f \in LineFrame(out) :
              Push(f, b, how) /\ f.via = Top.via => stack' \in Stacks(out) /\ stack' # <<>>
<1> DEFINE F == LineFrame(out)
<1>1. stack \in Seq(F) /\ stack # <<>> /\ phase = "built" /\ ret = "none" /\ stack[1].via = "top"
  BY DEF TypeInv, Running, Stacks
<1>2. /\ Top \in F
      /\ Below \in Seq(F)
      /\ \A f \in F : Append(Below, f) \in Seq(F)
      /\ \A f, g \in F : Below \o <<f, g>> \in Seq(F)
  BY <1>1, StackTypes DEF Top, Below
<1>3. IF Below = <<>> THEN Top.via = "top" ELSE Below[1].via = "top"
  <2>1. Len(stack) \in Nat /\ Len(stack) > 0
    BY <1>1, EmptySeq
  <2>2. CASE Len(stack) = 1
    BY <1>1, <2>2, StackTypes DEF Top, Below
  <2>3. CASE Len(stack) > 1
    BY <1>1, <2>3, StackTypes DEF Below
  <2>4. Len(stack) = 1 \/ Len(stack) > 1
    BY <2>1, OneOrMore
  <2> QED BY <2>2, <2>3, <2>4
<1>4. ASSUME NEW f \in F, f.via = Top.via
      PROVE  /\ Append(Below, f) \in Stacks(out) /\ Append(Below, f) # <<>>
             /\ \A g \in F : Below \o <<f, g>> \in Stacks(out) /\ Below \o <<f, g>> # <<>>
  <2>1. Append(Below, f) # <<>> /\ Append(Below, f)[1].via = "top"
    BY <1>2, <1>3, <1>4, FirstFrame
  <2>2. \A g \in F : Below \o <<f, g>> # <<>> /\ (Below \o <<f, g>>)[1].via = "top"
    BY <1>2, <1>3, <1>4, FirstFrame
  <2> QED BY <1>2, <2>1, <2>2 DEF Stacks
<1>5. Advance => stack' \in Stacks(out) /\ stack' # <<>>
  <2>1. [Top EXCEPT !.i = @ + 1] \in F /\ [Top EXCEPT !.i = @ + 1].via = Top.via
    BY <1>2, LineFrames
  <2> QED BY <1>4, <2>1 DEF Advance
<1>6. Top.via \in Via
  <2>1. Top \in Frame
    BY <1>2 DEF LineFrame
  <2> QED BY <2>1 DEF Frame
<1>7. ASSUME NEW b \in Nat, TailCall(b) PROVE stack' \in Stacks(out) /\ stack' # <<>>
  <2>1. Enter(b, Top.via) \in F /\ Enter(b, Top.via).via = Top.via
    BY <1>2, <1>6, LineFrames DEF Enter
  <2> QED BY <1>4, <1>7, <2>1 DEF TailCall
<1>8. ASSUME NEW b \in Nat, NEW how \in Via, NEW f \in F, Push(f, b, how), f.via = Top.via
      PROVE  stack' \in Stacks(out) /\ stack' # <<>>
  <2>1. Enter(b, how) \in F
    BY <1>2, LineFrames
  <2> QED BY <1>4, <1>8, <2>1 DEF Push
<1> QED BY <1>1, <1>2, <1>5, <1>7, <1>8

(* A jump leaves a stack again.                                            *)
LEMMA JumpLineTypes ==
  ASSUME TypeInv, Running, NEW b \in LabelPos(out), JumpLine(b)
  PROVE  stack' \in Stacks(out) /\ stack' # <<>>
<1> DEFINE c == IF Top.c = 0 THEN b ELSE Top.c
<1>1. Top \in LineFrame(out) /\ out \in Seq(Op)
  BY RunningTypes DEF TypeInv
<1>2. c \in LabelPos(out) /\ c \in Nat
  BY <1>1 DEF LineFrame, LabelPos
<1>3. CASE EndsSpan(out, c)
  BY <1>2, <1>3, RunningTypes DEF JumpLine
<1>4. CASE ~EndsSpan(out, c)
  <2>1. NextLabel(out, c) \in LabelPos(out)
    BY <1>1, <1>2, <1>4, NextLabelIsNext DEF EndsSpan
  <2>2. [Top EXCEPT !.c = NextLabel(out, c)] \in LineFrame(out) /\ [Top EXCEPT !.c = NextLabel(out, c)].via = Top.via
    BY <1>1, <2>1, LineFrames
  <2> QED BY <1>2, <1>4, <2>2, RunningTypes DEF JumpLine, Via
<1> QED BY <1>3, <1>4

(* The label an op names is there.                                         *)
LEMMA TargetTypes ==
  ASSUME TypeInv, Running, Top.i <= Len(out), IsCallLike(out[Top.i])
  PROVE  Target \in LabelPos(out) /\ Target \in Nat
<1>1. Top.i \in 1..Len(out)
  BY RunningTypes DEF LineFrame, Frame, TypeInv
<1>2. LabelsDeclared(out)
  BY DEF TypeInv, Running
<1>3. \E b \in LabelPos(out) : out[b].l = out[Top.i].l
  BY <1>1, <1>2 DEF LabelsDeclared
<1> QED BY <1>3 DEF Target, PosOf, LabelPos

(* and every step keeps it.                                                *)
LEMMA TypeInvNext == TypeInv /\ [Next]_vars => TypeInv'
<1> SUFFICES ASSUME TypeInv, [Next]_vars
             PROVE  TypeInv'
  OBVIOUS
<1>1. CASE UNCHANGED vars
  BY <1>1 DEF vars, TypeInv, LineFrame, Stacks, LabelPos
<1>2. CASE Verify
  <2>1. stack = <<>> /\ ret = "none"
    BY <1>2 DEF Verify, TypeInv
  <2>2. stack' = <<>> /\ ret' = "none" /\ prog' = prog /\ x' = x
    BY <1>2, <2>1 DEF Verify
  <2>3. stack' \in Stacks(out')
    BY <2>2 DEF Stacks
  <2>4. prog \in Seq(Op)
    BY ProgramsAssumption DEF TypeInv
  <2>5. CASE ~Accepts(prog)
    BY <1>2, <2>2, <2>3, <2>5 DEF Verify, TypeInv
  <2>6. CASE Accepts(prog)
    <3>1. out' = Prune(prog) /\ phase' = IF LabelsDeclared(out') THEN "built" ELSE "crashed"
      BY <1>2, <2>6 DEF Verify
    <3>2. out' \in Seq(Op)
      BY <2>4, <3>1, PruneKept
    <3> QED BY <2>2, <2>3, <2>6, <3>1, <3>2 DEF TypeInv
  <2> QED BY <2>5, <2>6
<1>3. CASE Invoke
  <2>1. PICK b \in Roots(out) : stack' = <<Enter(b, "top")>>
    BY <1>3 DEF Invoke
  <2>2. b \in Nat
    BY DEF Roots, LabelPos
  <2>3. Enter(b, "top") \in LineFrame(out)
    BY <2>2 DEF Enter, LineFrame, Frame, Via
  <2>4. stack' \in Stacks(out) /\ stack' # <<>>
    BY <2>1, <2>3 DEF Stacks, Enter
  <2> QED BY <1>3, <2>4 DEF Invoke, TypeInv
(* The other steps leave the unit alone.                                   *)
<1>4. ASSUME UNCHANGED <<prog, out, phase>>, phase = "built",
             x' \in 0..(Width - 1), stack' \in Stacks(out),
             ret' \in {"none", "zero", "one"}, ret' # "none" => stack' # <<>>
      PROVE  TypeInv'
  BY <1>4 DEF TypeInv, Stacks, LineFrame, LabelPos
<1>5. Running => /\ phase = "built" /\ ret = "none" /\ x \in 0..(Width - 1)
                 /\ stack # <<>> /\ stack \in Stacks(out)
  BY DEF Running, TypeInv
<1>6. CASE NoCommand
  <2>1. Running /\ Advance
    BY <1>6 DEF NoCommand, Here
  <2>2. stack' \in Stacks(out)
    BY <2>1, RunningTypes
  <2> QED BY <1>4, <1>5, <1>6, <2>1, <2>2 DEF NoCommand
<1>7. CASE Add
  <2>1. Running /\ Advance
    BY <1>7 DEF Add, Here
  <2>2. stack' \in Stacks(out)
    BY <2>1, RunningTypes
  <2>3. x' \in 0..(Width - 1)
    BY <1>5, <1>7, <2>1, WidthAssumption DEF Add
  <2> QED BY <1>4, <1>5, <1>7, <2>1, <2>2, <2>3 DEF Add
<1>8. CASE Call
  <2>1. Running /\ Top.i <= Len(out) /\ IsCallLike(out[Top.i])
    BY <1>8 DEF Call, Here, IsCallLike
  <2>2. Target \in Nat
    BY <2>1, TargetTypes
  <2>3. [Top EXCEPT !.i = @ + 1] \in LineFrame(out) /\ [Top EXCEPT !.i = @ + 1].via = Top.via
    BY <2>1, RunningTypes, LineFrames
  <2>4. stack' \in Stacks(out)
    BY <1>8, <2>1, <2>2, <2>3, RunningTypes DEF Call, Via
  <2> QED BY <1>4, <1>5, <1>8, <2>1, <2>4 DEF Call
<1>9. CASE CallExtern
  <2>1. Running /\ Advance
    BY <1>9 DEF CallExtern, Here
  <2>2. stack' \in Stacks(out)
    BY <2>1, RunningTypes
  <2> QED BY <1>4, <1>5, <1>9, <2>1, <2>2 DEF CallExtern
<1>10. CASE Jump
  <2>1. Running /\ Top.i <= Len(out) /\ IsCallLike(out[Top.i])
    BY <1>10 DEF Jump, Here, IsCallLike
  <2>2. stack' \in Stacks(out)
    BY <1>10, <2>1, TargetTypes, JumpLineTypes DEF Jump
  <2> QED BY <1>4, <1>5, <1>10, <2>1, <2>2 DEF Jump
<1>11. CASE NextBlock
  <2>1. Running /\ Top.i <= Len(out) /\ out[Top.i].op = "label"
    BY <1>11 DEF NextBlock, Here
  <2>2. Top.i \in Nat /\ Top.i > 0
    BY <2>1, RunningTypes DEF LineFrame, Frame
  <2>3. Top.i \in LabelPos(out)
    BY <2>1, <2>2 DEF LabelPos, IsLabel, TypeInv
  <2>4. stack' \in Stacks(out)
    BY <1>11, <2>1, <2>3, JumpLineTypes DEF NextBlock
  <2> QED BY <1>4, <1>5, <1>11, <2>1, <2>4 DEF NextBlock
<1>12. CASE CondJump
  <2>1. Running /\ Top.i <= Len(out) /\ IsCallLike(out[Top.i])
    BY <1>12 DEF CondJump, Here, IsCallLike
  <2>2. Target \in Nat /\ Top \in LineFrame(out)
    BY <2>1, TargetTypes, RunningTypes
  <2>3. stack' \in Stacks(out)
    BY <1>12, <2>1, <2>2, RunningTypes DEF CondJump, Via
  <2> QED BY <1>4, <1>5, <1>12, <2>1, <2>3 DEF CondJump
<1>13. CASE Ret
  BY <1>4, <1>5, <1>13 DEF Ret, Here
<1>14. CASE CondRet
  <2>1. Running
    BY <1>14 DEF CondRet, Here
  <2>2. stack' \in Stacks(out) /\ ret' \in {"none", "one"} /\ (ret' # "none" => stack' = stack)
    BY <1>5, <1>14, <2>1, RunningTypes DEF CondRet
  <2> QED BY <1>4, <1>5, <1>14, <2>1, <2>2 DEF CondRet
<1>15. CASE FallOff
  BY <1>4, <1>5, <1>15 DEF FallOff
<1>16. CASE Unwind
  <2>1. stack \in Seq(LineFrame(out)) /\ stack # <<>> /\ stack[1].via = "top" /\ ret \in {"zero", "one"}
    BY <1>16 DEF Unwind, TypeInv, Stacks
  <2>2. phase = "built" /\ x \in 0..(Width - 1)
    BY <1>16 DEF Unwind, TypeInv
  <2>3. Top.via \in Via
    BY <2>1, StackTypes DEF LineFrame, Frame, Top
  <2>4. ret' \in {"none", "one", "zero"} /\ (ret' # "none" => Top.via # "top")
    BY <1>16, <2>1, <2>3 DEF Unwind, Via
  <2>5. Len(stack) \in Nat /\ Len(stack) > 0
    BY <2>1, EmptySeq
  <2>6. CASE Len(stack) = 1
    <3>1. stack' = <<>> /\ Top.via = "top"
      BY <1>16, <2>1, <2>6, StackTypes DEF Unwind, Top, Below
    <3>2. stack' \in Stacks(out)
      BY <3>1 DEF Stacks
    <3> QED BY <1>4, <1>16, <2>2, <2>4, <3>1, <3>2 DEF Unwind
  <2>7. CASE Len(stack) > 1
    <3>1. stack' \in Seq(LineFrame(out)) /\ stack' # <<>> /\ stack'[1].via = "top"
      BY <1>16, <2>1, <2>7, StackTypes DEF Unwind, Below
    <3>2. stack' \in Stacks(out)
      BY <3>1 DEF Stacks
    <3> QED BY <1>4, <1>16, <2>2, <2>4, <3>1, <3>2 DEF Unwind
  <2>8. Len(stack) = 1 \/ Len(stack) > 1
    BY <2>5, OneOrMore
  <2> QED BY <2>6, <2>7, <2>8
<1>17. CASE Cut
  <2>1. phase = "built" /\ x \in 0..(Width - 1)
    BY <1>17 DEF Cut, TypeInv
  <2>2. <<>> \in Stacks(out)
    BY DEF Stacks
  <2> QED BY <1>4, <1>17, <2>1, <2>2 DEF Cut
<1> QED BY <1>1, <1>2, <1>3, <1>6, <1>7, <1>8, <1>9, <1>10, <1>11, <1>12, <1>13,
           <1>14, <1>15, <1>16, <1>17 DEF Next

(* Every variable keeps its type while the unit is verified, compiled and  *)
(* run, for every set of units, width and bound on nested functions.       *)
THEOREM TypeCorrect == Spec => []TypeOK
<1>1. Spec => []TypeInv
  BY TypeInvInit, TypeInvNext, PTL DEF Spec
<1> QED BY <1>1, TypeInvImplies, PTL

-----------------------------------------------------------------------------
(* Every running function of a defined unit is a live block with control   *)
(* where it may stand, and no value but 1 is handed up.                    *)
FlowInv ==
  /\ TypeInv
  /\ phase = "built" /\ Defined(prog) => StackOK(prog, stack) /\ ret # "zero"

(* The innermost frame of a running unit stands in a live block.           *)
LEMMA RunningFlow ==
  ASSUME TypeInv, phase = "built", Defined(prog), StackOK(prog, stack), stack # <<>>
  PROVE  /\ Valid(prog) /\ out = Prune(prog)
         /\ FrameOK(prog, Top)
         /\ Top.i \in 1..Len(out) /\ out[Top.i] = prog[Top.i]
         /\ StackOK(prog, Below)
         /\ Advance /\ ~IsLabel(out[Top.i]) /\ ~IsTerminate(out[Top.i]) => StackOK(prog, stack')
         /\ \A b : Live(prog, b) /\ TailCall(b) => StackOK(prog, stack')
         /\ \A b, f : \A how \in Via :
              Live(prog, b) /\ FrameOK(prog, f) /\ Push(f, b, how) => StackOK(prog, stack')
<1>1. Valid(prog) /\ out = Prune(prog)
  BY ProgramsAssumption DEF TypeInv, Valid
<1>2. /\ FrameOK(prog, Top)
      /\ StackOK(prog, Below)
      /\ \A f : FrameOK(prog, f) => StackOK(prog, Append(Below, f))
      /\ \A f, g : FrameOK(prog, f) /\ FrameOK(prog, g) => StackOK(prog, Below \o <<f, g>>)
  BY StackFrames DEF Top, Below
<1>3. Top \in Frame /\ Live(prog, Top.fn) /\ At(prog, Top.fn, Top.i)
  BY <1>2 DEF FrameOK
<1>4. Top.i \in 1..Len(prog) /\ out[Top.i] = prog[Top.i] /\ Len(out) = Len(prog)
  BY <1>1, <1>3, OpKept, PruneKept DEF Valid
<1>5. ASSUME NEW b, Live(prog, b), NEW how \in Via
      PROVE  FrameOK(prog, Enter(b, how))
  <2>1. b \in Nat
    BY <1>5, KeepClosed DEF Live, LabelPos
  <2>2. Enter(b, how) \in Frame
    BY <1>3, <2>1, FrameTypes
  <2>3. At(prog, b, b + 1)
    BY <1>1, <1>5, EnterAt
  <2> QED BY <1>5, <2>2, <2>3 DEF FrameOK, Enter
<1>6. ASSUME Advance, ~IsLabel(out[Top.i]), ~IsTerminate(out[Top.i])
      PROVE  StackOK(prog, stack')
  <2> DEFINE f == [Top EXCEPT !.i = @ + 1]
  <2>1. f \in Frame /\ f = [fn |-> Top.fn, i |-> Top.i + 1, c |-> Top.c, via |-> Top.via]
    BY <1>3, FrameTypes
  <2>2. stack' = Append(Below, f)
    BY <1>6 DEF Advance
  <2> HIDE DEF f
  <2>3. At(prog, Top.fn, Top.i + 1)
    BY <1>1, <1>3, <1>4, <1>6, AdvanceAt
  <2>4. FrameOK(prog, f)
    BY <1>2, <1>3, <2>1, <2>3 DEF FrameOK
  <2> QED BY <1>2, <2>2, <2>4
<1>7. ASSUME NEW b, Live(prog, b), TailCall(b)
      PROVE  StackOK(prog, stack')
  <2>1. Top.via \in Via
    BY <1>3 DEF Frame
  <2> QED BY <1>2, <1>5, <1>7, <2>1 DEF TailCall
<1>8. ASSUME NEW b, NEW f, NEW how \in Via, Live(prog, b), FrameOK(prog, f), Push(f, b, how)
      PROVE  StackOK(prog, stack')
  BY <1>2, <1>5, <1>8 DEF Push
<1> QED BY <1>1, <1>2, <1>4, <1>6, <1>7, <1>8

(* A jump leaves live blocks on the stack.                                 *)
LEMMA JumpLineFlow ==
  ASSUME TypeInv, phase = "built", Defined(prog), StackOK(prog, stack), stack # <<>>,
         NEW b, Live(prog, b), JumpLine(b)
  PROVE  StackOK(prog, stack')
<1> DEFINE c == IF Top.c = 0 THEN b ELSE Top.c
           f == [Top EXCEPT !.c = NextLabel(out, c)]
<1>1. Valid(prog) /\ out = Prune(prog) /\ FrameOK(prog, Top)
  BY RunningFlow
<1>2. Live(prog, c)
  BY <1>1 DEF FrameOK
<1>3. CASE EndsSpan(out, c)
  BY <1>2, <1>3, RunningFlow DEF JumpLine
<1>4. CASE ~EndsSpan(out, c)
  <2>1. Live(prog, NextLabel(out, c))
    BY <1>1, <1>2, <1>4, NextLabelLive
  <2>2. NextLabel(out, c) \in Nat
    BY <2>1, KeepClosed DEF Live, LabelPos
  <2>3. f \in Frame /\ f = [fn |-> Top.fn, i |-> Top.i, c |-> NextLabel(out, c), via |-> Top.via]
    BY <1>1, <2>2, FrameTypes DEF FrameOK
  <2>4. Push(f, c, "test")
    BY <1>4 DEF JumpLine
  <2> HIDE DEF f
  <2>5. FrameOK(prog, f)
    BY <1>1, <2>1, <2>3 DEF FrameOK
  <2> HIDE DEF c
  <2> QED BY <1>2, <2>4, <2>5, RunningFlow DEF Via
<1> QED BY <1>3, <1>4

(* FlowInv holds at first,                                                 *)
LEMMA FlowInvInit == Init => FlowInv
BY TypeInvInit DEF FlowInv, Init

(* and every step keeps it.                                                *)
LEMMA FlowInvNext == FlowInv /\ [Next]_vars => FlowInv'
<1> SUFFICES ASSUME FlowInv, [Next]_vars
             PROVE  FlowInv'
  OBVIOUS
<1>1. TypeInv /\ TypeInv'
  BY TypeInvNext DEF FlowInv
<1>2. SUFFICES ASSUME phase' = "built", Defined(prog)'
               PROVE  StackOK(prog, stack)' /\ ret' # "zero"
  BY <1>1 DEF FlowInv
<1>3. CASE Verify
  <2>1. stack' = <<>> /\ ret' = "none"
    BY <1>1, <1>3 DEF Verify, TypeInv
  <2>2. \A k \in 1..Len(<<>>) : FALSE
    OBVIOUS
  <2> QED BY <2>1, <2>2 DEF StackOK
<1>4. SUFFICES ASSUME UNCHANGED <<prog, out, phase>>
               PROVE  StackOK(prog, stack') /\ ret' # "zero"
  <2>1. Verify \/ UNCHANGED <<prog, out, phase>>
    BY DEF vars, Next, Invoke, NoCommand, Add, Call, CallExtern, Jump, NextBlock, CondJump,
           Ret, CondRet, FallOff, Unwind, Cut
  <2>2. CASE UNCHANGED <<prog, out, phase>>
    <3>1. StackOK(prog, stack') /\ ret' # "zero"
      BY <1>4, <2>2
    <3> QED BY <2>2, <3>1 DEF StackOK, FrameOK
  <2> QED BY <1>3, <2>1, <2>2
<1>5. phase = "built" /\ Defined(prog) /\ StackOK(prog, stack) /\ ret # "zero"
  BY <1>2, <1>4 DEF FlowInv
<1>6. CASE UNCHANGED vars
  BY <1>5, <1>6 DEF vars
<1>7. CASE Invoke
  <2>1. PICK b \in Roots(out) : stack' = <<Enter(b, "top")>> /\ ret' = ret
    BY <1>7 DEF Invoke
  <2>2. out = Prune(prog) /\ Valid(prog)
    BY <1>1, <1>5, ProgramsAssumption DEF TypeInv, Valid
  <2>3. b \in Keep(prog) /\ out[b] = prog[b] /\ out[b].kind # "extern"
    BY <2>2, PruneKept, KeepClosed DEF Roots, LabelPos, Valid
  <2>4. Live(prog, b) /\ b \in Nat
    BY <2>3, KeepClosed DEF Live, IsExtern, LabelPos
  <2>5. At(prog, b, b + 1)
    BY <2>2, <2>4, EnterAt
  <2>6. FrameOK(prog, Enter(b, "top"))
    BY <2>4, <2>5 DEF FrameOK, Enter, Frame, Via
  <2> HIDE DEF Enter
  <2>7. stack' \in Seq(Frame) /\ \A k \in 1..Len(stack') : stack'[k] = Enter(b, "top")
    BY <2>1, <2>6 DEF FrameOK
  <2> QED BY <1>5, <2>1, <2>6, <2>7 DEF StackOK
<1>8. Running => stack # <<>>
  BY DEF Running
<1>9. CASE NoCommand
  BY <1>1, <1>5, <1>8, <1>9, RunningFlow DEF NoCommand, Here, IsLabel, IsTerminate
<1>10. CASE Add
  BY <1>1, <1>5, <1>8, <1>10, RunningFlow DEF Add, Here, IsLabel, IsTerminate
<1>11. CASE CallExtern
  BY <1>1, <1>5, <1>8, <1>11, RunningFlow DEF CallExtern, Here, IsLabel, IsTerminate
(* What a running function names.                                          *)
<1>12. ASSUME stack # <<>>, IsCallLike(out[Top.i])
       PROVE  /\ Target \in Keep(prog)
              /\ out[Target] = prog[Target]
              /\ out[Top.i].op \in {"jmp", "jcc"} => Live(prog, Target)
  <2>1. /\ Valid(prog) /\ out = Prune(prog)
        /\ Live(prog, Top.fn) /\ At(prog, Top.fn, Top.i)
        /\ out[Top.i] = prog[Top.i]
    BY <1>1, <1>5, <1>12, RunningFlow DEF FrameOK
  <2> QED BY <1>12, <2>1, TargetKept DEF Target
<1>13. CASE Call
  <2>1. stack # <<>> /\ IsCallLike(out[Top.i]) /\ ~IsExtern(out, Target) /\ out[Top.i].op = "call"
    BY <1>8, <1>13 DEF Call, Here, IsCallLike
  <2>2. Live(prog, Target)
    BY <1>12, <2>1 DEF Live, IsExtern
  <2> DEFINE f == [Top EXCEPT !.i = @ + 1]
  <2>3. /\ Valid(prog) /\ FrameOK(prog, Top)
        /\ out[Top.i] = prog[Top.i]
    BY <1>1, <1>5, <2>1, RunningFlow
  <2>4. At(prog, Top.fn, Top.i + 1)
    BY <2>1, <2>3, AdvanceAt DEF FrameOK, IsLabel, IsTerminate
  <2>5. f \in Frame /\ f = [fn |-> Top.fn, i |-> Top.i + 1, c |-> Top.c, via |-> Top.via]
    BY <2>3, FrameTypes DEF FrameOK
  <2>6. Push(f, Target, "call") /\ ret' = ret
    BY <1>13 DEF Call
  <2> HIDE DEF f
  <2>7. FrameOK(prog, f)
    BY <2>3, <2>4, <2>5 DEF FrameOK
  <2> QED BY <1>1, <1>5, <2>1, <2>2, <2>6, <2>7, RunningFlow DEF Via
<1>14. CASE Jump
  <2>1. stack # <<>> /\ IsCallLike(out[Top.i]) /\ out[Top.i].op = "jmp" /\ ret' = ret
    BY <1>8, <1>14 DEF Jump, Here, IsCallLike
  <2> QED BY <1>1, <1>5, <1>12, <1>14, <2>1, JumpLineFlow DEF Jump
<1>15. CASE NextBlock
  <2>1. stack # <<>> /\ IsLabel(out[Top.i]) /\ ret' = ret
    BY <1>8, <1>15 DEF NextBlock, Here, IsLabel
  <2>2. /\ Valid(prog) /\ out[Top.i] = prog[Top.i]
        /\ Live(prog, Top.fn) /\ At(prog, Top.fn, Top.i)
    BY <1>1, <1>5, <2>1, RunningFlow DEF FrameOK
  <2>3. Live(prog, Top.i)
    BY <2>1, <2>2, AtLabel
  <2> QED BY <1>1, <1>5, <1>15, <2>1, <2>3, JumpLineFlow DEF NextBlock
<1>16. CASE CondJump
  <2>1. stack # <<>> /\ IsCallLike(out[Top.i]) /\ out[Top.i].op = "jcc" /\ ret' = ret
    BY <1>8, <1>16 DEF CondJump, Here, IsCallLike
  <2>2. Live(prog, Target) /\ FrameOK(prog, Top)
    BY <1>1, <1>5, <1>12, <2>1, RunningFlow
  <2>3. ~IsLabel(out[Top.i]) /\ ~IsTerminate(out[Top.i])
    BY <2>1 DEF IsLabel, IsTerminate
  <2> QED BY <1>1, <1>5, <1>16, <2>1, <2>2, <2>3, RunningFlow DEF CondJump, Via
<1>17. CASE Ret
  BY <1>5, <1>17 DEF Ret
<1>18. CASE CondRet
  BY <1>1, <1>5, <1>8, <1>18, RunningFlow DEF CondRet, Here, IsLabel, IsTerminate
<1>19. CASE FallOff
  <2>1. stack # <<>>
    BY <1>8, <1>19 DEF FallOff
  <2>2. /\ Valid(prog) /\ out = Prune(prog) /\ out[Top.i] = prog[Top.i]
        /\ Top.i \in 1..Len(out)
        /\ Live(prog, Top.fn) /\ At(prog, Top.fn, Top.i)
    BY <1>1, <1>5, <2>1, RunningFlow DEF FrameOK
  <2>3. IsLabel(out[Top.i]) /\ Terminated(out, Top.fn)
    BY <1>19, <2>2 DEF FallOff, Here, IsLabel
  <2> QED BY <2>2, <2>3, AtLabel
<1>20. CASE Unwind
  <2>1. ret = "one" /\ stack # <<>> /\ stack' = Below
    BY <1>1, <1>5, <1>20 DEF Unwind, TypeInv
  <2>2. Top.via \in Via
    BY <1>1, <1>5, <2>1, RunningFlow DEF FrameOK, Frame
  <2>3. ret' # "zero"
    BY <1>20, <2>1, <2>2 DEF Unwind, Via
  <2> QED BY <1>1, <1>5, <2>1, <2>3, RunningFlow
<1>21. CASE Cut
  <2>1. stack' = <<>> /\ ret' = "none"
    BY <1>21 DEF Cut
  <2>2. \A k \in 1..Len(<<>>) : FALSE
    OBVIOUS
  <2> QED BY <2>1, <2>2 DEF StackOK
<1>22. ~Verify
  BY <1>4 DEF Verify
<1> QED BY <1>6, <1>7, <1>9, <1>10, <1>11, <1>13, <1>14, <1>15, <1>16, <1>17,
           <1>18, <1>19, <1>20, <1>21, <1>22 DEF Next

(* A block that is entered by a jump list never completes with 0, so that  *)
(* the list is a jump: for every unit, of any length, with defined meaning.*)
THEOREM JumpListsJump == Spec => []NeverZero
<1>1. Spec => []FlowInv
  BY FlowInvInit, FlowInvNext, PTL DEF Spec
<1>2. FlowInv => NeverZero
  BY DEF FlowInv, TypeInv, NeverZero
<1> QED BY <1>1, <1>2, PTL

(* Nothing runs that IR::compile did not write: every running function of  *)
(* a defined unit is a kept block of the unit's own code.                  *)
THEOREM RunsWhatIsWritten == Spec => []EnteredIsEmitted
<1>1. Spec => []FlowInv
  BY FlowInvInit, FlowInvNext, PTL DEF Spec
<1>2. FlowInv => EnteredIsEmitted
  <2> SUFFICES ASSUME FlowInv, Defined(prog), NEW k \in 1..Len(stack)
               PROVE  stack[k].fn \in Emitted(out) /\ ~IsExtern(out, stack[k].fn)
    BY DEF EnteredIsEmitted
  <2>1. TypeInv /\ (phase # "built" => stack = <<>>)
    BY DEF FlowInv, TypeInv
  <2>2. phase = "built" /\ StackOK(prog, stack) /\ out = Prune(prog) /\ prog \in Seq(Op)
    BY <2>1, ProgramsAssumption DEF FlowInv, TypeInv
  <2>3. Live(prog, stack[k].fn)
    BY <2>2 DEF StackOK, FrameOK
  <2>4. /\ LabelPos(out) = Keep(prog)
        /\ \A b \in Keep(prog) : b \in 1..Len(prog) /\ out[b] = prog[b]
    BY <2>2, PruneKept, KeepClosed DEF LabelPos
  <2> QED BY <2>3, <2>4 DEF Live, Emitted, IsExtern
<1> QED BY <1>1, <1>2, PTL

-----------------------------------------------------------------------------
(***************************************************************************)
(* The proof that the compiled functions implement the unit as written:    *)
(* every step of BlockCompile is a step of IRMachine, or none, under the   *)
(* refinement mapping (IRpc, IRstk).  What it rests on, beyond where       *)
(* control may stand (FlowInv), is the shape of the stack: a function that *)
(* is at work or waits for a call is not in the middle of a jump list.     *)
(***************************************************************************)
-----------------------------------------------------------------------------
(* The places to come back to: frames in front of calls.                   *)

(* The elements of a finite set of numbers have the ranks 1 to its size.   *)
LEMMA NthIs ==
  ASSUME NEW m \in Nat, NEW S \in SUBSET (1..m)
  PROVE  /\ IsFiniteSet(S) /\ Cardinality(S) \in Nat
         /\ \A n \in 1..Cardinality(S) :
              Nth(S, n) \in S /\ Cardinality({j \in S : j <= Nth(S, n)}) = n
         /\ \A k \in S : Nth(S, Cardinality({j \in S : j <= k})) = k
<1> DEFINE rank == [k \in S |-> Cardinality({j \in S : j <= k})]
           T == 1..Cardinality(S)
<1>1. IsFiniteSet(S) /\ Cardinality(S) \in Nat
  <2>1. IsFiniteSet(1..m)
    BY FS_Interval
  <2> QED BY <2>1, FS_Subset, FS_CardinalityType
<1>2. \A R \in SUBSET S : IsFiniteSet(R) /\ Cardinality(R) \in Nat /\ Cardinality(R) <= Cardinality(S)
  BY <1>1, FS_Subset, FS_CardinalityType
<1>3. ASSUME NEW k \in S
      PROVE  rank[k] \in T
  <2> DEFINE R == {j \in S : j <= k}
  <2>1. k \in R /\ R \in SUBSET S
    OBVIOUS
  <2>2. IsFiniteSet(R) /\ Cardinality(R) \in Nat /\ Cardinality(R) <= Cardinality(S)
    BY <1>2, <2>1
  <2>3. Cardinality(R) # 0
    BY <2>1, <2>2, FS_EmptySet
  <2>4. rank[k] = Cardinality(R)
    OBVIOUS
  <2> HIDE DEF R, rank
  <2> QED BY <1>1, <2>2, <2>3, <2>4
<1>4. ASSUME NEW k \in S, NEW l \in S, k < l
      PROVE  rank[k] # rank[l]
  <2> DEFINE R == {j \in S : j <= k}
             Q == {j \in S : j <= l}
  <2>1. \A j \in S : j <= k => j <= l
    <3>1. \A j \in S : j \in Nat
      OBVIOUS
    <3> QED BY <1>4, <3>1
  <2>2. R \in SUBSET Q /\ l \in Q /\ l \notin R /\ Q \in SUBSET S
    <3>1. k \in Nat /\ l \in Nat /\ ~(l <= k) /\ l <= l
      BY <1>4
    <3>2. R \in SUBSET Q
      BY <2>1
    <3> QED BY <3>1, <3>2
  <2>3. rank[k] = Cardinality(R) /\ rank[l] = Cardinality(Q)
    OBVIOUS
  <2>4. IsFiniteSet(Q)
    BY <1>2, <2>2
  <2> HIDE DEF R, Q, rank
  <2>5. Cardinality(R) # Cardinality(Q)
    BY <2>2, <2>4, FS_Subset
  <2> QED BY <2>3, <2>5
<1>5. ASSUME NEW k \in S, NEW l \in S, rank[k] = rank[l]
      PROVE  k = l
  <2>1. k < l \/ l < k \/ k = l
    OBVIOUS
  <2> HIDE DEF rank
  <2> QED BY <1>4, <1>5, <2>1
<1>6. rank \in Surjection(S, T)
  <2>1. rank \in [S -> T]
    BY <1>3
  <2> HIDE DEF rank
  <2>2. rank \in Injection(S, T)
    BY <1>5, <2>1 DEF Injection, IsInjective
  <2>3. IsFiniteSet(T) /\ Cardinality(T) = Cardinality(S)
    BY <1>1, FS_Interval
  <2> QED BY <2>2, <2>3, FS_Injection
<1>7. \A n \in T : \E k \in S : rank[k] = n
  <2> HIDE DEF rank
  <2> QED BY <1>6 DEF Surjection
<1>8. \A n \in T : Nth(S, n) \in S /\ rank[Nth(S, n)] = n
  BY <1>7 DEF Nth
<1>9. \A k \in S : Nth(S, rank[k]) = k
  <2> TAKE k \in S
  <2>1. rank[k] \in T
    BY <1>3
  <2>2. Nth(S, rank[k]) \in S /\ rank[Nth(S, rank[k])] = rank[k]
    BY <1>8, <2>1
  <2> HIDE DEF rank
  <2> QED BY <1>5, <2>2
<1> QED BY <1>1, <1>8, <1>9

(* Every frame but the outermost can wait for a call, and it comes back to *)
(* a place in the frame below it.                                          *)
LEMMA SavedTypes ==
  ASSUME NEW p, NEW s \in Stacks(p)
  PROVE  /\ s \in Seq(Frame)
         /\ CallFrames(s) \in SUBSET (1..Len(s))
         /\ \A k \in CallFrames(s) : k \in 2..Len(s)
         /\ \A n \in 1..Cardinality(CallFrames(s)) : Nth(CallFrames(s), n) - 1 \in 1..Len(s)
         /\ Cardinality(CallFrames(s)) \in Nat
         /\ Saved(s) \in Seq(Nat \ {0}) /\ Len(Saved(s)) = Cardinality(CallFrames(s))
<1> DEFINE C == CallFrames(s)
           m == Len(s)
           P == Nat \ {0}
<1>1. s \in Seq(LineFrame(p)) /\ (s # <<>> => s[1].via = "top") /\ m \in Nat
  BY DEF Stacks
<1>2. s \in Seq(Frame)
  BY <1>1 DEF LineFrame
<1>3. \A k \in 1..m : s[k].i \in P
  <2> TAKE k \in 1..m
  <2>1. s[k] \in LineFrame(p)
    BY <1>1
  <2> QED BY <2>1 DEF LineFrame, Frame
<1>4. C \in SUBSET (1..m)
  BY DEF CallFrames
<1>5. \A k \in C : k \in 2..m /\ k - 1 \in 1..m
  <2> TAKE k \in C
  <2>1. k \in 1..m /\ s[k].via = "call"
    BY DEF CallFrames
  <2>2. s # <<>>
    BY <1>1, <2>1, EmptySeq
  <2>3. k # 1
    BY <1>1, <2>1, <2>2
  <2> QED BY <1>1, <2>1, <2>3
<1> HIDE DEF C, m, P
<1>6. Cardinality(C) \in Nat /\ \A n \in 1..Cardinality(C) : Nth(C, n) \in C
  BY <1>1, <1>4, NthIs
<1>7. \A n \in 1..Cardinality(C) : Nth(C, n) - 1 \in 1..m
  BY <1>5, <1>6
<1>8. Saved(s) = [n \in 1..Cardinality(C) |-> s[Nth(C, n) - 1].i]
  BY DEF Saved, C
<1>9. Saved(s) \in [1..Cardinality(C) -> P]
  BY <1>3, <1>7, <1>8
<1>10. Saved(s) \in Seq(P) /\ Len(Saved(s)) = Cardinality(C)
  BY <1>6, <1>9
<1> QED BY <1>2, <1>4, <1>5, <1>6, <1>7, <1>10 DEF C, m, P

(* What is saved grows by the place in front of a call only.               *)
LEMMA SavedAppend ==
  ASSUME NEW p, NEW s \in Stacks(p), NEW f \in LineFrame(p), Append(s, f) \in Stacks(p)
  PROVE  Saved(Append(s, f)) =
           IF f.via = "call" THEN Append(Saved(s), s[Len(s)].i) ELSE Saved(s)
<1> DEFINE m == Len(s)
           t == Append(s, f)
           C == CallFrames(s)
           D == CallFrames(t)
           P == Nat \ {0}
<1>0. s \in Seq(Frame) /\ f \in Frame
  BY SavedTypes DEF LineFrame
<1>1. /\ m \in Nat
      /\ t \in Seq(Frame) /\ Len(t) = m + 1
      /\ \A k \in 1..m : t[k] = s[k] /\ s[k] \in Frame
      /\ t[m + 1] = f
  BY <1>0, AppendProperties
<1> HIDE DEF t
<1>2. C \in SUBSET (1..m)
  BY SavedTypes
<1>3. /\ IsFiniteSet(C) /\ Cardinality(C) \in Nat
      /\ \A n \in 1..Cardinality(C) : Nth(C, n) \in C /\ Cardinality({j \in C : j <= Nth(C, n)}) = n
  BY <1>1, <1>2, NthIs
<1>4. \A k \in C : k \in 1..m /\ k \in Nat /\ k # m + 1
  BY <1>1, <1>2
<1>5. \A n \in 1..Cardinality(C) : Nth(C, n) - 1 \in 1..m
  BY SavedTypes
<1> HIDE DEF m
<1>7. /\ Saved(s) = [n \in 1..Cardinality(C) |-> s[Nth(C, n) - 1].i]
      /\ Saved(t) = [n \in 1..Cardinality(D) |-> t[Nth(D, n) - 1].i]
  BY DEF Saved
<1>8. D = IF f.via = "call" THEN C \cup {m + 1} ELSE C
  BY <1>1 DEF CallFrames, m
<1>9. \A k \in D : k \in 2..(m + 1)
  BY <1>1, SavedTypes DEF t
<1>10. Saved(s) \in Seq(P) /\ Len(Saved(s)) = Cardinality(C)
  BY SavedTypes
<1> HIDE DEF C, D
<1>11. CASE f.via # "call"
  <2>1. D = C
    BY <1>8, <1>11
  <2>2. \A n \in 1..Cardinality(C) : t[Nth(C, n) - 1] = s[Nth(C, n) - 1]
    BY <1>1, <1>5 DEF m
  <2>3. Saved(t) = Saved(s)
    BY <1>7, <2>1, <2>2
  <2> QED BY <1>11, <2>3 DEF t
<1>12. CASE f.via = "call"
  <2> DEFINE c == Cardinality(C)
             u == Append(Saved(s), s[m].i)
  <2>1. D = C \cup {m + 1} /\ m + 1 \notin C /\ m >= 1
    <3>1. m >= 1
      BY <1>1, <1>8, <1>9, <1>12
    <3> QED BY <1>1, <1>4, <1>8, <1>12, <3>1
  <2>2. Cardinality(D) = c + 1
    BY <1>3, <2>1, FS_AddElement
  <2>3. D \in SUBSET (1..(m + 1))
    BY <1>1, <1>4, <2>1
  <2>4. \A k \in D : Nth(D, Cardinality({j \in D : j <= k})) = k
    <3>1. m + 1 \in Nat
      BY <1>1
    <3> QED BY <2>3, <3>1, NthIs
  <2>5. Nth(D, c + 1) = m + 1
    <3>1. \A j \in D : j <= m + 1
      BY <1>1, <2>3
    <3>2. {j \in D : j <= m + 1} = D
      BY <3>1
    <3> QED BY <2>1, <2>2, <2>4, <3>2
  <2>6. ASSUME NEW n \in 1..c
        PROVE  Nth(D, n) = Nth(C, n)
    <3>1. Nth(C, n) \in C /\ Nth(C, n) \in D /\ Cardinality({j \in C : j <= Nth(C, n)}) = n
      BY <1>3, <2>1
    <3>2. {j \in D : j <= Nth(C, n)} = {j \in C : j <= Nth(C, n)}
      <4>1. ~(m + 1 <= Nth(C, n))
        BY <1>1, <1>4, <3>1
      <4> QED BY <2>1, <4>1
    <3> QED BY <2>4, <3>1, <3>2
  <2>7. u \in Seq(P) /\ Len(u) = c + 1 /\ u[c + 1] = s[m].i /\ \A n \in 1..c : u[n] = Saved(s)[n]
    <3>1. s[m].i \in P
      <4>1. s \in Seq(LineFrame(p)) /\ m \in 1..m
        BY <1>1, <2>1 DEF Stacks
      <4>2. s[m] \in LineFrame(p)
        BY <4>1 DEF m
      <4> QED BY <4>2 DEF LineFrame, Frame
    <3> QED BY <1>10, <3>1, AppendProperties
  <2>8. \A n \in 1..c : t[Nth(C, n) - 1] = s[Nth(C, n) - 1]
    BY <1>1, <1>5 DEF m
  <2>9. t[(m + 1) - 1] = s[m]
    BY <1>1, <2>1 DEF m
  <2>10. Saved(t) = [n \in 1..(c + 1) |-> t[Nth(D, n) - 1].i]
    BY <1>7, <2>2
  <2>11. \A n \in 1..(c + 1) : t[Nth(D, n) - 1].i = u[n]
    <3> TAKE n \in 1..(c + 1)
    <3>1. CASE n = c + 1
      BY <2>5, <2>7, <2>9, <3>1
    <3>2. CASE n \in 1..c
      BY <1>7, <2>6, <2>7, <2>8, <3>2
    <3> HIDE DEF c
    <3>3. c \in Nat
      BY <1>3 DEF c
    <3>4. n = c + 1 \/ n \in 1..c
      BY <3>3
    <3> QED BY <3>1, <3>2, <3>4, Zenon
  <2>12. Saved(t) = u
    <3> HIDE DEF u
    <3>1. u = [n \in 1..(c + 1) |-> u[n]]
      BY <1>3, <2>7
    <3> QED BY <2>10, <2>11, <3>1
  <2> QED BY <1>12, <2>12 DEF t, m
<1> QED BY <1>11, <1>12

(* Nothing is saved while nothing runs.                                    *)
LEMMA SavedEmpty == Saved(<<>>) = <<>>
<1>1. <<>> \in Stacks(<<>>)
  BY DEF Stacks
<1>2. Saved(<<>>) \in Seq(Nat \ {0}) /\ Len(Saved(<<>>)) = Cardinality(CallFrames(<<>>))
  BY <1>1, SavedTypes
<1>3. CallFrames(<<>>) = {}
  BY DEF CallFrames
<1> QED BY <1>2, <1>3, FS_EmptySet, EmptySeq

(* Taking back what was appended.                                          *)
LEMMA FrontAndLast ==
  ASSUME NEW S, NEW r \in Seq(S), NEW e \in S
  PROVE  /\ Append(r, e) # <<>>
         /\ Append(r, e)[Len(Append(r, e))] = e
         /\ SubSeq(Append(r, e), 1, Len(Append(r, e)) - 1) = r
<1> DEFINE t == Append(r, e)
           u == SubSeq(t, 1, Len(t) - 1)
<1>1. /\ Len(r) \in Nat /\ t \in Seq(S) /\ t # <<>> /\ Len(t) = Len(r) + 1
      /\ t[Len(r) + 1] = e /\ \A i \in 1..Len(r) : t[i] = r[i]
  BY AppendProperties
<1> HIDE DEF t
<1>2. \A i \in 1..(Len(t) - 1) : t[i] \in S
  BY <1>1
<1>3. /\ u \in Seq(S)
      /\ Len(u) = IF 1 <= Len(t) - 1 THEN (Len(t) - 1) - 1 + 1 ELSE 0
      /\ \A i \in 1..((Len(t) - 1) - 1 + 1) : u[i] = t[1 + i - 1]
  BY <1>1, <1>2, SubSeqProperties
<1> HIDE DEF u
<1>4. Len(u) = Len(r) /\ \A i \in 1..Len(u) : u[i] = r[i]
  BY <1>1, <1>3
<1>5. u = r
  BY <1>3, <1>4, SeqEqual
<1> QED BY <1>1, <1>5 DEF t, u

(* Pushing two frames is pushing one after the other.                      *)
LEMMA PushTwo ==
  ASSUME NEW S, NEW r \in Seq(S), NEW f \in S, NEW g \in S
  PROVE  r \o <<f, g>> = Append(Append(r, f), g)
<1> DEFINE t == r \o <<f, g>>
           u == Append(Append(r, f), g)
<1>1. /\ Len(r) \in Nat /\ u \in Seq(S) /\ Len(u) = Len(r) + 2
      /\ \A i \in 1..Len(r) : u[i] = r[i]
      /\ u[Len(r) + 1] = f /\ u[Len(r) + 2] = g
  <2>1. /\ Append(r, f) \in Seq(S) /\ Len(Append(r, f)) = Len(r) + 1
        /\ \A i \in 1..Len(r) : Append(r, f)[i] = r[i]
        /\ Append(r, f)[Len(r) + 1] = f
    BY AppendProperties
  <2>2. /\ u \in Seq(S) /\ Len(u) = Len(Append(r, f)) + 1
        /\ \A i \in 1..Len(Append(r, f)) : u[i] = Append(r, f)[i]
        /\ u[Len(Append(r, f)) + 1] = g
    BY <2>1, AppendProperties
  <2>3. Len(r) \in Nat
    OBVIOUS
  <2> HIDE DEF u
  <2> QED BY <2>1, <2>2, <2>3
<1>2. <<f, g>> \in Seq(S) /\ Len(<<f, g>>) = 2 /\ <<f, g>>[1] = f /\ <<f, g>>[2] = g
  OBVIOUS
<1>3. /\ t \in Seq(S) /\ Len(t) = Len(r) + 2
      /\ \A i \in 1..(Len(r) + 2) : t[i] = IF i <= Len(r) THEN r[i] ELSE <<f, g>>[i - Len(r)]
  BY <1>2, ConcatProperties
<1> HIDE DEF t, u
<1>4. \A i \in 1..Len(t) : t[i] = u[i]
  <2> TAKE i \in 1..Len(t)
  <2>1. i \in 1..Len(r) \/ i = Len(r) + 1 \/ i = Len(r) + 2
    BY <1>1, <1>3
  <2>2. CASE i \in 1..Len(r)
    BY <1>1, <1>3, <2>2
  <2>3. CASE i = Len(r) + 1
    BY <1>1, <1>2, <1>3, <2>3
  <2>4. CASE i = Len(r) + 2
    BY <1>1, <1>2, <1>3, <2>4
  <2> QED BY <2>1, <2>2, <2>3, <2>4
<1>5. t = u
  BY <1>1, <1>3, <1>4, SeqEqual
<1> QED BY <1>5 DEF t, u

-----------------------------------------------------------------------------
(* No frame but the outermost hands its value to nobody, and a function    *)
(* that waits for a call is not in the middle of a jump list.              *)
WaitOK(s) ==
  \A k \in 2..Len(s) : s[k].via # "top" /\ (s[k].via = "call" => s[k - 1].c = 0)

(* The innermost function stands at i, in no jump list.                    *)
Settled(s, i, saved) ==
  /\ s # <<>>
  /\ WaitOK(s)
  /\ s[Len(s)].i = i
  /\ s[Len(s)].c = 0
  /\ Saved(s) = saved

(* Which frames may be pushed on which.                                    *)
LEMMA WaitAppend ==
  ASSUME NEW r \in Seq(Frame), NEW f \in Frame
  PROVE  WaitOK(Append(r, f)) <=>
           /\ WaitOK(r)
           /\ r # <<>> => f.via # "top" /\ (f.via = "call" => r[Len(r)].c = 0)
<1> DEFINE t == Append(r, f)
           m == Len(r)
<1>1. m \in Nat /\ Len(t) = m + 1 /\ t[m + 1] = f /\ \A k \in 1..m : t[k] = r[k]
  BY AppendProperties
<1>2. r # <<>> <=> m >= 1
  BY <1>1, EmptySeq
<1> HIDE DEF t, m
<1>3. \A k \in 2..m : t[k] = r[k] /\ t[k - 1] = r[k - 1]
  BY <1>1
<1>4. m >= 1 => t[(m + 1) - 1] = r[m] /\ m + 1 \in 2..(m + 1)
  BY <1>1
<1>5. \A k \in 2..(m + 1) : k \in 2..m \/ (k = m + 1 /\ m >= 1)
  BY <1>1
<1>6. \A k \in 2..m : k \in 2..(m + 1)
  BY <1>1
<1>7. WaitOK(t) <=> \A k \in 2..(m + 1) : t[k].via # "top" /\ (t[k].via = "call" => t[k - 1].c = 0)
  BY <1>1 DEF WaitOK
<1>8. WaitOK(r) <=> \A k \in 2..m : r[k].via # "top" /\ (r[k].via = "call" => r[k - 1].c = 0)
  BY DEF WaitOK, m
<1>9. WaitOK(t) => WaitOK(r)
  BY <1>3, <1>6, <1>7, <1>8
<1>10. WaitOK(t) /\ m >= 1 => f.via # "top" /\ (f.via = "call" => r[m].c = 0)
  BY <1>1, <1>4, <1>7
<1>11. ASSUME WaitOK(r), m >= 1 => f.via # "top" /\ (f.via = "call" => r[m].c = 0)
       PROVE  WaitOK(t)
  <2> SUFFICES ASSUME NEW k \in 2..(m + 1)
               PROVE  t[k].via # "top" /\ (t[k].via = "call" => t[k - 1].c = 0)
    BY <1>7
  <2>1. CASE k \in 2..m
    BY <1>3, <1>8, <1>11, <2>1
  <2>2. CASE k = m + 1 /\ m >= 1
    BY <1>1, <1>4, <1>11, <2>2
  <2> QED BY <1>5, <2>1, <2>2
<1> QED BY <1>2, <1>9, <1>10, <1>11 DEF t, m

(* A stack is the innermost frame on top of the others.                    *)
LEMMA Innermost ==
  ASSUME NEW p, NEW s \in Stacks(p), s # <<>>
  PROVE  LET r == SubSeq(s, 1, Len(s) - 1)
             f == s[Len(s)]
         IN  /\ r \in Stacks(p) /\ f \in LineFrame(p)
             /\ s = Append(r, f)
             /\ r = <<>> => f.via = "top"
<1> DEFINE F == LineFrame(p)
<1>1. s \in Seq(F) /\ s[1].via = "top"
  BY DEF Stacks
<1>2. PICK r \in Seq(F), f \in F : s = Append(r, f)
  BY <1>1, SequenceEmptyOrAppend
<1>3. SubSeq(s, 1, Len(s) - 1) = r /\ s[Len(s)] = f
  BY <1>2, FrontAndLast
<1>4. s[1] = IF r = <<>> THEN f ELSE r[1]
  BY <1>2, FirstFrame
<1>5. r \in Stacks(p) /\ (r = <<>> => f.via = "top")
  BY <1>1, <1>2, <1>4 DEF Stacks
<1> HIDE DEF F
<1> QED BY <1>2, <1>3, <1>5 DEF F

(* A frame on top of a stack, an outermost one at the bottom.              *)
LEMMA StackAppend ==
  ASSUME NEW p, NEW r \in Stacks(p), NEW f \in LineFrame(p), r = <<>> => f.via = "top"
  PROVE  Append(r, f) \in Stacks(p)
<1>1. r \in Seq(LineFrame(p)) /\ (r # <<>> => r[1].via = "top")
  BY DEF Stacks
<1>2. Append(r, f) \in Seq(LineFrame(p))
  BY <1>1, AppendProperties
<1>3. Append(r, f)[1] = IF r = <<>> THEN f ELSE r[1]
  BY <1>1, FirstFrame
<1> QED BY <1>1, <1>2, <1>3 DEF Stacks

(* What a step of the innermost function does to the place it stands at    *)
(* and to the places to come back to.                                      *)
LEMMA Moves ==
  ASSUME TypeInv, stack # <<>>, WaitOK(stack), Top.c = 0
  PROVE  /\ Advance => Settled(stack', Top.i + 1, Saved(stack))
         /\ \A b \in Nat : TailCall(b) => Settled(stack', b + 1, Saved(stack))
         /\ \A b \in Nat, how \in {"test", "cond"}, f \in LineFrame(out) :
              f.via = Top.via /\ Push(f, b, how) => Settled(stack', b + 1, Saved(stack))
         /\ \A b \in Nat :
              Push([Top EXCEPT !.i = @ + 1], b, "call")
                => Settled(stack', b + 1, Append(Saved(stack), Top.i + 1))
<1> DEFINE F == LineFrame(out)
<1>1. /\ Below \in Stacks(out) /\ Top \in F /\ stack \in Stacks(out)
      /\ stack = Append(Below, Top) /\ (Below = <<>> => Top.via = "top")
  BY Innermost DEF TypeInv, Top, Below
<1>2. Below \in Seq(F) /\ Below \in Seq(Frame) /\ \A f \in F : f \in Frame
  BY <1>1, SavedTypes DEF LineFrame, Stacks
(* The innermost frame is replaced.                                        *)
<1>3. ASSUME NEW f \in F, f.via = Top.via
      PROVE  /\ Append(Below, f) \in Stacks(out) /\ WaitOK(Append(Below, f))
             /\ Saved(Append(Below, f)) = Saved(stack)
  <2>1. Append(Below, f) \in Stacks(out)
    BY <1>1, <1>3, StackAppend
  <2>2. WaitOK(Append(Below, f))
    BY <1>1, <1>2, <1>3, WaitAppend
  <2>3. Saved(Append(Below, f)) = Saved(Append(Below, Top))
    <3>1. /\ Below \in Stacks(out) /\ f \in F /\ Top \in F
          /\ Append(Below, Top) \in Stacks(out)
      BY <1>1
    <3>2. Saved(Append(Below, f)) =
            IF f.via = "call" THEN Append(Saved(Below), Below[Len(Below)].i) ELSE Saved(Below)
      BY <2>1, <3>1, SavedAppend
    <3>3. Saved(Append(Below, Top)) =
            IF Top.via = "call" THEN Append(Saved(Below), Below[Len(Below)].i) ELSE Saved(Below)
      BY <3>1, SavedAppend
    <3> QED BY <1>3, <3>2, <3>3
  <2> QED BY <1>1, <2>1, <2>2, <2>3
<1>4. ASSUME NEW f \in F, f.via = Top.via, f.c = 0
      PROVE  Settled(Append(Below, f), f.i, Saved(stack))
  BY <1>2, <1>3, <1>4, FrontAndLast DEF Settled
(* A frame is pushed on it.                                                *)
<1>5. ASSUME NEW f \in F, f.via = Top.via, NEW g \in F, g.c = 0,
             g.via # "top", g.via = "call" => f.c = 0
      PROVE  Settled(Below \o <<f, g>>, g.i,
                     IF g.via = "call" THEN Append(Saved(stack), f.i) ELSE Saved(stack))
  <2> DEFINE r == Append(Below, f)
  <2>1. r \in Stacks(out) /\ WaitOK(r) /\ Saved(r) = Saved(stack)
    BY <1>3, <1>5
  <2>2. r \in Seq(Frame) /\ r \in Seq(F) /\ r # <<>> /\ r[Len(r)] = f
    BY <1>2, <1>5, <2>1, SavedTypes, FrontAndLast DEF Stacks
  <2>3. Below \o <<f, g>> = Append(r, g)
    BY <1>2, <1>5, PushTwo
  <2> HIDE DEF r
  <2>4. Append(r, g) \in Stacks(out)
    BY <1>5, <2>1, <2>2, StackAppend
  <2>5. WaitOK(Append(r, g))
    BY <1>2, <1>5, <2>1, <2>2, WaitAppend
  <2>6. Saved(Append(r, g)) = IF g.via = "call" THEN Append(Saved(stack), f.i) ELSE Saved(stack)
    BY <1>5, <2>1, <2>2, <2>4, SavedAppend
  <2>7. Append(r, g) # <<>> /\ Append(r, g)[Len(Append(r, g))] = g
    BY <1>5, <2>2, FrontAndLast
  <2> QED BY <1>5, <2>3, <2>5, <2>6, <2>7 DEF Settled
<1>6. /\ [Top EXCEPT !.i = @ + 1] \in F
      /\ [Top EXCEPT !.i = @ + 1].via = Top.via
      /\ [Top EXCEPT !.i = @ + 1].i = Top.i + 1
      /\ [Top EXCEPT !.i = @ + 1].c = 0
  <2> DEFINE g == [Top EXCEPT !.i = @ + 1]
  <2>1. g \in F /\ g = [fn |-> Top.fn, i |-> Top.i + 1, c |-> Top.c, via |-> Top.via]
    BY <1>1, <1>2, LineFrames, FrameTypes
  <2> HIDE DEF g, F
  <2>2. g \in F /\ g.via = Top.via /\ g.i = Top.i + 1 /\ g.c = 0
    BY <2>1
  <2> QED BY <2>2 DEF g
<1>7. \A b \in Nat, how \in Via :
        /\ Enter(b, how) \in F /\ Enter(b, how).via = how
        /\ Enter(b, how).i = b + 1 /\ Enter(b, how).c = 0
  BY <1>1, LineFrames DEF Enter
<1>8. Top.via \in Via
  BY <1>1, <1>2 DEF Frame
<1> HIDE DEF F
<1>9. Advance => Settled(stack', Top.i + 1, Saved(stack))
  BY <1>4, <1>6 DEF Advance
<1>10. \A b \in Nat : TailCall(b) => Settled(stack', b + 1, Saved(stack))
  BY <1>4, <1>7, <1>8 DEF TailCall
<1>11. ASSUME NEW b \in Nat, NEW how \in {"test", "cond"}, NEW f \in F,
              f.via = Top.via, Push(f, b, how)
       PROVE  Settled(stack', b + 1, Saved(stack))
  <2> DEFINE g == Enter(b, how)
  <2>1. how \in Via /\ how # "top" /\ how # "call"
    BY DEF Via
  <2>2. g \in F /\ g.via = how /\ g.i = b + 1 /\ g.c = 0
    BY <1>7, <2>1
  <2>3. stack' = Below \o <<f, g>>
    BY <1>11 DEF Push
  <2> HIDE DEF g
  <2>4. Settled(Below \o <<f, g>>, g.i,
                IF g.via = "call" THEN Append(Saved(stack), f.i) ELSE Saved(stack))
    BY <1>5, <1>11, <2>1, <2>2
  <2> QED BY <2>1, <2>2, <2>3, <2>4
<1>12. ASSUME NEW b \in Nat, Push([Top EXCEPT !.i = @ + 1], b, "call")
       PROVE  Settled(stack', b + 1, Append(Saved(stack), Top.i + 1))
  <2> DEFINE f == [Top EXCEPT !.i = @ + 1]
             g == Enter(b, "call")
  <2>1. g \in F /\ g.via = "call" /\ g.i = b + 1 /\ g.c = 0
    BY <1>7 DEF Via
  <2>2. stack' = Below \o <<f, g>>
    BY <1>12 DEF Push
  <2>3. f \in F /\ f.via = Top.via /\ f.i = Top.i + 1 /\ f.c = 0
    BY <1>6
  <2> HIDE DEF f, g
  <2>4. Settled(Below \o <<f, g>>, g.i,
                IF g.via = "call" THEN Append(Saved(stack), f.i) ELSE Saved(stack))
    BY <1>5, <2>1, <2>3
  <2> QED BY <2>1, <2>2, <2>3, <2>4
<1> QED BY <1>9, <1>10, <1>11, <1>12 DEF F

(* A jump goes to the label at b, whatever the rest of its list says.      *)
LEMMA JumpMoves ==
  ASSUME TypeInv, Running, WaitOK(stack), Top.c = 0, NEW b \in LabelPos(out), JumpLine(b)
  PROVE  Settled(stack', b + 1, Saved(stack))
<1>1. stack # <<>> /\ Top \in LineFrame(out) /\ out \in Seq(Op) /\ b \in Nat
  BY RunningTypes DEF TypeInv, LabelPos
<1>2. CASE EndsSpan(out, b)
  BY <1>1, <1>2, Moves DEF JumpLine
<1>3. CASE ~EndsSpan(out, b)
  <2> DEFINE f == [Top EXCEPT !.c = NextLabel(out, b)]
  <2>1. NextLabel(out, b) \in LabelPos(out)
    BY <1>1, <1>3, NextLabelIsNext DEF EndsSpan
  <2>2. f \in LineFrame(out) /\ f.via = Top.via
    BY <1>1, <2>1, LineFrames
  <2>3. Push(f, b, "test")
    BY <1>3 DEF JumpLine
  <2> HIDE DEF f
  <2> QED BY <1>1, <2>2, <2>3, Moves
<1> QED BY <1>2, <1>3

-----------------------------------------------------------------------------
(* A defined unit that runs: only a function that waits for a jump is in   *)
(* the middle of a list.                                                   *)
Waits ==
  /\ WaitOK(stack)
  /\ ret = "none" /\ stack # <<>> => Top.c = 0

RefInv ==
  /\ FlowInv
  /\ phase = "built" /\ Defined(prog) => Waits

(* Where the unit as written stands while a function runs,                 *)
LEMMA Placed ==
  ASSUME stack # <<>>, ret = "none"
  PROVE  IRpc = Top.i /\ IRstk = Saved(stack)
BY DEF IRpc, IRstk, Leaving

(* and after a step that leaves one running.                               *)
LEMMA PlacedNext ==
  ASSUME NEW i, NEW saved, Settled(stack', i, saved), ret' = "none"
  PROVE  Waits' /\ IRpc' = i /\ IRstk' = saved
BY DEF Settled, Waits, IRpc, IRstk, Leaving, Top

(* The op a running function is at is the one the unit as written is at.   *)
LEMMA AtSource ==
  ASSUME RefInv, Running, Defined(prog)
  PROVE  /\ TypeInv /\ stack # <<>> /\ ret = "none" /\ WaitOK(stack) /\ Top.c = 0
         /\ Top \in LineFrame(out)
         /\ IRpc = Top.i /\ IRstk = Saved(stack) /\ Saved(stack) \in Seq(Nat \ {0})
         /\ IRpc \in DOMAIN prog /\ out[Top.i] = prog[IRpc]
<1>1. /\ TypeInv /\ stack # <<>> /\ ret = "none" /\ WaitOK(stack) /\ Top.c = 0
      /\ phase = "built" /\ StackOK(prog, stack)
  BY DEF RefInv, FlowInv, Running, Waits
<1>2. Top \in LineFrame(out) /\ Saved(stack) \in Seq(Nat \ {0})
  BY <1>1, RunningTypes, SavedTypes DEF TypeInv
<1>3. IRpc = Top.i /\ IRstk = Saved(stack)
  BY <1>1, Placed
<1>4. Valid(prog) /\ out = Prune(prog) /\ Top.i \in 1..Len(out) /\ out[Top.i] = prog[Top.i]
  BY <1>1, RunningFlow
<1>5. Len(out) = Len(prog) /\ DOMAIN prog = 1..Len(prog)
  BY <1>4, PruneKept DEF Valid
<1> QED BY <1>1, <1>2, <1>3, <1>4, <1>5

(* The label it names is the one the unit as written means.                *)
LEMMA TargetSame ==
  ASSUME RefInv, Running, Defined(prog), IsCallLike(out[Top.i])
  PROVE  /\ Target \in LabelPos(out) /\ Target \in Nat
         /\ IR!PosOf(prog, prog[IRpc].l) = Target
         /\ IR!IsExtern(prog, Target) <=> IsExtern(out, Target)
<1>1. /\ TypeInv /\ stack # <<>> /\ IRpc = Top.i /\ out[Top.i] = prog[IRpc]
      /\ phase = "built" /\ StackOK(prog, stack)
  BY AtSource DEF RefInv, FlowInv, Running
<1>2. /\ Valid(prog) /\ out = Prune(prog) /\ FrameOK(prog, Top) /\ Top.i \in 1..Len(out)
  BY <1>1, RunningFlow
<1>3. Target \in LabelPos(out) /\ Target \in Nat
  <2>1. Top.i <= Len(out)
    BY <1>1, <1>2 DEF TypeInv
  <2> QED BY <1>1, <2>1, TargetTypes
<1>4. Target \in Keep(prog) /\ out[Target] = prog[Target]
  BY <1>1, <1>2, TargetKept DEF FrameOK, Target
<1>5. Target \in LabelPos(prog)
  BY <1>4, KeepClosed
<1>6. out[Target].l = out[Top.i].l
  <2>1. \E b \in LabelPos(out) : out[b].l = out[Top.i].l
    BY <1>1, <1>2 DEF TypeInv, LabelsDeclared
  <2> QED BY <2>1 DEF Target, PosOf
<1>7. \A b \in LabelPos(prog) : prog[b].l = prog[Target].l => b = Target
  BY <1>2, <1>5 DEF Valid, Accepts, UniqueLabels
<1>8. PosOf(prog, prog[IRpc].l) = Target
  BY <1>1, <1>4, <1>5, <1>6, <1>7 DEF PosOf
<1>9. IR!PosOf(prog, prog[IRpc].l) = PosOf(prog, prog[IRpc].l)
  BY DEF IR!PosOf, PosOf, IR!LabelPos, LabelPos, IR!IsLabel, IsLabel
<1> QED BY <1>3, <1>4, <1>8, <1>9 DEF IR!IsExtern, IsExtern

(* While no function runs the unit as written does not run either.         *)
LEMMA Idle ==
  /\ stack = <<>> => IRpc = 0
  /\ stack = <<>> /\ ret = "none" => IRstk = <<>>
BY SavedEmpty DEF IRpc, IRstk, Leaving

(* The same after a step that leaves none running.                         *)
LEMMA IdleNext ==
  stack' = <<>> /\ ret' = "none" => Waits' /\ IRpc' = 0 /\ IRstk' = <<>>
<1> SUFFICES ASSUME stack' = <<>>, ret' = "none"
             PROVE  Waits' /\ IRpc' = 0 /\ IRstk' = <<>>
  OBVIOUS
<1>1. WaitOK(<<>>)
  BY DEF WaitOK
<1> QED BY <1>1, SavedEmpty DEF Waits, IRpc, IRstk, Leaving

(* A step of a running unit is a step of the unit as written, or none.     *)
LEMMA StepRefines ==
  ASSUME RefInv, phase = "built", Defined(prog), Next
  PROVE  Waits' /\ [IR!Next]_(IR!irvars)
<1>1. /\ TypeInv /\ Waits /\ StackOK(prog, stack) /\ ret \in {"none", "one"}
      /\ Valid(prog) /\ out = Prune(prog)
  BY ProgramsAssumption DEF RefInv, FlowInv, TypeInv, Valid
<1>2. CASE Verify
  BY <1>2 DEF Verify
(* Between two functions.                                                  *)
<1>3. CASE Invoke
  <2>1. PICK b \in Roots(out) : stack' = <<Enter(b, "top")>>
    BY <1>3 DEF Invoke
  <2>2. stack = <<>> /\ ret = "none" /\ ret' = "none" /\ prog' = prog /\ x' = x
    BY <1>1, <1>3 DEF Invoke, TypeInv
  <2>3. b \in Roots(prog)
    <3>1. b \in Keep(prog) /\ out[b] = prog[b]
      BY <1>1, <2>1, PruneKept, KeepClosed DEF Valid, Roots, LabelPos
    <3>2. b \in LabelPos(prog)
      BY <3>1, KeepClosed
    <3> QED BY <2>1, <3>1, <3>2 DEF Roots
  <2>4. Settled(stack', b + 1, <<>>)
    <3> DEFINE f == Enter(b, "top")
    <3>1. b \in Nat /\ f.via = "top" /\ f.i = b + 1 /\ f.c = 0
      BY <2>1 DEF Roots, LabelPos, Enter
    <3>2. f \in LineFrame(out)
      BY <3>1 DEF Enter, LineFrame, Frame, Via
    <3>3. <<>> \in Stacks(out) /\ <<f>> = Append(<<>>, f)
      BY DEF Stacks
    <3> HIDE DEF f
    <3>4. Append(<<>>, f) \in Stacks(out)
      BY <3>1, <3>2, <3>3, StackAppend
    <3>5. Saved(<<f>>) = <<>>
      BY <3>1, <3>2, <3>3, <3>4, SavedAppend, SavedEmpty
    <3>6. WaitOK(<<f>>)
      BY DEF WaitOK
    <3>7. <<f>> # <<>> /\ <<f>>[Len(<<f>>)] = f
      OBVIOUS
    <3>8. Settled(<<f>>, b + 1, <<>>)
      BY <3>1, <3>5, <3>6, <3>7 DEF Settled
    <3> QED BY <2>1, <3>8 DEF f
  <2>5. Waits' /\ IRpc' = b + 1 /\ IRstk' = <<>>
    BY <2>2, <2>4, PlacedNext
  <2>6. IRpc = 0 /\ IRstk = <<>>
    BY <2>2, Idle
  <2>7. b \in IR!Roots(prog)
    BY <2>3 DEF Roots, LabelPos, IsLabel, IR!Roots, IR!LabelPos, IR!IsLabel
  <2>8. IR!Invoke
    BY <2>2, <2>5, <2>6, <2>7 DEF IR!Invoke
  <2> QED BY <2>5, <2>8 DEF IR!Next
<1>4. CASE Cut
  <2>1. stack # <<>> /\ stack' = <<>> /\ ret' = "none" /\ prog' = prog /\ x' = x
    BY <1>4 DEF Cut
  <2>2. Waits' /\ IRpc' = 0 /\ IRstk' = <<>>
    BY <2>1, IdleNext
  <2>3. CASE IRpc # 0
    BY <2>1, <2>2, <2>3 DEF IR!Next, IR!Cut
  <2>4. CASE IRpc = 0
    <3>1. Saved(stack) \in Seq(Nat \ {0}) /\ Top \in LineFrame(out)
      BY <1>1, <2>1, SavedTypes, Innermost DEF TypeInv, Top
    <3>2. Top.i # 0
      BY <3>1 DEF LineFrame, Frame
    <3>3. Saved(stack) # <<>> => Saved(stack)[Len(Saved(stack))] # 0
      BY <3>1, StackTypes
    <3>4. Saved(stack) = <<>>
      BY <2>1, <2>4, <3>2, <3>3 DEF IRpc
    <3>5. IRstk = <<>>
      BY <3>4 DEF IRstk
    <3>6. UNCHANGED IR!irvars
      BY <2>1, <2>2, <2>4, <3>5 DEF IR!irvars
    <3> QED BY <2>2, <3>6
  <2> QED BY <2>2, <2>3, <2>4
(* A value is handed up.                                                   *)
<1>5. CASE Unwind
  <2>1. ret = "one" /\ stack # <<>> /\ stack' = Below /\ prog' = prog /\ x' = x
    BY <1>1, <1>5 DEF Unwind, TypeInv
  <2>2. /\ Below \in Stacks(out) /\ Top \in LineFrame(out) /\ Append(Below, Top) \in Stacks(out)
        /\ stack = Append(Below, Top) /\ (Below = <<>> => Top.via = "top")
    BY <1>1, <2>1, Innermost DEF TypeInv, Top, Below
  <2>3. /\ Below \in Seq(Frame) /\ Top \in Frame /\ Top.via \in Via
        /\ Saved(Below) \in Seq(Nat \ {0}) /\ Below \in Seq(LineFrame(out))
    BY <2>2, SavedTypes DEF LineFrame, Frame, Stacks, Via
  <2>4. /\ WaitOK(Below)
        /\ Below # <<>> => Top.via # "top" /\ (Top.via = "call" => Below[Len(Below)].c = 0)
    BY <1>1, <2>2, <2>3, WaitAppend DEF Waits
  <2>5. Saved(stack) =
          IF Top.via = "call" THEN Append(Saved(Below), Below[Len(Below)].i) ELSE Saved(Below)
    BY <2>2, SavedAppend
  <2>6. /\ IRpc = IF Saved(stack) = <<>> THEN 0 ELSE Saved(stack)[Len(Saved(stack))]
        /\ IRstk = IF Saved(stack) = <<>> THEN <<>> ELSE SubSeq(Saved(stack), 1, Len(Saved(stack)) - 1)
    BY <2>1 DEF IRpc, IRstk, Leaving
  <2>7. CASE Top.via = "top"
    <3>1. stack' = <<>> /\ ret' = "none"
      BY <1>5, <2>1, <2>4, <2>7 DEF Unwind
    <3>2. Waits' /\ IRpc' = 0 /\ IRstk' = <<>>
      BY <3>1, IdleNext
    <3>3. IRpc = 0 /\ IRstk = <<>>
      BY <2>1, <2>5, <2>6, <2>7, <3>1, SavedEmpty
    <3> QED BY <2>1, <3>2, <3>3 DEF IR!irvars
  <2>8. CASE Top.via = "call"
    <3> DEFINE i == Below[Len(Below)].i
    <3>1. ret' = "none" /\ Below # <<>>
      BY <1>5, <2>2, <2>8 DEF Unwind
    <3>2. Settled(stack', i, Saved(Below))
      BY <2>1, <2>4, <2>8, <3>1 DEF Settled
    <3>3. i \in Nat \ {0}
      <4>1. Below[Len(Below)] \in LineFrame(out)
        BY <2>3, <3>1, StackTypes
      <4> QED BY <4>1 DEF LineFrame, Frame
    <3> HIDE DEF i
    <3>4. Saved(stack) = Append(Saved(Below), i)
      BY <2>5, <2>8 DEF i
    <3>5. IRpc = i /\ IRstk = Saved(Below)
      <4>1. /\ Saved(stack) # <<>> /\ Saved(stack)[Len(Saved(stack))] = i
            /\ SubSeq(Saved(stack), 1, Len(Saved(stack)) - 1) = Saved(Below)
        BY <2>3, <3>3, <3>4, FrontAndLast
      <4> QED BY <2>6, <4>1
    <3>6. Waits' /\ IRpc' = i /\ IRstk' = Saved(Below)
      BY <3>1, <3>2, PlacedNext
    <3> QED BY <2>1, <3>5, <3>6 DEF IR!irvars
  <2>9. CASE Top.via \in {"test", "cond"}
    <3>1. ret' = "one" /\ Below # <<>>
      BY <1>5, <2>1, <2>2, <2>9 DEF Unwind
    <3>2. Saved(stack') = Saved(stack) /\ stack' # <<>>
      BY <2>1, <2>5, <2>9, <3>1
    <3>3. IRpc' = IRpc /\ IRstk' = IRstk
      BY <2>6, <3>1, <3>2 DEF IRpc, IRstk, Leaving
    <3>4. Waits'
      BY <2>1, <2>4, <3>1 DEF Waits
    <3> QED BY <2>1, <3>3, <3>4 DEF IR!irvars
  <2> QED BY <2>3, <2>7, <2>8, <2>9 DEF Via
(* The innermost function takes a step.                                    *)
<1>6. ASSUME Running
      PROVE  /\ stack # <<>> /\ ret = "none" /\ WaitOK(stack) /\ Top.c = 0
             /\ Top \in LineFrame(out)
             /\ IRpc = Top.i /\ IRstk = Saved(stack) /\ Saved(stack) \in Seq(Nat \ {0})
             /\ IRpc \in DOMAIN prog /\ out[Top.i] = prog[IRpc]
  BY <1>1, <1>6, AtSource
<1>7. ASSUME Running, Advance, ret' = "none"
      PROVE  Waits' /\ IRpc' = IRpc + 1 /\ IRstk' = IRstk
  <2>1. Settled(stack', Top.i + 1, Saved(stack))
    BY <1>1, <1>6, <1>7, Moves
  <2> QED BY <1>6, <1>7, <2>1, PlacedNext
<1>8. CASE NoCommand
  <2>1. /\ Running /\ Advance /\ out[Top.i].op \in {"nop", "static"}
        /\ prog' = prog /\ x' = x /\ ret' = ret
    BY <1>8 DEF NoCommand, Here
  <2>2. Waits' /\ IRpc' = IRpc + 1 /\ IRstk' = IRstk /\ IR!At(out[Top.i].op)
    BY <1>6, <1>7, <2>1 DEF IR!At
  <2>3. IR!Skip
    BY <2>1, <2>2 DEF IR!Skip
  <2> QED BY <2>2, <2>3 DEF IR!Next
<1>9. CASE Add
  <2>1. /\ Running /\ Advance /\ out[Top.i].op = "add"
        /\ prog' = prog /\ x' = (x + 1) % Width /\ ret' = ret
    BY <1>9 DEF Add, Here
  <2>2. Waits' /\ IRpc' = IRpc + 1 /\ IRstk' = IRstk /\ IR!At("add")
    BY <1>6, <1>7, <2>1 DEF IR!At
  <2>3. IR!Add
    BY <2>1, <2>2 DEF IR!Add
  <2> QED BY <2>2, <2>3 DEF IR!Next
<1>10. CASE Call
  <2>1. /\ Running /\ out[Top.i].op = "call" /\ IsCallLike(out[Top.i])
        /\ ~IsExtern(out, Target) /\ Push([Top EXCEPT !.i = @ + 1], Target, "call")
        /\ prog' = prog /\ x' = x /\ ret' = ret
    BY <1>10 DEF Call, Here, IsCallLike
  <2>2. /\ Target \in Nat /\ IR!PosOf(prog, prog[IRpc].l) = Target
        /\ ~IR!IsExtern(prog, Target)
    BY <1>1, <2>1, TargetSame
  <2>3. Settled(stack', Target + 1, Append(Saved(stack), Top.i + 1))
    BY <1>1, <1>6, <2>1, <2>2, Moves
  <2>4. Waits' /\ IRpc' = Target + 1 /\ IRstk' = Append(IRstk, IRpc + 1)
    BY <1>6, <2>1, <2>3, PlacedNext
  <2>5. IR!Call
    BY <1>6, <2>1, <2>2, <2>4 DEF IR!Call, IR!At, IR!Goto
  <2> QED BY <2>4, <2>5 DEF IR!Next
<1>11. CASE CallExtern
  <2>1. /\ Running /\ Advance /\ out[Top.i].op = "call" /\ IsCallLike(out[Top.i])
        /\ IsExtern(out, Target) /\ prog' = prog /\ x' \in 0..(Width - 1) /\ ret' = ret
    BY <1>11 DEF CallExtern, Here, IsCallLike
  <2>2. IR!PosOf(prog, prog[IRpc].l) = Target /\ IR!IsExtern(prog, Target)
    BY <1>1, <2>1, TargetSame
  <2>3. Waits' /\ IRpc' = IRpc + 1 /\ IRstk' = IRstk /\ IR!At("call")
    BY <1>6, <1>7, <2>1 DEF IR!At
  <2>4. IR!CallExtern
    BY <2>1, <2>2, <2>3 DEF IR!CallExtern
  <2> QED BY <2>3, <2>4 DEF IR!Next
<1>12. CASE Jump
  <2>1. /\ Running /\ out[Top.i].op = "jmp" /\ IsCallLike(out[Top.i]) /\ JumpLine(Target)
        /\ prog' = prog /\ x' = x /\ ret' = ret
    BY <1>12 DEF Jump, Here, IsCallLike
  <2>2. Target \in LabelPos(out) /\ IR!PosOf(prog, prog[IRpc].l) = Target
    BY <1>1, <2>1, TargetSame
  <2>3. Settled(stack', Target + 1, Saved(stack))
    BY <1>1, <1>6, <2>1, <2>2, JumpMoves
  <2>4. Waits' /\ IRpc' = Target + 1 /\ IRstk' = IRstk
    BY <1>6, <2>1, <2>3, PlacedNext
  <2>5. IR!Jump
    BY <1>6, <2>1, <2>2, <2>4 DEF IR!Jump, IR!At, IR!Goto
  <2> QED BY <2>4, <2>5 DEF IR!Next
<1>13. CASE NextBlock
  <2>1. /\ Running /\ Top.i <= Len(out) /\ out[Top.i].op = "label" /\ JumpLine(Top.i)
        /\ prog' = prog /\ x' = x /\ ret' = ret
    BY <1>13 DEF NextBlock, Here
  <2>2. Top.i \in LabelPos(out)
    BY <1>1, <1>6, <2>1 DEF LineFrame, Frame, LabelPos, IsLabel, TypeInv
  <2>3. Settled(stack', Top.i + 1, Saved(stack))
    BY <1>1, <1>6, <2>1, <2>2, JumpMoves
  <2>4. Waits' /\ IRpc' = IRpc + 1 /\ IRstk' = IRstk
    BY <1>6, <2>1, <2>3, PlacedNext
  <2>5. IR!Skip
    BY <1>6, <2>1, <2>4 DEF IR!Skip, IR!At
  <2> QED BY <2>4, <2>5 DEF IR!Next
<1>14. CASE CondJump
  <2>1. /\ Running /\ out[Top.i].op = "jcc" /\ IsCallLike(out[Top.i])
        /\ prog' = prog /\ x' = x /\ ret' = ret
    BY <1>14 DEF CondJump, Here, IsCallLike
  <2>2. CASE x # 0
    <3>1. Waits' /\ IRpc' = IRpc + 1 /\ IRstk' = IRstk /\ IR!At("jcc")
      BY <1>6, <1>7, <1>14, <2>1, <2>2 DEF CondJump, IR!At
    <3>2. IR!FallThrough
      BY <2>1, <2>2, <3>1 DEF IR!FallThrough
    <3> QED BY <3>1, <3>2 DEF IR!Next
  <2>3. CASE x = 0
    <3>1. Target \in Nat /\ IR!PosOf(prog, prog[IRpc].l) = Target
      BY <1>1, <2>1, TargetSame
    <3>2. TailCall(Target) \/ Push(Top, Target, "cond")
      BY <1>14, <2>3 DEF CondJump
    <3>3. Settled(stack', Target + 1, Saved(stack))
      <4>1. stack # <<>> /\ WaitOK(stack) /\ Top.c = 0 /\ Top \in LineFrame(out)
        BY <1>6, <2>1
      <4>2. TypeInv
        BY <1>1
      <4> QED BY <3>1, <3>2, <4>1, <4>2, Moves
    <3>4. Waits' /\ IRpc' = Target + 1 /\ IRstk' = IRstk
      BY <1>6, <2>1, <3>3, PlacedNext
    <3>5. IR!Jump
      BY <1>6, <2>1, <2>3, <3>1, <3>4 DEF IR!Jump, IR!At, IR!Goto
    <3> QED BY <3>4, <3>5 DEF IR!Next
  <2> QED BY <2>2, <2>3
(* A return: control is at once where the nearest call waits.              *)
<1>15. ASSUME Running, out[Top.i].op = "ret" \/ (out[Top.i].op = "retc" /\ x = 0),
              ret' = "one", UNCHANGED <<prog, x, stack>>
       PROVE  Waits' /\ IR!Return
  <2>1. Waits'
    BY <1>6, <1>15 DEF Waits
  <2>2. /\ IRpc' = IF IRstk = <<>> THEN 0 ELSE IRstk[Len(IRstk)]
        /\ IRstk' = IF IRstk = <<>> THEN IRstk ELSE SubSeq(IRstk, 1, Len(IRstk) - 1)
    <3>1. IRstk = Saved(stack) /\ stack # <<>>
      BY <1>6, <1>15
    <3>2. /\ IRpc' = IF Saved(stack) = <<>> THEN 0 ELSE Saved(stack)[Len(Saved(stack))]
          /\ IRstk' = IF Saved(stack) = <<>> THEN Saved(stack)
                      ELSE SubSeq(Saved(stack), 1, Len(Saved(stack)) - 1)
      BY <1>15, <3>1 DEF IRpc, IRstk, Leaving
    <3> QED BY <3>1, <3>2
  <2>3. IR!Return
    BY <1>6, <1>15, <2>2 DEF IR!Return, IR!At
  <2> QED BY <2>1, <2>3
<1>16. CASE Ret
  <2>1. Waits' /\ IR!Return
    BY <1>15, <1>16 DEF Ret, Here
  <2> QED BY <2>1 DEF IR!Next
<1>17. CASE CondRet
  <2>1. Running /\ out[Top.i].op = "retc" /\ prog' = prog /\ x' = x
    BY <1>17 DEF CondRet, Here
  <2>2. CASE x # 0
    <3>1. Waits' /\ IRpc' = IRpc + 1 /\ IRstk' = IRstk /\ IR!At("retc")
      BY <1>6, <1>7, <1>17, <2>1, <2>2 DEF CondRet, IR!At
    <3>2. IR!FallThrough
      BY <2>1, <2>2, <3>1 DEF IR!FallThrough
    <3> QED BY <3>1, <3>2 DEF IR!Next
  <2>3. CASE x = 0
    <3>1. Waits' /\ IR!Return
      BY <1>15, <1>17, <2>1, <2>3 DEF CondRet
    <3> QED BY <3>1 DEF IR!Next
  <2> QED BY <2>2, <2>3
<1>18. CASE FallOff
  <2>1. FlowInv' /\ phase' = "built" /\ prog' = prog /\ ret' = "zero"
    BY <1>18, FlowInvNext DEF RefInv, FallOff
  <2> QED BY <2>1 DEF FlowInv
<1> QED BY <1>2, <1>3, <1>4, <1>5, <1>8, <1>9, <1>10, <1>11, <1>12, <1>13, <1>14,
           <1>16, <1>17, <1>18 DEF Next

(* Nothing runs before the unit is compiled, or if it is not.              *)
LEMMA NothingRuns ==
  ASSUME RefInv, Next, phase # "built"
  PROVE  Waits' /\ UNCHANGED IR!irvars
<1>1. stack = <<>> /\ ret = "none"
  BY DEF RefInv, FlowInv, TypeInv
<1>2. Verify
  BY <1>1 DEF Next, Invoke, NoCommand, Add, Call, CallExtern, Jump, NextBlock, CondJump,
              Ret, CondRet, FallOff, Unwind, Cut, Here, Running
<1>3. stack' = <<>> /\ ret' = "none" /\ prog' = prog /\ x' = x
  BY <1>1, <1>2 DEF Verify
<1> QED BY <1>1, <1>3, Idle, IdleNext DEF IR!irvars

(* RefInv holds at first,                                                  *)
LEMMA RefInvInit == Init => RefInv
BY FlowInvInit DEF RefInv, Init

(* and every step keeps it.                                                *)
LEMMA RefInvNext == RefInv /\ [Next]_vars => RefInv'
<1> SUFFICES ASSUME RefInv, [Next]_vars, phase' = "built", Defined(prog)'
             PROVE  Waits'
  BY FlowInvNext DEF RefInv
<1>1. CASE UNCHANGED vars
  BY <1>1 DEF vars, RefInv, Waits, Top
<1>2. prog' = prog
  BY DEF vars, Next, Verify, Invoke, NoCommand, Add, Call, CallExtern, Jump, NextBlock,
         CondJump, Ret, CondRet, FallOff, Unwind, Cut
<1>3. Defined(prog)
  BY <1>2
<1> QED BY <1>1, <1>3, StepRefines, NothingRuns

(* The functions IR::compile writes do what the unit says, for units of    *)
(* any length with defined meaning: every step of theirs is a step of the  *)
(* unit as written, or none.                                               *)
THEOREM CompiledUnitImplementsIR ==
  ASSUME \A p \in Programs : Accepts(p) => Defined(p)
  PROVE  Spec => ImplementsIR
<1>1. Init => IR!Init
  <2> SUFFICES ASSUME Init PROVE IR!Init
    OBVIOUS
  <2>1. prog \in Seq(Op) /\ x = 0 /\ stack = <<>> /\ ret = "none"
    BY ProgramsAssumption DEF Init
  <2>2. IR!Op = Op
    BY DEF IR!Op, Op, IR!OpNames, OpNames, IR!LabelKinds, LabelKinds
  <2> QED BY <2>1, <2>2, Idle DEF IR!Init
<1>2. RefInv /\ [Next]_vars => [IR!Next]_(IR!irvars)
  <2> SUFFICES ASSUME RefInv, [Next]_vars PROVE [IR!Next]_(IR!irvars)
    OBVIOUS
  <2>1. CASE UNCHANGED vars
    BY <2>1 DEF vars, IR!irvars, IRpc, IRstk, Leaving, Top
  <2>2. CASE Next /\ phase = "built"
    <3>1. Defined(prog)
      BY <2>2 DEF RefInv, FlowInv, TypeInv
    <3> QED BY <2>2, <3>1, StepRefines
  <2>3. CASE Next /\ phase # "built"
    BY <2>3, NothingRuns
  <2> QED BY <2>1, <2>2, <2>3
<1>3. Spec => []RefInv
  BY RefInvInit, RefInvNext, PTL DEF Spec
<1> QED BY <1>1, <1>2, <1>3, PTL DEF Spec, ImplementsIR, IR!Spec
=============================================================================
