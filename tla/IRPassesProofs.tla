--------------------------- MODULE IRPassesProofs ---------------------------
(***************************************************************************)
(* Proofs about the IR optimizer and the IR obfuscator, for every unit,    *)
(* every width of a score and every bound on the rounds: what a pass makes *)
(* of a unit is a unit whose references resolve, and jumps stay compares.  *)
(***************************************************************************)
EXTENDS IRPasses, SeqLemmas

(* The ops that name a label.                                              *)
Referring == Jumps \union {"jmp", "call", "movd"}

-----------------------------------------------------------------------------
(* What is remembered of a unit.                                           *)
LEMMA WrapWord ==
  ASSUME NEW n \in Int
  PROVE  Wrap(n) \in Word
BY ModulusAssumption DEF Wrap, Word

(* What a register and a number hold, and that no value is both.           *)
LEMMA ValueShape ==
  ASSUME NEW v \in Values
  PROVE  /\ IsReg(v) => v.reg \in Registers /\ ~IsImm(v)
         /\ IsImm(v) => v.imm \in Word /\ ~IsReg(v)
BY DEF Values, IsReg, IsImm, Reg, Imm, Ptr, NoValue

(* Where the values that the passes build come from.                       *)
LEMMA MadeValues ==
  /\ \A r \in Registers : Reg(r) \in Values /\ Ptr(r) \in Values
  /\ \A n \in Word : Imm(n) \in Values
  /\ NoValue \in Values
BY DEF Values

(* The ops that the passes build, with the label each of them names.       *)
LEMMA MadeOps ==
  /\ Nop \in Op /\ Nop.op = "nop" /\ Nop.l = NoLabel
  /\ \A v, w \in Values : Mov(v, w) \in Op /\ Mov(v, w).op = "mov" /\ Mov(v, w).l = NoLabel
  /\ \A v, w \in Values : Add(v, w) \in Op /\ Add(v, w).op = "add" /\ Add(v, w).l = NoLabel
  /\ \A l \in Targets : CallTo(l) \in Op /\ CallTo(l).op = "call" /\ CallTo(l).l = l
  /\ \A r \in Registers, l \in Targets :
       Movd(r, l) \in Op /\ Movd(r, l).op = "movd" /\ Movd(r, l).l = l
  /\ \A r \in Registers : Calld(r) \in Op /\ Calld(r).op = "calld" /\ Calld(r).l = NoLabel
<1>1. Nop \in Op /\ Nop.op = "nop" /\ Nop.l = NoLabel
  BY MadeValues DEF Nop, Op, OpNames, Targets
<1>2. ASSUME NEW v \in Values, NEW w \in Values
      PROVE  Mov(v, w) \in Op /\ Mov(v, w).op = "mov" /\ Mov(v, w).l = NoLabel
  BY DEF Mov, Nop, Op, OpNames, Targets
<1>3. ASSUME NEW v \in Values, NEW w \in Values
      PROVE  Add(v, w) \in Op /\ Add(v, w).op = "add" /\ Add(v, w).l = NoLabel
  BY DEF Add, Mov, Nop, Op, OpNames, Targets, Arithmetic
<1>4. ASSUME NEW l \in Targets
      PROVE  CallTo(l) \in Op /\ CallTo(l).op = "call" /\ CallTo(l).l = l
  BY MadeValues DEF CallTo, Nop, Op, OpNames
<1>5. ASSUME NEW r \in Registers, NEW l \in Targets
      PROVE  Movd(r, l) \in Op /\ Movd(r, l).op = "movd" /\ Movd(r, l).l = l
  BY MadeValues DEF Movd, CallTo, Nop, Op, OpNames
<1>6. ASSUME NEW r \in Registers
      PROVE  Calld(r) \in Op /\ Calld(r).op = "calld" /\ Calld(r).l = NoLabel
  BY MadeValues DEF Calld, Nop, Op, OpNames, Targets
<1> QED BY <1>1, <1>2, <1>3, <1>4, <1>5, <1>6

(* An op whose operands are replaced keeps its name and its label.         *)
LEMMA WithOperand ==
  ASSUME NEW o \in Op, NEW v \in Values, NEW w \in Values
  PROVE  /\ [o EXCEPT !.a = v, !.b = w] \in Op
         /\ [o EXCEPT !.b = w] \in Op
         /\ [o EXCEPT !.a = v, !.b = w].op = o.op /\ [o EXCEPT !.a = v, !.b = w].l = o.l
         /\ [o EXCEPT !.b = w].op = o.op /\ [o EXCEPT !.b = w].l = o.l
BY DEF Op

(* A unit made of another: every reference in it is one the other has, and *)
(* it has the label of it.                                                 *)
LEMMA StaysLinked ==
  ASSUME NEW p \in Seq(Op), NEW q \in Seq(Op), Linked(p),
         \A i \in 1..Len(q) : ~IsLabel(q[i]) /\ q[i].l # NoLabel =>
           /\ q[i].op \in Referring
           /\ \E j \in 1..Len(p) : ~IsLabel(p[j]) /\ p[j].l = q[i].l
         ,
         \A i \in 1..Len(q) : ~IsLabel(q[i]) /\ q[i].l # NoLabel =>
           \A b \in 1..Len(p) : IsLabel(p[b]) /\ p[b].l = q[i].l =>
             \E c \in 1..Len(q) : IsLabel(q[c]) /\ q[c].l = p[b].l
         ,
         \A i, k \in 1..Len(q) : IsLabel(q[i]) /\ IsLabel(q[k]) /\ q[i].l = q[k].l => i = k
  PROVE  Linked(q)
<1> SUFFICES ASSUME NEW i \in 1..Len(q), ~IsLabel(q[i]), q[i].l # NoLabel
             PROVE  q[i].op \in Referring /\ (q[i].l = RetLabel \/ LabelPos(q, q[i].l) # {})
  BY DEF Linked, Referring
<1>1. PICK j \in 1..Len(p) : ~IsLabel(p[j]) /\ p[j].l = q[i].l
  OBVIOUS
<1>2. q[i].op \in Referring
  OBVIOUS
<1>3. p[j].l = RetLabel \/ LabelPos(p, p[j].l) # {}
  BY <1>1 DEF Linked
<1>4. CASE LabelPos(p, p[j].l) # {}
  <2>1. PICK b \in 1..Len(p) : IsLabel(p[b]) /\ p[b].l = q[i].l
    BY <1>1, <1>4 DEF LabelPos
  <2>2. PICK c \in 1..Len(q) : IsLabel(q[c]) /\ q[c].l = q[i].l
    BY <2>1
  <2> QED BY <1>2, <2>2 DEF LabelPos
<1> QED BY <1>1, <1>2, <1>3, <1>4

-----------------------------------------------------------------------------
(* The passes that rewrite op by op.                                       *)
(* What is made of an op in place: a label stays, another op is no label,  *)
(* and names none or what the op or the table names.                       *)
InPlace(n, o, L) ==
  /\ n \in Op
  /\ IsLabel(o) => n = o
  /\ ~IsLabel(o) => /\ ~IsLabel(n)
                    /\ n.l = NoLabel \/ (n.l = o.l /\ n.op = o.op) \/ (n.op = "call" /\ n.l \in L)

(* The labels that p names.                                                *)
NamedIn(p) == {p[j].l : j \in {k \in 1..Len(p) : ~IsLabel(p[k])}}

(* Every op of q is made in place of the one of p.                         *)
AllInPlace(q, p) ==
  /\ q = [i \in 1..Len(p) |-> q[i]]
  /\ \A i \in 1..Len(p) : InPlace(q[i], p[i], NamedIn(p))

(* A pass that rewrites ops in place keeps a unit linked.                  *)
LEMMA InPlaceLinked ==
  ASSUME NEW p \in Seq(Op), Linked(p), NEW q, AllInPlace(q, p)
  PROVE  q \in Seq(Op) /\ Linked(q)
<1>1. \A i \in 1..Len(p) : q[i] \in Op
  BY DEF InPlace, AllInPlace
<1>2. q \in Seq(Op) /\ Len(q) = Len(p)
  BY <1>1 DEF AllInPlace
<1>3. ASSUME NEW i \in 1..Len(q), ~IsLabel(q[i]), q[i].l # NoLabel
      PROVE  q[i].op \in Referring /\ \E j \in 1..Len(p) : ~IsLabel(p[j]) /\ p[j].l = q[i].l
  <2>1. i \in 1..Len(p) /\ ~IsLabel(p[i]) /\ InPlace(q[i], p[i], NamedIn(p))
    BY <1>2, <1>3 DEF InPlace, AllInPlace
  <2>2. CASE q[i].l = p[i].l /\ q[i].op = p[i].op
    BY <1>3, <2>1, <2>2 DEF Linked, Referring
  <2>3. CASE q[i].op = "call" /\ q[i].l \in NamedIn(p)
    BY <2>3 DEF Referring, NamedIn
  <2> QED BY <1>3, <2>1, <2>2, <2>3 DEF InPlace
<1>4. ASSUME NEW b \in 1..Len(p), IsLabel(p[b])
      PROVE  \E c \in 1..Len(q) : IsLabel(q[c]) /\ q[c].l = p[b].l
  BY <1>2, <1>4 DEF InPlace, AllInPlace
<1>5. ASSUME NEW i \in 1..Len(q), NEW k \in 1..Len(q), IsLabel(q[i]), IsLabel(q[k]), q[i].l = q[k].l
      PROVE  i = k
  <2>1. i \in 1..Len(p) /\ k \in 1..Len(p)
    BY <1>2
  <2>2. q[i] = p[i] /\ q[k] = p[k]
    BY <1>5, <2>1 DEF InPlace, AllInPlace
  <2> QED BY <1>5, <2>1, <2>2 DEF Linked
<1> QED BY <1>2, <1>3, <1>4, <1>5, StaysLinked

(* A table from registers to S.                                            *)
Tables(S) == UNION {[R -> S] : R \in SUBSET Trackable}

(* A pass starts from a table with no entries.                             *)
LEMMA EmptyTable == ASSUME NEW S PROVE None \in Tables(S)
<1>1. None \in [{} -> S]
  BY DEF None
<1> QED BY <1>1 DEF Tables

(* What a table holds for a register it has.                               *)
LEMMA TableAt ==
  ASSUME NEW S, NEW t \in Tables(S)
  PROVE  DOMAIN t \subseteq Trackable /\ \A r \in DOMAIN t : t[r] \in S
BY DEF Tables

(* A table that forgets a register is a table.                             *)
LEMMA TableLess ==
  ASSUME NEW S, NEW t \in Tables(S), NEW R
  PROVE  Without(t, R) \in Tables(S)
<1>1. PICK D \in SUBSET Trackable : t \in [D -> S]
  BY DEF Tables
<1>2. Without(t, R) \in [D \ R -> S]
  BY <1>1 DEF Without
<1> QED BY <1>1, <1>2 DEF Tables

(* A table that learns of a register is a table.                           *)
LEMMA TableMore ==
  ASSUME NEW S, NEW t \in Tables(S), NEW r \in Trackable, NEW v \in S
  PROVE  Set(t, r, v) \in Tables(S)
<1>1. PICK D \in SUBSET Trackable : t \in [D -> S]
  BY DEF Tables
<1>2. Set(t, r, v) \in [D \union {r} -> S]
  BY <1>1 DEF Set
<1> QED BY <1>1, <1>2 DEF Tables

-----------------------------------------------------------------------------
(* constantFold                                                            *)

(* What the fold calculates is a score.                                    *)
LEMMA CalculateWord ==
  ASSUME NEW op, NEW x \in Word, NEW y \in Word, op \in Arithmetic
  PROVE  Calculate(op, x, y) \in Word
<1>1. x \in Int /\ y \in Int
  BY ModulusAssumption DEF Word
<1>2. x + y \in Int /\ x - y \in Int /\ x * y \in Int
  BY <1>1
<1>3. Wrap(x + y) \in Word /\ Wrap(x - y) \in Word /\ Wrap(x * y) \in Word
  BY <1>2, WrapWord
<1> QED BY <1>3 DEF Calculate, Arithmetic

(* A constant the pass knows is a word.                                    *)
LEMMA KnownWord ==
  ASSUME NEW v \in Values, NEW known \in Tables(Word), ConstOf(v, known) # {}
  PROVE  Only(ConstOf(v, known)) \in Word
<1>1. ConstOf(v, known) \subseteq Word
  BY ValueShape, TableAt DEF ConstOf
<1> QED BY <1>1 DEF Only

(* The fold keeps the label of an op, or makes it a nop or a mov.          *)
LEMMA FoldedInPlace ==
  ASSUME NEW o \in Op, NEW known \in Tables(Word), NEW L
  PROVE  InPlace(FoldedOp(o, known), o, L)
<1>1. CASE o.op \notin Arithmetic \union {"mov"} \/ ~Tracked(o.a) \/ ConstOf(o.b, known) = {}
  BY <1>1 DEF FoldedOp, InPlace
<1>2. CASE o.op \in Arithmetic \union {"mov"} /\ Tracked(o.a) /\ ConstOf(o.b, known) # {}
  <2>1. PICK k : k = Only(ConstOf(o.b, known))
    OBVIOUS
  <2>2. o.a \in Values /\ o.b \in Values /\ o.l \in Targets
    BY DEF Op
  <2>3. k \in Word
    BY <1>2, <2>1, <2>2, KnownWord
  <2>4. 0 \in Word
    BY ModulusAssumption DEF Word
  <2>5. ~IsLabel(o)
    BY <1>2 DEF IsLabel, Arithmetic
  <2>6. PICK n : n = FoldedOp(o, known)
    OBVIOUS
  <2>7. \/ n = Mov(o.a, Imm(k))
        \/ n = Nop
        \/ n = Mov(o.a, Imm(0))
        \/ o.op \in Arithmetic /\ o.a.reg \in DOMAIN known /\ n = Mov(o.a, Imm(Calculate(o.op, known[o.a.reg], k)))
        \/ n = [o EXCEPT !.b = Imm(k)]
    BY <1>2, <2>1, <2>6 DEF FoldedOp
  <2>8. CASE n = Mov(o.a, Imm(k)) \/ n = Mov(o.a, Imm(0)) \/ n = Nop
    <3>1. Imm(k) \in Values /\ Imm(0) \in Values
      BY <2>3, <2>4, MadeValues
    <3>2. n \in Op /\ n.l = NoLabel /\ n.op \in {"mov", "nop"}
      BY <2>2, <2>8, <3>1, MadeOps
    <3> QED BY <2>5, <2>6, <3>2 DEF InPlace, IsLabel
  <2>9. CASE o.op \in Arithmetic /\ o.a.reg \in DOMAIN known /\ n = Mov(o.a, Imm(Calculate(o.op, known[o.a.reg], k)))
    <3>1. known[o.a.reg] \in Word
      BY <2>9, TableAt
    <3>2. Imm(Calculate(o.op, known[o.a.reg], k)) \in Values
      BY <2>3, <2>9, <3>1, CalculateWord, MadeValues
    <3>3. n \in Op /\ n.l = NoLabel /\ n.op = "mov"
      BY <2>2, <2>9, <3>2, MadeOps
    <3> QED BY <2>5, <2>6, <3>3 DEF InPlace, IsLabel
  <2>10. CASE n = [o EXCEPT !.b = Imm(k)]
    <3>1. Imm(k) \in Values
      BY <2>3, MadeValues
    <3>2. n \in Op /\ n.l = o.l /\ n.op = o.op
      BY <2>2, <2>10, <3>1, WithOperand
    <3> QED BY <2>5, <2>6, <3>2 DEF InPlace, IsLabel
  <2> QED BY <2>7, <2>8, <2>9, <2>10
<1> QED BY <1>1, <1>2

(* The constants known behind an op are scores of registers.               *)
LEMMA LearnConstTable ==
  ASSUME NEW o \in Op, NEW known \in Tables(Word)
  PROVE  LearnConst(o, known) \in Tables(Word)
<1>1. CASE Resets(o)
  BY <1>1, EmptyTable DEF LearnConst
<1>2. CASE ~Resets(o) /\ o.op = "mov" /\ Tracked(o.a) /\ IsImm(o.b)
  <2>1. o.a.reg \in Trackable /\ o.b.imm \in Word
    BY <1>2, ValueShape DEF Tracked, Op
  <2>2. LearnConst(o, known) = Set(known, o.a.reg, o.b.imm)
    BY <1>2 DEF LearnConst
  <2> QED BY <2>1, <2>2, TableMore
<1>3. CASE ~Resets(o) /\ ~(o.op = "mov" /\ Tracked(o.a) /\ IsImm(o.b))
  <2>1. LearnConst(o, known) = Without(known, Overwritten(o))
    BY <1>3 DEF LearnConst
  <2> QED BY <2>1, TableLess
<1> QED BY <1>1, <1>2, <1>3

(* The tables of the pass, position by position.                           *)
IsFoldTable(f, p) ==
  f = [i \in 0..Len(p) |->
        IF i = 0 THEN None ELSE LearnConst(FoldedOp(p[i], f[i - 1]), f[i - 1])]

(* The tables of the fold exist: the recursion over the ops is followed.   *)
LEMMA FoldTable ==
  ASSUME NEW p \in Seq(Op)
  PROVE  \E f : /\ IsFoldTable(f, p)
                /\ \A i \in 0..Len(p) : f[i] \in Tables(Word)
                /\ ConstantFold(p) = [i \in 1..Len(p) |-> FoldedOp(p[i], f[i - 1])]
<1>1. PICK T : T = Tables(Word) /\ None \in T
  BY EmptyTable
<1>2. PICK n : n = Len(p) /\ n \in Nat
  OBVIOUS
<1>3. ASSUME NEW i \in 1..n, NEW t \in T
      PROVE  LearnConst(FoldedOp(p[i], t), t) \in T
  <2>1. p[i] \in Op
    BY <1>2
  <2>2. FoldedOp(p[i], t) \in Op
    BY <1>1, <2>1, FoldedInPlace DEF InPlace
  <2> QED BY <1>1, <2>2, LearnConstTable
<1>4. PICK G : G = [i \in 1..n |-> [t \in T |-> LearnConst(FoldedOp(p[i], t), t)]]
  OBVIOUS
<1>5. G \in Steps(T, n)
  BY <1>3, <1>4 DEF Steps
<1>6. PICK f \in [0..n -> T] : Carried(f, None, n, G)
  BY <1>1, <1>2, <1>5, CarriedExists
<1>7. ASSUME NEW i \in 0..n
      PROVE  f[i] = IF i = 0 THEN None ELSE LearnConst(FoldedOp(p[i], f[i - 1]), f[i - 1])
  <2>1. CASE i = 0
    BY <1>6, <2>1 DEF Carried
  <2>2. CASE i # 0
    <3>1. i \in 1..n /\ i - 1 \in 0..n
      BY <1>2, <2>2
    <3>2. f[i] = G[i][f[i - 1]] /\ f[i - 1] \in T
      BY <1>6, <3>1 DEF Carried
    <3> QED BY <1>4, <2>2, <3>1, <3>2
  <2> QED BY <2>1, <2>2
<1>8. IsFoldTable(f, p)
  BY <1>2, <1>6, <1>7 DEF IsFoldTable
<1>9. PICK h : h = CHOOSE x : IsFoldTable(x, p)
  OBVIOUS
<1>10. IsFoldTable(h, p)
  BY <1>8, <1>9
<1>11. ConstantFold(p) = [i \in 1..Len(p) |-> FoldedOp(p[i], h[i - 1])]
  BY <1>9 DEF ConstantFold, Forward, IsFoldTable
<1>12. PICK S : S = {i \in 0..n : h[i] \in T}
  OBVIOUS
<1>13. 0 \in S
  BY <1>1, <1>2, <1>10, <1>12 DEF IsFoldTable
<1>14. ASSUME NEW i \in 1..n, i - 1 \in S PROVE i \in S
  <2>1. i \in 0..Len(p) /\ i # 0 /\ i \in 0..n
    BY <1>2
  <2>2. h[i] = LearnConst(FoldedOp(p[i], h[i - 1]), h[i - 1])
    BY <1>10, <2>1 DEF IsFoldTable
  <2> QED BY <1>3, <1>12, <1>14, <2>1, <2>2
<1>15. 0..n \subseteq S
  BY <1>2, <1>13, <1>14, UpTo
<1>16. \A i \in 0..Len(p) : h[i] \in Tables(Word)
  BY <1>1, <1>2, <1>12, <1>15
<1> QED BY <1>10, <1>11, <1>16

(* The fold keeps a unit a unit.                                           *)
LEMMA ConstantFoldLinked ==
  ASSUME NEW p \in Seq(Op), Linked(p)
  PROVE  ConstantFold(p) \in Seq(Op) /\ Linked(ConstantFold(p))
<1>1. PICK f : /\ \A i \in 0..Len(p) : f[i] \in Tables(Word)
               /\ ConstantFold(p) = [i \in 1..Len(p) |-> FoldedOp(p[i], f[i - 1])]
  BY FoldTable
<1>2. PICK q : q = ConstantFold(p)
  OBVIOUS
<1>3. q = [i \in 1..Len(p) |-> q[i]]
  BY <1>1, <1>2
<1>4. ASSUME NEW i \in 1..Len(p) PROVE InPlace(q[i], p[i], NamedIn(p))
  <2>1. q[i] = FoldedOp(p[i], f[i - 1]) /\ f[i - 1] \in Tables(Word) /\ p[i] \in Op
    BY <1>1, <1>2
  <2> QED BY <2>1, FoldedInPlace
<1>5. AllInPlace(q, p)
  BY <1>3, <1>4 DEF AllInPlace
<1> QED BY <1>2, <1>5, InPlaceLinked

-----------------------------------------------------------------------------
(* simplifyRegisters                                                       *)

(* A register a value is a copy of is a register.                          *)
LEMMA PropagateValue ==
  ASSUME NEW v \in Values, NEW canon \in Tables(Trackable)
  PROVE  Propagate(v, canon) \in Values
<1>1. \A r \in DOMAIN canon : Reg(canon[r]) \in Values
  <2>1. \A r \in DOMAIN canon : canon[r] \in Registers
    BY TableAt DEF Trackable
  <2> QED BY <2>1, MadeValues
<1> QED BY <1>1 DEF Propagate

(* A jump, an arithmetic op or a move reads the register that its operand  *)
(* is a copy of.                                                           *)
LEMMA SimplifiedInPlace ==
  ASSUME NEW o \in Op, NEW canon \in Tables(Trackable), NEW L
  PROVE  InPlace(SimplifiedOp(o, canon), o, L)
<1>1. o.a \in Values /\ o.b \in Values /\ o.l \in Targets
  BY DEF Op
<1>2. Propagate(o.a, canon) \in Values /\ Propagate(o.b, canon) \in Values
  BY <1>1, PropagateValue
<1>3. PICK n : n = CASE o.op \in Jumps -> [o EXCEPT !.a = Propagate(@, canon), !.b = Propagate(@, canon)]
                     [] o.op \in Arithmetic \union {"mov"} -> [o EXCEPT !.b = Propagate(@, canon)]
                     [] OTHER -> o
  OBVIOUS
<1>4. n \in Op /\ n.op = o.op /\ n.l = o.l /\ (IsLabel(o) => n = o)
  <2>1. CASE o.op \in Jumps
    <3>1. n = [o EXCEPT !.a = Propagate(o.a, canon), !.b = Propagate(o.b, canon)]
      BY <1>3, <2>1 DEF Jumps, Arithmetic
    <3>2. ~IsLabel(o)
      BY <2>1 DEF IsLabel, Jumps
    <3> QED BY <1>2, <3>1, <3>2, WithOperand
  <2>2. CASE o.op \in Arithmetic \union {"mov"}
    <3>1. n = [o EXCEPT !.b = Propagate(o.b, canon)]
      BY <1>3, <2>2 DEF Jumps, Arithmetic
    <3>2. ~IsLabel(o)
      BY <2>2 DEF IsLabel, Arithmetic
    <3> QED BY <1>2, <3>1, <3>2, WithOperand
  <2>3. CASE o.op \notin Jumps /\ o.op \notin Arithmetic \union {"mov"}
    BY <1>3, <2>3
  <2> QED BY <2>1, <2>2, <2>3
<1>5. SimplifiedOp(o, canon) = IF n.op = "mov" /\ IsReg(n.a) /\ n.b = n.a THEN Nop ELSE n
  BY <1>3 DEF SimplifiedOp
<1>6. CASE n.op = "mov" /\ IsReg(n.a) /\ n.b = n.a
  BY <1>4, <1>5, <1>6, MadeOps DEF InPlace, IsLabel
<1>7. CASE ~(n.op = "mov" /\ IsReg(n.a) /\ n.b = n.a)
  BY <1>4, <1>5, <1>7 DEF InPlace, IsLabel
<1> QED BY <1>6, <1>7

(* The copies known behind an op are registers of registers.               *)
LEMMA LearnCopyTable ==
  ASSUME NEW o \in Op, NEW canon \in Tables(Trackable)
  PROVE  LearnCopy(o, canon) \in Tables(Trackable)
<1>1. PICK kept : kept = Invalidate(canon, Overwritten(o))
  OBVIOUS
<1>2. kept \in Tables(Trackable)
  BY <1>1, TableLess DEF Invalidate
<1>3. CASE Resets(o)
  BY <1>3, EmptyTable DEF LearnCopy
<1>4. CASE ~Resets(o) /\ o.op = "mov" /\ Tracked(o.a) /\ Tracked(o.b)
  <2>1. o.a.reg \in Trackable /\ o.b.reg \in Trackable
    BY <1>4 DEF Tracked
  <2>2. LearnCopy(o, canon) = Set(kept, o.a.reg, o.b.reg)
    BY <1>1, <1>4 DEF LearnCopy
  <2> QED BY <1>2, <2>1, <2>2, TableMore
<1>5. CASE ~Resets(o) /\ ~(o.op = "mov" /\ Tracked(o.a) /\ Tracked(o.b))
  BY <1>1, <1>2, <1>5 DEF LearnCopy
<1> QED BY <1>3, <1>4, <1>5

(* The tables of the pass, position by position.                           *)
IsCopyTable(f, p) ==
  f = [i \in 0..Len(p) |->
        IF i = 0 THEN None ELSE LearnCopy(SimplifiedOp(p[i], f[i - 1]), f[i - 1])]

(* The tables of the pass exist.                                           *)
LEMMA IsCopyTableExists ==
  ASSUME NEW p \in Seq(Op)
  PROVE  \E f : /\ IsCopyTable(f, p)
                /\ \A i \in 0..Len(p) : f[i] \in Tables(Trackable)
                /\ SimplifyRegisters(p) = [i \in 1..Len(p) |-> SimplifiedOp(p[i], f[i - 1])]
<1>1. PICK T : T = Tables(Trackable) /\ None \in T
  BY EmptyTable
<1>2. PICK n : n = Len(p) /\ n \in Nat
  OBVIOUS
<1>3. ASSUME NEW i \in 1..n, NEW t \in T
      PROVE  LearnCopy(SimplifiedOp(p[i], t), t) \in T
  <2>1. p[i] \in Op
    BY <1>2
  <2>2. SimplifiedOp(p[i], t) \in Op
    BY <1>1, <2>1, SimplifiedInPlace DEF InPlace
  <2> QED BY <1>1, <2>2, LearnCopyTable
<1>4. PICK G : G = [i \in 1..n |-> [t \in T |-> LearnCopy(SimplifiedOp(p[i], t), t)]]
  OBVIOUS
<1>5. G \in Steps(T, n)
  BY <1>3, <1>4 DEF Steps
<1>6. PICK f \in [0..n -> T] : Carried(f, None, n, G)
  BY <1>1, <1>2, <1>5, CarriedExists
<1>7. ASSUME NEW i \in 0..n
      PROVE  f[i] = IF i = 0 THEN None ELSE LearnCopy(SimplifiedOp(p[i], f[i - 1]), f[i - 1])
  <2>1. CASE i = 0
    BY <1>6, <2>1 DEF Carried
  <2>2. CASE i # 0
    <3>1. i \in 1..n /\ i - 1 \in 0..n
      BY <1>2, <2>2
    <3>2. f[i] = G[i][f[i - 1]] /\ f[i - 1] \in T
      BY <1>6, <3>1 DEF Carried
    <3> QED BY <1>4, <2>2, <3>1, <3>2
  <2> QED BY <2>1, <2>2
<1>8. IsCopyTable(f, p)
  BY <1>2, <1>6, <1>7 DEF IsCopyTable
<1>9. PICK h : h = CHOOSE x : IsCopyTable(x, p)
  OBVIOUS
<1>10. IsCopyTable(h, p)
  BY <1>8, <1>9
<1>11. SimplifyRegisters(p) = [i \in 1..Len(p) |-> SimplifiedOp(p[i], h[i - 1])]
  BY <1>9 DEF SimplifyRegisters, Forward, IsCopyTable
<1>12. PICK S : S = {i \in 0..n : h[i] \in T}
  OBVIOUS
<1>13. 0 \in S
  BY <1>1, <1>2, <1>10, <1>12 DEF IsCopyTable
<1>14. ASSUME NEW i \in 1..n, i - 1 \in S PROVE i \in S
  <2>1. i \in 0..Len(p) /\ i # 0 /\ i \in 0..n
    BY <1>2
  <2>2. h[i] = LearnCopy(SimplifiedOp(p[i], h[i - 1]), h[i - 1])
    BY <1>10, <2>1 DEF IsCopyTable
  <2> QED BY <1>3, <1>12, <1>14, <2>1, <2>2
<1>15. 0..n \subseteq S
  BY <1>2, <1>13, <1>14, UpTo
<1>16. \A i \in 0..Len(p) : h[i] \in Tables(Trackable)
  BY <1>1, <1>2, <1>12, <1>15
<1> QED BY <1>10, <1>11, <1>16

(* The pass keeps a unit a unit.                                           *)
LEMMA SimplifyRegistersLinked ==
  ASSUME NEW p \in Seq(Op), Linked(p)
  PROVE  SimplifyRegisters(p) \in Seq(Op) /\ Linked(SimplifyRegisters(p))
<1>1. PICK f : /\ \A i \in 0..Len(p) : f[i] \in Tables(Trackable)
               /\ SimplifyRegisters(p) = [i \in 1..Len(p) |-> SimplifiedOp(p[i], f[i - 1])]
  BY IsCopyTableExists
<1>2. PICK q : q = SimplifyRegisters(p)
  OBVIOUS
<1>3. q = [i \in 1..Len(p) |-> q[i]]
  BY <1>1, <1>2
<1>4. ASSUME NEW i \in 1..Len(p) PROVE InPlace(q[i], p[i], NamedIn(p))
  <2>1. q[i] = SimplifiedOp(p[i], f[i - 1]) /\ f[i - 1] \in Tables(Trackable) /\ p[i] \in Op
    BY <1>1, <1>2
  <2> QED BY <2>1, SimplifiedInPlace
<1>5. AllInPlace(q, p)
  BY <1>3, <1>4 DEF AllInPlace
<1> QED BY <1>2, <1>5, InPlaceLinked

-----------------------------------------------------------------------------
(* devirtualizeCalls: the table knows labels that movd names.              *)

(* A call through a register becomes a call of a label the table knows.    *)
LEMMA DirectInPlace ==
  ASSUME NEW o \in Op, NEW L \in SUBSET Targets, NEW handles \in Tables(L)
  PROVE  InPlace(DirectOp(o, handles), o, L)
<1>1. CASE o.op = "calld" /\ IsReg(o.a) /\ o.a.reg \in DOMAIN handles
  <2>1. handles[o.a.reg] \in L
    BY <1>1, TableAt
  <2>2. PICK n : n = CallTo(handles[o.a.reg])
    OBVIOUS
  <2>3. n \in Op /\ n.op = "call" /\ n.l \in L
    BY <2>1, <2>2, MadeOps
  <2>4. DirectOp(o, handles) = n
    BY <1>1, <2>2 DEF DirectOp
  <2> QED BY <1>1, <2>3, <2>4 DEF InPlace, IsLabel
<1>2. CASE ~(o.op = "calld" /\ IsReg(o.a) /\ o.a.reg \in DOMAIN handles)
  BY <1>2 DEF DirectOp, InPlace
<1> QED BY <1>1, <1>2

(* The handles known behind an op are labels the unit names.               *)
LEMMA LearnHandleTable ==
  ASSUME NEW o \in Op, NEW L, NEW handles \in Tables(L), o.op = "movd" => o.l \in L
  PROVE  LearnHandle(o, handles) \in Tables(L)
<1>1. CASE Resets(o)
  BY <1>1, EmptyTable DEF LearnHandle
<1>2. CASE ~Resets(o) /\ o.op = "movd" /\ Tracked(o.a)
  <2>1. o.a.reg \in Trackable /\ Without(handles, {"rax"}) \in Tables(L)
    BY <1>2, TableLess DEF Tracked
  <2>2. LearnHandle(o, handles) = Set(Without(handles, {"rax"}), o.a.reg, o.l)
    BY <1>2 DEF LearnHandle
  <2> QED BY <1>2, <2>1, <2>2, TableMore
<1>3. CASE ~Resets(o) /\ ~(o.op = "movd" /\ Tracked(o.a))
  <2>1. LearnHandle(o, handles) = Without(handles, Overwritten(o))
    BY <1>3 DEF LearnHandle
  <2> QED BY <2>1, TableLess
<1> QED BY <1>1, <1>2, <1>3

(* What the ops of a unit name are labels.                                 *)
LEMMA NamedTargets ==
  ASSUME NEW p \in Seq(Op)
  PROVE  NamedIn(p) \in SUBSET Targets
<1>1. \A j \in 1..Len(p) : p[j] \in Op
  OBVIOUS
<1>2. \A j \in 1..Len(p) : p[j].l \in Targets
  BY <1>1 DEF Op
<1> QED BY <1>2 DEF NamedIn

(* The tables of the pass, position by position.                           *)
IsHandleTable(f, p) ==
  f = [i \in 0..Len(p) |->
        IF i = 0 THEN None ELSE LearnHandle(DirectOp(p[i], f[i - 1]), f[i - 1])]

(* The tables of the pass exist.                                           *)
LEMMA IsHandleTableExists ==
  ASSUME NEW p \in Seq(Op)
  PROVE  \E f : /\ IsHandleTable(f, p)
                /\ \A i \in 0..Len(p) : f[i] \in Tables(NamedIn(p))
                /\ DevirtualizeCalls(p) = [i \in 1..Len(p) |-> DirectOp(p[i], f[i - 1])]
<1>1. PICK T : T = Tables(NamedIn(p)) /\ None \in T
  BY EmptyTable
<1>2. PICK n : n = Len(p) /\ n \in Nat
  OBVIOUS
<1>3. ASSUME NEW i \in 1..n, NEW t \in T
      PROVE  LearnHandle(DirectOp(p[i], t), t) \in T
  <2>1. p[i] \in Op /\ (~IsLabel(p[i]) => p[i].l \in NamedIn(p))
    BY <1>2 DEF NamedIn
  <2>2. PICK o : o = DirectOp(p[i], t)
    OBVIOUS
  <2>3. o.op = "movd" => o = p[i] /\ ~IsLabel(p[i])
    BY <2>2 DEF DirectOp, CallTo, Nop, IsLabel
  <2>4. o \in Op
    BY <1>1, <2>1, <2>2, NamedTargets, DirectInPlace DEF InPlace
  <2>5. LearnHandle(o, t) \in T
    BY <1>1, <2>1, <2>3, <2>4, LearnHandleTable
  <2> QED BY <2>2, <2>5
<1>4. PICK G : G = [i \in 1..n |-> [t \in T |-> LearnHandle(DirectOp(p[i], t), t)]]
  OBVIOUS
<1>5. G \in Steps(T, n)
  BY <1>3, <1>4 DEF Steps
<1>6. PICK f \in [0..n -> T] : Carried(f, None, n, G)
  BY <1>1, <1>2, <1>5, CarriedExists
<1>7. ASSUME NEW i \in 0..n
      PROVE  f[i] = IF i = 0 THEN None ELSE LearnHandle(DirectOp(p[i], f[i - 1]), f[i - 1])
  <2>1. CASE i = 0
    BY <1>6, <2>1 DEF Carried
  <2>2. CASE i # 0
    <3>1. i \in 1..n /\ i - 1 \in 0..n
      BY <1>2, <2>2
    <3>2. f[i] = G[i][f[i - 1]] /\ f[i - 1] \in T
      BY <1>6, <3>1 DEF Carried
    <3> QED BY <1>4, <2>2, <3>1, <3>2
  <2> QED BY <2>1, <2>2
<1>8. IsHandleTable(f, p)
  BY <1>2, <1>6, <1>7 DEF IsHandleTable
<1>9. PICK h : h = CHOOSE x : IsHandleTable(x, p)
  OBVIOUS
<1>10. IsHandleTable(h, p)
  BY <1>8, <1>9
<1>11. DevirtualizeCalls(p) = [i \in 1..Len(p) |-> DirectOp(p[i], h[i - 1])]
  BY <1>9 DEF DevirtualizeCalls, Forward, IsHandleTable
<1>12. PICK S : S = {i \in 0..n : h[i] \in T}
  OBVIOUS
<1>13. 0 \in S
  BY <1>1, <1>2, <1>10, <1>12 DEF IsHandleTable
<1>14. ASSUME NEW i \in 1..n, i - 1 \in S PROVE i \in S
  <2>1. i \in 0..Len(p) /\ i # 0 /\ i \in 0..n
    BY <1>2
  <2>2. h[i] = LearnHandle(DirectOp(p[i], h[i - 1]), h[i - 1])
    BY <1>10, <2>1 DEF IsHandleTable
  <2> QED BY <1>3, <1>12, <1>14, <2>1, <2>2
<1>15. 0..n \subseteq S
  BY <1>2, <1>13, <1>14, UpTo
<1>16. \A i \in 0..Len(p) : h[i] \in Tables(NamedIn(p))
  BY <1>1, <1>2, <1>12, <1>15
<1> QED BY <1>10, <1>11, <1>16

(* The pass keeps a unit a unit.                                           *)
LEMMA DevirtualizeCallsLinked ==
  ASSUME NEW p \in Seq(Op), Linked(p)
  PROVE  DevirtualizeCalls(p) \in Seq(Op) /\ Linked(DevirtualizeCalls(p))
<1>1. PICK f : /\ \A i \in 0..Len(p) : f[i] \in Tables(NamedIn(p))
               /\ DevirtualizeCalls(p) = [i \in 1..Len(p) |-> DirectOp(p[i], f[i - 1])]
  BY IsHandleTableExists
<1>2. PICK q : q = DevirtualizeCalls(p)
  OBVIOUS
<1>3. q = [i \in 1..Len(p) |-> q[i]]
  BY <1>1, <1>2
<1>4. ASSUME NEW i \in 1..Len(p) PROVE InPlace(q[i], p[i], NamedIn(p))
  <2>1. q[i] = DirectOp(p[i], f[i - 1]) /\ f[i - 1] \in Tables(NamedIn(p)) /\ p[i] \in Op
    BY <1>1, <1>2
  <2> QED BY <2>1, NamedTargets, DirectInPlace
<1>5. AllInPlace(q, p)
  BY <1>3, <1>4 DEF AllInPlace
<1> QED BY <1>2, <1>5, InPlaceLinked

-----------------------------------------------------------------------------
(* inlineCalls                                                             *)
(* Where the body of a label ends, and its ret.                            *)
LEMMA BodyShape ==
  ASSUME NEW p \in Seq(Op), NEW b \in 1..Len(p)
  PROVE  /\ BodyEnd(p, b) \in (b + 1)..(Len(p) + 1)
         /\ \A k \in (b + 1)..(BodyEnd(p, b) - 1) : ~IsLabel(p[k])
         /\ RetOf(p, b) \in b..(BodyEnd(p, b) - 1)
<1>1. PICK T : T = {k \in (b + 1)..(Len(p) + 1) : k > Len(p) \/ IsLabel(p[k])}
  OBVIOUS
<1>2. Len(p) + 1 \in T /\ T \in SUBSET Nat
  BY <1>1
<1>3. PICK e : e = Min(T)
  OBVIOUS
<1>4. e \in T /\ \A y \in T : e <= y
  BY <1>2, <1>3, MinLeast
<1>5. BodyEnd(p, b) = e
  BY <1>1, <1>3 DEF BodyEnd
<1>6. e \in (b + 1)..(Len(p) + 1)
  BY <1>1, <1>4
<1>7. ASSUME NEW k \in (b + 1)..(e - 1) PROVE ~IsLabel(p[k])
  <2>1. k \in (b + 1)..(Len(p) + 1) /\ ~(e <= k)
    BY <1>6
  <2> QED BY <1>1, <1>4, <2>1
<1>8. PICK R : R = {b} \union {k \in (b + 1)..(e - 1) : p[k].op # "nop"}
  OBVIOUS
<1>9. R \in SUBSET Nat /\ R # {} /\ R \subseteq b..(e - 1) /\ Len(p) \in Nat /\ BoundedBy(R, Len(p))
  BY <1>6, <1>8 DEF BoundedBy
<1>10. Max(R) \in R
  BY <1>9, MaxGreatest
<1>11. RetOf(p, b) = Max(R)
  BY <1>5, <1>8 DEF RetOf
<1> QED BY <1>5, <1>6, <1>7, <1>9, <1>10, <1>11

(* What is known of a call that may be inlined.                            *)
LEMMA InlinableShape ==
  ASSUME NEW p \in Seq(Op), Linked(p), NEW i \in Inlinable(p)
  PROVE  /\ i \in 1..Len(p) /\ p[i].op = "call"
         /\ Only(LabelPos(p, p[i].l)) \in 1..Len(p)
         /\ IsLabel(p[Only(LabelPos(p, p[i].l))])
         /\ p[Only(LabelPos(p, p[i].l))].l = p[i].l
         /\ IsStraightLine(p, Only(LabelPos(p, p[i].l)))
         /\ \A j \in 1..Len(p) : j # i /\ p[j].op \in Referring => p[j].l # p[i].l
<1>1. i \in 1..Len(p) /\ p[i].op = "call" /\ CallsOf(p, p[i].l) = {i} /\ OtherRefs(p, p[i].l) = {}
  BY DEF Inlinable
<1>2. PICK b \in LabelPos(p, p[i].l) : IsStraightLine(p, b)
  BY DEF Inlinable
<1>3. PICK c : c = Only(LabelPos(p, p[i].l))
  OBVIOUS
<1>4. c \in LabelPos(p, p[i].l)
  BY <1>2, <1>3 DEF Only
<1>5. b = c
  BY <1>4 DEF Linked, LabelPos
<1>6. ASSUME NEW j \in 1..Len(p), j # i, p[j].op \in Referring PROVE p[j].l # p[i].l
  <2>1. CASE p[j].op = "call"
    BY <1>1, <1>6, <2>1 DEF CallsOf
  <2>2. CASE p[j].op \in Jumps \union {"jmp", "movd"}
    BY <1>1, <2>2 DEF OtherRefs
  <2> QED BY <1>6, <2>1, <2>2 DEF Referring
<1>7. c \in 1..Len(p) /\ IsLabel(p[c]) /\ p[c].l = p[i].l /\ IsStraightLine(p, c)
  BY <1>2, <1>4, <1>5 DEF LabelPos
<1> QED BY <1>1, <1>3, <1>6, <1>7

(* A body put in place of the call keeps a unit a unit: the label goes     *)
(* with the only call of it.                                               *)
LEMMA InlineAtLinked ==
  ASSUME NEW p \in Seq(Op), Linked(p), NEW i \in Inlinable(p)
  PROVE  InlineAt(p, i) \in Seq(Op) /\ Linked(InlineAt(p, i))
<1>1. PICK b : b = Only(LabelPos(p, p[i].l))
  OBVIOUS
<1>2. /\ i \in 1..Len(p) /\ p[i].op = "call" /\ ~IsLabel(p[i])
      /\ b \in 1..Len(p) /\ IsLabel(p[b]) /\ p[b].l = p[i].l
      /\ IsStraightLine(p, b)
      /\ \A j \in 1..Len(p) : j # i /\ p[j].op \in Referring => p[j].l # p[i].l
  BY <1>1, InlinableShape DEF IsLabel
<1>3. PICK e : e = BodyEnd(p, b)
  OBVIOUS
<1>4. PICK r : r = RetOf(p, b)
  OBVIOUS
<1>5. /\ e \in (b + 1)..(Len(p) + 1) /\ r \in b..(e - 1)
      /\ \A k \in (b + 1)..(e - 1) : ~IsLabel(p[k])
  BY <1>2, <1>3, <1>4, BodyShape
<1>6. r # b /\ \A k \in (b + 1)..(r - 1) : p[k].op # "call"
  BY <1>2, <1>4 DEF IsStraightLine, IsLabel
<1>7. PICK body : body = SubSeq(p, b + 1, r - 1)
  OBVIOUS
<1>8. body \in Seq(Op) /\ Len(body) = r - 1 - b /\ \A j \in 1..Len(body) : body[j] = p[b + j]
  <2>1. PICK m : m = b + 1
    OBVIOUS
  <2>2. PICK n : n = r - 1
    OBVIOUS
  <2>3. m \in Nat /\ n \in Nat /\ 1 <= m /\ n <= Len(p) /\ m <= n + 1 /\ (n + 1) - m = r - 1 - b
    BY <1>2, <1>5, <1>6, <2>1, <2>2
  <2>4. body = SubSeq(p, m, n)
    BY <1>7, <2>1, <2>2
  <2>5. /\ body \in Seq(Op) /\ Len(body) = (n + 1) - m
        /\ \A j \in 1..((n + 1) - m) : body[j] = p[m + j - 1]
    BY <2>3, <2>4, SubSeqShape
  <2>6. Len(body) = r - 1 - b
    BY <2>3, <2>5
  <2>7. ASSUME NEW j \in 1..Len(body) PROVE body[j] = p[b + j]
    <3>1. m + j - 1 = b + j
      BY <1>2, <2>1
    <3> QED BY <2>5, <3>1
  <2> QED BY <2>5, <2>6, <2>7
<1>9. PICK u : u = [k \in 1..Len(p) |-> IF k \in b..(e - 1) THEN <<>>
                                         ELSE IF k = i THEN body ELSE <<p[k]>>]
  OBVIOUS
<1>10. \A k \in 1..Len(p) : u[k] \in Seq(Op)
  BY <1>8, <1>9
<1>11. u \in Seq(Seq(Op)) /\ Len(u) = Len(p)
  BY <1>9, <1>10
<1>12. PICK q : q = FlattenSeq(u)
  OBVIOUS
<1>13. InlineAt(p, i) = q
  BY <1>1, <1>3, <1>4, <1>7, <1>9, <1>12 DEF InlineAt
<1>14. q \in Seq(Op) /\ Composed(u, Len(p), q)
  BY <1>11, <1>12, FlattenComposed
<1>15. PICK row, col : Sources(row, col, u, Len(p), q)
  BY <1>14 DEF Composed
(* Where an op of the result comes from.                                   *)
<1>16. ASSUME NEW k \in 1..Len(q)
       PROVE  \/ /\ row[k] \in 1..Len(p) \ {i} /\ row[k] \notin b..(e - 1) /\ col[k] = 1
                 /\ q[k] = p[row[k]]
              \/ /\ ~IsLabel(q[k])
                 /\ \E j \in 1..Len(p) : j # i /\ q[k] = p[j]
  <2>1. row[k] \in 1..Len(p) /\ col[k] \in 1..Len(u[row[k]]) /\ q[k] = u[row[k]][col[k]]
    BY <1>15 DEF Sources
  <2>2. CASE row[k] \in b..(e - 1)
    <3>1. u[row[k]] = <<>>
      BY <1>9, <2>1, <2>2
    <3> QED BY <2>1, <3>1
  <2>3. CASE row[k] \notin b..(e - 1) /\ row[k] = i
    <3>1. u[row[k]] = body
      BY <1>9, <2>1, <2>3
    <3>2. b + col[k] \in (b + 1)..(r - 1) /\ b + col[k] \in 1..Len(p) /\ q[k] = p[b + col[k]]
      <4>1. col[k] \in 1..Len(body) /\ q[k] = body[col[k]]
        BY <2>1, <3>1
      <4>2. Len(body) = r - 1 - b /\ body[col[k]] = p[b + col[k]]
        BY <1>8, <4>1
      <4>3. b \in 1..Len(p) /\ e \in (b + 1)..(Len(p) + 1) /\ r \in b..(e - 1) /\ Len(p) \in Nat
        BY <1>2, <1>5
      <4>4. col[k] \in 1..(r - 1 - b)
        BY <4>1, <4>2
      <4>5. b + col[k] \in (b + 1)..(r - 1) /\ b + col[k] \in 1..Len(p)
        BY <4>3, <4>4
      <4> QED BY <4>1, <4>2, <4>5
    <3>3. b + col[k] # i
      BY <1>2, <1>6, <3>2
    <3>4. b + col[k] \in (b + 1)..(e - 1)
      BY <1>2, <1>5, <3>2
    <3> QED BY <1>5, <3>2, <3>3, <3>4
  <2>4. CASE row[k] \notin b..(e - 1) /\ row[k] # i
    <3>1. u[row[k]] = <<p[row[k]]>>
      BY <1>9, <2>1, <2>4
    <3>2. col[k] = 1 /\ q[k] = p[row[k]]
      BY <2>1, <3>1
    <3> QED BY <2>1, <2>4, <3>2
  <2> QED BY <2>2, <2>3, <2>4
<1>17. ASSUME NEW k \in 1..Len(q), ~IsLabel(q[k]), q[k].l # NoLabel
       PROVE  q[k].op \in Referring /\ q[k].l # p[i].l /\ \E j \in 1..Len(p) : ~IsLabel(p[j]) /\ p[j].l = q[k].l
  <2>1. PICK j \in 1..Len(p) : j # i /\ q[k] = p[j]
    BY <1>16
  <2>2. p[j].op \in Referring
    BY <1>17, <2>1 DEF Linked, Referring
  <2> QED BY <1>2, <1>17, <2>1, <2>2
<1>18. ASSUME NEW k \in 1..Len(q), ~IsLabel(q[k]), q[k].l # NoLabel,
              NEW a \in 1..Len(p), IsLabel(p[a]), p[a].l = q[k].l
       PROVE  \E c \in 1..Len(q) : IsLabel(q[c]) /\ q[c].l = p[a].l
  <2>1. a # b /\ a # i
    BY <1>2, <1>17, <1>18
  <2>2. a \notin b..(e - 1)
    BY <1>2, <1>5, <1>18, <2>1
  <2>3. u[a] = <<p[a]>>
    BY <1>9, <2>1, <2>2
  <2>4. 1 \in 1..Len(u[a]) /\ u[a][1] = p[a]
    BY <2>3
  <2>5. PICK c \in 1..Len(q) : row[c] = a /\ col[c] = 1
    BY <1>15, <2>4 DEF Sources
  <2>6. q[c] = p[a]
    BY <1>15, <2>4, <2>5 DEF Sources
  <2> QED BY <1>18, <2>6
<1>19. ASSUME NEW k \in 1..Len(q), NEW c \in 1..Len(q), IsLabel(q[k]), IsLabel(q[c]), q[k].l = q[c].l
       PROVE  k = c
  <2>1. row[k] \in 1..Len(p) /\ row[c] \in 1..Len(p) /\ q[k] = p[row[k]] /\ q[c] = p[row[c]]
        /\ col[k] = 1 /\ col[c] = 1
    BY <1>16, <1>19
  <2>2. row[k] = row[c]
    BY <1>19, <2>1 DEF Linked
  <2> QED BY <1>15, <2>1, <2>2 DEF Sources
<1>20. Linked(q)
  BY <1>14, <1>17, <1>18, <1>19, StaysLinked
<1> QED BY <1>13, <1>14, <1>20

(* The units there are.                                                    *)
Units == {p \in Seq(Op) : Linked(p)}

(* One step of the pass; n steps are done.                                 *)
InlineStep(q, n) ==
  IF Inlinable(q) = {} \/ n > Len(q) THEN q ELSE InlineAt(q, Min(Inlinable(q)))

(* A step of the pass keeps a unit a unit.                                 *)
LEMMA InlineStepUnit ==
  ASSUME NEW q \in Units, NEW n
  PROVE  InlineStep(q, n) \in Units
<1>1. CASE Inlinable(q) = {} \/ n > Len(q)
  BY <1>1 DEF InlineStep
<1>2. CASE ~(Inlinable(q) = {} \/ n > Len(q))
  <2>1. PICK i : i = Min(Inlinable(q))
    OBVIOUS
  <2>2. Inlinable(q) \in SUBSET Nat /\ Inlinable(q) # {}
    BY <1>2 DEF Inlinable
  <2>3. i \in Inlinable(q)
    BY <2>1, <2>2, MinLeast
  <2>4. InlineAt(q, i) \in Units
    BY <2>3, InlineAtLinked DEF Units
  <2>5. InlineStep(q, n) = InlineAt(q, i)
    BY <1>2, <2>1 DEF InlineStep
  <2> QED BY <2>4, <2>5
<1> QED BY <1>1, <1>2

(* The unit, step by step.                                                 *)
IsInlining(f, p) ==
  f = [n \in 0..(Len(p) + 1) |-> IF n = 0 THEN p ELSE InlineStep(f[n - 1], n - 1)]

(* The pass keeps a unit a unit, whichever call its guard stops it at.     *)
LEMMA InlineCallsLinked ==
  ASSUME NEW p \in Seq(Op), Linked(p)
  PROVE  InlineCalls(p) \in Seq(Op) /\ Linked(InlineCalls(p))
<1>1. PICK T : T = Units /\ p \in T
  BY DEF Units
<1>2. PICK m : m = Len(p) + 1 /\ m \in Nat
  OBVIOUS
<1>3. \A t \in T, n \in Int : InlineStep(t, n) \in T
  BY <1>1, InlineStepUnit
<1>4. PICK G : G = [n \in 1..m |-> [t \in T |-> InlineStep(t, n - 1)]]
  OBVIOUS
<1>5. G \in Steps(T, m)
  BY <1>3, <1>4 DEF Steps
<1>6. PICK f \in [0..m -> T] : Carried(f, p, m, G)
  BY <1>1, <1>2, <1>5, CarriedExists
<1>7. ASSUME NEW n \in 0..m
      PROVE  f[n] = IF n = 0 THEN p ELSE InlineStep(f[n - 1], n - 1)
  <2>1. CASE n = 0
    BY <1>6, <2>1 DEF Carried
  <2>2. CASE n # 0
    <3>1. n \in 1..m /\ n - 1 \in 0..m
      BY <1>2, <2>2
    <3>2. f[n] = G[n][f[n - 1]] /\ f[n - 1] \in T
      BY <1>6, <3>1 DEF Carried
    <3> QED BY <1>4, <2>2, <3>1, <3>2
  <2> QED BY <2>1, <2>2
<1>8. IsInlining(f, p)
  BY <1>2, <1>6, <1>7 DEF IsInlining
<1>9. PICK h : h = CHOOSE x : IsInlining(x, p)
  OBVIOUS
<1>10. IsInlining(h, p)
  BY <1>8, <1>9
<1>11. InlineCalls(p) = h[m]
  BY <1>2, <1>9 DEF InlineCalls, IsInlining, InlineStep
<1>12. PICK S : S = {n \in 0..m : h[n] \in T}
  OBVIOUS
<1>13. 0 \in S
  BY <1>1, <1>2, <1>10, <1>12 DEF IsInlining
<1>14. ASSUME NEW n \in 1..m, n - 1 \in S PROVE n \in S
  <2>1. n \in 0..m /\ n # 0 /\ n - 1 \in Int
    BY <1>2
  <2>2. h[n] = InlineStep(h[n - 1], n - 1)
    BY <1>2, <1>10, <2>1 DEF IsInlining
  <2> QED BY <1>3, <1>12, <1>14, <2>1, <2>2
<1>15. 0..m \subseteq S
  BY <1>2, <1>13, <1>14, UpTo
<1>16. h[m] \in T
  BY <1>2, <1>12, <1>15
<1> QED BY <1>1, <1>11, <1>16 DEF Units

-----------------------------------------------------------------------------
(* eliminateDeadCode                                                       *)

(* The pass keeps a unit a unit: a label it drops is named by no op.       *)
LEMMA EliminateDeadCodeLinked ==
  ASSUME NEW p \in Seq(Op), Linked(p)
  PROVE  EliminateDeadCode(p) \in Seq(Op) /\ Linked(EliminateDeadCode(p))
<1>1. PICK q : q = EliminateDeadCode(p)
  OBVIOUS
<1>2. q = [i \in 1..Len(p) |-> IF IsDead(p, i) THEN Nop ELSE p[i]]
  BY <1>1 DEF EliminateDeadCode
<1>3. ASSUME NEW i \in 1..Len(p) PROVE InPlace(q[i], p[i], NamedIn(p))
  <2>1. CASE IsDead(p, i)
    <3>1. p[i].op \in Arithmetic \union {"mov", "movd", "pop", "peek"}
      BY <2>1 DEF IsDead, Def
    <3>2. ~IsLabel(p[i])
      BY <3>1 DEF IsLabel, Arithmetic
    <3>3. q[i] = Nop
      BY <1>2, <2>1
    <3> QED BY <3>2, <3>3, MadeOps DEF InPlace, IsLabel
  <2>2. CASE ~IsDead(p, i)
    <3>1. q[i] = p[i] /\ p[i] \in Op
      BY <1>2, <2>2
    <3> QED BY <3>1 DEF InPlace
  <2> QED BY <2>1, <2>2
<1>4. q = [i \in 1..Len(p) |-> q[i]]
  BY <1>2
<1>5. AllInPlace(q, p)
  BY <1>3, <1>4 DEF AllInPlace
<1> QED BY <1>1, <1>5, InPlaceLinked

-----------------------------------------------------------------------------
(* The obfuscator: an op stays, or becomes ops that name what it names.    *)
Expands(u, p) ==
  /\ u \in Seq(Seq(Op)) /\ Len(u) = Len(p)
  /\ \A k \in 1..Len(p) :
       \/ u[k] = <<p[k]>>
       \/ /\ ~IsLabel(p[k])
          /\ \A j \in 1..Len(u[k]) :
               /\ ~IsLabel(u[k][j])
               /\ u[k][j].l = NoLabel \/ (u[k][j].l = p[k].l /\ u[k][j].op \in Referring)

(* A unit whose ops are expanded in their order stays a unit.              *)
LEMMA ExpandedLinked ==
  ASSUME NEW p \in Seq(Op), Linked(p), NEW u, Expands(u, p)
  PROVE  FlattenSeq(u) \in Seq(Op) /\ Linked(FlattenSeq(u))
<1>1. u \in Seq(Seq(Op)) /\ Len(u) = Len(p)
  BY DEF Expands
<1>2. PICK q : q = FlattenSeq(u)
  OBVIOUS
<1>3. q \in Seq(Op) /\ Composed(u, Len(p), q)
  BY <1>1, <1>2, FlattenComposed
<1>4. PICK row, col : Sources(row, col, u, Len(p), q)
  BY <1>3 DEF Composed
<1>5. ASSUME NEW k \in 1..Len(q)
      PROVE  /\ row[k] \in 1..Len(p)
             /\ \/ col[k] = 1 /\ q[k] = p[row[k]]
                \/ /\ ~IsLabel(p[row[k]]) /\ ~IsLabel(q[k])
                   /\ q[k].l = NoLabel \/ (q[k].l = p[row[k]].l /\ q[k].op \in Referring)
  <2>1. row[k] \in 1..Len(p) /\ col[k] \in 1..Len(u[row[k]]) /\ q[k] = u[row[k]][col[k]]
    BY <1>4 DEF Sources
  <2>2. CASE u[row[k]] = <<p[row[k]]>>
    BY <2>1, <2>2
  <2>3. CASE u[row[k]] # <<p[row[k]]>>
    BY <2>1, <2>3 DEF Expands
  <2> QED BY <2>1, <2>2, <2>3
<1>6. ASSUME NEW k \in 1..Len(q), ~IsLabel(q[k]), q[k].l # NoLabel
      PROVE  q[k].op \in Referring /\ \E j \in 1..Len(p) : ~IsLabel(p[j]) /\ p[j].l = q[k].l
  <2>1. CASE q[k] = p[row[k]]
    BY <1>5, <1>6, <2>1 DEF Linked, Referring
  <2>2. CASE q[k] # p[row[k]]
    BY <1>5, <1>6, <2>2
  <2> QED BY <2>1, <2>2
<1>7. ASSUME NEW a \in 1..Len(p), IsLabel(p[a])
      PROVE  \E c \in 1..Len(q) : IsLabel(q[c]) /\ q[c].l = p[a].l
  <2>1. u[a] = <<p[a]>>
    BY <1>7 DEF Expands
  <2>2. 1 \in 1..Len(u[a]) /\ u[a][1] = p[a]
    BY <2>1
  <2>3. PICK c \in 1..Len(q) : row[c] = a /\ col[c] = 1
    BY <1>4, <2>2 DEF Sources
  <2>4. q[c] = p[a]
    BY <1>4, <2>2, <2>3 DEF Sources
  <2> QED BY <1>7, <2>4
<1>8. ASSUME NEW k \in 1..Len(q), NEW c \in 1..Len(q), IsLabel(q[k]), IsLabel(q[c]), q[k].l = q[c].l
      PROVE  k = c
  <2>1. row[k] \in 1..Len(p) /\ row[c] \in 1..Len(p) /\ q[k] = p[row[k]] /\ q[c] = p[row[c]]
        /\ col[k] = 1 /\ col[c] = 1
    BY <1>5, <1>8
  <2>2. row[k] = row[c]
    BY <1>8, <2>1 DEF Linked
  <2> QED BY <1>4, <2>1, <2>2 DEF Sources
<1>9. Linked(q)
  BY <1>3, <1>6, <1>7, <1>8, StaysLinked
<1> QED BY <1>2, <1>3, <1>9

(* The register a hidden constant is put together in is a register.        *)
LEMMA ScratchRegister ==
  ASSUME NEW p, NEW i, Untouched(p, i) # {}
  PROVE  Scratch(p, i) \in Registers
<1>1. ScratchCandidates \in Seq(Registers)
  BY DEF ScratchCandidates, Registers
<1>2. Untouched(p, i) \in SUBSET (1..Len(ScratchCandidates))
  BY <1>1 DEF Untouched
<1>3. Min(Untouched(p, i)) \in Untouched(p, i)
  BY <1>2, MinLeast
<1>4. Min(Untouched(p, i)) \in 1..Len(ScratchCandidates)
  BY <1>2, <1>3
<1> QED BY <1>1, <1>4 DEF Scratch

(* Hiding calls behind registers keeps a unit a unit.                      *)
LEMMA ObfuscateColdCallsLinked ==
  ASSUME NEW p \in Seq(Op), Linked(p)
  PROVE  ObfuscateColdCalls(p) \in Seq(Op) /\ Linked(ObfuscateColdCalls(p))
<1>1. PICK u : u = [i \in 1..Len(p) |->
                      IF IsHidden(p, i) THEN <<Movd(Scratch(p, i), p[i].l), Calld(Scratch(p, i))>>
                      ELSE <<p[i]>>]
  OBVIOUS
<1>2. ASSUME NEW i \in 1..Len(p), IsHidden(p, i)
      PROVE  /\ ~IsLabel(p[i]) /\ u[i] \in Seq(Op)
             /\ \A j \in 1..Len(u[i]) :
                  /\ ~IsLabel(u[i][j])
                  /\ u[i][j].l = NoLabel \/ (u[i][j].l = p[i].l /\ u[i][j].op \in Referring)
  <2>1. PICK m : m = Movd(Scratch(p, i), p[i].l)
    OBVIOUS
  <2>2. PICK c : c = Calld(Scratch(p, i))
    OBVIOUS
  <2>3. ~IsLabel(p[i]) /\ Scratch(p, i) \in Registers /\ p[i].l \in Targets
    <3>1. p[i] \in Op
      OBVIOUS
    <3> QED BY <1>2, <3>1, ScratchRegister DEF IsHidden, IsLabel, Op
  <2>4. m \in Op /\ c \in Op /\ m.op = "movd" /\ m.l = p[i].l /\ c.op = "calld" /\ c.l = NoLabel
    BY <2>1, <2>2, <2>3, MadeOps
  <2>5. u[i] = <<m, c>>
    BY <1>1, <1>2, <2>1, <2>2
  <2>6. ~IsLabel(m) /\ ~IsLabel(c) /\ m.op \in Referring
    BY <2>4 DEF IsLabel, Referring
  <2>7. Len(u[i]) = 2 /\ u[i][1] = m /\ u[i][2] = c /\ u[i] \in Seq(Op)
    BY <2>4, <2>5
  <2>8. \A j \in 1..2 : j = 1 \/ j = 2
    OBVIOUS
  <2> QED BY <2>3, <2>4, <2>6, <2>7, <2>8
<1>3. ASSUME NEW i \in 1..Len(p), ~IsHidden(p, i) PROVE u[i] = <<p[i]>> /\ u[i] \in Seq(Op)
  BY <1>1, <1>3
<1>4. \A i \in 1..Len(p) : u[i] \in Seq(Op)
  BY <1>2, <1>3
<1>5. u \in Seq(Seq(Op)) /\ Len(u) = Len(p)
  BY <1>1, <1>4
<1>6. Expands(u, p)
  BY <1>2, <1>3, <1>5 DEF Expands
<1>7. ObfuscateColdCalls(p) = FlattenSeq(u)
  BY <1>1 DEF ObfuscateColdCalls
<1> QED BY <1>6, <1>7, ExpandedLinked

(* Hiding constants in sums keeps a unit a unit.                           *)
LEMMA HideConstantsLinked ==
  ASSUME NEW p \in Seq(Op), Linked(p), NEW n \in [Bare(p) -> Addends]
  PROVE  HideConstants(p, n) \in Seq(Op) /\ Linked(HideConstants(p, n))
<1>1. PICK u : u = [i \in 1..Len(p) |->
                      IF i \in Bare(p)
                      THEN <<Mov(p[i].a, Imm(Wrap(p[i].b.imm - n[i]))), Add(p[i].a, Imm(n[i]))>>
                      ELSE <<p[i]>>]
  OBVIOUS
<1>2. ASSUME NEW i \in 1..Len(p), i \in Bare(p)
      PROVE  /\ ~IsLabel(p[i]) /\ u[i] \in Seq(Op)
             /\ \A j \in 1..Len(u[i]) : ~IsLabel(u[i][j]) /\ u[i][j].l = NoLabel
  <2>1. PICK m : m = Mov(p[i].a, Imm(Wrap(p[i].b.imm - n[i])))
    OBVIOUS
  <2>2. PICK c : c = Add(p[i].a, Imm(n[i]))
    OBVIOUS
  <2>3. p[i].op = "mov" /\ IsImm(p[i].b) /\ p[i].a \in Values /\ p[i].b \in Values
    <3>1. p[i] \in Op
      OBVIOUS
    <3> QED BY <1>2, <3>1 DEF Bare, Op
  <2>4. p[i].b.imm \in Word /\ n[i] \in Word
    BY <1>2, <2>3, ValueShape, AddendsAssumption
  <2>5. p[i].b.imm - n[i] \in Int
    BY <2>4, ModulusAssumption DEF Word
  <2>6. Imm(Wrap(p[i].b.imm - n[i])) \in Values /\ Imm(n[i]) \in Values
    BY <2>4, <2>5, WrapWord, MadeValues
  <2>7. m \in Op /\ c \in Op /\ m.op = "mov" /\ m.l = NoLabel /\ c.op = "add" /\ c.l = NoLabel
    BY <2>1, <2>2, <2>3, <2>6, MadeOps
  <2>8. u[i] = <<m, c>>
    BY <1>1, <1>2, <2>1, <2>2
  <2>9. ~IsLabel(m) /\ ~IsLabel(c) /\ ~IsLabel(p[i])
    BY <2>3, <2>7 DEF IsLabel
  <2>10. Len(u[i]) = 2 /\ u[i][1] = m /\ u[i][2] = c /\ u[i] \in Seq(Op)
    BY <2>7, <2>8
  <2>11. \A j \in 1..2 : j = 1 \/ j = 2
    OBVIOUS
  <2> QED BY <2>7, <2>9, <2>10, <2>11
<1>3. ASSUME NEW i \in 1..Len(p), i \notin Bare(p) PROVE u[i] = <<p[i]>> /\ u[i] \in Seq(Op)
  BY <1>1, <1>3
<1>4. \A i \in 1..Len(p) : u[i] \in Seq(Op)
  BY <1>2, <1>3
<1>5. u \in Seq(Seq(Op)) /\ Len(u) = Len(p)
  BY <1>1, <1>4
<1>6. Expands(u, p)
  BY <1>2, <1>3, <1>5 DEF Expands
<1>7. HideConstants(p, n) = FlattenSeq(u)
  BY <1>1 DEF HideConstants
<1> QED BY <1>6, <1>7, ExpandedLinked

-----------------------------------------------------------------------------
(* The invariant: the state is well formed, and the unit at hand linked.   *)
IInv == TypeOK /\ Linked(values)

(* The units of the jobs satisfy the invariant: the verifier let them      *)
(* through.                                                                *)
LEMMA InitIInv == Init => IInv
<1> SUFFICES ASSUME Init PROVE IInv
  OBVIOUS
<1>1. job \in [code : Seq(Op), opt : BOOLEAN, obf : BOOLEAN] /\ Linked(job.code)
  BY JobsAssumption DEF Init
<1>2. values = job.code /\ values \in Seq(Op) /\ Linked(values)
  BY <1>1 DEF Init
<1>3. round \in 1..MaxRounds /\ changed \in BOOLEAN
  <2>1. round \in 1..MaxRounds
    <3>1. MaxRounds \in Nat /\ MaxRounds # 0 /\ round = 1
      BY RoundsAssumption DEF Init
    <3> QED BY <3>1
  <2>2. changed \in BOOLEAN
    BY Zenon DEF Init
  <2> QED BY <2>1, <2>2
<1>4. pass \in {"fold", "simplify", "devirtualize", "inline", "dead", "calls", "hide", "done"}
  BY DEF Init, AfterOptimizer
<1> QED BY <1>1, <1>2, <1>3, <1>4 DEF IInv, TypeOK

(* A pass that keeps a unit a unit keeps the invariant.                    *)
LEMMA PassIInv ==
  ASSUME IInv, NEW this, NEW next, NEW q \in Seq(Op), Linked(q),
         next \in {"simplify", "devirtualize", "inline", "dead", "hide", "done"},
         RunPass(this, next, q)
  PROVE  IInv'
<1>1. values' = q /\ pass' = next /\ changed' \in BOOLEAN /\ job' = job /\ round' = round
  BY DEF RunPass, IInv, TypeOK
<1>2. values' \in Seq(Op) /\ Linked(values)'
  BY <1>1
<1> QED BY <1>1, <1>2 DEF IInv, TypeOK

(* Every pass, of the optimizer and of the obfuscator, keeps the           *)
(* invariant.                                                              *)
LEMMA NextIInv == IInv /\ [Next]_vars => IInv'
<1> SUFFICES ASSUME IInv, [Next]_vars PROVE IInv'
  OBVIOUS
<1>1. values \in Seq(Op) /\ Linked(values)
  BY DEF IInv, TypeOK
<1>2. CASE Fold
  BY <1>1, <1>2, ConstantFoldLinked, PassIInv DEF Fold
<1>3. CASE Simplify
  BY <1>1, <1>3, SimplifyRegistersLinked, PassIInv DEF Simplify
<1>4. CASE Devirtualize
  BY <1>1, <1>4, DevirtualizeCallsLinked, PassIInv DEF Devirtualize
<1>5. CASE Inline
  BY <1>1, <1>5, InlineCallsLinked, PassIInv DEF Inline
<1>6. CASE Dead
  <2>1. values' \in Seq(Op) /\ Linked(values)'
    BY <1>1, <1>6, EliminateDeadCodeLinked DEF Dead
  <2>2. round' \in 1..MaxRounds /\ changed' \in BOOLEAN /\ job' = job
    <3>1. round' = round \/ (round < MaxRounds /\ round' = round + 1)
      BY <1>6, Zenon DEF Dead
    <3>2. round \in 1..MaxRounds /\ MaxRounds \in Nat
      BY RoundsAssumption DEF IInv, TypeOK
    <3>3. round' \in 1..MaxRounds
      BY <3>1, <3>2
    <3>4. changed' \in BOOLEAN /\ job' = job
      BY <1>6, Zenon DEF Dead
    <3> QED BY <3>3, <3>4
  <2>3. pass' \in {"fold", "simplify", "devirtualize", "inline", "dead", "calls", "hide", "done"}
    BY <1>6 DEF Dead, AfterOptimizer
  <2> QED BY <2>1, <2>2, <2>3 DEF IInv, TypeOK
<1>7. CASE ColdCalls
  BY <1>1, <1>7, ObfuscateColdCallsLinked, PassIInv DEF ColdCalls
<1>8. CASE Hide
  <2>1. PICK n \in [Bare(values) -> Addends] : RunPass("hide", "done", HideConstants(values, n))
    BY <1>8 DEF Hide
  <2> QED BY <1>1, <2>1, HideConstantsLinked, PassIInv
<1>9. CASE UNCHANGED vars
  BY <1>9 DEF vars, IInv, TypeOK
<1> QED BY <1>2, <1>3, <1>4, <1>5, <1>6, <1>7, <1>8, <1>9 DEF Next

(* The unit at hand is well formed and linked after every pass.            *)
THEOREM Invariance == Spec => []IInv
<1> QED BY InitIInv, NextIInv, PTL DEF Spec

(* The ops are well formed after every pass.                               *)
THEOREM TypeCorrect == Spec => []TypeOK
<1>1. IInv => TypeOK
  BY DEF IInv
<1> QED BY <1>1, Invariance, PTL

(* No pass leaves a reference to a label it took away.                     *)
THEOREM ReferencesResolve == Spec => []Resolves
<1>1. IInv => Resolves
  BY DEF IInv, Linked, Resolves
<1> QED BY <1>1, Invariance, PTL

-----------------------------------------------------------------------------
(* A score lies between the least and the greatest number.                 *)
LEMMA SignedRange ==
  ASSUME NEW x \in Word
  PROVE  /\ Most \in Int /\ Least \in Int /\ Signed(x) \in Int
         /\ Least <= Signed(x) /\ Signed(x) <= Most
BY ModulusAssumption DEF Word, Signed, Most, Least

(* The ranges a jump is compiled to are what its name says.                *)
LEMMA HoldsCompares ==
  ASSUME NEW o, o.op \in Jumps, NEW x \in Word, NEW y \in Word
  PROVE  Holds(o, x, y) <=> Compare(o.op, Signed(x), Signed(y))
<1>1. PICK m : m = Signed(x)
  OBVIOUS
<1>2. PICK n : n = Signed(y)
  OBVIOUS
<1>3. PICK side : side = Constant(o)
  OBVIOUS
<1>4. m \in Int /\ n \in Int /\ Most \in Int /\ Least \in Int
  BY <1>1, <1>2, SignedRange
<1>5. Least <= m /\ m <= Most /\ Least <= n /\ n <= Most
  BY <1>1, <1>2, SignedRange
<1>6. /\ m \in Above(n) <=> m > n
      /\ n \in Above(m) <=> n > m
      /\ m \in Below(n) <=> m < n
      /\ n \in Below(m) <=> n < m
      /\ m \in AtLeast(n) <=> m >= n
      /\ n \in AtLeast(m) <=> n >= m
      /\ m \in AtMost(n) <=> m <= n
      /\ n \in AtMost(m) <=> n <= m
  BY <1>4, <1>5 DEF Above, Below, AtLeast, AtMost
<1>7. /\ Jg(side, m, n) <=> m > n
      /\ Jge(side, m, n) <=> m >= n
      /\ Jl(side, m, n) <=> m < n
      /\ Jle(side, m, n) <=> m <= n
  BY <1>4, <1>6 DEF Jg, Jge, Jl, Jle
<1>8. CASE o.op = "je"
  BY <1>1, <1>2, <1>3, <1>8 DEF Holds, Compare, Je
<1>9. CASE o.op = "jne"
  BY <1>1, <1>2, <1>3, <1>9 DEF Holds, Compare, Jne
<1>10. CASE o.op = "jg"
  BY <1>1, <1>2, <1>3, <1>7, <1>10 DEF Holds, Compare
<1>11. CASE o.op = "jge"
  BY <1>1, <1>2, <1>3, <1>7, <1>11 DEF Holds, Compare
<1>12. CASE o.op = "jl"
  BY <1>1, <1>2, <1>3, <1>7, <1>12 DEF Holds, Compare
<1>13. CASE o.op = "jle"
  BY <1>1, <1>2, <1>3, <1>7, <1>13 DEF Holds, Compare
<1> QED BY <1>8, <1>9, <1>10, <1>11, <1>12, <1>13 DEF Jumps

(* Jumps are the signed comparisons their names say, whichever operand is  *)
(* a constant, after every pass and for every width of a score.            *)
THEOREM JumpsCompare == Spec => []JumpsAsWritten
<1>1. ASSUME TypeOK PROVE JumpsAsWritten
  <2> SUFFICES ASSUME NEW i \in 1..Len(values), values[i].op \in Jumps,
                      NEW x \in (IF IsImm(values[i].a) THEN {values[i].a.imm} ELSE Word),
                      NEW y \in (IF IsImm(values[i].b) THEN {values[i].b.imm} ELSE Word)
               PROVE  Holds(values[i], x, y) <=> Compare(values[i].op, Signed(x), Signed(y))
    BY DEF JumpsAsWritten
  <2>1. values[i] \in Op
    BY <1>1 DEF TypeOK
  <2>2. values[i].a \in Values /\ values[i].b \in Values
    BY <2>1 DEF Op
  <2>3. x \in Word /\ y \in Word
    BY <2>2, ValueShape
  <2> QED BY <2>3, HoldsCompares
<1> QED BY <1>1, TypeCorrect, PTL
=============================================================================
