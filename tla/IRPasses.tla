------------------------------- MODULE IRPasses -------------------------------
(***************************************************************************)
(* The passes over the ops of one unit between Verifier and IR::compile:   *)
(* the optimizer repeats five passes until none changes the unit, at most  *)
(* MaxRounds times; the obfuscator then runs its two passes once.  A job   *)
(* is a unit with the switches it is compiled with.                        *)
(***************************************************************************)
EXTENDS RegMachine, FiniteSetsExt

CONSTANTS
  Jobs,        \* [code : Seq(Op), opt : BOOLEAN, obf : BOOLEAN]
  Inputs,      \* the register files the runs of a unit are compared on
  Memory,      \* the memory they start from
  MaxRounds,   \* the bound of the loop in runOptimization
  Addends      \* the addends constant hiding draws from

ASSUME RoundsAssumption == MaxRounds \in Nat \ {0}
ASSUME AddendsAssumption == Addends \subseteq Word \ {0}

(* Calls, jumps and movd name labels; the unit has those, each once.       *)
Linked(p) ==
  /\ \A i \in 1..Len(p) : ~IsLabel(p[i]) /\ p[i].l # NoLabel =>
       /\ p[i].op \in Jumps \union {"jmp", "call", "movd"}
       /\ p[i].l = RetLabel \/ LabelPos(p, p[i].l) # {}
  /\ \A i, k \in 1..Len(p) : IsLabel(p[i]) /\ IsLabel(p[k]) /\ p[i].l = p[k].l => i = k

(* What the Verifier accepts.                                              *)
ASSUME JobsAssumption ==
  /\ Jobs \subseteq [code : Seq(Op), opt : BOOLEAN, obf : BOOLEAN]
  /\ \A j \in Jobs : Linked(j.code)

VARIABLES
  job,         \* what is compiled
  values,      \* IR::values
  pass,        \* the pass that runs next
  round,       \* rounds begun
  changed      \* whether a pass of this round changed values

vars == <<job, values, pass, round, changed>>

Only(S) == CHOOSE x \in S : TRUE
Without(f, S) == [x \in DOMAIN f \ S |-> f[x]]
Set(f, x, v) == [y \in DOMAIN f \union {x} |-> IF y = x THEN v ELSE f[y]]
None == <<>>                   \* the empty table

(* A pass that rewrites op by op, carrying a table of what it knows:       *)
(* Rewrite(o, t) is what becomes of o, Learn(o, t) the table behind it.    *)
Forward(p, Rewrite(_, _), Learn(_, _)) ==
  LET known[i \in 0..Len(p)] ==    \* the table behind op i
        IF i = 0 THEN None
        ELSE LET t == known[i - 1] IN Learn(Rewrite(p[i], t), t)
  IN  [i \in 1..Len(p) |-> Rewrite(p[i], known[i - 1])]

Resets(o) == Boundary(o) \/ Barrier(o)
Overwritten(o) == Def(o) \union (IF ClobbersScratch(o) THEN {"rax"} ELSE {})

-----------------------------------------------------------------------------
(* constantFold: the table maps a register to the constant it holds.       *)
ConstOf(v, known) ==
  IF IsImm(v) THEN {v.imm}
  ELSE IF IsReg(v) /\ v.reg \in DOMAIN known THEN {known[v.reg]} ELSE {}

NoChange(op, k) == (op \in {"add", "sub"} /\ k = 0) \/ (op = "mul" /\ k = 1)

FoldedOp(o, known) ==
  IF o.op \notin Arithmetic \union {"mov"} \/ ~Tracked(o.a) \/ ConstOf(o.b, known) = {} THEN o
  ELSE LET k == Only(ConstOf(o.b, known)) IN
       CASE o.op = "mov"                -> Mov(o.a, Imm(k))
         [] NoChange(o.op, k)           -> Nop
         [] o.op = "mul" /\ k = 0       -> Mov(o.a, Imm(0))
         [] o.op # "mov" /\ ~NoChange(o.op, k) /\ ~(o.op = "mul" /\ k = 0) ->
              IF o.a.reg \in DOMAIN known
                THEN Mov(o.a, Imm(Calculate(o.op, known[o.a.reg], k)))
                ELSE [o EXCEPT !.b = Imm(k)]

LearnConst(o, known) ==
  IF Resets(o) THEN None
  ELSE IF o.op = "mov" /\ Tracked(o.a) /\ IsImm(o.b) THEN Set(known, o.a.reg, o.b.imm)
  ELSE Without(known, Overwritten(o))

ConstantFold(p) == Forward(p, FoldedOp, LearnConst)

-----------------------------------------------------------------------------
(* simplifyRegisters: the table maps a register to the one it copies.      *)
Propagate(v, canon) == IF IsReg(v) /\ v.reg \in DOMAIN canon THEN Reg(canon[v.reg]) ELSE v

Invalidate(canon, W) ==
  Without(canon, W \union {r \in DOMAIN canon : canon[r] \in W})

SimplifiedOp(o, canon) ==
  LET n == CASE o.op \in Jumps -> [o EXCEPT !.a = Propagate(@, canon), !.b = Propagate(@, canon)]
             [] o.op \in Arithmetic \union {"mov"} -> [o EXCEPT !.b = Propagate(@, canon)]
             [] OTHER -> o
  IN  IF n.op = "mov" /\ IsReg(n.a) /\ n.b = n.a THEN Nop ELSE n

LearnCopy(o, canon) ==
  LET kept == Invalidate(canon, Overwritten(o)) IN
  IF Resets(o) THEN None
  ELSE IF o.op = "mov" /\ Tracked(o.a) /\ Tracked(o.b) THEN Set(kept, o.a.reg, o.b.reg)
  ELSE kept

SimplifyRegisters(p) == Forward(p, SimplifiedOp, LearnCopy)

-----------------------------------------------------------------------------
(* devirtualizeCalls: the table maps a register to the label whose handle  *)
(* movd put there.                                                         *)
DirectOp(o, handles) ==
  IF o.op = "calld" /\ IsReg(o.a) /\ o.a.reg \in DOMAIN handles
    THEN CallTo(handles[o.a.reg]) ELSE o

LearnHandle(o, handles) ==
  IF Resets(o) THEN None
  ELSE IF o.op = "movd" /\ Tracked(o.a) THEN Set(Without(handles, {"rax"}), o.a.reg, o.l)
  ELSE Without(handles, Overwritten(o))

DevirtualizeCalls(p) == Forward(p, DirectOp, LearnHandle)

-----------------------------------------------------------------------------
(* inlineCalls: the body of a function called once and named nowhere else  *)
(* moves to the call.                                                      *)
CallsOf(p, l) == {i \in 1..Len(p) : p[i].op = "call" /\ p[i].l = l}
OtherJumps(p, l) == {i \in 1..Len(p) : p[i].op \in Jumps \union {"jmp"} /\ p[i].l = l}

OtherRefs(p, l) == {i \in 1..Len(p) : p[i].op \in Jumps \union {"jmp", "movd"} /\ p[i].l = l}

BodyEnd(p, b) == Min({k \in (b + 1)..(Len(p) + 1) : k > Len(p) \/ IsLabel(p[k])})

(* Straight-line code that ends in ret, nops aside.                        *)
RetOf(p, b) == Max({b} \union {k \in (b + 1)..(BodyEnd(p, b) - 1) : p[k].op # "nop"})
IsStraightLine(p, b) ==
  /\ p[RetOf(p, b)].op = "ret"
  /\ \A k \in (b + 1)..(RetOf(p, b) - 1) :
       p[k].op \notin Jumps \union {"ret", "jmp", "call", "calld", "static"}

FallenInto(p, b) ==
  LET real == {k \in 1..(b - 1) : p[k].op \notin {"nop", "static"}}
  IN  real = {} \/ ~IsTerminate(p[Max(real)])

Inlinable(p) ==
  {i \in 1..Len(p) :
    /\ p[i].op = "call"
    /\ CallsOf(p, p[i].l) = {i}
    /\ OtherRefs(p, p[i].l) = {}
    /\ \E b \in LabelPos(p, p[i].l) :
         /\ p[b].op # "export"
         /\ IsStraightLine(p, b)
         /\ ~FallenInto(p, b)}

InlineAt(p, i) ==
  LET b == Only(LabelPos(p, p[i].l)) IN
  FlattenSeq([k \in 1..Len(p) |->
    IF k \in b..(BodyEnd(p, b) - 1) THEN <<>>
    ELSE IF k = i THEN SubSeq(p, b + 1, RetOf(p, b) - 1)
    ELSE <<p[k]>>])

(* Call by call, from the top, and no more often than there are ops left.  *)
InlineCalls(p) ==
  LET after[n \in 0..(Len(p) + 1)] ==
        IF n = 0 THEN p
        ELSE LET q == after[n - 1] IN
             IF Inlinable(q) = {} \/ n - 1 > Len(q) THEN q ELSE InlineAt(q, Min(Inlinable(q)))
  IN  after[Len(p) + 1]

-----------------------------------------------------------------------------
(* eliminateDeadCode: a write to a register that is written again, unread, *)
(* before control can leave the straight line.                             *)
KeepsAliveAhead(o, r) == r \in Uses(o) \/ Resets(o)

KeepsAlive(o, r) == r \in Uses(o) \/ Resets(o) \/ Branch(o)

IsDead(p, i) ==
  /\ Def(p[i]) \ {"rax"} # {}
  /\ ~SideEffect(p[i])
  /\ \E j \in (i + 1)..Len(p) :
       /\ Def(p[j]) = Def(p[i])
       /\ ~DefReadsOld(p[j])
       /\ \A k \in (i + 1)..j : ~KeepsAlive(p[k], Only(Def(p[i])))

EliminateDeadCode(p) == [i \in 1..Len(p) |-> IF IsDead(p, i) THEN Nop ELSE p[i]]

-----------------------------------------------------------------------------
(* obfuscateColdCalls: a cold call goes through a register the straight    *)
(* line around it has not touched.                                         *)
AnyCandidates == <<"x0", "r0", "t0">>

ScratchCandidates == <<"r0", "t0">>

HotRoot(o) == o.op = "export" \/ o.l \in {"_start", "main"}

Hot(p, i) ==
  LET labels == {b \in 1..i : IsLabel(p[b])} IN labels = {} \/ HotRoot(p[Max(labels)])

InLoop(p, i) ==
  \E j \in i..Len(p) : p[j].op \in Jumps \union {"jmp"} /\ \E b \in LabelPos(p, p[j].l) : b <= i

(* The registers touched between the last reset and i.                     *)
Touched(p, i) ==
  LET since == Max({0} \union {k \in 1..(i - 1) : Resets(p[k])})
  IN  UNION {Overwritten(p[k]) \union Uses(p[k]) : k \in (since + 1)..(i - 1)}

Untouched(p, i) == {k \in DOMAIN ScratchCandidates : ScratchCandidates[k] \notin Touched(p, i)}
Scratch(p, i) == ScratchCandidates[Min(Untouched(p, i))]

IsHidden(p, i) ==
  /\ p[i].op = "call"
  /\ ~Hot(p, i)
  /\ ~InLoop(p, i)
  /\ CallsOf(p, p[i].l) = {i}
  /\ Untouched(p, i) # {}

ObfuscateColdCalls(p) ==
  FlattenSeq([i \in 1..Len(p) |->
    IF IsHidden(p, i) THEN <<Movd(Scratch(p, i), p[i].l), Calld(Scratch(p, i))>>
    ELSE <<p[i]>>])

(* hideConstants: mov r, k becomes mov r, k - n; add r, n.                 *)
Bare(p) == {i \in 1..Len(p) : p[i].op = "mov" /\ Tracked(p[i].a) /\ IsImm(p[i].b)}

HideConstants(p, n) ==
  FlattenSeq([i \in 1..Len(p) |->
    IF i \in Bare(p) THEN <<Mov(p[i].a, Imm(Wrap(p[i].b.imm - n[i]))), Add(p[i].a, Imm(n[i]))>>
    ELSE <<p[i]>>])

-----------------------------------------------------------------------------
(* The order of the passes.                                                *)
AfterOptimizer == IF job.obf THEN "calls" ELSE "done"

Init ==
  /\ job \in Jobs
  /\ values = job.code
  /\ changed = FALSE
  /\ round = 1
  /\ pass = IF job.opt THEN "fold" ELSE AfterOptimizer

RunPass(this, next, result) ==
  /\ pass = this
  /\ pass' = next
  /\ values' = result
  /\ changed' = (changed \/ result # values)
  /\ UNCHANGED <<job, round>>

Fold == RunPass("fold", "simplify", ConstantFold(values))
Simplify == RunPass("simplify", "devirtualize", SimplifyRegisters(values))
Devirtualize == RunPass("devirtualize", "inline", DevirtualizeCalls(values))
Inline == RunPass("inline", "dead", InlineCalls(values))

DeadAlone ==
  /\ pass = "dead"
  /\ values' = EliminateDeadCode(values)
  /\ IF values' # values /\ round < MaxRounds
       THEN pass' = "fold" /\ round' = round + 1
       ELSE pass' = AfterOptimizer /\ round' = round
  /\ changed' = FALSE
  /\ UNCHANGED job

(* The last pass of a round; the next round follows unless this one        *)
(* changed nothing.                                                        *)
Dead ==
  /\ pass = "dead"
  /\ values' = EliminateDeadCode(values)
  /\ IF (changed \/ values' # values) /\ round < MaxRounds
       THEN pass' = "fold" /\ round' = round + 1
       ELSE pass' = AfterOptimizer /\ round' = round
  /\ changed' = FALSE
  /\ UNCHANGED job

ColdCalls == RunPass("calls", "hide", ObfuscateColdCalls(values))
Hide == \E n \in [Bare(values) -> Addends] : RunPass("hide", "done", HideConstants(values, n))

Next == Fold \/ Simplify \/ Devirtualize \/ Inline \/ Dead \/ ColdCalls \/ Hide

Spec == Init /\ [][Next]_vars

-----------------------------------------------------------------------------
(* An argument of a call, as init_vm's registers are meant: a caller-saved *)
(* register the called function reads before it writes it.  Written there  *)
(* are those the straight line in front of the call touches.               *)
LiveIn(p, b) ==
  {r \in CallerSaved :
    \E k \in b..Len(p) :
      /\ r \in Uses(p[k])
      /\ \A j \in b..(k - 1) : ~Resets(p[j]) /\ r \notin Def(p[j])}

ArgumentsLocal(p) ==
  \A i \in 1..Len(p) : p[i].op = "call" =>
    /\ \A b \in LabelPos(p, p[i].l) : LiveIn(p, b + 1) \subseteq Touched(p, i)
    /\ LiveIn(p, i + 1) = {}

-----------------------------------------------------------------------------
(* The ops are well formed after every pass: the constants the passes      *)
(* compute are words, and no op names a label there is none of.            *)
TypeOK ==
  /\ job \in [code : Seq(Op), opt : BOOLEAN, obf : BOOLEAN]
  /\ values \in Seq(Op)
  /\ changed \in BOOLEAN
  /\ round \in 1..MaxRounds
  /\ pass \in {"fold", "simplify", "devirtualize", "inline", "dead", "calls", "hide", "done"}

Optimizing == pass \in {"fold", "simplify", "devirtualize", "inline", "dead"}

Behaviour(p, r) == Run(p, r, Memory)

SameRun(p, q, Same(_, _)) ==
  p = q \/ \A r \in Inputs :
    LET x == Behaviour(p, r)  y == Behaviour(q, r) IN
    /\ (x.pc = 0) = (y.pc = 0)
    /\ x.pc = 0 => Same(x, y)

(* The optimizer's passes are invisible, one by one and one after the      *)
(* other: from every register file the unit leaves all registers, the      *)
(* memory and what inline commands saw on the way as the source does.      *)
MeaningKept ==
  ~job.obf \/ Optimizing =>
    SameRun(job.code, values,
            LAMBDA x, y : x.regs = y.regs /\ x.mem = y.mem /\ x.seen = y.seen)

(* "Semantics strictly kept" (Obfuscator.h): after the obfuscator too, the *)
(* unit leaves the result, the callee-saved registers and the memory as    *)
(* the source does, and inline commands saw the same of them.              *)
Kept(regs) == [r \in Registers \ CallerSaved |-> regs[r]]
ObfuscationKept ==
  job.obf =>
    SameRun(job.code, values,
            LAMBDA x, y : /\ Kept(x.regs) = Kept(y.regs)
                          /\ x.mem = y.mem
                          /\ [i \in DOMAIN x.seen |-> Kept(x.seen[i])]
                               = [i \in DOMAIN y.seen |-> Kept(y.seen[i])])

(* No pass leaves a reference to a label it took away: IR::compile looks   *)
(* every label up unchecked.                                               *)
Resolves ==
  \A i \in 1..Len(values) :
    ~IsLabel(values[i]) /\ values[i].l \notin {NoLabel, RetLabel} =>
      LabelPos(values, values[i].l) # {}

(* What the jumps are named for.                                           *)
Compare(op, m, n) ==
  CASE op = "je"  -> m = n
    [] op = "jne" -> m # n
    [] op = "jg"  -> m > n
    [] op = "jge" -> m >= n
    [] op = "jl"  -> m < n
    [] op = "jle" -> m <= n

(* Jumps are signed comparisons, as their names say, whichever of the      *)
(* operands is a constant, after each pass and up to the ends of the range *)
(* of scores, where a constant has no number next to it.                   *)
JumpsAsWritten ==
  \A i \in 1..Len(values) : values[i].op \in Jumps =>
    LET o == values[i]
        Operand(v) == IF IsImm(v) THEN {v.imm} ELSE Word
    IN \A x \in Operand(o.a), y \in Operand(o.b) :
         Holds(o, x, y) <=> Compare(o.op, Signed(x), Signed(y))

(* The optimizer stops because nothing is left to do, not because it ran   *)
(* out of rounds.                                                          *)
Settled ==
  job.opt /\ pass \in {"calls", "done"} /\ ~(pass = "done" /\ job.obf) =>
    /\ ConstantFold(values) = values
    /\ SimplifyRegisters(values) = values
    /\ DevirtualizeCalls(values) = values
    /\ InlineCalls(values) = values
    /\ EliminateDeadCode(values) = values
=============================================================================
