------------------------------ MODULE RegMachine ------------------------------
(***************************************************************************)
(* The ops the IR passes tell apart, what opt::analyze says of them, and a *)
(* machine that runs them.  BlockCompile is about how blocks become        *)
(* functions and abstracts data to one register; here the data counts:     *)
(* registers, memory and the stack hold words of the scoreboard, which     *)
(* wrap around.                                                            *)
(***************************************************************************)
EXTENDS Integers, Sequences, SequencesExt, FiniteSets

CONSTANTS
  Modulus,     \* words are 0..Modulus - 1; the scoreboard has 2^32 of them
  LabelNames,  \* a sequence of all the labels of a unit
  Fuel         \* a run is followed for this many ops

ASSUME ModulusAssumption == Modulus \in Nat \ {0, 1}
ASSUME FuelAssumption == Fuel \in Nat

Word == 0..(Modulus - 1)
Wrap(n) == n % Modulus
Signed(w) == IF 2 * w < Modulus THEN w ELSE w - Modulus

(* r0 and t0 stand for the caller-saved registers r0-7 and t0-7, x0 for    *)
(* the callee-saved x0-15.  rsp is not pushable, so no pass tracks it.     *)
Registers == {"rax", "r0", "t0", "x0", "rsp"}
Trackable == Registers \ {"rsp"}
CallerSaved == {"r0", "t0"}

-----------------------------------------------------------------------------
(* Operands: a register, a constant, or the cell a register points to.     *)
Reg(r) == [reg |-> r]
Imm(n) == [imm |-> n]
Ptr(r) == [ptr |-> r]
NoValue == [none |-> 0]
Values == {Reg(r) : r \in Registers} \union {Imm(n) : n \in Word}
            \union {Ptr(r) : r \in Registers} \union {NoValue}

IsReg(v) == "reg" \in DOMAIN v
IsImm(v) == "imm" \in DOMAIN v
IsPtr(v) == "ptr" \in DOMAIN v
Tracked(v) == IsReg(v) /\ v.reg \in Trackable

Arithmetic == {"add", "sub", "mul"}
Jumps == {"je", "jne", "jg", "jge", "jl", "jle"}

OpNames == {"label", "export", "ret", "jmp", "nop", "static", "inline", "call", "calld",
            "movd", "push", "pop", "peek", "mov"} \union Arithmetic \union Jumps

NoLabel == "none"
RetLabel == "ret"              \* the target of a conditional return
Targets == {LabelNames[i] : i \in 1..Len(LabelNames)} \union {NoLabel, RetLabel}

Op == [op : OpNames, a : Values, b : Values, l : Targets]

IsLabel(o) == o.op \in {"label", "export"}
Nop == [op |-> "nop", a |-> NoValue, b |-> NoValue, l |-> NoLabel]
Mov(v, w) == [Nop EXCEPT !.op = "mov", !.a = v, !.b = w]
Add(v, w) == [Mov(v, w) EXCEPT !.op = "add"]
CallTo(l) == [Nop EXCEPT !.op = "call", !.l = l]
Movd(r, l) == [CallTo(l) EXCEPT !.op = "movd", !.a = Reg(r)]
Calld(r) == [Nop EXCEPT !.op = "calld", !.a = Reg(r)]

LabelPos(p, l) == {i \in 1..Len(p) : IsLabel(p[i]) /\ p[i].l = l}
IsTerminate(o) == o.op \in {"ret", "jmp"}

-----------------------------------------------------------------------------
(* opt::analyze.  def has no member when the op defines no register a pass *)
(* tracks, else one.                                                       *)
Reads(v) == (IF IsReg(v) THEN {v.reg} ELSE IF IsPtr(v) THEN {v.ptr} ELSE {}) \intersect Trackable

Boundary(o) == IsLabel(o) \/ IsTerminate(o)
Barrier(o) == o.op \in {"inline", "call", "calld"}
Branch(o) == o.op \in Jumps

SideEffect(o) ==
  \/ o.op \in {"push", "pop", "movd", "inline", "call", "calld"}
  \/ o.op \in Arithmetic \union {"mov"} /\ IsPtr(o.a)

ClobbersScratch(o) ==
  \/ o.op \in {"push", "pop", "peek", "movd"}
  \/ o.op \in Arithmetic \union Jumps \union {"mov"} /\ (IsPtr(o.a) \/ IsPtr(o.b))

Def(o) ==
  IF o.op \in Arithmetic \union {"mov", "movd", "pop", "peek"} /\ Tracked(o.a)
    THEN {o.a.reg} ELSE {}

DefReadsOld(o) == o.op \in Arithmetic

Uses(o) ==
  CASE o.op \in Arithmetic \union Jumps -> Reads(o.a) \union Reads(o.b)
    [] o.op = "mov"                     -> Reads(o.b) \union (IF IsPtr(o.a) THEN Reads(o.a) ELSE {})
    [] o.op = "movd"                    -> IF IsPtr(o.a) THEN Reads(o.a) ELSE {}
    [] o.op \in {"push", "calld"}       -> Reads(o.a)
    [] OTHER                            -> {}

-----------------------------------------------------------------------------
(* What the commands of an op do.  A function handle, the number movd puts *)
(* in a register, is a number no computed word has.                        *)
Handle(l) == Modulus + (CHOOSE i \in 1..Len(LabelNames) : LabelNames[i] = l)

CalculateUnwrapped(op, x, y) ==
  CASE op = "mov" -> y
    [] op = "add" -> x + y
    [] op = "sub" -> x - y
    [] op = "mul" -> x * y

Calculate(op, x, y) ==
  CASE op = "mov" -> y
    [] op = "add" -> Wrap(x + y)
    [] op = "sub" -> Wrap(x - y)
    [] op = "mul" -> Wrap(x * y)

(* The greatest and the least number of a score.                           *)
Most == (Modulus - 1) \div 2
Least == Most + 1 - Modulus

(* Variant: the bound wraps around.                                        *)
AboveWrapped(n) == Signed(Wrap(n + 1))..Most

(* The ranges a score is matched with.  A strict bound is the next number; *)
(* where there is none, the jump has no command at all.                    *)
Above(n) == IF n = Most THEN {} ELSE (n + 1)..Most

Below(n) == IF n = Least THEN {} ELSE Least..(n - 1)
AtLeast(n) == n..Most
AtMost(n) == Least..n

(* The conditions of the six jumps, by the side that has a constant.  Two  *)
(* constants are compared by the compiler, and two registers by the game.  *)
Je(side, m, n) == m = n
Jne(side, m, n) == m # n

Jg(side, m, n) ==
  CASE side = "right" -> m \in Above(n)
    [] side = "left"  -> n \in Below(m)
    [] OTHER          -> m > n

Jge(side, m, n) ==
  CASE side = "right" -> m \in AtLeast(n)
    [] side = "left"  -> n \in AtMost(m)
    [] OTHER          -> m >= n

Jl(side, m, n) ==
  CASE side = "right" -> m \in Below(n)
    [] side = "left"  -> n \in Above(m)
    [] OTHER          -> m < n

Jle(side, m, n) ==
  CASE side = "right" -> m \in AtMost(n)
    [] side = "left"  -> n \in AtLeast(m)
    [] OTHER          -> m <= n

Constant(o) ==
  IF IsImm(o.a) = IsImm(o.b) THEN "none" ELSE IF IsImm(o.a) THEN "left" ELSE "right"

(* Whether the jump o is taken when its operands are the words x and y.    *)
(* Memory is loaded into a register first.                                 *)
Holds(o, x, y) ==
  LET m == Signed(x)  n == Signed(y)  side == Constant(o) IN
  CASE o.op = "je"  -> Je(side, m, n)
    [] o.op = "jne" -> Jne(side, m, n)
    [] o.op = "jg"  -> Jg(side, m, n)
    [] o.op = "jge" -> Jge(side, m, n)
    [] o.op = "jl"  -> Jl(side, m, n)
    [] o.op = "jle" -> Jle(side, m, n)

Value(s, v) ==
  IF IsImm(v) THEN v.imm ELSE IF IsReg(v) THEN s.regs[v.reg] ELSE s.mem[Wrap(s.regs[v.ptr])]

Put(s, v, n) ==
  IF IsReg(v) THEN [s EXCEPT !.regs[v.reg] = n] ELSE [s EXCEPT !.mem[Wrap(s.regs[v.ptr])] = n]

Return(s) ==
  IF s.calls = <<>> THEN [s EXCEPT !.pc = 0]
  ELSE [s EXCEPT !.pc = Last(s.calls), !.calls = Front(s.calls)]

Goto(p, s, l) ==
  IF l = RetLabel THEN Return(s)
  ELSE [s EXCEPT !.pc = CHOOSE i \in 1..Len(p) : i \in LabelPos(p, l)]

(* A call comes back behind it, or runs off the end if nothing is there.   *)
Enter(p, s, l) == Goto(p, [s EXCEPT !.calls = Append(@, s.pc + 1)], l)

Called(s, v) == {l \in Targets \ {NoLabel, RetLabel} : Handle(l) = Value(s, v)}

Top(s) == Wrap(s.regs["rsp"])

Pushed(s, v) ==
  LET t == Wrap(s.regs["rsp"] - 1)
  IN  [s EXCEPT !.mem[t] = s.regs[v.reg], !.regs["rsp"] = t]

Popped(s, v) == [Put(s, v, s.mem[Top(s)]) EXCEPT !.regs["rsp"] = Wrap(@ + 1)]

(* One op.  inline stands for commands that may look at every register:    *)
(* what they see is recorded.  A calld of a number that is no handle calls *)
(* nothing.                                                                *)
Step(p, s) ==
  LET o == p[s.pc]  next == [s EXCEPT !.pc = @ + 1] IN
  CASE o.op = "ret"    -> Return(s)
    [] o.op = "jmp"    -> Goto(p, s, o.l)
    [] o.op = "call"   -> Enter(p, s, o.l)
    [] o.op = "calld"  -> IF Called(s, o.a) = {} THEN next
                          ELSE Enter(p, s, CHOOSE l \in Called(s, o.a) : TRUE)
    [] o.op \in Jumps  -> IF Holds(o, Value(s, o.a), Value(s, o.b)) THEN Goto(p, s, o.l) ELSE next
    [] o.op = "movd"   -> Put(next, o.a, Handle(o.l))
    [] o.op = "push"   -> Pushed(next, o.a)
    [] o.op = "pop"    -> Popped(next, o.a)
    [] o.op = "peek"   -> Put(next, o.a, s.mem[Top(s)])
    [] o.op = "inline" -> [next EXCEPT !.seen = Append(@, s.regs)]
    [] o.op \in Arithmetic \union {"mov"}
                       -> Put(next, o.a, Calculate(o.op, Value(s, o.a), Value(s, o.b)))
    [] OTHER           -> next

(* The run of p from its first label.  pc = 0 once it is over; running off *)
(* the end of the unit returns.                                            *)
Started(p, regs, mem) ==
  [pc |-> CHOOSE i \in 1..Len(p) : IsLabel(p[i]) /\ \A j \in 1..(i - 1) : ~IsLabel(p[j]),
   regs |-> regs, mem |-> mem, calls |-> <<>>, seen |-> <<>>]

Advance(p, s) ==
  IF s.pc = 0 THEN s ELSE IF s.pc > Len(p) THEN Return(s) ELSE Step(p, s)

Run(p, regs, mem) ==
  LET after[n \in 0..Fuel] ==
        IF n = 0 THEN Started(p, regs, mem) ELSE Advance(p, after[n - 1])
  IN  after[Fuel]
=============================================================================
