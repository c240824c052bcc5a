------------------------------ MODULE MCIRPasses ------------------------------
(* Units for the IR passes: three skeletons whose holes are filled from    *)
(* small pools in all ways.                                                *)
EXTENDS IRPasses, TLC

CONSTANT Forwarding            \* TRUE: units that forward arguments, too

MCLabelNames == <<"_start", "f", "g", "out", "main">>
MCMemory == [w \in Word |-> Wrap(3 * w + 1)]
MCInputs ==
  {[rax |-> 2, t0 |-> 1, rsp |-> 0, r0 |-> a, x0 |-> b] : a \in Word, b \in Word \ {2}}

Label(l) == [CallTo(l) EXCEPT !.op = "label"]
Ret == [Nop EXCEPT !.op = "ret"]
Text == [Nop EXCEPT !.op = "inline"]
Bin(op, v, w) == [Mov(v, w) EXCEPT !.op = op]
Jump(op, v, w, l) == [Bin(op, v, w) EXCEPT !.l = l]
Un(op, v) == [Nop EXCEPT !.op = op, !.a = v]
A == Reg("rax")
R == Reg("r0")
X == Reg("x0")

(* Straight-line code, with a branch in it at times.                       *)
Line == {Mov(R, Imm(1)), Mov(R, X), Mov(X, R), Mov(A, R), Mov(A, Imm(1)), Mov(Ptr("x0"), R),
         Mov(R, Ptr("rax")), Add(R, Imm(3)), Bin("add", X, R), Bin("sub", R, X),
         Bin("mul", R, Imm(0)), Bin("mul", X, R), Jump("je", X, R, "out"),
         Jump("jl", R, Imm(1), RetLabel), Un("push", R), Un("pop", X), Un("peek", R)}

Straight(s, t, u) ==
  <<Label("_start"), s, t, u, Ret, Label("out"), Text, Mov(R, Imm(0)), Ret>>

(* Calls, direct and by handle, of functions that may be inlined or not.   *)
Caller == {Nop, Movd("t0", "f"), Calld("t0"), CallTo("f"), CallTo("g"), Jump("je", X, R, "f"),
           Text, Mov(Reg("t0"), Imm(1))}
Called1 == {Bin("add", X, R), CallTo("g"), [Nop EXCEPT !.op = "static"], Text}
Before == {<<Ret>>, <<Nop>>, <<Ret, [Nop EXCEPT !.op = "static"]>>}

Calls(s, t, u, w, k, v) ==
  <<Label("_start"), s, t, u>> \o w \o
  <<[Label("f") EXCEPT !.op = k], v, Nop, Ret, Label("g"), Bin("mul", X, R), Ret>>

(* A cold function f, called from the hot one, that calls g.               *)
Cold(s, t, u, v, w) ==
  <<Label("_start"), Mov(R, Imm(1)), s, CallTo("f"), v, Ret,
    Label("f"), t, u, CallTo("g"), w, Ret,
    Label("g"), v, Ret>>

Job(p, opt, obf) == [code |-> p, opt |-> opt, obf |-> obf]

StraightJobs == {Job(Straight(s, t, u), TRUE, FALSE) : s \in Line, t \in Line, u \in Line}

CallJobs ==
  {Job(Calls(s, t, u, w, k, v), TRUE, FALSE) :
     s \in Caller, t \in Caller, u \in {Nop, Calld("t0"), CallTo("f"), CallTo("g")},
     w \in Before, k \in {"label", "export"}, v \in Called1}

ColdCode ==
  {Cold(s, t, u, v, w) :
     s \in {Nop, CallTo("g"), Mov(X, Imm(2))},
     t \in {Nop, Mov(R, X), Mov(R, Imm(2)), Jump("je", X, R, "out"), Un("push", R)},
     u \in {Nop, Mov(R, Imm(1)), Add(X, Imm(1)), Label("out"), Mov(Reg("t0"), Imm(1))},
     v \in {Nop, Bin("add", X, R), Mov(A, R), Mov(A, Reg("t0"))},
     w \in {Nop, Mov(A, Imm(1)), Jump("jl", X, Imm(1), "f")}}

(* Every jump over every kind of operands, but memory on both sides.       *)
Operand == {R, X, Ptr("x0")} \union {Imm(n) : n \in Word}

JumpJobs ==
  {Job(Straight(s, Jump(op, v, w, "out"), Mov(R, Imm(0))), TRUE, FALSE) :
     s \in {Nop, Mov(R, X)}, op \in Jumps,
     v \in Operand, w \in Operand \ {Ptr("x0")}}

(* Nothing is passed in t0, a register for temporaries only.               *)
Temporaries(p) == \A i \in 1..Len(p) : "t0" \notin Uses(p[i])

ColdJobs ==
  {Job(p, opt, TRUE) :
     p \in {q \in ColdCode : Linked(q) /\ IF Forwarding THEN Temporaries(q) ELSE ArgumentsLocal(q)},
     opt \in BOOLEAN}

MCJobs == IF Forwarding THEN ColdJobs ELSE StraightJobs \union JumpJobs \union CallJobs \union ColdJobs
=============================================================================
