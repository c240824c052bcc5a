---------------------------- MODULE BlockCompile ----------------------------
(***************************************************************************)
(* One compilation unit on its way from IR::values to running functions:   *)
(* Verifier::handleSingle checks it and prunes the blocks nothing refers   *)
(* to, IR::compile turns every block into one mcfunction whose jumps are   *)
(* the command lists of JmpTable, and the game runs those functions.       *)
(*                                                                         *)
(* A mcfunction has no goto.  A jump to a label is therefore a list of     *)
(* lines, one per block from that label to the first one that ends:        *)
(*     execute if function X run return 1      a block that falls through  *)
(*     return run function Y                   the last one                *)
(* This is only a jump if X, once entered, never completes with 0.         *)
(***************************************************************************)
EXTENDS Verifier, FiniteSets

CONSTANTS
  Programs,   \* the units considered
  Width,      \* scoreboards count modulo Width (2^32 in the game)
  MaxFrames   \* bound on nested functions; the game has a limit too

ASSUME WidthAssumption == Width \in Nat \ {0}

(* Nothing but statics stands before the first label of a unit.            *)
ASSUME ProgramsAssumption ==
  /\ Programs \subseteq Seq(Op)
  /\ \A p \in Programs : \A i \in 1..Len(p) :
       (\A j \in 1..i : ~IsLabel(p[j])) => p[i].op = "static"

VARIABLES
  prog,       \* IR::values after IR::parse
  out,        \* IR::values after the Verifier, what IR::compile reads
  phase,      \* "parsed", "rejected", "crashed" or "built"
  x,          \* the scoreboard
  stack,      \* functions being run, the innermost last
  ret         \* the value the innermost one is completing with, or "none"

vars == <<prog, out, phase, x, stack, ret>>

-----------------------------------------------------------------------------
(***************************************************************************)
(* IR::compile and JmpTable::make                                          *)
(***************************************************************************)
LastLabel(p, b) == \A a \in LabelPos(p) : a <= b

(* Variant: the builder is not flushed after the last op.                  *)
EmittedWithoutLast(p) == {b \in LabelPos(p) : ~IsExtern(p, b) /\ ~LastLabel(p, b)}

(* The files written for the unit: no block of an extern label, unless it  *)
(* is the last one.                                                        *)
Emitted(p) == {b \in LabelPos(p) : ~IsExtern(p, b) \/ LastLabel(p, b)}

(* JMP_LAST_TEMPLATE is used for the line of this label.                   *)
EndsSpan(p, b) == Terminated(p, b) \/ LastLabel(p, b)

NextLabel(p, b) == CHOOSE n \in LabelPos(p) : IsNextLabel(p, b, n)

-----------------------------------------------------------------------------
(***************************************************************************)
(* The functions at work.  A frame is a function being run:                *)
(*   fn   the label of its block                                           *)
(*   i    the op whose lines it is in                                      *)
(*   c    in a jump, the label of the next line; 0 before the first one    *)
(*   via  what the caller does with its value                              *)
(***************************************************************************)
Via == {"top", "call", "test", "cond"}

Enter(b, how) == [fn |-> b, i |-> b + 1, c |-> 0, via |-> how]

Top == stack[Len(stack)]
Below == SubSeq(stack, 1, Len(stack) - 1)

Running == phase = "built" /\ ret = "none" /\ stack # <<>>

Here(name) == Running /\ Top.i <= Len(out) /\ out[Top.i].op = name

Advance == stack' = Append(Below, [Top EXCEPT !.i = @ + 1])

Target == PosOf(out, out[Top.i].l)

(* `return run function`: the caller's place goes to the callee.           *)
TailCall(b) == stack' = Append(Below, Enter(b, Top.via))

(* The caller waits in frame f for the value of b.                         *)
Push(f, b, how) ==
  /\ Len(stack) < MaxFrames
  /\ stack' = Below \o <<f, Enter(b, how)>>

Init ==
  /\ prog \in Programs
  /\ out = <<>>
  /\ phase = "parsed"
  /\ x = 0
  /\ stack = <<>>
  /\ ret = "none"

(* Call, Jmp, Movd and the conditional jumps look their label up in the    *)
(* map of the labels that are left; one that is missing aborts the compile.*)
Verify ==
  /\ phase = "parsed"
  /\ \/ /\ ~Accepts(prog)
        /\ phase' = "rejected"
        /\ UNCHANGED out
     \/ /\ Accepts(prog)
        /\ out' = Prune(prog)
        /\ phase' = IF LabelsDeclared(out') THEN "built" ELSE "crashed"
  /\ UNCHANGED <<prog, x, stack, ret>>

(* The game, or another unit, calls a function visible outside.            *)
Invoke ==
  /\ phase = "built"
  /\ stack = <<>>
  /\ \E b \in Roots(out) : stack' = <<Enter(b, "top")>>
  /\ UNCHANGED <<prog, out, phase, x, ret>>

NoCommand ==
  /\ Here("nop") \/ Here("static")
  /\ Advance
  /\ UNCHANGED <<prog, out, phase, x, ret>>

(* Variant: a sum that does not wrap.                                      *)
AddWithoutWrap ==
  /\ Here("add")
  /\ x' = x + 1
  /\ Advance
  /\ UNCHANGED <<prog, out, phase, ret>>

Add ==
  /\ Here("add")
  /\ x' = (x + 1) % Width
  /\ Advance
  /\ UNCHANGED <<prog, out, phase, ret>>

(* Call::compile: the value of the function is not looked at.              *)
Call ==
  /\ Here("call")
  /\ ~IsExtern(out, Target)
  /\ Push([Top EXCEPT !.i = @ + 1], Target, "call")
  /\ UNCHANGED <<prog, out, phase, x, ret>>

CallExtern ==
  /\ Here("call")
  /\ IsExtern(out, Target)
  /\ x' \in 0..(Width - 1)
  /\ Advance
  /\ UNCHANGED <<prog, out, phase, ret>>

(* The next line of a jump to the label at b, for a jmp op and for the     *)
(* jump IR::compile puts between two blocks.                               *)
JumpLine(b) ==
  LET c == IF Top.c = 0 THEN b ELSE Top.c
  IN IF EndsSpan(out, c)
     THEN TailCall(c)
     ELSE Push([Top EXCEPT !.c = NextLabel(out, c)], c, "test")

Jump ==
  /\ Here("jmp")
  /\ JumpLine(Target)
  /\ UNCHANGED <<prog, out, phase, x, ret>>

NextBlock ==
  /\ Here("label")
  /\ ~Terminated(out, Top.fn)
  /\ JumpLine(Top.i)
  /\ UNCHANGED <<prog, out, phase, x, ret>>

(* Variant: the lines run the target without `return run`.                 *)
CondJumpWithoutReturn ==
  /\ Here("jcc")
  /\ IF x # 0 THEN Advance ELSE Push([Top EXCEPT !.i = @ + 1], Target, "call")
  /\ UNCHANGED <<prog, out, phase, x, ret>>

(* Every line of a conditional jump is                                     *)
(*     execute if <cond> run return run <line>                             *)
(* so the first one that passes is the last one that is run.               *)
CondJump ==
  /\ Here("jcc")
  /\ IF x # 0
     THEN Advance
     ELSE IF EndsSpan(out, Target) THEN TailCall(Target) ELSE Push(Top, Target, "cond")
  /\ UNCHANGED <<prog, out, phase, x, ret>>

Ret ==
  /\ Here("ret")
  /\ ret' = "one"
  /\ UNCHANGED <<prog, out, phase, x, stack>>

(* A conditional return is a conditional jump to __internal_ret, whose     *)
(* only line is `return 1`.                                                *)
CondRet ==
  /\ Here("retc")
  /\ IF x # 0
     THEN Advance /\ UNCHANGED ret
     ELSE ret' = "one" /\ UNCHANGED stack
  /\ UNCHANGED <<prog, out, phase, x>>

(* No line is left: the function completes with 0.                         *)
FallOff ==
  /\ Running
  /\ Top.i > Len(out) \/ (Here("label") /\ Terminated(out, Top.fn))
  /\ ret' = "zero"
  /\ UNCHANGED <<prog, out, phase, x, stack>>

(* The caller gets the value.                                              *)
Unwind ==
  /\ ret # "none"
  /\ stack' = Below
  /\ ret' = CASE Top.via \in {"top", "call"} -> "none"
              [] Top.via = "test" -> IF ret = "one" THEN "one" ELSE "none"
              [] Top.via = "cond" -> ret
  /\ UNCHANGED <<prog, out, phase, x>>

(* The game cuts a command chain that has grown too long.                  *)
Cut ==
  /\ stack # <<>>
  /\ stack' = <<>>
  /\ ret' = "none"
  /\ UNCHANGED <<prog, out, phase, x>>

Next ==
  \/ Verify
  \/ Invoke
  \/ NoCommand
  \/ Add
  \/ Call
  \/ CallExtern
  \/ Jump
  \/ NextBlock
  \/ CondJump
  \/ Ret
  \/ CondRet
  \/ FallOff
  \/ Unwind
  \/ Cut

Spec == Init /\ [][Next]_vars

-----------------------------------------------------------------------------
(* Units whose meaning is defined: the Verifier calls a jump to an extern  *)
(* label undefined ("jump to an extern label is undefined") but only warns *)
(* of it, and running into one is no different; it lets a unit end in an   *)
(* entry without any code (LastLabelKnown).                                *)
Defined(p) ==
  /\ EndsUnreachable(p)
  /\ \A i \in 1..Len(p), b \in LabelPos(p) :
       p[i].op \in {"jmp", "jcc"} /\ p[b].l = p[i].l => ~IsExtern(p, b)
  /\ \A a, b \in LabelPos(p) :
       IsNextLabel(p, a, b) /\ IsExtern(p, b) => Terminated(p, a) \/ IsExtern(p, a)

Frame == [fn : Nat, i : Nat, c : Nat, via : Via]

(* Type correctness of every variable.                                     *)
TypeOK ==
  /\ prog \in Seq(Op)
  /\ out \in Seq(Op)
  /\ phase \in {"parsed", "rejected", "crashed", "built"}
  /\ x \in 0..(Width - 1)
  /\ stack \in Seq(Frame)
  /\ ret \in {"none", "zero", "one"}

(* No function of a defined unit ever completes with 0: a caller that      *)
(* enters a block by `execute if function X run return 1` (JMP_TEMPLATE)   *)
(* or by `return run execute if function X run return 1` never takes it    *)
(* for a failed test, and never goes on to run the next block a second     *)
(* time.                                                                   *)
NeverZero == ret = "zero" => ~Defined(prog)

(* The Verifier's never_return, "some control flow entry points lack a     *)
(* valid exit path": no entry of a unit it accepts runs off its end.       *)
EntriesReturn == ret # "zero"

(* What a defined unit enters was written: every running function is one   *)
(* IR::compile emitted from the unit's own code, not an extern one, and    *)
(* survived the Verifier's pruning.                                        *)
EnteredIsEmitted ==
  \/ \A k \in 1..Len(stack) :
       /\ stack[k].fn \in Emitted(out)
       /\ ~IsExtern(out, stack[k].fn)
  \/ ~Defined(prog)

(* Call::compile and Jmp::compile assert that the label they name is in    *)
(* the map: pruning leaves no op behind that names a label it removed.     *)
NoDanglingLabel == phase # "crashed"

-----------------------------------------------------------------------------
(***************************************************************************)
(* The functions do what the unit says.  While a value is being handed up, *)
(* every frame down to the nearest `function` call has been jumped out of. *)
(***************************************************************************)
CallFrames(s) == {k \in 1..Len(s) : s[k].via = "call"}

Nth(S, n) == CHOOSE k \in S : Cardinality({j \in S : j <= k}) = n

(* Where the frames in front of calls will go on, the outermost first.     *)
Saved(s) ==
  [n \in 1..Cardinality(CallFrames(s)) |-> s[Nth(CallFrames(s), n) - 1].i]

Leaving == ret = "one"

IRpc ==
  CASE stack = <<>> -> 0
    [] stack # <<>> /\ ~Leaving -> Top.i
    [] stack # <<>> /\ Leaving -> IF Saved(stack) = <<>> THEN 0 ELSE Saved(stack)[Len(Saved(stack))]

IRstk ==
  IF Leaving /\ Saved(stack) # <<>>
  THEN SubSeq(Saved(stack), 1, Len(Saved(stack)) - 1)
  ELSE Saved(stack)

IR == INSTANCE IRMachine WITH pc <- IRpc, stk <- IRstk

(* Every run of the compiled functions is a run of the unit as written:    *)
(* blocks, pruning and jump lists change no scoreboard, lose no return     *)
(* address and execute no op twice.                                        *)
ImplementsIR == IR!Spec
=============================================================================
