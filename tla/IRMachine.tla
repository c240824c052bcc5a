----------------------------- MODULE IRMachine -----------------------------
(***************************************************************************)
(* What a mcasm unit means to the one who wrote it, and what the generated *)
(* functions have to do: labels are positions of one instruction stream,   *)
(* control runs on through a label, jmp and jcc move it, call remembers    *)
(* where to come back to, ret comes back.  Nothing here knows of blocks,   *)
(* functions or return values.                                             *)
(***************************************************************************)
EXTENDS Mcasm

CONSTANTS
  Width       \* scoreboards count modulo Width (2^32 in the game)

VARIABLES
  prog,       \* the unit
  x,          \* the scoreboard
  pc,         \* position of the next op, 0 when no function of the unit runs
  stk         \* positions to come back to

irvars == <<prog, x, pc, stk>>

Init ==
  /\ prog \in Seq(Op)
  /\ x = 0
  /\ pc = 0
  /\ stk = <<>>

At(name) == pc \in DOMAIN prog /\ prog[pc].op = name

Goto(l) == pc' = PosOf(prog, l) + 1

(* The game, or another unit, enters a label that is visible outside.      *)
Invoke ==
  /\ pc = 0
  /\ \E b \in Roots(prog) : pc' = b + 1
  /\ UNCHANGED <<prog, x, stk>>

Skip ==
  /\ At("label") \/ At("static") \/ At("nop")
  /\ pc' = pc + 1
  /\ UNCHANGED <<prog, x, stk>>

Add ==
  /\ At("add")
  /\ x' = (x + 1) % Width
  /\ pc' = pc + 1
  /\ UNCHANGED <<prog, stk>>

Jump ==
  /\ At("jmp") \/ (At("jcc") /\ x = 0)
  /\ Goto(prog[pc].l)
  /\ UNCHANGED <<prog, x, stk>>

FallThrough ==
  /\ At("jcc") \/ At("retc")
  /\ x # 0
  /\ pc' = pc + 1
  /\ UNCHANGED <<prog, x, stk>>

Call ==
  /\ At("call")
  /\ ~IsExtern(prog, PosOf(prog, prog[pc].l))
  /\ Goto(prog[pc].l)
  /\ stk' = Append(stk, pc + 1)
  /\ UNCHANGED <<prog, x>>

(* A function of somebody else's runs to its end.                          *)
CallExtern ==
  /\ At("call")
  /\ IsExtern(prog, PosOf(prog, prog[pc].l))
  /\ x' \in 0..(Width - 1)
  /\ pc' = pc + 1
  /\ UNCHANGED <<prog, stk>>

Return ==
  /\ At("ret") \/ (At("retc") /\ x = 0)
  /\ IF stk = <<>>
     THEN pc' = 0 /\ UNCHANGED stk
     ELSE /\ pc' = stk[Len(stk)]
          /\ stk' = SubSeq(stk, 1, Len(stk) - 1)
  /\ UNCHANGED <<prog, x>>

(* The game cuts a command chain that has grown too long.                  *)
Cut ==
  /\ pc # 0
  /\ pc' = 0
  /\ stk' = <<>>
  /\ UNCHANGED <<prog, x>>

Next ==
  \/ Invoke
  \/ Skip
  \/ Add
  \/ Jump
  \/ FallThrough
  \/ Call
  \/ CallExtern
  \/ Return
  \/ Cut

Spec == Init /\ [][Next]_irvars
=============================================================================
