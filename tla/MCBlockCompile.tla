--------------------------- MODULE MCBlockCompile ---------------------------
(***************************************************************************)
(* Instances of BlockCompile for TLC: all units of three blocks, and an    *)
(* extern label, whose bodies come from a small set.                       *)
(***************************************************************************)
EXTENDS BlockCompile

CONSTANTS A, B, C, E   \* the labels

L(l, k) == [op |-> "label", l |-> l, kind |-> k]
O(name) == [op |-> name, l |-> A, kind |-> "plain"]
J(name, l) == [op |-> name, l |-> l, kind |-> "plain"]

Code == {A, B, C}

Bodies ==
  { <<>>, <<O("add")>>, <<O("ret")>>, <<O("add"), O("ret")>>, <<O("retc"), O("add")>>,
    <<O("ret"), O("add")>>, <<O("ret"), O("static")>> }
  \cup {<<J("jmp", l)>> : l \in Code}
  \cup {<<O("add"), J("jcc", l)>> : l \in Code}
  \cup {<<J("jcc", l), O("ret")>> : l \in Code}
  \cup {<<J("call", l), O("add"), O("ret")>> : l \in Code}

(* Callers of a function of somebody else's.                               *)
ExternBodies == {<<J("call", E), O("ret")>>, <<J("call", E), J("jcc", B)>>}

Ext == <<L(E, "extern")>>
Plain(l, body) == <<L(l, "plain")>> \o body

Entry == {<<L(A, "start")>>, <<L(A, "export"), O("nop")>>}

Units ==
  {h \o a \o Plain(B, b) \o Plain(C, c) : h \in Entry, a, b, c \in Bodies}
  \cup {Ext \o <<L(A, "start")>> \o a \o Plain(B, b) \o <<L(C, "export"), O("nop")>> \o c :
          a \in ExternBodies, b, c \in Bodies}
  \cup {<<L(A, "start")>> \o a \o Plain(B, b) \o Ext \o Plain(C, c) :
          a \in ExternBodies, b, c \in Bodies}

(* Accepted although the entry at the end has no code.                     *)
Trailing ==
  {<<L(A, "start")>> \o a \o Plain(B, b) \o <<L(C, "export"), O("nop")>> :
     a \in {<<O("add"), O("ret")>>, <<J("jcc", B), O("ret")>>}, b \in Bodies}

TrailingPrograms == {p \in Trailing : Accepts(p)}

(* A static inside a block that nothing refers to.                         *)
StaticPrograms ==
  {<<L(A, "start")>> \o a \o Plain(B, b \o <<O("static"), J("call", l), O("ret")>>)
     \o Plain(C, c) :
       a \in {<<O("ret")>>, <<J("call", B), O("ret")>>}, b \in Bodies, l \in Code, c \in Bodies}

(* All kinds of units, those rejected included.  What is accepted has a    *)
(* defined meaning, or is a unit whose entry without code is only entered  *)
(* from outside.                                                           *)
MCPrograms ==
  {p \in Units \cup StaticPrograms : Accepts(p) => Defined(p)}
  \cup {p \in TrailingPrograms : Terminated(p, PosOf(p, B)) /\ \A i \in DOMAIN p : IsCallLike(p[i]) => p[i].l # C}
=============================================================================
