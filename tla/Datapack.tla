------------------------------ MODULE Datapack ------------------------------
(***************************************************************************)
(* A data pack as the game runs it: functions by name, each a sequence of  *)
(* lines, and what running one of them does.  Lines are told apart by how  *)
(* they mention a function and whether they may return:                    *)
(*   do      a command with an effect, and no return                       *)
(*   call    function f                                                    *)
(*   tail    return run function f                                         *)
(*   ret     return 1                                                      *)
(*   retret  return run return 1                                           *)
(*   via     f's name is stored, and called from the store (movd; calld)   *)
(*   sched   schedule function f                                           *)
(*   note    a comment                                                     *)
(* on holds the clauses of an execute in front of it, if there are any:    *)
(*   if, unless   a condition                                              *)
(*   func         if function f                                            *)
(*   nest         run execute                                              *)
(*   retnest      run return run execute: the function ends here, with     *)
(*                nothing if a later clause fails                          *)
(***************************************************************************)
EXTENDS Naturals, Sequences, FiniteSets, TLC

LOCAL INSTANCE SequencesExt

CONSTANTS
  Names,      \* function names, "<namespace>:<path>"
  Effects,    \* what a "do" line does
  Conditions, \* what an execute may ask for
  Depth       \* bound on nested functions when a run is looked at

Clause ==
  [kind : {"if", "unless", "nest", "retnest"}, f : Conditions] \cup [kind : {"func"}, f : Names]

Mentioning == {"call", "tail", "via", "sched"}

(* isReturnLine: the line may end the function.                            *)
Returning == {"tail", "ret", "retret"}

Line ==
  [on : Seq(Clause), cmd : Mentioning, f : Names]
  \cup [on : Seq(Clause), cmd : {"do", "ret", "retret", "note"}, f : Effects]

(* Clause j of a line comes behind a return.                               *)
Ended(l, j) == \E i \in 1..(j - 1) : l.on[i].kind = "retnest"

(* Files of functions, as a partial function from names.                   *)
IsPack(g) == DOMAIN g \subseteq Names /\ \A f \in DOMAIN g : g[f] \in Seq(Line)

File(f, b) == [h \in {f} |-> b]

NoFiles == [f \in {} |-> <<>>]

Lines(b) == {b[k] : k \in DOMAIN b}

(* Where a line has names of functions: 0 is its command.                  *)
Places(l) ==
  {j \in DOMAIN l.on : l.on[j].kind = "func"} \cup (IF l.cmd \in Mentioning THEN {0} ELSE {})

NameAt(l, j) == IF j = 0 THEN l.f ELSE l.on[j].f

(* The names of functions in a line.                                       *)
NamesIn(l) == {NameAt(l, j) : j \in Places(l)}

(* collectFunctionMentions: the names that occur in the text of b.         *)
Mentions(b) == UNION {NamesIn(b[k]) : k \in DOMAIN b}

(* countMentions, over all functions of g: where the name f occurs.         *)
Occurrences(g, f) ==
  UNION {UNION {{<<h, k, j>> : j \in {i \in Places(g[h][k]) : NameAt(g[h][k], i) = f}} :
                  k \in DOMAIN g[h]} : h \in DOMAIN g}

(* The files of g above those of h.                                       *)
Over(g, h) == [f \in DOMAIN g \cup DOMAIN h |-> IF f \in DOMAIN g THEN g[f] ELSE h[f]]

Without(g, S) == [f \in DOMAIN g \ S |-> g[f]]

-----------------------------------------------------------------------------
(***************************************************************************)
(* What a function does: its effects in order, and the value it completes  *)
(* with, or "cut" where the run is longer than Depth lets see.  c says     *)
(* which conditions hold, throughout the run.  Scheduled functions run     *)
(* after one another, as their delays order them.                          *)
(***************************************************************************)
Result(ev, val) == [ev |-> ev, val |-> val]

After(ev, r) == Result(ev \o r.ev, r.val)

(* A name without a file; the game does not load a function that has one.  *)
Missing == Result(<<"missing">>, "zero")

Behaviour(g, c, f) ==
  LET (* h from clause j of its line k on, n functions deep. *)
      From[n \in Nat, h \in DOMAIN g, k \in Nat, j \in Nat] ==
        IF n > Depth THEN Result(<<>>, "cut")
        ELSE IF k > Len(g[h]) THEN Result(<<>>, "zero")
        ELSE LET l == g[h][k]
                 next == From[n, h, k + 1, 1]
                 more == From[n, h, k, j + 1]
                 failed == IF Ended(l, j) THEN Result(<<>>, "zero") ELSE next
                 called == IF j <= Len(l.on) THEN l.on[j].f ELSE l.f
                 run == IF called \in DOMAIN g THEN From[n + 1, called, 1, 1] ELSE Missing
             IN IF j <= Len(l.on)
                THEN CASE l.on[j].kind \in {"nest", "retnest"} -> more
                       [] l.on[j].kind = "if" -> IF c[called] THEN more ELSE failed
                       [] l.on[j].kind = "unless" -> IF c[called] THEN failed ELSE more
                       [] l.on[j].kind = "func" ->
                            CASE run.val = "cut" -> run
                              [] run.val = "zero" -> After(run.ev, failed)
                              [] run.val = "one" -> After(run.ev, more)
                ELSE CASE l.cmd = "do" -> After(<<called>>, next)
                       [] l.cmd = "note" -> next
                       [] l.cmd \in {"ret", "retret"} -> Result(<<>>, "one")
                       [] l.cmd = "tail" -> run
                       [] l.cmd \in {"call", "via", "sched"} ->
                            IF run.val = "cut" THEN run ELSE After(run.ev, next)
  IN IF f \in DOMAIN g THEN From[1, f, 1, 1] ELSE Missing

(* Two runs are the same as far as both can be seen.                       *)
Agree(r, s) ==
  \/ r = s
  \/ r.val = "cut" /\ IsPrefix(r.ev, s.ev)
  \/ s.val = "cut" /\ IsPrefix(s.ev, r.ev)
=============================================================================
