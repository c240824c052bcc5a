----------------------------- MODULE MCPostLink -----------------------------
(***************************************************************************)
(* Programs of two units for PostLink.  The first has _start "s" and two   *)
(* internal functions "i" and "j"; the second exports "x" and has an api   *)
(* function, which may have the name of a library function ("m") or one    *)
(* that the generator hands out ("n1"); or its unit is full of executes.   *)
(***************************************************************************)
EXTENDS PostLink

MCGenerated == <<"n1", "n2", "n3", "n4", "n5", "n6", "n7", "n8", "n9", "n10">>
MCHelpers == <<"h1", "h2", "h3", "h4", "h5", "h6", "h7", "h8", "h9", "h10">>
MCNames ==
  {"s", "i", "j", "x", "p", "init", "l", "m", "k", "d"}
    \cup {MCGenerated[n] : n \in 1..10} \cup {MCHelpers[n] : n \in 1..10}
MCConditions == {"C", "D"}
MCEffects == {"a", "b", "vm", "lib", "data"}

cmd(c, f) == [on |-> <<>>, cmd |-> c, f |-> f]
do(e) == cmd("do", e)
call(f) == cmd("call", f)
tail(f) == cmd("tail", f)
via(f) == cmd("via", f)
ret == cmd("ret", "a")
If(c) == [kind |-> "if", f |-> c]
Unless(c) == [kind |-> "unless", f |-> c]
Func(f) == [kind |-> "func", f |-> f]
Nest == [kind |-> "nest", f |-> "C"]
RetNest == [kind |-> "retnest", f |-> "C"]
execute(on, l) == [l EXCEPT !.on = on]
test(f) == execute(<<Func(f)>>, ret)
callif(f) == execute(<<If("C")>>, tail(f))
jumpif(f) == execute(<<If("C"), RetNest, Func(f)>>, ret)
retif == execute(<<If("C")>>, cmd("retret", "a"))

MCStdlib ==
  [f \in {"init", "l", "m", "k"} |->
     CASE f = "init" -> <<do("vm")>>
       [] f = "l" -> <<do("lib"), call("m")>>
       [] f = "m" -> <<do("lib")>>
       [] f = "k" -> <<call("l")>>]

Bodies(F, L) == {<<k>> : k \in F} \cup {<<k, l>> : k \in F, l \in L}

StartBodies == Bodies({do("a"), call("i"), test("j"), callif("j")},
                      {call("j"), tail("i"), via("j")})
IBodies == Bodies({do("b"), retif, call("j")}, {ret, tail("j"), test("j"), callif("s")})
JBodies == {<<do("a")>>, <<retif, do("b")>>, <<call("i"), ret>>}
ApiBodies == {<<call("x")>>, <<do("b"), tail("x")>>, <<test("x"), call("l")>>}

Straight == <<do("a"), ret>>
Early == <<retif, call("m")>>
ExportBodies == {Straight, Early}

Unit(s, i, j) == File("s", s) @@ File("i", i) @@ File("j", j)
ApiUnit(p, b, x) == File("x", x) @@ File(p, b)

(* -O, -g, static data, what the --data directory calls, the api name.     *)
Full == <<2, FALSE, TRUE, "l", "p">>
Debug == <<2, TRUE, FALSE, "", "m">>
FullSettings == {Full, Debug}
OtherSettings == {<<1, FALSE, FALSE, "", "n1">>, <<0, FALSE, TRUE, "k", "m">>}

(* The other unit, which the first does not mention, and its settings.     *)
FullUnits ==
  {<<<<call("x")>>, Early, Full>>, <<<<do("b"), tail("x")>>, Straight, Debug>>,
   <<<<test("x"), call("l")>>, Early, Full>>}

Compilation(unit1, unit2, t) ==
  [units |-> <<unit1, unit2>>, internal |-> {"s", "i", "j"}, exported |-> {"x"},
   start |-> "s", level |-> t[1], debug |-> t[2], statics |-> t[3],
   extra |-> IF t[4] = "" THEN NoFiles ELSE File("d", <<call(t[4])>>)]

(* Jumps on a condition into blocks that fall through: none completes with *)
(* zero, as BlockCompile shows of compiled blocks.                         *)
Jumping ==
  {Compilation(Unit(s, i, j), ApiUnit(t[5], <<call("x")>>, <<do("a"), ret>>), t) :
     s \in {<<jumpif("i"), callif("j"), do("a"), tail("i")>>, <<call("i"), jumpif("i"), callif("j"), ret>>},
     i \in {<<do("b"), tail("j")>>, <<do("b"), jumpif("j"), ret>>},
     j \in {<<do("a"), ret>>, <<execute(<<If("D")>>, cmd("retret", "a")), do("b"), ret>>},
     t \in FullSettings \cup {<<1, FALSE, FALSE, "", "n1">>}}

(* Executes in a row, the internal function "i" behind some.  Left out are *)
(* those the pass changes the meaning of (see the README): a function that *)
(* two of them test first is then run once, and of two that return on the  *)
(* same clauses both come back.  Whether "i" returns is tried where the    *)
(* value matters.                                                          *)
Executes ==
  {execute(<<If("C")>>, l) : l \in {do("a"), call("i"), tail("i"), cmd("retret", "a")}}
    \cup {execute(<<If("C"), If("D")>>, l) : l \in {do("b"), tail("i")}}
    \cup {execute(<<If("C"), Nest, If("D"), Func("i")>>, ret), execute(<<Unless("C")>>, do("b")),
          cmd("note", "a")}

Groupable(b) ==
  LET code == Simplified(b)
  IN \A r \in Groups(code) :
       /\ ~AllReturnRun(code, r[1], r[2])
       /\ \A j \in 1..Common(code, r[1], r[2]) : code[r[1]].on[j].kind # "func"

Rows == {b \in {<<k, l, m, do("a")>> : k \in Executes, l \in Executes, m \in Executes} : Groupable(b)}

Valued(b) == \E k \in DOMAIN b : b[k].cmd = "tail" \/ Func("i") \in Range(b[k].on)

Grouping ==
  {[units |-> <<File("s", b) @@ File("i", i) @@ File("h1", <<retif, execute(<<If("C")>>, do("b"))>>)>>,
    internal |-> {"s", "i"}, exported |-> {}, start |-> "s", level |-> 2, debug |-> TRUE,
    statics |-> FALSE, extra |-> NoFiles] :
     <<b, i>> \in {q \in Rows \X {<<do("b")>>, <<do("b"), ret>>} : q[2] = <<do("b"), ret>> => Valued(q[1])}}

(* Nothing but api functions: a library, or with _start among them.        *)
ApiOnly ==
  {[units |-> <<File("s", b)>>, internal |-> {}, exported |-> {}, start |-> f,
    level |-> 2, debug |-> FALSE, statics |-> TRUE, extra |-> NoFiles] :
     b \in {<<do("a"), callif("s"), call("l")>>, <<ret>>}, f \in {"s", NoName}}

MCPrograms ==
  ApiOnly \cup Grouping \cup Jumping \cup
  {Compilation(Unit(s, i, j), ApiUnit(o[3][5], o[1], o[2]), o[3]) :
     s \in StartBodies, i \in IBodies, j \in JBodies, o \in FullUnits}
  \cup
  {Compilation(Unit(s, <<do("b"), test("j")>>, j), ApiUnit(t[5], b, <<do("a")>>), t) :
     s \in StartBodies, j \in JBodies, b \in ApiBodies, t \in OtherSettings}

(* The theorem that nothing is missing speaks of these programs.           *)
ASSUME MCEnclosed == \A p \in MCPrograms : Enclosed(p)

(* _start calls the export of the other unit, which nothing else mentions. *)
MCCallsExport ==
  {Compilation(Unit(<<call("x"), tail("i")>>, i, <<do("b")>>), ApiUnit("p", <<do("b")>>, x),
               <<2, FALSE, TRUE, "", "p">>) :
     i \in IBodies, x \in ExportBodies}

(* Without renaming, and an api function with the generator's first name.  *)
MCNamedLikeGenerated ==
  {Compilation(Unit(s, <<do("b")>>, <<do("a")>>), ApiUnit("n1", b, <<do("a")>>),
               <<0, FALSE, FALSE, "", "n1">>) :
     s \in StartBodies, b \in ApiBodies}
=============================================================================
