------------------------------- MODULE MCUnits -------------------------------
(***************************************************************************)
(* Compilations of two targets, src/a and lib/a: one half of them for the  *)
(* preprocessor, the other for labels, statics and the load of the world.  *)
(***************************************************************************)
EXTENDS Units, TLC

Dict == <<"a", "b", "c", "d", "e", "f", "g", "h">>

MCGen(k) == Dict[k]

MCLegal(s) == IF s = "Loop" THEN "loop" ELSE s

MCNumbered(s, k) == s \o "_" \o ToString(k)

(* Names are those of the program's own namespace.                         *)
MCSpelled(n) ==
  CASE n = "_start" -> <<>>
    [] n = "lib/k" -> <<"lib", "k">>
    [] n = "lib/k2" -> <<"lib", "k2">>
    [] OTHER -> <<n>>

MCIncludeDirs == <<"inc">>

P(d, b, e) == [dir |-> d, base |-> b, ext |-> <<e>>]

F(b, e) == [base |-> b, ext |-> IF e = "" THEN <<>> ELSE <<e>>]

A == P("src", "a", ".mcasm")
B == P("lib", "a", ".mcasm")
H == P("inc", "h", ".mch")
G == P("inc", "g", ".mch")
HX == [H EXCEPT !.ext = <<".x", ".mch">>]

(* Lines.                                                                  *)
D(op, n) == [op |-> op, n |-> n]
Op1(op) == [op |-> op]
Lab(n, kind) == [op |-> "label", n |-> n, kind |-> kind, loc |-> FALSE]
Ref(op, n) == [op |-> op, n |-> n, loc |-> FALSE]
Dot(op, n) == [(IF op = "label" THEN Lab(n, "plain") ELSE Ref(op, n)) EXCEPT !.loc = TRUE]
Stat(n, data) == [op |-> "static", n |-> n, loc |-> FALSE, data |-> data]
Inc(b, e) == [op |-> "include", file |-> F(b, e)]
Def(n, v) == [op |-> "define", n |-> n, value |-> v]
Ret == Op1("ret")
Inline(n) == D("inline", n)
Invoke(n, args) == [op |-> "invoke", n |-> n, args |-> args]

-----------------------------------------------------------------------------
(* Preprocessor: two headers, alone, guarded, one in the other, in a cycle.*)
HTexts ==
  { <<Op1("once"), Lab("h", "api"), Ret>>,
    <<D("ifndef", "GUARD"), Def("GUARD", ""), Inc("g", ".mch"), Lab("h", "api"), Ret, D("endif", "")>>,
    <<Op1("once"), Inc("g", ""), Lab("h", "api"), Ret, Def("X", "Y")>> }

GTexts ==
  { <<Op1("once"), Op1("other"), Lab("g", "api"), Ret>>,
    <<Op1("once"), Inc("h", ""), Lab("g", "api"), Ret>> }

Pieces ==
  { <<Inc("h", "")>>, <<Inc("g", ".mch")>>, <<Inc("none", "")>>,
    <<Def("X", "Y")>>, <<Def("Y", "Z")>>, <<D("undef", "X")>>,
    <<D("ifdef", "X"), Lab("X", "export"), Ret, Inc("g", ""), Def("Z", "X"),
      [op |-> "definefunc", n |-> "M", params |-> <<"p">>, body |-> <<Ret>>], D("endif", "")>>,
    <<[op |-> "definefunc", n |-> "M", params |-> <<"p">>, body |-> <<Lab("p", "export"), Ret>>],
      Invoke("M", <<"X">>)>>,
    <<Invoke("M", <<"m">>)>> }

Broken == {<<D("endif", "")>>, <<D("ifndef", "X")>>}

Others == {<<>>, <<Inc("g", ""), Inc("h", "")>>, <<Def("X", "W"), Inc("h", "")>>}

Fronts == {p \o q : p \in Pieces \cup {<<>>}, q \in Pieces \cup Broken}

TextJob(h, g, a, b) ==
  [files |-> (A :> a \o <<Lab("main", "export"), Ret>>) @@ (B :> b \o <<Lab("other", "export"), Ret>>)
             @@ (H :> h) @@ (G :> g),
   targets |-> <<A, B>>, opt |-> FALSE]

(* h.x.mch is included as h.x, next to h.mch.                              *)
DottedJobs ==
  {[TextJob(h, <<>>, <<Inc("h", ".x")>> \o a, b) EXCEPT !.files =
      @ @@ (HX :> <<Op1("once"), Inc("h", ""), Lab("hx", "api"), Ret>>)] :
     h \in HTexts, a \in {<<>>, <<Inc("h", "")>>}, b \in {<<>>, <<Inc("h", ".x")>>}}

TextJobs ==
  {TextJob(h, g, a, b) : h \in HTexts, g \in GTexts, a \in Fronts, b \in Others} \cup DottedJobs

-----------------------------------------------------------------------------
(* Labels and statics.                                                     *)
Scope(p) ==
  << Op1("pushline"), Op1("pushlabel"),
     Ref("jmp", "after"), Lab(p, "export"), Ref("call", "Loop"), Ref("jmp", p),
     Lab("after", "plain"), Dot("call", "x"), Ref("jmp", "Loop"), Dot("label", "x"), Ref("call", "after"), Ret,
     Op1("poplabel"), Op1("popline") >>

Macro == [op |-> "definefunc", n |-> "SCOPE", params |-> <<"p">>, body |-> Scope("p")]

Statics ==
  { <<>>,
    <<Stat("s", <<1, 2>>), Stat("t", <<3>>)>>,
    <<Stat("s", <<4>>), Stat("u", <<5>>), Stat("t", <<>>)>> }

Pop(op) == [op |-> "definefunc", n |-> "POP", params |-> <<>>, body |-> <<Op1(op)>>]

Bodies(p) ==
  { <<Ref("use", "s")>>, <<Ref("useptr", "t"), Ref("call", "Loop")>>,
    <<Inline("s"), Ref("useptr", "t"), Ref("call", "after")>>,
    <<Ref("call", "after"), Invoke("SCOPE", <<p>>), Lab("rest", "plain"), Ref("use", "s"),
      Invoke("SCOPE", <<p \o "2">>)>>,
    <<Dot("jmp", "x"), Dot("label", "x")>> }

Tails ==
  { <<Ret>>,
    <<Ret, Lab("Loop", "plain"), Ref("jmp", "loop"), Lab("loop", "plain"), Dot("jmp", "x"), Dot("label", "x"), Ret,
      Lab("after", "plain"), Ref("jmp", "Loop")>> }

LinkJob(opt, sa, sb, a, b, ta, start) ==
  [files |-> (A :> sa \o <<Macro, Lab("_start", "plain")>> \o a \o ta)
             @@ (B :> sb \o <<Macro, Lab(start, IF start = "_start" THEN "plain" ELSE "export")>> \o b \o
                      <<Ret, Lab("Loop", "plain"), Ret, Lab("after", "plain"), Ret>>),
   targets |-> <<A, B>>, opt |-> opt]

BadStarts ==
  { <<[Stat("s", <<1>>) EXCEPT !.loc = TRUE]>>, <<Lab("q", "plain"), [Lab("x", "api") EXCEPT !.loc = TRUE]>>,
    <<Pop("popline"), Invoke("POP", <<>>)>>, <<Pop("poplabel"), Invoke("POP", <<>>)>> }

LinkJobs ==
  {LinkJob(opt, sa, sb, a, b, ta, "other") :
     opt \in BOOLEAN, sa, sb \in Statics, a \in Bodies("f"), b \in Bodies("lib/k"), ta \in Tails}
  \cup {LinkJob(FALSE, <<>>, <<>>, <<Ret>>, <<>>, ta, start) : ta \in Tails, start \in {"_start", "other"}}
  \cup {LinkJob(FALSE, bad, <<>>, <<Ret>>, <<>>, <<>>, "other") : bad \in BadStarts}
  \cup {LinkJob(FALSE, <<>>, <<Lab("_start", "export"), Ret>>, <<Ret>>, <<>>, <<>>, "other")}

MCJobs == TextJobs \cup LinkJobs

=============================================================================
