---------------------------- MODULE UnitsProofs ----------------------------
(***************************************************************************)
(* Proofs about a whole compilation and the load of its program: for any   *)
(* targets, headers and include directories, whatever the names are made   *)
(* legal by, the variables keep their types, the functions of all units    *)
(* have names of their own, and the operands of the running program find   *)
(* the data of their statics.                                              *)
(***************************************************************************)
EXTENDS Units, SeqLemmas, FiniteSetTheorems

(* string::legalizeMCPath, the NameGenerator and a number behind a name    *)
(* give words; a name spells a path.                                       *)
GiveWords ==
  /\ \A s \in STRING : Legal(s) \in STRING
  /\ \A k \in Nat : Gen(k) \in STRING
  /\ \A s \in STRING, k \in Nat : Numbered(s, k) \in STRING
  /\ \A s \in STRING : Spelled(s) \in Seq(STRING)

(* Another number makes another name.                                      *)
NumbersTell == \A s \in STRING, k, j \in Nat : Numbered(s, k) = Numbered(s, j) => k = j

GoodNames == GiveWords /\ NumbersTell

(* The data of all units lies in the words of the heap looked at.          *)
Fits == Len(staticData) <= HeapSize

-----------------------------------------------------------------------------
Frame(files) ==
  [file : files, at : Nat \ {0}, ignore : BOOLEAN, stack : Seq(BOOLEAN), out : Seq(TextLine)]

Macro == [params : Seq(STRING), body : Seq(TextLine)]

Macros == UNION {[D -> Macro] : D \in SUBSET STRING}

Pairs == Seq(STRING \X STRING)

Targets == DOMAIN job.targets

(* The targets done are the ones before the one at work.                   *)
PPOk ==
  /\ job \in Jobs
  /\ phase \in Phases
  /\ unit \in Targets
  /\ frames \in Seq(Frame(DOMAIN job.files))
  /\ defines \in [Targets -> Pairs]
  /\ funcs \in [Targets -> Macros]
  /\ includeOnce \subseteq DOMAIN job.files
  /\ bypass \in [Targets -> SUBSET includeOnce]
  /\ sources \in Seq(Seq(TextLine))
  /\ Len(sources) <= Len(job.targets)
  /\ phase = "pp" => frames # <<>> /\ Len(sources) + 1 = unit
  /\ phase \notin {"pp", "failed"} => Len(sources) = Len(job.targets)

-----------------------------------------------------------------------------
UOp ==
  [op : OpNames \cup {"inline", "use", "useptr"}, l : Seq(STRING), kind : LabelKinds,
   data : Seq(Int), line : Nat]

Renamings == UNION {[D -> Seq(STRING)] : D \in SUBSET Seq(STRING)}

LabelState == [map : Renamings, pending : SUBSET Nat]

LastLabel == Seq(STRING) \cup {None}

(* Where p names a label of its own.                                       *)
CallPos(p) == {i \in DOMAIN p : IsCallLike(p[i])}

(* A label has a segment, an entry has one only.                           *)
LabelFormed(o) == Len(o.l) >= 1 /\ (Entry(o.kind) => Len(o.l) = 1)

LabelsFormed(p) == \A i \in LabelPos(p) : LabelFormed(p[i])

(* Only calls and jumps wait for a name, and only during the parse.        *)
ParseOk ==
  /\ values \in Seq(Seq(UOp))
  /\ Len(values) = Len(job.targets)
  /\ at \in Nat \ {0}
  /\ last \in LastLabel
  /\ lineStack \in Seq(LastLabel)
  /\ labelState \in LabelState
  /\ labelStack \in Seq(LabelState)
  /\ generated \in Nat
  /\ labelState.pending \subseteq CallPos(values[unit])
  /\ \A i \in DOMAIN labelStack : labelStack[i].pending \subseteq CallPos(values[unit])
  /\ phase \notin {"parse", "failed"} => labelState = NoLabels /\ labelStack = <<>>
  /\ \A u \in DOMAIN values : LabelsFormed(values[u])

-----------------------------------------------------------------------------
(* Each reader of unit p finds, from m on, what its static lays down in d.    *)
Placed(p, m, d) ==
  \A i \in Readers(p) :
    /\ p[i].l \in DOMAIN m /\ m[p[i].l] \in Nat
    /\ \A k \in StaticsOf(p) :
         p[k].l = p[i].l =>
           /\ m[p[i].l] + Len(p[k].data) <= Len(d)
           /\ \A j \in 1..Len(p[k].data) : d[m[p[i].l] + j] = p[k].data[j]

(* A symbol that is used is one static.                                    *)
Declared(p) == SymbolsUnique(p) /\ SymbolsDeclared(p)

StaticMaps == UNION {[D -> Nat] : D \in SUBSET Seq(STRING)}

(* The units compiled are the ones before the one at work.                 *)
LinkOk ==
  /\ staticData \in Seq(Int)
  /\ Len(staticMap) = Len(names)
  /\ staticMap \in Seq(StaticMaps)
  /\ names \in Seq(Renamings)
  /\ Len(names) \in 0..Len(values)
  /\ phase \in {"pp", "parse", "verify"} => names = <<>>
  /\ phase = "verify" => unit = 1
  /\ phase = "compile" => Len(names) + 1 = unit
  /\ phase = "built" => Len(names) = Len(values)
  /\ phase \in {"compile", "built"} => \A u \in DOMAIN values : Declared(values[u])
  /\ \A u \in 1..Len(names) : Placed(values[u], staticMap[u], staticData)

-----------------------------------------------------------------------------
(* Functions of units, other than entries, have a path behind a stem.      *)
Stems == {Legal(b) : b \in UNION {{j.targets[t].base : t \in DOMAIN j.targets} : j \in Jobs}}

Paths == {f \in Seq(STRING) : Len(f) >= 2 /\ f[1] \in Stems}

PlainPos(p) == {i \in LabelPos(p) : ~Entry(p[i].kind)}

(* No entry spells a path behind the stem of a target.                     *)
ExportsElsewhere ==
  \A u \in DOMAIN names : \A i \in LabelPos(values[u]) :
    LET path == Spelled(values[u][i].l[1])
    IN Entry(values[u][i].kind) /\ Len(path) >= 2 => path[1] \notin Stems

(* The functions of unit p: an entry keeps its name, the others are among  *)
(* the internal ones, and no two are the same.                             *)
NamedIn(p, m, taken) ==
  /\ UniqueLabels(p)
  /\ \A i \in LabelPos(p) : Entry(p[i].kind) => m[p[i].l] = Spelled(p[i].l[1])
  /\ \A i \in PlainPos(p) : m[p[i].l] \in taken
  /\ \A i, k \in PlainPos(p) : m[p[i].l] = m[p[k].l] => i = k

(* No name of a function in p is one of a function in q.                   *)
Apart(p, m, q, n) == \A i \in PlainPos(p), k \in PlainPos(q) : m[p[i].l] # n[q[k].l]

NamesOk ==
  /\ internal \subseteq Paths
  /\ IsFiniteSet(internal)
  /\ \A u \in 1..Len(names) : NamedIn(values[u], names[u], internal)
  /\ \A u, v \in 1..Len(names) : u # v => Apart(values[u], names[u], values[v], names[v])

-----------------------------------------------------------------------------
(* The functions s schedules.                                              *)
Scheduled(s) == {s[i][2] : i \in DOMAIN s}

LoadFunctions == {"init", "data", "start"}

Slots == Nat \X LoadFunctions

(* Entry i of s is for function f.                                         *)
For(s, i, f) == i \in DOMAIN s /\ s[i][2] = f

(* No function is scheduled twice.                                         *)
Single(s) == \A i, k \in DOMAIN s : s[i][2] = s[k][2] => i = k

(* f runs before g.                                                        *)
Ahead(s, f, g) == \A i, k \in DOMAIN s : For(s, i, f) /\ For(s, k, g) => s[i][1] < s[k][1]

(* f and g run in the same tick, f first.                                  *)
Together(s, f, g) == \A i, k \in DOMAIN s : For(s, i, f) /\ For(s, k, g) => s[i][1] = s[k][1] /\ i < k

(* init, data and start run in this order.                                 *)
Ordered(s) ==
  /\ Single(s)
  /\ Together(s, "init", "data")
  /\ Ahead(s, "init", "start")
  /\ Ahead(s, "data", "start")

(* The data lies at the start of the heap, and what is allocated behind it.*)
Loaded ==
  /\ Len(staticData) <= shp
  /\ \A a \in 0..(HeapSize - 1) : a < Len(staticData) => heap[a] = staticData[a + 1]

(* Between init and data, which run in one tick, no program runs.          *)
GameOk ==
  /\ sched \in Seq(Slots)
  /\ now \in Nat /\ loads \in Nat /\ shp \in Nat /\ base = 0
  /\ heap \in [0..(HeapSize - 1) -> Int]
  /\ program \in {"none", "runs", "stale"}
  /\ phase # "built" => loads = 0
  /\ loads = 0 => sched = <<>> /\ program = "none"
  /\ \A i \in DOMAIN sched : sched[i][1] \in now..(now + 2)
  /\ Ordered(sched)
  /\ "data" \in Scheduled(sched) => staticData # <<>>
  /\ "start" \in Scheduled(sched) => startFunc # None
  /\ "init" \in Scheduled(sched) => staticData = <<>> \/ "data" \in Scheduled(sched)
  /\ "data" \in Scheduled(sched) /\ "init" \notin Scheduled(sched) =>
       shp = 0 /\ \A i \in DOMAIN sched : For(sched, i, "data") => sched[i][1] = now
  /\ loads > 0 /\ Scheduled(sched) \cap {"init", "data"} = {} => Loaded
  /\ program = "runs" => loads > 0 /\ Scheduled(sched) \cap {"init", "data"} = {}
  /\ shp <= HeapSize

(* What the game adds needs the heap to have room, the rest does not.      *)
FrontOk == PPOk /\ ParseOk /\ LinkOk /\ NamesOk

IInv == FrontOk /\ GameOk

-----------------------------------------------------------------------------
(* The text of a compilation.                                              *)
LEMMA JobShape ==
  ASSUME job \in Jobs
  PROVE  /\ job.targets \in Seq(DOMAIN job.files)
         /\ Targets = 1..Len(job.targets) /\ Len(job.targets) \in Nat \ {0} /\ 1 \in Targets
         /\ \A p \in DOMAIN job.files : job.files[p] \in Seq(TextLine \cup DirectiveLine)
         /\ DOMAIN job.files \subseteq Path
         /\ \A t \in Targets : job.targets[t] \in DOMAIN job.files
<1>1. /\ job.targets \in Seq(DOMAIN job.files) /\ job.targets # <<>>
      /\ \A p \in DOMAIN job.files : job.files[p] \in Seq(TextLine \cup DirectiveLine)
      /\ DOMAIN job.files \subseteq Path
  BY JobsAssumption
<1>2. Len(job.targets) \in Nat \ {0} /\ Targets = 1..Len(job.targets)
  BY <1>1 DEF Targets
<1> QED BY <1>1, <1>2

(* A call of handleTarget.                                                 *)
LEMMA CallFrame ==
  ASSUME NEW files, NEW p \in files
  PROVE  Call(p) \in Frame(files)
BY DEF Call, Frame

(* The innermost call and its line.                                        *)
LEMMA TopShape ==
  ASSUME PPOk, phase = "pp"
  PROVE  /\ Len(frames) \in Nat \ {0}
         /\ Top \in Frame(DOMAIN job.files)
         /\ Text \in Seq(TextLine \cup DirectiveLine)
         /\ Next1 \in Frame(DOMAIN job.files)
         /\ Top.at <= Len(Text) => Line \in TextLine \cup DirectiveLine
<1>1. PICK F : F = Frame(DOMAIN job.files)
  OBVIOUS
<1>2. frames \in Seq(F) /\ frames # <<>>
  BY <1>1 DEF PPOk
<1>3. Len(frames) \in Nat \ {0}
  BY <1>2
<1>4. Top \in F
  BY <1>2, <1>3 DEF Top
<1>5. Top.file \in DOMAIN job.files /\ Top.at \in Nat \ {0}
  BY <1>1, <1>4 DEF Frame
<1>6. Text \in Seq(TextLine \cup DirectiveLine)
  BY <1>5, JobShape DEF Text, PPOk
<1>7. Next1 \in F
  BY <1>1, <1>4 DEF Next1, Frame
<1>8. Top.at <= Len(Text) => Line \in TextLine \cup DirectiveLine
  BY <1>5, <1>6 DEF Line
<1> QED BY <1>1, <1>3, <1>4, <1>6, <1>7, <1>8

(* Another innermost call.                                                 *)
LEMMA WithTopShape ==
  ASSUME PPOk, phase = "pp", NEW f \in Frame(DOMAIN job.files)
  PROVE  WithTop(f) \in Seq(Frame(DOMAIN job.files)) /\ WithTop(f) # <<>>
<1>1. PICK F : F = Frame(DOMAIN job.files)
  OBVIOUS
<1>2. frames \in Seq(F) /\ frames # <<>> /\ f \in F
  BY <1>1 DEF PPOk
<1>3. Len(frames) \in Nat \ {0}
  BY <1>2
<1>4. WithTop(f) \in Seq(F) /\ Len(WithTop(f)) = Len(frames)
  BY <1>2, <1>3 DEF WithTop
<1>5. WithTop(f) # <<>>
  BY <1>3, <1>4
<1> QED BY <1>1, <1>4, <1>5

-----------------------------------------------------------------------------
(* Macros.                                                                 *)
(* One replacement after the other makes a word of a word.                 *)
LEMMA ReplaceWord ==
  ASSUME NEW pairs \in Pairs, NEW word \in STRING
  PROVE  Replace(pairs, word) \in STRING
<1>1. PICK n \in Nat : n = Len(pairs)
  BY DEF Pairs
<1>2. ASSUME NEW i \in 1..n PROVE pairs[i] \in STRING \X STRING
  BY <1>1 DEF Pairs
<1>3. PICK G : G = [i \in 1..n |-> [w \in STRING |-> IF w = pairs[i][1] THEN pairs[i][2] ELSE w]]
  OBVIOUS
<1>4. G \in Steps(STRING, n)
  <2>1. ASSUME NEW i \in 1..n, NEW w \in STRING
        PROVE  (IF w = pairs[i][1] THEN pairs[i][2] ELSE w) \in STRING
    BY <1>2
  <2> QED BY <1>3, <2>1 DEF Steps
<1>5. PICK f \in [0..n -> STRING] : Carried(f, word, n, G)
  BY <1>1, <1>4, CarriedExists
<1> DEFINE Is(g) == g = [i \in 0..Len(pairs) |->
                          IF i = 0 THEN word
                          ELSE LET w == g[i - 1] IN IF w = pairs[i][1] THEN pairs[i][2] ELSE w]
<1>6. ASSUME NEW i \in 0..n
      PROVE  f[i] = IF i = 0 THEN word ELSE IF f[i - 1] = pairs[i][1] THEN pairs[i][2] ELSE f[i - 1]
  <2>1. CASE i = 0
    BY <1>5, <2>1 DEF Carried
  <2>2. CASE i # 0
    <3>1. i \in 1..n /\ i - 1 \in 0..n
      BY <1>1, <2>2
    <3>2. f[i] = G[i][f[i - 1]] /\ f[i - 1] \in STRING
      BY <1>5, <3>1 DEF Carried
    <3> QED BY <1>3, <2>2, <3>1, <3>2
  <2> QED BY <2>1, <2>2
<1>7. Is(f)
  BY <1>1, <1>5, <1>6
<1>8. PICK h : h = CHOOSE g : Is(g)
  OBVIOUS
<1>9. Is(h)
  BY <1>7, <1>8
<1>10. Replace(pairs, word) = h[Len(pairs)]
  BY <1>8 DEF Replace
<1>11. PICK S : S = {i \in 0..n : h[i] \in STRING}
  OBVIOUS
<1>12. 0 \in S
  <2>1. 0 \in 0..n /\ 0 \in 0..Len(pairs)
    BY <1>1
  <2>2. h[0] = word
    BY <1>9, <2>1
  <2> QED BY <1>11, <2>1, <2>2
<1>13. ASSUME NEW i \in 1..n, i - 1 \in S PROVE i \in S
  <2>1. i \in 0..Len(pairs) /\ i # 0 /\ i \in 0..n
    BY <1>1
  <2>2. h[i] = IF h[i - 1] = pairs[i][1] THEN pairs[i][2] ELSE h[i - 1]
    BY <1>9, <2>1
  <2> QED BY <1>2, <1>11, <1>13, <2>1, <2>2
<1>14. 0..n \subseteq S
  BY <1>1, <1>12, <1>13, UpTo
<1> QED BY <1>1, <1>10, <1>11, <1>14

(* What the words of a line of text become.                                *)
LEMMA ReplaceInLine ==
  ASSUME NEW pairs \in Pairs, NEW line \in TextLine
  PROVE  ReplaceIn(pairs, line) \in TextLine
<1>1. CASE "n" \in DOMAIN line
  <2>1. line.n \in STRING
    BY <1>1 DEF TextLine
  <2>2. PICK w \in STRING : w = Replace(pairs, line.n)
    BY <2>1, ReplaceWord
  <2>3. ReplaceIn(pairs, line) = [line EXCEPT !.n = w]
    BY <1>1, <2>2 DEF ReplaceIn
  <2>4. [line EXCEPT !.n = w] \in TextLine
    BY <1>1 DEF TextLine
  <2> QED BY <2>3, <2>4
<1>2. CASE "n" \notin DOMAIN line
  BY <1>2 DEF ReplaceIn
<1> QED BY <1>1, <1>2

(* A macro of a map of them.                                               *)
LEMMA MacroAt ==
  ASSUME NEW fs \in Macros, NEW n \in DOMAIN fs
  PROVE  fs[n] \in Macro
BY DEF Macros

(* A line that is not a directive.                                         *)
LEMMA LineOfText ==
  ASSUME NEW line \in TextLine \cup DirectiveLine, line.op \notin Directives
  PROVE  line \in TextLine
BY DEF DirectiveLine, Directives

(* A line of text becomes text.                                            *)
LEMMA ExpandText ==
  ASSUME NEW defs \in Pairs, NEW fs \in Macros, NEW line \in TextLine
  PROVE  Expand(defs, fs, line) \in Seq(TextLine)
<1>1. Body(fs, line) \in Seq(TextLine)
  <2>1. CASE CallsMacro(fs, line)
    <3>1. line.args \in Seq(STRING)
      BY <2>1 DEF CallsMacro, TextLine
    <3>2. PICK f \in Macro : f = fs[line.n]
      BY <2>1, MacroAt DEF CallsMacro
    <3>3. Len(f.params) = Len(line.args) /\ f.params \in Seq(STRING) /\ f.body \in Seq(TextLine)
      BY <2>1, <3>2 DEF CallsMacro, Macro
    <3>4. PICK args : args = [i \in DOMAIN line.args |-> <<f.params[i], line.args[i]>>]
      OBVIOUS
    <3>5. args \in Pairs
      <4>1. ASSUME NEW i \in 1..Len(line.args) PROVE args[i] \in STRING \X STRING
        BY <3>1, <3>3, <3>4
      <4>2. PICK n \in Nat : n = Len(line.args)
        BY <3>1
      <4>3. args = [i \in 1..n |-> args[i]]
        BY <3>1, <3>4, <4>2
      <4>4. args \in [1..n -> STRING \X STRING]
        BY <4>1, <4>2, <4>3
      <4> QED BY <4>2, <4>4 DEF Pairs
    <3>6. PICK b : b = f.body /\ b \in Seq(TextLine)
      BY <3>3
    <3>7. ASSUME NEW i \in 1..Len(b) PROVE ReplaceIn(args, b[i]) \in TextLine
      <4>1. b[i] \in TextLine
        BY <3>6
      <4> QED BY <3>5, <4>1, ReplaceInLine
    <3>8. [i \in DOMAIN b |-> ReplaceIn(args, b[i])] \in Seq(TextLine)
      BY <3>6, <3>7
    <3>9. Body(fs, line) = [i \in DOMAIN b |-> ReplaceIn(args, b[i])]
      BY <2>1, <3>2, <3>4, <3>6 DEF Body
    <3> QED BY <3>8, <3>9
  <2>2. CASE ~CallsMacro(fs, line)
    BY <2>2 DEF Body
  <2> QED BY <2>1, <2>2
<1>2. PICK b : b = Body(fs, line) /\ b \in Seq(TextLine)
  BY <1>1
<1>3. ASSUME NEW i \in 1..Len(b) PROVE ReplaceIn(defs, b[i]) \in TextLine
  <2>1. b[i] \in TextLine
    BY <1>2
  <2> QED BY <2>1, ReplaceInLine
<1>4. [i \in DOMAIN b |-> ReplaceIn(defs, b[i])] \in Seq(TextLine)
  BY <1>2, <1>3
<1> QED BY <1>2, <1>4 DEF Expand

-----------------------------------------------------------------------------
(* The maps of macros.                                                     *)
LEMMA PutPairs ==
  ASSUME NEW pairs \in Pairs, NEW k \in STRING, NEW v \in STRING
  PROVE  Put(pairs, k, v) \in Pairs
<1>1. PICK T : T = STRING \X STRING
  OBVIOUS
<1>2. pairs \in Seq(T) /\ <<k, v>> \in T
  BY <1>1 DEF Pairs
<1>3. CASE k \in Keys(pairs)
  <2>1. PICK i : i = Place(pairs, k) /\ i \in DOMAIN pairs
    BY <1>3 DEF Keys, Place
  <2>2. [pairs EXCEPT ![i] = <<k, v>>] \in Seq(T)
    BY <1>2, <2>1
  <2> QED BY <1>1, <1>3, <2>1, <2>2 DEF Put, Pairs
<1>4. CASE k \notin Keys(pairs)
  BY <1>1, <1>2, <1>4 DEF Put, Pairs
<1> QED BY <1>3, <1>4

(* One entry less.                                                         *)
LEMMA ErasePairs ==
  ASSUME NEW pairs \in Pairs, NEW k \in STRING
  PROVE  Erase(pairs, k) \in Pairs
<1>1. PICK T : T = STRING \X STRING
  OBVIOUS
<1>2. pairs \in Seq(T)
  BY <1>1 DEF Pairs
<1>3. CASE k \in Keys(pairs)
  <2>1. PICK i : i = Place(pairs, k) /\ i \in DOMAIN pairs
    BY <1>3 DEF Keys, Place
  <2>2. Len(pairs) \in Nat \ {0} /\ pairs[Len(pairs)] \in T
    <3>1. PICK n : n = Len(pairs) /\ n \in Nat /\ DOMAIN pairs = 1..n
      BY <1>2
    <3>2. i \in 1..n
      BY <2>1, <3>1
    <3>3. n # 0 /\ n \in 1..n
      BY <3>1, <3>2
    <3>4. pairs[n] \in T
      BY <1>2, <3>1, <3>3
    <3> QED BY <3>1, <3>3, <3>4
  <2>3. PICK moved : moved = [pairs EXCEPT ![i] = pairs[Len(pairs)]]
    OBVIOUS
  <2>4. moved \in Seq(T) /\ Len(moved) = Len(pairs)
    <3>1. PICK x \in T : x = pairs[Len(pairs)]
      BY <2>2
    <3>2. pairs \in Seq(T) /\ i \in DOMAIN pairs
      BY <1>2, <2>1
    <3>3. moved = [pairs EXCEPT ![i] = x]
      BY <2>3, <3>1
    <3> QED BY <3>2, <3>3
  <2>5. SubSeq(moved, 1, Len(pairs) - 1) \in Seq(T)
    <3>0. Len(pairs) - 1 \in Nat
      BY <1>2, <2>2
    <3>1. PICK m \in Nat : m = Len(pairs) - 1
      BY <3>0
    <3>2. moved \in Seq(T) /\ 1 <= 1 /\ m <= Len(moved) /\ 1 <= m + 1
      BY <2>2, <2>4, <3>1
    <3>3. SubSeq(moved, 1, m) \in Seq(T)
      BY <3>2, SubSeqShape
    <3> QED BY <3>1, <3>3
  <2> QED BY <1>1, <1>3, <2>1, <2>3, <2>5 DEF Erase, Pairs
<1>4. CASE k \notin Keys(pairs)
  BY <1>1, <1>2, <1>4 DEF Erase, Pairs
<1> QED BY <1>3, <1>4

(* A map of macros with one more or less.                                  *)
LEMMA MacrosMore ==
  ASSUME NEW fs \in Macros, NEW n \in STRING, NEW m \in Macro
  PROVE  [k \in DOMAIN fs \cup {n} |-> IF k = n THEN m ELSE fs[k]] \in Macros
<1>1. PICK S \in SUBSET STRING : fs \in [S -> Macro]
  BY DEF Macros
<1>2. PICK g : g = [k \in S \cup {n} |-> IF k = n THEN m ELSE fs[k]]
  OBVIOUS
<1>3. g \in [S \cup {n} -> Macro] /\ S \cup {n} \in SUBSET STRING
  BY <1>1, <1>2
<1> QED BY <1>1, <1>2, <1>3 DEF Macros

(* A map of macros with one less.                                          *)
LEMMA MacrosLess ==
  ASSUME NEW fs \in Macros, NEW n
  PROVE  [k \in DOMAIN fs \ {n} |-> fs[k]] \in Macros
<1>1. PICK S \in SUBSET STRING : fs \in [S -> Macro]
  BY DEF Macros
<1>2. PICK g : g = [k \in S \ {n} |-> fs[k]]
  OBVIOUS
<1>3. g \in [S \ {n} -> Macro] /\ S \ {n} \in SUBSET STRING
  BY <1>1, <1>2
<1> QED BY <1>1, <1>2, <1>3 DEF Macros

-----------------------------------------------------------------------------
(* What the fields of a directive are.                                     *)
LEMMA DirectiveShape ==
  ASSUME NEW line \in TextLine \cup DirectiveLine
  PROVE  /\ line.op \in {"ifdef", "ifndef", "undef", "define", "definefunc"} => line.n \in STRING
         /\ line.op = "define" => line.value \in STRING
         /\ line.op = "definefunc" => line.params \in Seq(STRING) /\ line.body \in Seq(TextLine)
<1>1. CASE line \in DirectiveLine
  BY <1>1 DEF DirectiveLine
<1>2. CASE line \in TextLine
  BY <1>2 DEF TextLine
<1> QED BY <1>1, <1>2

(* The file of an #include is one of the compilation.                      *)
LEMMA ResolvedFile ==
  ASSUME NEW cur, NEW f, Found(cur, f) # {}
  PROVE  Resolved(cur, f) \in DOMAIN job.files
<1>1. DOMAIN Candidates(cur, f) \subseteq Nat
  <2>1. PICK d, W : d = <<cur.dir>> \o IncludeDirs /\ W = STRING \cup {cur.dir}
    OBVIOUS
  <2>2. IncludeDirs \in Seq(W) /\ cur.dir \in W
    BY <2>1, DirsAssumption
  <2>3. d \in Seq(W)
    BY <2>1, <2>2
  <2>4. PICK h : h = [f EXCEPT !.ext = Append(@, ".mch")]
    OBVIOUS
  <2>5. PICK p, q : p = [i \in DOMAIN d |-> In(d[i], f)] /\ q = [i \in DOMAIN d |-> In(d[i], h)]
    OBVIOUS
  <2>6. PICK P : P = {In(w, f) : w \in W} \cup {In(w, h) : w \in W}
    OBVIOUS
  <2>7. p \in Seq(P) /\ q \in Seq(P)
    BY <2>3, <2>5, <2>6
  <2>8. p \o q \in Seq(P)
    BY <2>7
  <2>9. Candidates(cur, f) = IF f.ext # <<>> /\ f.ext[Len(f.ext)] = ".mch" THEN p ELSE p \o q
    BY <2>1, <2>4, <2>5 DEF Candidates
  <2> QED BY <2>7, <2>8, <2>9
<1>2. PICK T \in SUBSET Nat : T = Found(cur, f)
  <2>1. Found(cur, f) \subseteq DOMAIN Candidates(cur, f)
    BY DEF Found
  <2> QED BY <1>1, <2>1
<1>3. \E i \in T : \A k \in T : i <= k
  BY <1>2, LeastElement
<1>4. PICK i : i = (CHOOSE x \in T : \A k \in T : x <= k) /\ i \in T
  BY <1>3
<1>5. Resolved(cur, f) = Candidates(cur, f)[i]
  BY <1>2, <1>4 DEF Resolved
<1> QED BY <1>2, <1>4, <1>5 DEF Found

-----------------------------------------------------------------------------
(* A step with another innermost call.                                     *)
LEMMA TopStep ==
  ASSUME PPOk, phase = "pp", NEW f \in Frame(DOMAIN job.files), frames' = WithTop(f),
         job' = job, phase' = phase, unit' = unit, sources' = sources,
         defines' \in [Targets -> Pairs], funcs' \in [Targets -> Macros],
         includeOnce' = includeOnce \/ includeOnce' = includeOnce \cup {Top.file}, bypass' = bypass
  PROVE  PPOk'
<1>1. frames' \in Seq(Frame(DOMAIN job.files)) /\ frames' # <<>>
  BY WithTopShape
<1>2. Targets' = Targets
  BY DEF Targets
<1>3. Top.file \in DOMAIN job.files
  BY TopShape DEF Frame
<1>4. includeOnce' \subseteq DOMAIN job.files /\ includeOnce \subseteq includeOnce'
  BY <1>3 DEF PPOk
<1>5. bypass' \in [Targets -> SUBSET includeOnce']
  BY <1>4 DEF PPOk
<1> QED BY <1>1, <1>2, <1>4, <1>5 DEF PPOk

(* OutputText.                                                             *)
LEMMA OutputTextPP == PPOk /\ OutputText => PPOk'
<1> SUFFICES ASSUME PPOk, OutputText PROVE PPOk'
  OBVIOUS
<1>1. phase = "pp" /\ Top.at <= Len(Text) /\ Line.op \notin Directives
  BY DEF OutputText
<1>2. Line \in TextLine /\ Next1 \in Frame(DOMAIN job.files)
  BY <1>1, TopShape, LineOfText
<1>3. defines[unit] \in Pairs /\ funcs[unit] \in Macros
  BY DEF PPOk
<1>4. PICK e \in Seq(TextLine) : e = Expand(defines[unit], funcs[unit], Line)
  BY <1>2, <1>3, ExpandText
<1>5. PICK o : o = IF Top.ignore THEN Next1.out ELSE Next1.out \o e
  OBVIOUS
<1>6. o \in Seq(TextLine)
  BY <1>2, <1>4, <1>5 DEF Frame
<1>7. PICK f : f = [Next1 EXCEPT !.out = o]
  OBVIOUS
<1>8. f \in Frame(DOMAIN job.files)
  BY <1>2, <1>6, <1>7 DEF Frame
<1>9. frames' = WithTop(f)
  BY <1>4, <1>5, <1>7 DEF OutputText
<1> QED BY <1>1, <1>8, <1>9, TopStep DEF OutputText, PPOk

(* Include.                                                                *)
LEMMA IncludePP == PPOk /\ Include => PPOk'
<1> SUFFICES ASSUME PPOk, Include PROVE PPOk'
  OBVIOUS
<1>1. phase = "pp" /\ Top.at <= Len(Text) /\ Line.op = "include" /\ Includable(Top.file, Line.file)
  BY DEF Include, Reading
<1>4. PICK p : p = Resolved(Top.file, Line.file) /\ p \in DOMAIN job.files
  BY <1>1, ResolvedFile DEF Includable
<1>5. PICK c, F : c = Call(p) /\ F = Frame(DOMAIN job.files)
  OBVIOUS
<1>6. c \in F
  BY <1>4, <1>5, CallFrame
<1>7. frames' = Append(frames, c)
  BY <1>4, <1>5 DEF Include
<1>8. frames' \in Seq(F) /\ frames' # <<>>
  <2>1. frames \in Seq(F)
    BY <1>5 DEF PPOk
  <2>2. PICK fs : fs = Append(frames, c)
    OBVIOUS
  <2>3. fs \in Seq(F) /\ Len(fs) = Len(frames) + 1 /\ Len(frames) \in Nat
    BY <1>6, <2>1, <2>2
  <2>4. fs # <<>>
    BY <2>3
  <2> QED BY <1>7, <2>2, <2>3, <2>4
<1> QED BY <1>5, <1>8 DEF Include, PPOk, Targets

(* EndInclude.                                                             *)
LEMMA EndIncludePP == PPOk /\ EndInclude => PPOk'
<1> SUFFICES ASSUME PPOk, EndInclude PROVE PPOk'
  OBVIOUS
<1>1. phase = "pp" /\ Len(frames) > 1
  BY DEF EndInclude, AtEnd
<1>2. PICK F : F = Frame(DOMAIN job.files)
  OBVIOUS
<1>3. frames \in Seq(F) /\ Len(frames) \in Nat /\ Len(frames) >= 2
  BY <1>1, <1>2 DEF PPOk
<1>4. PICK outer \in F : outer = frames[Len(frames) - 1]
  BY <1>3
<1>5. Top.out \in Seq(TextLine) /\ Top.file \in DOMAIN job.files
  BY <1>1, TopShape DEF Frame
<1>6. PICK text : text = IF Skipped(Top.file) THEN <<>> ELSE Marked(Top.out)
  OBVIOUS
<1>7. text \in Seq(TextLine)
  <2>1. PICK push, pop : push = [op |-> "pushline"] /\ pop = [op |-> "popline"]
    OBVIOUS
  <2>2. push \in TextLine /\ pop \in TextLine
    BY <2>1 DEF TextLine
  <2>3. <<push>> \o Top.out \o <<pop>> \in Seq(TextLine)
    BY <1>5, <2>2
  <2> QED BY <1>6, <2>1, <2>3 DEF Marked
<1>8. PICK o : o = outer.out \o text
  OBVIOUS
<1>9. o \in Seq(TextLine)
  BY <1>2, <1>4, <1>7, <1>8 DEF Frame
<1>10. PICK f : f = [outer EXCEPT !.at = outer.at + 1, !.out = o]
  OBVIOUS
<1>11. f \in F
  <2>1. outer.at + 1 \in Nat \ {0}
    BY <1>2, <1>4 DEF Frame
  <2> QED BY <1>2, <1>4, <1>9, <1>10, <2>1 DEF Frame
<1>12. PICK rest : rest = SubSeq(frames, 1, Len(frames) - 2)
  OBVIOUS
<1>13. rest \in Seq(F)
  BY <1>3, <1>12, SubSeqShape
<1>14. frames' = Append(rest, f)
  BY <1>4, <1>6, <1>8, <1>10, <1>12 DEF EndInclude
<1>15. frames' \in Seq(F) /\ frames' # <<>>
  <2>1. PICK fs : fs = Append(rest, f)
    OBVIOUS
  <2>2. fs \in Seq(F) /\ Len(fs) = Len(rest) + 1 /\ Len(rest) \in Nat
    BY <1>11, <1>13, <2>1
  <2>3. fs # <<>>
    BY <2>2
  <2> QED BY <1>14, <2>1, <2>2, <2>3
<1>16. PICK r \in SUBSET includeOnce : r = Recorded(Top.file)
  <2>1. Recorded(Top.file) \subseteq includeOnce
    BY DEF Recorded
  <2> QED BY <2>1
<1>17. bypass' \in [Targets -> SUBSET includeOnce]
  <2>1. bypass' = [bypass EXCEPT ![unit] = @ \cup r]
    BY <1>16 DEF EndInclude
  <2> QED BY <1>16, <2>1 DEF PPOk
<1> QED BY <1>2, <1>15, <1>17 DEF EndInclude, PPOk, Targets

(* EndTarget.                                                              *)
LEMMA EndTargetPP == PPOk /\ EndTarget => PPOk'
<1> SUFFICES ASSUME PPOk, EndTarget PROVE PPOk'
  OBVIOUS
<1>1. phase = "pp" /\ sources' = Append(sources, Top.out) /\ job' = job
  BY DEF EndTarget, AtEnd
<1>2. Top.out \in Seq(TextLine)
  BY <1>1, TopShape DEF Frame
<1>3. PICK T : T = Seq(TextLine)
  OBVIOUS
<1>4. sources \in Seq(T) /\ Len(sources) + 1 = unit
  BY <1>1, <1>3 DEF PPOk
<1>5. sources' \in Seq(T) /\ Len(sources') = unit
  BY <1>1, <1>2, <1>3, <1>4
<1>6. Targets = 1..Len(job.targets) /\ Len(job.targets) \in Nat \ {0} /\ unit \in Targets
  BY JobShape DEF PPOk
<1>7. CASE unit < Len(job.targets)
  <2>1. unit + 1 \in Targets
    BY <1>6, <1>7
  <2>2. PICK c, F : c = Call(job.targets[unit + 1]) /\ F = Frame(DOMAIN job.files)
    OBVIOUS
  <2>3. job.targets[unit + 1] \in DOMAIN job.files
    BY <2>1, JobShape DEF PPOk
  <2>4. c \in F
    BY <2>2, <2>3, CallFrame
  <2>5. frames' = <<c>> /\ unit' = unit + 1 /\ phase' = phase
    BY <1>7, <2>2 DEF EndTarget
  <2>6. frames' \in Seq(F) /\ frames' # <<>>
    BY <2>4, <2>5
  <2>7. Len(sources') <= Len(job.targets)
    BY <1>5, <1>6
  <2> QED BY <1>1, <1>3, <1>5, <1>6, <2>1, <2>2, <2>5, <2>6, <2>7 DEF EndTarget, PPOk, Targets
<1>8. CASE ~(unit < Len(job.targets))
  <2>1. frames' = <<>> /\ unit' = 1 /\ phase' = "parse"
    BY <1>8 DEF EndTarget
  <2>2. Len(sources') = Len(job.targets) /\ 1 \in Targets
    <3>1. job.targets \in Seq(DOMAIN job.files) /\ 1 \in Targets
      BY JobShape DEF PPOk
    <3> QED BY <1>5, <1>6, <1>8, <3>1
  <2>3. frames' \in Seq(Frame(DOMAIN job.files))
    BY <2>1
  <2>4. Len(sources') <= Len(job.targets)
    BY <1>6, <2>2
  <2> QED BY <1>1, <1>3, <1>5, <2>1, <2>2, <2>3, <2>4 DEF EndTarget, PPOk, Targets, Phases
<1> QED BY <1>7, <1>8

(* Conditional.                                                            *)
LEMMA ConditionalPP == PPOk /\ Conditional => PPOk'
<1> SUFFICES ASSUME PPOk, Conditional PROVE PPOk'
  OBVIOUS
<1>1. phase = "pp"
  BY DEF Conditional, Reading
<1>2. Next1 \in Frame(DOMAIN job.files) /\ Top \in Frame(DOMAIN job.files)
  BY <1>1, TopShape
<1>3. PICK b : b = ((Line.op = "ifdef") # (Line.n \in Keys(defines[unit])))
  OBVIOUS
<1>4. b \in BOOLEAN /\ Top.ignore \in BOOLEAN
  BY <1>2, <1>3 DEF Frame
<1>5. PICK s : s = Append(Next1.stack, Top.ignore)
  OBVIOUS
<1>6. s \in Seq(BOOLEAN)
  BY <1>2, <1>4, <1>5 DEF Frame
<1>7. PICK f : f = [Next1 EXCEPT !.stack = s, !.ignore = b]
  OBVIOUS
<1>8. f \in Frame(DOMAIN job.files)
  BY <1>2, <1>4, <1>6, <1>7 DEF Frame
<1>9. frames' = WithTop(f)
  BY <1>3, <1>5, <1>7 DEF Conditional
<1> QED BY <1>1, <1>8, <1>9, TopStep DEF Conditional, PPOk

(* Endif.                                                                  *)
LEMMA EndifPP == PPOk /\ Endif => PPOk'
<1> SUFFICES ASSUME PPOk, Endif PROVE PPOk'
  OBVIOUS
<1>1. phase = "pp" /\ Top.stack # <<>>
  BY DEF Endif, Reading
<1>2. Next1 \in Frame(DOMAIN job.files) /\ Next1.stack = Top.stack
  BY <1>1, TopShape DEF Next1, Frame
<1>3. PICK st \in Seq(BOOLEAN) : st = Top.stack
  BY <1>2 DEF Frame
<1>4. Len(st) \in Nat \ {0} /\ st[Len(st)] \in BOOLEAN
  BY <1>1, <1>3
<1>5. PICK s : s = SubSeq(st, 1, Len(st) - 1)
  OBVIOUS
<1>6. s \in Seq(BOOLEAN)
  BY <1>4, <1>5, SubSeqShape
<1>7. PICK f : f = [Next1 EXCEPT !.ignore = st[Len(st)], !.stack = s]
  OBVIOUS
<1>8. f \in Frame(DOMAIN job.files)
  BY <1>2, <1>4, <1>6, <1>7 DEF Frame
<1>9. frames' = WithTop(f)
  BY <1>2, <1>3, <1>5, <1>7 DEF Endif
<1> QED BY <1>1, <1>8, <1>9, TopStep DEF Endif, PPOk

(* Directives that go on with the next line.                               *)
LEMMA AdvancePP ==
  PPOk /\ (IgnoreInclude \/ Define \/ DefineFunc \/ Undef \/ Once \/ OtherDirective) => PPOk'
<1> SUFFICES ASSUME PPOk, IgnoreInclude \/ Define \/ DefineFunc \/ Undef \/ Once \/ OtherDirective PROVE PPOk'
  OBVIOUS
<1>1. phase = "pp" /\ Top.at <= Len(Text) /\ frames' = WithTop(Next1)
  BY DEF IgnoreInclude, Define, DefineFunc, Undef, Once, OtherDirective, Reading, Advance
<1>2. Line \in TextLine \cup DirectiveLine /\ Next1 \in Frame(DOMAIN job.files)
  BY <1>1, TopShape
<1>3. PICK defs, fs : defs = defines[unit] /\ fs = funcs[unit] /\ defs \in Pairs /\ fs \in Macros
  BY DEF PPOk
<1>4. CASE IgnoreInclude \/ Once \/ OtherDirective
  BY <1>1, <1>2, <1>4, TopStep DEF IgnoreInclude, Once, OtherDirective, PPOk
<1>5. CASE Define
  <2>1. Line.n \in STRING /\ Line.value \in STRING
    BY <1>2, <1>5, DirectiveShape DEF Define, Reading
  <2>2. PICK d \in Pairs : d = Put(defs, Line.n, Line.value)
    BY <1>3, <2>1, PutPairs
  <2>3. defines' = defines \/ defines' = [defines EXCEPT ![unit] = d]
    BY <1>3, <1>5, <2>2 DEF Define
  <2>4. defines' \in [Targets -> Pairs]
    BY <2>3 DEF PPOk
  <2> QED BY <1>1, <1>2, <1>5, <2>4, TopStep DEF Define, PPOk
<1>6. CASE DefineFunc
  <2>1. Line.n \in STRING /\ Line.params \in Seq(STRING) /\ Line.body \in Seq(TextLine)
    BY <1>2, <1>6, DirectiveShape DEF DefineFunc, Reading
  <2>2. PICK m \in Macro : m = [params |-> Line.params, body |-> Line.body]
    BY <2>1 DEF Macro
  <2>3. PICK g \in Macros : g = [k \in DOMAIN fs \cup {Line.n} |-> IF k = Line.n THEN m ELSE fs[k]]
    BY <1>3, <2>1, MacrosMore
  <2>4. funcs' = funcs \/ funcs' = [funcs EXCEPT ![unit] = g]
    BY <1>3, <1>6, <2>2, <2>3 DEF DefineFunc
  <2>5. funcs' \in [Targets -> Macros]
    BY <2>4 DEF PPOk
  <2> QED BY <1>1, <1>2, <1>6, <2>5, TopStep DEF DefineFunc, PPOk
<1>7. CASE Undef
  <2>1. Line.n \in STRING
    BY <1>2, <1>7, DirectiveShape DEF Undef, Reading
  <2>2. PICK d \in Pairs : d = Erase(defs, Line.n)
    BY <1>3, <2>1, ErasePairs
  <2>3. PICK g \in Macros : g = [k \in DOMAIN fs \ {Line.n} |-> fs[k]]
    BY <1>3, MacrosLess
  <2>4. defines' = defines \/ defines' = [defines EXCEPT ![unit] = d]
    BY <1>3, <1>7, <2>2 DEF Undef
  <2>5. funcs' = funcs \/ funcs' = [funcs EXCEPT ![unit] = g]
    BY <1>3, <1>7, <2>3 DEF Undef
  <2>6. defines' \in [Targets -> Pairs] /\ funcs' \in [Targets -> Macros]
    BY <2>4, <2>5 DEF PPOk
  <2> QED BY <1>1, <1>2, <1>7, <2>6, TopStep DEF Undef, PPOk
<1> QED BY <1>4, <1>5, <1>6, <1>7

(* The preprocessor keeps its types.                                       *)
LEMMA PreProcessingPP == PPOk /\ PPNext => PPOk'
<1>1. PPOk /\ (IncludeFails \/ Unbalanced) => PPOk'
  BY DEF IncludeFails, Unbalanced, Fail, ppVars, PPOk, Targets, Phases
<1> QED BY <1>1, OutputTextPP, IncludePP, EndIncludePP, EndTargetPP, ConditionalPP, EndifPP, AdvancePP DEF PPNext

(* The steps behind it leave its variables alone.                          *)
LEMMA LaterPP ==
  ASSUME PPOk, job' = job, UNCHANGED ppVars, phase \notin {"pp", "failed"}, phase' \in Phases \ {"pp"},
         unit' \in Targets
  PROVE  PPOk'
BY DEF PPOk, ppVars, Targets

(* At first.                                                               *)
LEMMA InitPP == Init => PPOk
<1> SUFFICES ASSUME Init PROVE PPOk
  OBVIOUS
<1>1. job \in Jobs /\ phase = "pp" /\ unit = 1 /\ frames = <<Call(job.targets[1])>> /\ sources = <<>>
      /\ defines = [t \in Targets |-> <<>>] /\ funcs = [t \in Targets |-> <<>>]
      /\ includeOnce = {} /\ bypass = [t \in Targets |-> {}]
  BY DEF Init, PPInit, Targets
<1>2. PICK c, F : c = Call(job.targets[1]) /\ F = Frame(DOMAIN job.files)
  OBVIOUS
<1>3. c \in F
  BY <1>1, <1>2, JobShape, CallFrame
<1>4. frames \in Seq(F) /\ frames # <<>>
  BY <1>1, <1>2, <1>3
<1>5. PICK e : e = <<>>
  OBVIOUS
<1>6. e \in Pairs
  BY <1>5 DEF Pairs
<1>7. e \in Macros
  <2>1. e \in [{} -> Macro] /\ {} \in SUBSET STRING
    BY <1>5
  <2> QED BY <2>1 DEF Macros
<1>8. defines \in [Targets -> Pairs] /\ funcs \in [Targets -> Macros]
  BY <1>1, <1>5, <1>6, <1>7
<1>9. sources \in Seq(Seq(TextLine)) /\ Len(sources) = 0 /\ bypass \in [Targets -> SUBSET includeOnce]
  BY <1>1
<1>10. Len(sources) <= Len(job.targets) /\ unit \in Targets
  BY <1>1, <1>9, JobShape
<1> QED BY <1>1, <1>2, <1>4, <1>8, <1>9, <1>10 DEF PPOk, Phases

-----------------------------------------------------------------------------
(* The parse.                                                              *)
(* What the fields of a line of text are.                                  *)
LEMMA TextShape ==
  ASSUME NEW line \in TextLine
  PROVE  /\ line.op \in Named => line.n \in STRING /\ line.loc \in BOOLEAN
         /\ line.op = "label" => line.kind \in {"plain", "export", "api", "extern"}
         /\ line.op = "static" => line.data \in Seq(Int)
         /\ line.op = "inline" => line.n \in STRING
BY DEF TextLine, Named

(* The line at work, and the op list of its unit.                          *)
LEMMA UnitShape ==
  ASSUME PPOk, ParseOk
  PROVE  /\ unit \in 1..Len(values) /\ Len(values) \in Nat /\ DOMAIN values = 1..Len(values)
         /\ values[unit] \in Seq(UOp)
         /\ Parsing => sources[unit] \in Seq(TextLine) /\ Src \in TextLine
<1>1. Targets = 1..Len(job.targets) /\ unit \in Targets /\ Len(job.targets) \in Nat
  BY JobShape DEF PPOk
<1>2. PICK T : T = Seq(UOp)
  OBVIOUS
<1>3. values \in Seq(T) /\ unit \in 1..Len(values)
  BY <1>1, <1>2 DEF ParseOk
<1>4. values[unit] \in Seq(UOp) /\ Len(values) \in Nat /\ DOMAIN values = 1..Len(values)
  BY <1>2, <1>3
<1>5. ASSUME Parsing PROVE sources[unit] \in Seq(TextLine) /\ Src \in TextLine
  <2>1. PICK U : U = Seq(TextLine)
    OBVIOUS
  <2>2. sources \in Seq(U) /\ Len(sources) = Len(job.targets)
    BY <1>5, <2>1 DEF PPOk, Parsing
  <2>3. sources[unit] \in U
    <3>1. unit \in 1..Len(sources)
      <4>1. job.targets \in Seq(DOMAIN job.files)
        BY JobShape DEF PPOk
      <4> QED BY <1>1, <2>2, <4>1
    <3>2. sources \in Seq(U)
      BY <2>2
    <3> QED BY <3>1, <3>2
  <2>4. at \in 1..Len(sources[unit])
    BY <1>5 DEF Parsing, ParseOk
  <2> QED BY <2>1, <2>3, <2>4 DEF Src
<1> QED BY <1>3, <1>4, <1>5

(* A label in full.                                                        *)
LEMMA FullLabel ==
  ASSUME ParseOk, NEW line \in TextLine, line.op \in Named, line.loc => last # None
  PROVE  Full(line) \in Seq(STRING) /\ Len(Full(line)) >= 1
<1>1. line.n \in STRING
  BY TextShape
<1>2. CASE line.loc
  <2>1. last \in Seq(STRING)
    BY <1>2 DEF ParseOk, LastLabel
  <2>2. Append(last, line.n) \in Seq(STRING) /\ Len(Append(last, line.n)) >= 1
    BY <1>1, <2>1
  <2> QED BY <1>2, <2>2 DEF Full
<1>3. CASE ~line.loc
  BY <1>1, <1>3 DEF Full
<1> QED BY <1>2, <1>3

(* A label made legal, with a name of its own behind it.                   *)
LEMMA RenamedLabel ==
  ASSUME ParseOk, GiveWords, NEW l \in Seq(STRING)
  PROVE  Renamed(l) \in Seq(STRING) /\ Len(Renamed(l)) >= 1
<1>1. PICK g \in STRING : g = Gen(generated + 1)
  <2>1. generated + 1 \in Nat
    BY DEF ParseOk
  <2>2. Gen(generated + 1) \in STRING
    BY <2>1 DEF GiveWords
  <2> QED BY <2>2
<1>2. PICK n \in Nat : n = Len(l) /\ DOMAIN l = 1..n
  OBVIOUS
<1>3. PICK s : s = [i \in 1..n |-> Legal(l[i])]
  OBVIOUS
<1>4. ASSUME NEW i \in 1..n PROVE Legal(l[i]) \in STRING
  <2>1. l[i] \in STRING
    BY <1>2
  <2> QED BY <2>1 DEF GiveWords
<1>5. s \in Seq(STRING)
  BY <1>2, <1>3, <1>4
<1>6. s \o <<g>> \in Seq(STRING) /\ Len(s \o <<g>>) >= 1
  BY <1>1, <1>5
<1> QED BY <1>1, <1>2, <1>3, <1>6 DEF Renamed

(* The map of renamed labels.                                              *)
LEMMA EmplaceRenaming ==
  ASSUME NEW map \in Renamings, NEW k \in Seq(STRING), NEW v \in Seq(STRING)
  PROVE  Emplace(map, k, v) \in Renamings
<1>1. PICK S \in SUBSET Seq(STRING) : map \in [S -> Seq(STRING)]
  BY DEF Renamings
<1>2. CASE k \in DOMAIN map
  BY <1>2 DEF Emplace
<1>3. CASE k \notin DOMAIN map
  <2>1. PICK g : g = [x \in S \cup {k} |-> IF x = k THEN v ELSE map[x]]
    OBVIOUS
  <2>2. g \in [S \cup {k} -> Seq(STRING)] /\ S \cup {k} \in SUBSET Seq(STRING)
    BY <1>1, <2>1
  <2>3. Emplace(map, k, v) = g
    BY <1>1, <1>3, <2>1 DEF Emplace
  <2> QED BY <2>2, <2>3 DEF Renamings
<1> QED BY <1>2, <1>3

(* A label of the map.                                                     *)
LEMMA RenamingAt ==
  ASSUME NEW map \in Renamings, NEW k \in DOMAIN map
  PROVE  map[k] \in Seq(STRING)
BY DEF Renamings

(* The op of a line: if it is an entry, it is a label of one segment.      *)
LEMMA OpOfLine ==
  ASSUME PPOk, ParseOk, GiveWords, Parsing, Src.op \in Named \cup {"ret", "inline"}, ~InvalidLocal
  PROVE  /\ OpOf(Src) \in UOp
         /\ OpOf(Src).op = Src.op
         /\ Renames(Src) => Full(Src) \in Seq(STRING)
         /\ OpOf(Src).op = "label" => LabelFormed(OpOf(Src))
<1>1. PICK line \in TextLine : line = Src
  BY UnitShape
<1>2. ASSUME line.op \in Named
      PROVE  /\ Full(line) \in Seq(STRING) /\ Len(Full(line)) >= 1
             /\ Renamed(Full(line)) \in Seq(STRING) /\ Len(Renamed(Full(line))) >= 1
  <2>1. line.loc => last # None
    BY <1>1, <1>2 DEF InvalidLocal
  <2>2. Full(line) \in Seq(STRING) /\ Len(Full(line)) >= 1
    BY <1>2, <2>1, FullLabel
  <2>3. Renamed(Full(line)) \in Seq(STRING) /\ Len(Renamed(Full(line))) >= 1
    BY <2>2, RenamedLabel
  <2> QED BY <2>2, <2>3
<1>3. PICK l0 : l0 = IF line.op \notin Named THEN <<>> ELSE IF Renames(line) THEN Renamed(Full(line)) ELSE Full(line)
  OBVIOUS
<1>4. l0 \in Seq(STRING)
  <2>1. CASE line.op \notin Named
    BY <1>3, <2>1
  <2>2. CASE line.op \in Named
    BY <1>2, <1>3, <2>2
  <2> QED BY <2>1, <2>2
<1>5. PICK l : l = IF line.op = "inline" THEN <<line.n>> ELSE l0
  OBVIOUS
<1>6. l \in Seq(STRING)
  <2>1. CASE line.op = "inline"
    <3>1. line.n \in STRING
      BY <2>1, TextShape
    <3> QED BY <1>5, <2>1, <3>1
  <2>2. CASE line.op # "inline"
    BY <1>4, <1>5, <2>2
  <2> QED BY <2>1, <2>2
<1>7. PICK kind : kind = IF line.op = "label" THEN LabelKind(line, l0) ELSE "plain"
  OBVIOUS
<1>8. kind \in LabelKinds
  BY <1>7, TextShape DEF LabelKind, LabelKinds
<1>9. PICK data : data = IF line.op = "static" THEN line.data ELSE <<>>
  OBVIOUS
<1>10. data \in Seq(Int)
  BY <1>9, TextShape
<1>11. PICK o : o = [op |-> line.op, l |-> l, kind |-> kind, data |-> data, line |-> at]
  OBVIOUS
<1>12. line.op \in OpNames \cup {"inline", "use", "useptr"} /\ at \in Nat
  BY <1>1 DEF Named, OpNames, ParseOk
<1>13. o \in UOp
  BY <1>6, <1>8, <1>10, <1>11, <1>12 DEF UOp
<1>14. OpOf(Src) = o
  BY <1>1, <1>3, <1>5, <1>7, <1>9, <1>11 DEF OpOf
<1>15. ASSUME o.op = "label" PROVE LabelFormed(o)
  <2>1. line.op = "label" /\ o.kind = LabelKind(line, l0) /\ o.l = l0 /\ line.op \in Named
    BY <1>5, <1>7, <1>11, <1>15 DEF Named
  <2>2. Len(l0) >= 1
    BY <1>2, <1>3, <2>1
  <2>3. ASSUME Entry(o.kind) PROVE Len(l0) = 1
    <3>1. Entry(line.kind)
      BY <2>1, <2>3 DEF LabelKind, Entry
    <3>2. ~line.loc /\ ~Renames(line)
      BY <1>1, <2>1, <3>1 DEF InvalidLocal, Renames
    <3>3. l0 = Full(line)
      BY <1>3, <2>1, <3>2
    <3>4. l0 = <<line.n>>
      BY <3>2, <3>3 DEF Full
    <3> QED BY <3>4
  <2> QED BY <2>1, <2>2, <2>3 DEF LabelFormed
<1>16. Renames(line) => Full(line) \in Seq(STRING)
  BY <1>2 DEF Renames, Named
<1> QED BY <1>1, <1>11, <1>13, <1>14, <1>15, <1>16

(* The nop behind an entry.                                                *)
LEMMA NopShape == NopOp \in UOp /\ NopOp.op = "nop"
BY DEF NopOp, UOp, OpNames, LabelKinds

(* More ops behind those of a unit.                                        *)
LEMMA OpsBehind ==
  ASSUME NEW p \in Seq(UOp), NEW s \in Seq(UOp), LabelsFormed(p),
         \A i \in 1..Len(s) : s[i].op = "label" => LabelFormed(s[i])
  PROVE  /\ p \o s \in Seq(UOp)
         /\ CallPos(p) \subseteq CallPos(p \o s)
         /\ LabelsFormed(p \o s)
<1>1. PICK q : q = p \o s
  OBVIOUS
<1>2. PICK n \in Nat, m \in Nat : n = Len(p) /\ m = Len(s)
  OBVIOUS
<1>3. q \in Seq(UOp) /\ Len(q) = n + m
  BY <1>1, <1>2, ConcatShape
<1>4. (\A i \in 1..n : q[i] = p[i]) /\ \A i \in 1..m : q[n + i] = s[i]
  BY <1>1, <1>2, ConcatShape
<1>5. ASSUME NEW i \in CallPos(p) PROVE i \in CallPos(q)
  <2>1. i \in 1..n /\ IsCallLike(p[i])
    BY <1>2 DEF CallPos
  <2>2. i \in 1..Len(q) /\ q[i] = p[i]
    BY <1>2, <1>3, <1>4, <2>1
  <2> QED BY <1>3, <2>1, <2>2 DEF CallPos
<1>6. ASSUME NEW i \in LabelPos(q) PROVE LabelFormed(q[i])
  <2>1. i \in 1..(n + m) /\ q[i].op = "label"
    BY <1>3 DEF LabelPos, IsLabel
  <2>2. CASE i <= n
    <3>1. i \in 1..n /\ q[i] = p[i]
      BY <1>2, <1>4, <2>1, <2>2
    <3>2. i \in LabelPos(p)
      BY <1>2, <1>6, <2>1, <3>1 DEF LabelPos, IsLabel
    <3> QED BY <3>1, <3>2 DEF LabelsFormed
  <2>3. CASE ~(i <= n)
    <3>1. i - n \in 1..m /\ n + (i - n) = i
      BY <1>2, <2>1, <2>3
    <3>2. q[i] = s[i - n]
      BY <1>4, <3>1
    <3> QED BY <1>2, <1>6, <2>1, <3>1, <3>2
  <2> QED BY <2>2, <2>3
<1>7. LabelsFormed(q)
  BY <1>6 DEF LabelsFormed
<1> QED BY <1>1, <1>3, <1>5, <1>7

(* Other ops of the unit at work.                                          *)
LEMMA UnitOps ==
  ASSUME PPOk, ParseOk, NEW q \in Seq(UOp), LabelsFormed(q), values' = [values EXCEPT ![unit] = q]
  PROVE  /\ values' \in Seq(Seq(UOp))
         /\ Len(values') = Len(values)
         /\ values'[unit] = q
         /\ \A u \in DOMAIN values' : LabelsFormed(values'[u])
<1>1. PICK T : T = Seq(UOp)
  OBVIOUS
<1>2. values \in Seq(T) /\ unit \in 1..Len(values) /\ Len(values) \in Nat
  BY <1>1, UnitShape DEF ParseOk
<1>3. PICK w : w = [values EXCEPT ![unit] = q]
  OBVIOUS
<1>4. w \in Seq(T) /\ Len(w) = Len(values) /\ w[unit] = q
  BY <1>1, <1>2, <1>3
<1>5. ASSUME NEW u \in DOMAIN w PROVE LabelsFormed(w[u])
  <2>1. u \in DOMAIN values /\ w[u] = IF u = unit THEN q ELSE values[u]
    BY <1>2, <1>3
  <2>2. LabelsFormed(values[u])
    BY <2>1 DEF ParseOk
  <2> QED BY <2>1, <2>2
<1> QED BY <1>1, <1>3, <1>4, <1>5

-----------------------------------------------------------------------------
(* A step that leaves the ops, and the labels that wait, alone.            *)
LEMMA OpsAlone ==
  ASSUME PPOk, ParseOk, UNCHANGED <<job, values, labelState, labelStack, generated>>,
         unit' = unit \/ (labelState = NoLabels /\ labelStack = <<>>),
         at' \in Nat \ {0}, last' \in LastLabel, lineStack' \in Seq(LastLabel),
         phase' \notin {"parse", "failed"} => labelState = NoLabels /\ labelStack = <<>>
  PROVE  ParseOk'
<1>1. labelState.pending \subseteq CallPos(values[unit'])
  BY DEF ParseOk, NoLabels
<1>2. \A i \in DOMAIN labelStack : labelStack[i].pending \subseteq CallPos(values[unit'])
  BY DEF ParseOk
<1>3. CallPos(values[unit])' = CallPos(values[unit'])
  BY DEF CallPos, IsCallLike
<1>4. \A u \in DOMAIN values' : LabelsFormed(values'[u])
  BY DEF ParseOk
<1> QED BY <1>1, <1>2, <1>3, <1>4 DEF ParseOk

(* The preprocessor, and what comes behind the parse.                      *)
LEMMA OthersParse ==
  ASSUME PPOk, ParseOk, UNCHANGED <<job, values, parseVars>>,
         \/ phase = "pp" /\ phase' \in {"pp", "parse", "failed"}
         \/ phase = phase' /\ unit' = unit
         \/ phase \in {"compile", "built"} /\ phase' \in {"compile", "built", "failed"}
  PROVE  ParseOk'
<1>1. phase \notin {"parse", "failed"} => labelState = NoLabels /\ labelStack = <<>>
  BY DEF ParseOk
<1>2. at' \in Nat \ {0} /\ last' \in LastLabel /\ lineStack' \in Seq(LastLabel)
  BY DEF ParseOk, parseVars
<1> QED BY <1>1, <1>2, OpsAlone DEF parseVars

(* PushLine, PopLine.                                                      *)
LEMMA LinesParse == PPOk /\ ParseOk /\ (PushLine \/ PopLine) => ParseOk'
<1> SUFFICES ASSUME PPOk, ParseOk, PushLine \/ PopLine PROVE ParseOk'
  OBVIOUS
<1>1. at \in Nat \ {0} /\ last \in LastLabel /\ lineStack \in Seq(LastLabel)
  BY DEF ParseOk
<1>2. at' \in Nat \ {0}
  BY <1>1 DEF PushLine, PopLine, NextLine
<1>3. last' \in LastLabel /\ lineStack' \in Seq(LastLabel)
  <2>1. CASE PushLine
    BY <1>1, <2>1 DEF PushLine
  <2>2. CASE PopLine
    <3>1. PICK n : n = Len(lineStack) /\ n \in Nat \ {0}
      BY <1>1, <2>2 DEF PopLine
    <3>2. lineStack[n] \in LastLabel /\ SubSeq(lineStack, 1, n - 1) \in Seq(LastLabel)
      BY <1>1, <3>1, SubSeqShape
    <3> QED BY <2>2, <3>1, <3>2 DEF PopLine
  <2> QED BY <2>1, <2>2
<1>4. phase = "parse" /\ phase' = "parse"
  BY DEF PushLine, PopLine, Parsing
<1> QED BY <1>2, <1>3, <1>4, OpsAlone DEF PushLine, PopLine

(* PushLabel.                                                              *)
LEMMA PushLabelParse == PPOk /\ ParseOk /\ PushLabel => ParseOk'
<1> SUFFICES ASSUME PPOk, ParseOk, PushLabel PROVE ParseOk'
  OBVIOUS
<1>1. PICK s : s = Append(labelStack, labelState)
  OBVIOUS
<1>2. PICK n \in Nat : n = Len(labelStack)
  BY DEF ParseOk
<1>3. s \in Seq(LabelState) /\ Len(s) = n + 1
  BY <1>1, <1>2 DEF ParseOk
<1>4. ASSUME NEW i \in DOMAIN s PROVE s[i].pending \subseteq CallPos(values[unit])
  <2>1. labelStack \in Seq(LabelState) /\ i \in 1..(n + 1)
    BY <1>3 DEF ParseOk
  <2>2. CASE i = n + 1
    <3>1. s[i] = labelState
      BY <1>1, <1>2, <2>1, <2>2
    <3> QED BY <3>1 DEF ParseOk
  <2>3. CASE i # n + 1
    <3>1. i \in DOMAIN labelStack /\ s[i] = labelStack[i]
      BY <1>1, <1>2, <2>1, <2>3
    <3> QED BY <3>1 DEF ParseOk
  <2> QED BY <2>2, <2>3
<1>5. phase' = "parse" /\ labelStack' = s /\ at' = at + 1
  BY <1>1 DEF PushLabel, Parsing, NextLine
<1>6. UNCHANGED <<job, unit, values, last, lineStack, labelState, generated>>
  BY DEF PushLabel
<1>7. CallPos(values[unit])' = CallPos(values[unit])
  BY <1>6 DEF CallPos, IsCallLike
<1>8. \A i \in DOMAIN labelStack' : labelStack'[i].pending \subseteq CallPos(values[unit])'
  BY <1>4, <1>5, <1>7
<1>9. labelState'.pending \subseteq CallPos(values[unit])'
  BY <1>6, <1>7 DEF ParseOk
<1>10. at' \in Nat \ {0}
  BY <1>5 DEF ParseOk
<1>11. \A u \in DOMAIN values' : LabelsFormed(values'[u])
  BY <1>6 DEF ParseOk
<1> QED BY <1>3, <1>5, <1>6, <1>8, <1>9, <1>10, <1>11 DEF ParseOk

(* Calls that wait get the name of their label.                            *)
LEMMA RenamedOps ==
  ASSUME NEW p \in Seq(UOp), LabelsFormed(p), labelState \in LabelState,
         labelState.pending \subseteq CallPos(p), NEW q,
         q = [i \in DOMAIN p |-> IF i \in labelState.pending THEN Rename(p[i]) ELSE p[i]]
  PROVE  q \in Seq(UOp) /\ LabelsFormed(q) /\ CallPos(q) = CallPos(p)
<1>1. PICK n \in Nat : n = Len(p) /\ DOMAIN p = 1..n
  OBVIOUS
<1>2. ASSUME NEW i \in 1..n
      PROVE  /\ q[i] \in UOp /\ q[i].op = p[i].op
             /\ IsLabel(p[i]) => q[i] = p[i]
  <2>1. p[i] \in UOp
    BY <1>1
  <2>2. CASE i \in labelState.pending /\ p[i].l \in DOMAIN labelState.map
    <3>1. PICK l \in Seq(STRING) : l = labelState.map[p[i].l]
      <4>1. labelState.map \in Renamings
        BY DEF LabelState
      <4> QED BY <2>2, <4>1, RenamingAt
    <3>2. q[i] = [p[i] EXCEPT !.l = l]
      BY <1>1, <2>2, <3>1 DEF Rename
    <3>3. IsCallLike(p[i])
      BY <2>2 DEF CallPos
    <3>4. ~IsLabel(p[i])
      BY <3>3 DEF IsCallLike, IsLabel
    <3>5. [p[i] EXCEPT !.l = l] \in UOp /\ [p[i] EXCEPT !.l = l].op = p[i].op
      BY <2>1, <3>1 DEF UOp
    <3> QED BY <3>2, <3>4, <3>5
  <2>3. CASE ~(i \in labelState.pending /\ p[i].l \in DOMAIN labelState.map)
    <3>1. q[i] = p[i]
      BY <1>1, <2>3 DEF Rename
    <3> QED BY <2>1, <3>1
  <2> QED BY <2>2, <2>3
<1>3. q = [i \in 1..n |-> q[i]]
  BY <1>1
<1>4. q \in Seq(UOp) /\ Len(q) = n /\ DOMAIN q = 1..n
  <2>1. \A i \in 1..n : q[i] \in UOp
    BY <1>2
  <2>2. q \in [1..n -> UOp]
    BY <1>3, <2>1
  <2> QED BY <2>2
<1>5. ASSUME NEW i \in LabelPos(q) PROVE LabelFormed(q[i])
  <2>1. i \in 1..n /\ IsLabel(q[i])
    BY <1>4 DEF LabelPos
  <2>2. IsLabel(p[i])
    BY <1>2, <2>1 DEF IsLabel
  <2>3. q[i] = p[i]
    BY <1>2, <2>1, <2>2
  <2>4. i \in LabelPos(p)
    BY <1>1, <2>1, <2>2 DEF LabelPos
  <2> QED BY <1>5, <2>3, <2>4 DEF LabelsFormed
<1>6. LabelsFormed(q)
  BY <1>5 DEF LabelsFormed
<1>7. CallPos(q) = CallPos(p)
  BY <1>1, <1>2, <1>4 DEF CallPos, IsCallLike
<1> QED BY <1>4, <1>6, <1>7

(* PopLabel.                                                               *)
LEMMA PopLabelParse == PPOk /\ ParseOk /\ PopLabel => ParseOk'
<1> SUFFICES ASSUME PPOk, ParseOk, PopLabel PROVE ParseOk'
  OBVIOUS
<1>1. PICK p \in Seq(UOp) : p = values[unit]
  BY UnitShape
<1>2. LabelsFormed(p)
  BY <1>1, UnitShape DEF ParseOk
<1>3. PICK q : q = [i \in DOMAIN values[unit] |->
                      IF i \in labelState.pending THEN Rename(values[unit][i]) ELSE values[unit][i]]
  OBVIOUS
<1>4. labelState \in LabelState /\ labelState.pending \subseteq CallPos(p)
  BY <1>1 DEF ParseOk
<1>5. q \in Seq(UOp) /\ LabelsFormed(q) /\ CallPos(q) = CallPos(p)
  <2>1. values[unit] \in Seq(UOp) /\ LabelsFormed(values[unit])
    BY <1>1, <1>2
  <2>2. labelState.pending \subseteq CallPos(values[unit])
    BY <1>1, <1>4
  <2> QED BY <1>1, <1>3, <1>4, <2>1, <2>2, RenamedOps
<1>6. values' = [values EXCEPT ![unit] = q]
  BY <1>3 DEF PopLabel
<1>7. /\ values' \in Seq(Seq(UOp)) /\ Len(values') = Len(values) /\ values'[unit] = q
      /\ \A u \in DOMAIN values' : LabelsFormed(values'[u])
  BY <1>5, <1>6, UnitOps
<1>8. labelStack \in Seq(LabelState) /\ labelStack # <<>>
  BY DEF PopLabel, ParseOk
<1>9. PICK n \in Nat : n = Len(labelStack) /\ n >= 1
  BY <1>8
<1>10. PICK s : s = SubSeq(labelStack, 1, n - 1)
  OBVIOUS
<1>11. s \in Seq(LabelState) /\ Len(s) = n - 1 /\ \A i \in 1..(n - 1) : s[i] = labelStack[i]
  BY <1>8, <1>9, <1>10, SubSeqShape
<1>12. /\ labelStack[n] \in LabelState /\ labelStack[n].pending \subseteq CallPos(p)
       /\ \A i \in 1..(n - 1) : labelStack[i].pending \subseteq CallPos(p)
  <2>1. \A i \in DOMAIN labelStack : labelStack[i].pending \subseteq CallPos(p)
    BY <1>1 DEF ParseOk
  <2>2. DOMAIN labelStack = 1..n /\ n \in 1..n /\ \A i \in 1..(n - 1) : i \in 1..n
    BY <1>8, <1>9
  <2>3. labelStack[n] \in LabelState
    BY <1>8, <2>2
  <2> QED BY <2>1, <2>2, <2>3
<1>13. /\ labelState' = labelStack[n] /\ labelStack' = s /\ phase' = "parse" /\ at' = at + 1
       /\ UNCHANGED <<job, unit, last, lineStack, generated>>
  BY <1>9, <1>10 DEF PopLabel, PoppedState, Parsing, NextLine
<1>14. CallPos(values[unit])' = CallPos(p)
  <2>1. values'[unit'] = q
    BY <1>7, <1>13
  <2> QED BY <1>5, <2>1 DEF CallPos, IsCallLike
<1>15. ASSUME NEW i \in DOMAIN s PROVE s[i].pending \subseteq CallPos(p)
  <2>1. DOMAIN s = 1..(n - 1)
    <3>0. n - 1 \in Nat
      BY <1>9
    <3>1. PICK m \in Nat : m = n - 1
      BY <3>0
    <3>2. s \in Seq(LabelState) /\ Len(s) = m
      BY <1>11, <3>1
    <3>3. DOMAIN s = 1..m
      BY <3>2
    <3> QED BY <3>1, <3>3
  <2> QED BY <1>11, <1>12, <2>1
<1>16. \A i \in DOMAIN labelStack' : labelStack'[i].pending \subseteq CallPos(values[unit])'
  BY <1>13, <1>14, <1>15
<1>17. labelState'.pending \subseteq CallPos(values[unit])'
  BY <1>12, <1>13, <1>14
<1>18. at' \in Nat \ {0} /\ Len(values') = Len(job'.targets)
  BY <1>7, <1>13 DEF ParseOk
<1>19. labelState' \in LabelState /\ labelStack' \in Seq(LabelState)
  BY <1>11, <1>12, <1>13
<1> QED BY <1>7, <1>13, <1>16, <1>17, <1>18, <1>19 DEF ParseOk

(* ParseOp.                                                                *)
LEMMA ParseOpParse == PPOk /\ ParseOk /\ GiveWords /\ ParseOp => ParseOk'
<1> SUFFICES ASSUME PPOk, ParseOk, GiveWords, ParseOp PROVE ParseOk'
  OBVIOUS
<1>1. Parsing /\ Src.op \in Named \cup {"ret", "inline"} /\ ~InvalidLocal
  BY DEF ParseOp
<1>2. PICK o \in UOp : /\ o = OpOf(Src) /\ o.op = Src.op
                       /\ Renames(Src) => Full(Src) \in Seq(STRING)
                       /\ o.op = "label" => LabelFormed(o)
  BY <1>1, OpOfLine
<1>3. PICK p \in Seq(UOp) : p = values[unit]
  BY UnitShape
<1>4. PICK s : s = IF Src.op = "label" /\ Src.kind \in {"export", "api"} THEN <<o, NopOp>> ELSE <<o>>
  OBVIOUS
<1>5. s \in Seq(UOp) /\ Len(s) >= 1 /\ s[1] = o /\ \A i \in 1..Len(s) : s[i].op = "label" => s[i] = o
  <2>1. PICK nop \in UOp : nop = NopOp /\ nop.op = "nop"
    BY NopShape
  <2>2. CASE s = <<o, nop>>
    <3>1. \A i \in 1..2 : i = 1 \/ i = 2
      OBVIOUS
    <3> QED BY <2>1, <2>2, <3>1
  <2>3. CASE s = <<o>>
    BY <2>3
  <2> QED BY <1>4, <2>1, <2>2, <2>3
<1>6. PICK q : q = p \o s
  OBVIOUS
<1>7. q \in Seq(UOp) /\ CallPos(p) \subseteq CallPos(q) /\ LabelsFormed(q)
  <2>1. LabelsFormed(p)
    BY <1>3, UnitShape DEF ParseOk
  <2>2. \A i \in 1..Len(s) : s[i].op = "label" => LabelFormed(s[i])
    BY <1>2, <1>5
  <2> QED BY <1>5, <1>6, <2>1, <2>2, OpsBehind
<1>8. values' = [values EXCEPT ![unit] = q]
  BY <1>2, <1>3, <1>4, <1>6 DEF ParseOp
<1>9. /\ values' \in Seq(Seq(UOp)) /\ Len(values') = Len(values) /\ values'[unit] = q
      /\ \A u \in DOMAIN values' : LabelsFormed(values'[u])
  BY <1>7, <1>8, UnitOps
<1>10. UNCHANGED <<job, phase, unit, lineStack, labelStack>> /\ at' = at + 1 /\ phase = "parse"
  BY <1>1 DEF ParseOp, NextLine, Parsing
<1>11. CallPos(values[unit])' = CallPos(q)
  <2>1. values'[unit'] = q
    BY <1>9, <1>10
  <2> QED BY <2>1 DEF CallPos, IsCallLike
<1>12. labelState' \in LabelState /\ labelState'.pending \subseteq CallPos(q)
  <2>1. labelState \in LabelState /\ labelState.pending \subseteq CallPos(q)
    BY <1>3, <1>7 DEF ParseOk
  <2>2. PICK m \in Renamings, w \in SUBSET Nat : m = labelState.map /\ w = labelState.pending
    BY <2>1 DEF LabelState
  <2>3. CASE Renames(Src)
    <3>1. PICK e \in Renamings : e = Emplace(m, Full(Src), o.l)
      <4>1. o.l \in Seq(STRING)
        BY DEF UOp
      <4> QED BY <1>2, <2>3, <4>1, EmplaceRenaming
    <3>2. labelState' = [labelState EXCEPT !.map = e]
      <4>1. ~IsCallLike(o)
        BY <1>2, <2>3 DEF Renames, IsCallLike
      <4>2. labelState' = [labelState EXCEPT !.map = Emplace(@, Full(Src), o.l)]
        BY <1>2, <2>3, <4>1 DEF ParseOp
      <4> QED BY <2>2, <3>1, <4>2
    <3>3. [labelState EXCEPT !.map = e] \in LabelState /\ [labelState EXCEPT !.map = e].pending = w
      BY <2>1, <2>2, <3>1 DEF LabelState
    <3> QED BY <2>1, <2>2, <3>2, <3>3
  <2>4. CASE ~Renames(Src) /\ IsCallLike(o) /\ labelStack # <<>>
    <3>1. PICK k \in Nat : k = Len(p) + 1
      OBVIOUS
    <3>2. labelState' = [labelState EXCEPT !.pending = w \cup {k}]
      BY <1>2, <1>3, <2>2, <2>4, <3>1 DEF ParseOp
    <3>3. k \in CallPos(q)
      <4>1. q[k] = o /\ k \in 1..Len(q)
        <5>1. Len(q) = Len(p) + Len(s) /\ \A i \in 1..Len(s) : q[Len(p) + i] = s[i]
          BY <1>5, <1>6, ConcatShape
        <5>2. 1 \in 1..Len(s) /\ Len(s) \in Nat /\ Len(p) \in Nat
          BY <1>5
        <5> QED BY <1>5, <3>1, <5>1, <5>2
      <4> QED BY <1>7, <2>4, <4>1 DEF CallPos
    <3>4. PICK x : x = w \cup {k}
      OBVIOUS
    <3>5. x \in SUBSET Nat /\ x \subseteq CallPos(q)
      BY <2>1, <2>2, <3>3, <3>4
    <3>6. [labelState EXCEPT !.pending = x] \in LabelState /\ [labelState EXCEPT !.pending = x].pending = x
      BY <2>1, <3>5 DEF LabelState
    <3> QED BY <3>2, <3>4, <3>5, <3>6
  <2>5. CASE ~Renames(Src) /\ ~(IsCallLike(o) /\ labelStack # <<>>)
    <3>1. labelState' = labelState
      BY <1>2, <2>5 DEF ParseOp
    <3> QED BY <2>1, <3>1
  <2> QED BY <2>3, <2>4, <2>5
<1>13. \A i \in DOMAIN labelStack' : labelStack'[i].pending \subseteq CallPos(values[unit])'
  BY <1>3, <1>7, <1>10, <1>11 DEF ParseOk
<1>14. last' \in LastLabel /\ generated' \in Nat /\ at' \in Nat \ {0}
  <2>1. last' = o.l \/ last' = last
    BY <1>2 DEF ParseOp
  <2>2. o.l \in LastLabel /\ last \in LastLabel /\ generated \in Nat /\ at \in Nat
    BY DEF UOp, LastLabel, ParseOk
  <2>3. generated' = generated + 1 \/ generated' = generated
    BY DEF ParseOp
  <2>4. generated' \in Nat /\ at' \in Nat \ {0}
    BY <1>10, <2>2, <2>3
  <2> QED BY <2>1, <2>2, <2>4
<1>15. Len(values') = Len(job'.targets) /\ lineStack' \in Seq(LastLabel) /\ labelStack' \in Seq(LabelState)
  BY <1>9, <1>10 DEF ParseOk
<1>16. labelState'.pending \subseteq CallPos(values[unit])'
  BY <1>11, <1>12
<1> QED BY <1>9, <1>10, <1>12, <1>13, <1>14, <1>15, <1>16 DEF ParseOk

(* A scope without labels.                                                 *)
LEMMA NoLabelsShape == NoLabels \in LabelState /\ NoLabels.pending = {}
<1>1. PICK e : e = <<>>
  OBVIOUS
<1>2. e \in [{} -> Seq(STRING)] /\ {} \in SUBSET Seq(STRING)
  BY <1>1
<1>3. e \in Renamings
  BY <1>2 DEF Renamings
<1> QED BY <1>1, <1>3 DEF NoLabels, LabelState

(* EndParse.                                                               *)
LEMMA EndParseParse == PPOk /\ ParseOk /\ EndParse => ParseOk'
<1> SUFFICES ASSUME PPOk, ParseOk, EndParse PROVE ParseOk'
  OBVIOUS
<1>1. /\ at' = 1 /\ last' = None /\ lineStack' = <<>> /\ labelState' = NoLabels /\ labelStack' = <<>>
      /\ generated' = 0 /\ job' = job /\ values' = values
  BY DEF EndParse
<1>2. labelState' \in LabelState /\ labelState'.pending = {} /\ labelStack' \in Seq(LabelState)
  BY <1>1, NoLabelsShape
<1>3. last' \in LastLabel /\ lineStack' \in Seq(LastLabel) /\ generated' \in Nat /\ at' \in Nat \ {0}
  BY <1>1 DEF LastLabel
<1>4. DOMAIN labelStack' = {}
  BY <1>1
<1>5. labelState'.pending \subseteq CallPos(values[unit])'
  BY <1>2
<1>6. \A i \in DOMAIN labelStack' : labelStack'[i].pending \subseteq CallPos(values[unit])'
  BY <1>4
<1>7. \A u \in DOMAIN values' : LabelsFormed(values'[u])
  BY <1>1 DEF ParseOk
<1>8. values' \in Seq(Seq(UOp)) /\ Len(values') = Len(job'.targets)
  BY <1>1 DEF ParseOk
<1> QED BY <1>1, <1>2, <1>3, <1>5, <1>6, <1>7, <1>8 DEF ParseOk

(* Blocks that are left out become nops, but their statics stay.           *)
LEMMA PruneShape ==
  ASSUME NEW p \in Seq(UOp)
  PROVE  /\ Prune(p) \in Seq(UOp) /\ Len(Prune(p)) = Len(p)
         /\ \A i \in 1..Len(p) : \/ Prune(p)[i] = p[i]
                                 \/ Prune(p)[i].op = "nop" /\ p[i].op # "static"
<1>1. PICK n \in Nat : n = Len(p)
  OBVIOUS
<1>2. PICK q : q = Prune(p)
  OBVIOUS
<1>3. PICK unused : unused = LabelPos(p) \ Keep(p)
  OBVIOUS
<1>4. q = [i \in 1..n |-> IF Erased(p, unused, i) THEN [p[i] EXCEPT !.op = "nop"] ELSE p[i]]
  BY <1>1, <1>2, <1>3 DEF Prune
<1>5. ASSUME NEW i \in 1..n
      PROVE  q[i] \in UOp /\ (q[i] = p[i] \/ (q[i].op = "nop" /\ p[i].op # "static"))
  <2>1. p[i] \in UOp
    BY <1>1
  <2>2. CASE Erased(p, unused, i)
    <3>1. q[i] = [p[i] EXCEPT !.op = "nop"]
      BY <1>4, <2>2
    <3>2. PICK b \in unused : (i = b \/ InBlock(p, b, i)) /\ \A j \in b..i : p[j].op # "static"
      BY <2>2 DEF Erased
    <3>3. b \in 1..n
      BY <1>1, <1>3 DEF LabelPos
    <3>4. i \in b..i
      BY <1>1, <3>2, <3>3 DEF InBlock
    <3>5. [p[i] EXCEPT !.op = "nop"] \in UOp /\ [p[i] EXCEPT !.op = "nop"].op = "nop"
      BY <2>1 DEF UOp, OpNames
    <3> QED BY <3>1, <3>2, <3>4, <3>5
  <2>3. CASE ~Erased(p, unused, i)
    BY <1>4, <2>1, <2>3
  <2> QED BY <2>2, <2>3
<1>6. q \in Seq(UOp) /\ Len(q) = n
  <2>1. q = [i \in 1..n |-> q[i]]
    BY <1>4
  <2>2. \A i \in 1..n : q[i] \in UOp
    BY <1>5
  <2>3. q \in [1..n -> UOp]
    BY <2>1, <2>2
  <2> QED BY <2>3
<1> QED BY <1>1, <1>2, <1>5, <1>6

(* What that keeps: entries, statics, and no new uses.                     *)
LEMMA PruneKeeps ==
  ASSUME NEW p \in Seq(UOp)
  PROVE  /\ LabelsFormed(p) => LabelsFormed(Prune(p))
         /\ Declared(p) => Declared(Prune(p))
<1>1. PICK q : q = Prune(p)
  OBVIOUS
<1>2. PICK n \in Nat : n = Len(p) /\ DOMAIN p = 1..n /\ DOMAIN q = 1..n /\ Len(q) = n /\ q \in Seq(UOp)
  BY <1>1, PruneShape
<1>3. ASSUME NEW i \in 1..n PROVE q[i] = p[i] \/ (q[i].op = "nop" /\ p[i].op # "static")
  BY <1>1, <1>2, PruneShape
<1>4. ASSUME LabelsFormed(p) PROVE LabelsFormed(q)
  <2> SUFFICES ASSUME NEW i \in LabelPos(q) PROVE LabelFormed(q[i])
    BY DEF LabelsFormed
  <2>1. i \in 1..n /\ q[i].op = "label"
    BY <1>2 DEF LabelPos, IsLabel
  <2>2. q[i] = p[i]
    BY <1>3, <2>1
  <2>3. i \in LabelPos(p)
    BY <1>2, <2>1, <2>2 DEF LabelPos, IsLabel
  <2> QED BY <1>4, <2>2, <2>3 DEF LabelsFormed
<1>5. StaticsOf(q) = StaticsOf(p) /\ \A i \in StaticsOf(p) : q[i] = p[i]
  BY <1>2, <1>3 DEF StaticsOf
<1>6. \A i \in Uses(q) : i \in Uses(p) /\ q[i] = p[i]
  BY <1>2, <1>3 DEF Uses
<1>7. ASSUME Declared(p) PROVE Declared(q)
  <2>1. SymbolsUnique(q)
    BY <1>5, <1>7 DEF Declared, SymbolsUnique
  <2>2. ASSUME NEW i \in Uses(q) PROVE \E k \in StaticsOf(q) : q[k].l = q[i].l
    <3>1. i \in Uses(p) /\ q[i] = p[i]
      BY <1>6
    <3>2. PICK k \in StaticsOf(p) : p[k].l = p[i].l
      BY <1>7, <3>1 DEF Declared, SymbolsDeclared
    <3> QED BY <1>5, <3>1, <3>2
  <2> QED BY <2>1, <2>2 DEF Declared, SymbolsDeclared
<1> QED BY <1>1, <1>4, <1>7

(* Verify.                                                                 *)
LEMMA VerifyParse ==
  ASSUME PPOk, ParseOk, Verify
  PROVE  /\ ParseOk'
         /\ phase' = "compile" => \A u \in DOMAIN values' : Declared(values'[u])
<1>1. phase = "verify" /\ UNCHANGED <<job, unit, parseVars>> /\ phase' \in {"compile", "failed"}
  BY DEF Verify
<1>2. labelState = NoLabels /\ labelStack = <<>>
  BY <1>1 DEF ParseOk
<1>3. CASE ~Valid
  <2>1. values' = values /\ phase' = "failed"
    BY <1>3 DEF Verify
  <2>2. UNCHANGED <<labelState, labelStack, generated, job, values, unit>>
    BY <1>1, <2>1 DEF parseVars
  <2>3. at' \in Nat \ {0} /\ last' \in LastLabel /\ lineStack' \in Seq(LastLabel)
    BY <1>1 DEF parseVars, ParseOk
  <2> QED BY <1>2, <2>1, <2>2, <2>3, OpsAlone
<1>4. CASE Valid
  <2>1. PICK w : w = [u \in DOMAIN values |-> Prune(values[u])]
    OBVIOUS
  <2>2. values' = w
    BY <1>4, <2>1 DEF Verify
  <2>3. PICK T : T = Seq(UOp)
    OBVIOUS
  <2>4. PICK n \in Nat : n = Len(values) /\ DOMAIN values = 1..n
    BY <2>3 DEF ParseOk
  <2>5. ASSUME NEW u \in 1..n
        PROVE  w[u] \in T /\ LabelsFormed(w[u]) /\ Declared(w[u])
    <3>1. PICK p \in Seq(UOp) : p = values[u]
      <4>1. values \in Seq(T)
        BY <2>3 DEF ParseOk
      <4>2. values[u] \in T
        BY <2>4, <4>1
      <4> QED BY <2>3, <4>2
    <3>2. LabelsFormed(p)
      BY <2>4, <3>1 DEF ParseOk
    <3>3. Declared(p)
      BY <1>4, <2>4, <3>1 DEF Valid, Declared
    <3>4. w[u] = Prune(p)
      BY <2>1, <2>4, <3>1
    <3> QED BY <2>3, <3>2, <3>3, <3>4, PruneShape, PruneKeeps
  <2>6. w \in Seq(T) /\ Len(w) = n /\ DOMAIN w = 1..n
    <3>1. \A u \in 1..n : w[u] \in T
      BY <2>5
    <3>2. w = [u \in 1..n |-> w[u]]
      BY <2>1, <2>4
    <3>3. w \in [1..n -> T]
      BY <3>1, <3>2
    <3> QED BY <3>3
  <2>7. \A u \in DOMAIN values' : LabelsFormed(values'[u]) /\ Declared(values'[u])
    BY <2>2, <2>5, <2>6
  <2>8. values' \in Seq(Seq(UOp)) /\ Len(values') = Len(job'.targets)
    <3>1. Len(values') = Len(values) /\ job' = job
      BY <1>1, <2>2, <2>4, <2>6
    <3> QED BY <2>2, <2>3, <2>6, <3>1 DEF ParseOk
  <2>9. /\ at' = at /\ last' = last /\ lineStack' = lineStack /\ generated' = generated
        /\ labelState' = NoLabels /\ labelStack' = <<>>
    BY <1>1, <1>2 DEF parseVars
  <2>10. /\ labelState'.pending \subseteq CallPos(values[unit])'
         /\ \A i \in DOMAIN labelStack' : labelStack'[i].pending \subseteq CallPos(values[unit])'
    <3>1. labelState'.pending = {} /\ DOMAIN labelStack' = {}
      BY <2>9, NoLabelsShape
    <3> QED BY <3>1
  <2>11. labelState' \in LabelState /\ labelStack' \in Seq(LabelState)
    BY <2>9, NoLabelsShape
  <2>12. at' \in Nat \ {0} /\ last' \in LastLabel /\ lineStack' \in Seq(LastLabel) /\ generated' \in Nat
    BY <2>9 DEF ParseOk
  <2> QED BY <2>7, <2>8, <2>9, <2>10, <2>11, <2>12 DEF ParseOk
<1> QED BY <1>3, <1>4

(* At first.                                                               *)
LEMMA InitParse == Init => ParseOk
<1> SUFFICES ASSUME Init PROVE ParseOk
  OBVIOUS
<1>1. /\ at = 1 /\ last = None /\ lineStack = <<>> /\ labelState = NoLabels /\ labelStack = <<>>
      /\ generated = 0 /\ job \in Jobs /\ unit = 1
  BY DEF Init, PPInit
<1>2. values = [t \in Targets |-> <<>>]
  BY DEF Init, Targets
<1>3. PICK n \in Nat : n = Len(job.targets) /\ Targets = 1..n
  BY <1>1, JobShape
<1>4. PICK e, T : e = <<>> /\ T = Seq(UOp)
  OBVIOUS
<1>5. e \in T /\ LabelsFormed(e)
  <2>1. LabelPos(e) = {}
    BY <1>4 DEF LabelPos
  <2> QED BY <1>4, <2>1 DEF LabelsFormed
<1>6. values = [t \in 1..n |-> e]
  BY <1>2, <1>3, <1>4
<1>7. values \in [1..n -> T]
  BY <1>5, <1>6
<1>8. values \in Seq(T) /\ Len(values) = n /\ \A u \in DOMAIN values : LabelsFormed(values[u])
  <2>1. values \in Seq(T) /\ Len(values) = n
    BY <1>7
  <2>2. \A u \in DOMAIN values : values[u] = e
    BY <1>6
  <2> QED BY <1>5, <2>1, <2>2
<1>9. labelState \in LabelState /\ labelState.pending = {} /\ DOMAIN labelStack = {} /\ labelStack \in Seq(LabelState)
  BY <1>1, NoLabelsShape
<1>10. last \in LastLabel /\ lineStack \in Seq(LastLabel) /\ generated \in Nat /\ at \in Nat \ {0}
  BY <1>1 DEF LastLabel
<1>11. labelState.pending \subseteq CallPos(values[unit])
  BY <1>9
<1>12. \A i \in DOMAIN labelStack : labelStack[i].pending \subseteq CallPos(values[unit])
  BY <1>9
<1> QED BY <1>1, <1>3, <1>4, <1>8, <1>9, <1>10, <1>11, <1>12 DEF ParseOk

-----------------------------------------------------------------------------
(* The layout of the static data.                                          *)
(* t starts with s.                                                        *)
Begins(s, t) == Len(s) <= Len(t) /\ \A d \in 1..Len(s) : t[d] = s[d]

(* What op i of unit p lays down.                                          *)
Piece(p, i) == IF Laid(p, i) THEN p[i].data ELSE <<>>

(* f lays out unit p.                                                      *)
LaysOut(f, p) ==
  /\ f[0] = <<>>
  /\ \A i \in 0..Len(p) : f[i] \in Seq(Int)
  /\ \A i \in 1..Len(p) : f[i] = f[i - 1] \o Piece(p, i)

(* The data of one op.                                                     *)
LEMMA PieceShape ==
  ASSUME NEW p \in Seq(UOp), NEW i \in 1..Len(p)
  PROVE  Piece(p, i) \in Seq(Int)
<1>1. p[i] \in UOp
  OBVIOUS
<1>2. p[i].data \in Seq(Int)
  BY <1>1 DEF UOp
<1> QED BY <1>2 DEF Piece

(* There is a layout.                                                      *)
LEMMA LayoutShape ==
  ASSUME NEW p \in Seq(UOp)
  PROVE  LaysOut(Layout(p), p)
<1>1. PICK n \in Nat : n = Len(p)
  OBVIOUS
<1>2. PICK T, e : T = Seq(Int) /\ e = <<>>
  OBVIOUS
<1>20. e \in T
  BY <1>2
<1>3. PICK G : G = [i \in 1..n |-> [t \in T |-> t \o Piece(p, i)]]
  OBVIOUS
<1>4. ASSUME NEW i \in 1..n, NEW t \in T PROVE t \o Piece(p, i) \in T
  <2>1. Piece(p, i) \in Seq(Int)
    BY <1>1, PieceShape
  <2> QED BY <1>2, <2>1
<1>5. G \in Steps(T, n)
  BY <1>3, <1>4 DEF Steps
<1>6. PICK f \in [0..n -> T] : Carried(f, e, n, G)
  BY <1>5, <1>20, CarriedExists
<1> DEFINE Is(g) == g = [i \in 0..Len(p) |->
                          IF i = 0 THEN <<>> ELSE g[i - 1] \o (IF Laid(p, i) THEN p[i].data ELSE <<>>)]
<1>7. ASSUME NEW i \in 0..n
      PROVE  f[i] = IF i = 0 THEN <<>> ELSE f[i - 1] \o (IF Laid(p, i) THEN p[i].data ELSE <<>>)
  <2>1. CASE i = 0
    BY <1>2, <1>6, <2>1 DEF Carried
  <2>2. CASE i # 0
    <3>1. i \in 1..n /\ i - 1 \in 0..n
      BY <2>2
    <3>2. f[i] = G[i][f[i - 1]] /\ f[i - 1] \in T
      BY <1>6, <3>1 DEF Carried
    <3>3. f[i] = f[i - 1] \o Piece(p, i)
      BY <1>3, <3>1, <3>2
    <3> QED BY <2>2, <3>3 DEF Piece
  <2> QED BY <2>1, <2>2
<1>8. Is(f)
  BY <1>1, <1>6, <1>7
<1>9. PICK h : h = CHOOSE g : Is(g)
  OBVIOUS
<1>10. Is(h)
  BY <1>8, <1>9
<1>11. Layout(p) = h
  BY <1>9 DEF Layout
<1>12. h[0] = <<>>
  BY <1>1, <1>10
<1>13. ASSUME NEW i \in 1..n PROVE h[i] = h[i - 1] \o Piece(p, i)
  <2>1. i \in 0..Len(p) /\ i # 0
    BY <1>1
  <2> QED BY <1>10, <2>1 DEF Piece
<1>14. PICK S : S = {i \in 0..n : h[i] \in T}
  OBVIOUS
<1>15. 0 \in S
  <2>1. h[0] \in T /\ 0 \in 0..n
    BY <1>2, <1>12, <1>20
  <2> QED BY <1>14, <2>1
<1>16. ASSUME NEW i \in 1..n, i - 1 \in S PROVE i \in S
  <2>1. h[i - 1] \in T /\ i \in 0..n
    BY <1>14, <1>16
  <2>2. h[i - 1] \o Piece(p, i) \in T
    BY <1>4, <2>1
  <2> QED BY <1>13, <1>14, <2>1, <2>2
<1>17. 0..n \subseteq S
  BY <1>1, <1>15, <1>16, UpTo
<1>18. \A i \in 0..n : h[i] \in T
  BY <1>14, <1>17
<1> QED BY <1>1, <1>2, <1>11, <1>12, <1>13, <1>18 DEF LaysOut

(* A sequence starts with what is put in front.                            *)
LEMMA BeginsConcat ==
  ASSUME NEW r \in Seq(Int), NEW s \in Seq(Int), NEW t \in Seq(Int), Begins(r, s)
  PROVE  Begins(r, s \o t)
<1>1. PICK x, n, m : x = s \o t /\ n = Len(r) /\ m = Len(s)
  OBVIOUS
<1>2. n \in Nat /\ m \in Nat /\ n <= m /\ \A d \in 1..n : s[d] = r[d]
  BY <1>1 DEF Begins
<1>3. Len(x) = m + Len(t) /\ Len(t) \in Nat /\ \A d \in 1..m : x[d] = s[d]
  BY <1>1, ConcatShape
<1>4. ASSUME NEW d \in 1..n PROVE x[d] = r[d]
  <2>1. d \in 1..m
    BY <1>2
  <2> QED BY <1>2, <1>3, <2>1
<1>5. n <= Len(x)
  BY <1>2, <1>3
<1> QED BY <1>1, <1>4, <1>5 DEF Begins

(* What is laid down stays at its place.                                   *)
LEMMA LayoutGrows ==
  ASSUME NEW p \in Seq(UOp), NEW f, LaysOut(f, p), NEW i \in 0..Len(p)
  PROVE  Begins(f[i], f[Len(p)])
<1>1. PICK n \in Nat : n = Len(p)
  OBVIOUS
<1>2. PICK S : S = {j \in 0..n : i <= j => Begins(f[i], f[j])}
  OBVIOUS
<1>3. ASSUME NEW j \in 0..n PROVE f[j] \in Seq(Int)
  BY <1>1 DEF LaysOut
<1>4. ASSUME NEW j \in 0..n, i = j PROVE Begins(f[i], f[j])
  <2>1. f[j] \in Seq(Int)
    BY <1>3
  <2> QED BY <1>4, <2>1 DEF Begins
<1>5. 0 \in S
  BY <1>1, <1>2, <1>4
<1>6. ASSUME NEW j \in 1..n, j - 1 \in S PROVE j \in S
  <2>1. CASE i <= j - 1
    <3>1. j \in 0..n /\ j - 1 \in 0..n /\ j \in 1..Len(p)
      BY <1>1
    <3>2. f[j] = f[j - 1] \o Piece(p, j) /\ Piece(p, j) \in Seq(Int)
      BY <3>1, PieceShape DEF LaysOut
    <3>3. Begins(f[i], f[j - 1])
      BY <1>2, <1>6, <2>1
    <3>4. f[i] \in Seq(Int) /\ f[j - 1] \in Seq(Int)
      BY <1>1, <1>3, <3>1
    <3>5. Begins(f[i], f[j])
      BY <3>2, <3>3, <3>4, BeginsConcat
    <3> QED BY <1>2, <3>1, <3>5
  <2>2. CASE i = j
    BY <1>2, <1>4, <2>2
  <2>3. CASE i > j
    BY <1>1, <1>2, <2>3
  <2> QED BY <1>1, <2>1, <2>2, <2>3
<1>7. 0..n \subseteq S
  BY <1>5, <1>6, UpTo
<1> QED BY <1>1, <1>2, <1>7

(* The data of op k stands where the ops before it end.                    *)
LEMMA PieceStands ==
  ASSUME NEW p \in Seq(UOp), NEW f, LaysOut(f, p), NEW k \in 1..Len(p), Laid(p, k)
  PROVE  /\ Len(f[k - 1]) \in Nat
         /\ Len(f[k - 1]) + Len(p[k].data) <= Len(f[Len(p)])
         /\ \A j \in 1..Len(p[k].data) : f[Len(p)][Len(f[k - 1]) + j] = p[k].data[j]
<1>1. PICK n \in Nat : n = Len(p)
  OBVIOUS
<1>2. PICK s, t, u : s = f[k - 1] /\ t = p[k].data /\ u = f[k]
  OBVIOUS
<1>3. k - 1 \in 0..Len(p) /\ k \in 0..Len(p) /\ Piece(p, k) = t
  BY <1>2 DEF Piece
<1>4. s \in Seq(Int) /\ t \in Seq(Int) /\ u = s \o t
  BY <1>2, <1>3, PieceShape DEF LaysOut
<1>5. PICK a \in Nat, b \in Nat : a = Len(s) /\ b = Len(t)
  BY <1>4
<1>6. Len(u) = a + b /\ \A j \in 1..b : u[a + j] = t[j]
  BY <1>4, <1>5, ConcatShape
<1>7. PICK w : w = f[Len(p)] /\ Begins(u, w)
  BY <1>2, <1>3, LayoutGrows
<1>8. w \in Seq(Int)
  BY <1>1, <1>7 DEF LaysOut
<1>9. a + b <= Len(w) /\ \A d \in 1..(a + b) : w[d] = u[d]
  BY <1>6, <1>7 DEF Begins
<1>10. ASSUME NEW j \in 1..b PROVE w[a + j] = t[j]
  <2>1. a + j \in 1..(a + b)
    BY <1>5
  <2> QED BY <1>6, <1>9, <2>1
<1> QED BY <1>2, <1>5, <1>7, <1>9, <1>10

(* The shared array behind a unit.                                         *)
LEMMA AppendedShape ==
  ASSUME NEW p \in Seq(UOp), staticData \in Seq(Int)
  PROVE  /\ Appended(p) \in Seq(Int)
         /\ Begins(staticData, Appended(p))
         /\ Len(Appended(p)) = Len(staticData) + Len(Layout(p)[Len(p)])
         /\ Layout(p)[Len(p)] \in Seq(Int)
         /\ \A j \in 1..Len(Layout(p)[Len(p)]) : Appended(p)[Len(staticData) + j] = Layout(p)[Len(p)][j]
<1>1. PICK w : w = Layout(p)[Len(p)]
  OBVIOUS
<1>2. LaysOut(Layout(p), p) /\ Len(p) \in 0..Len(p)
  BY LayoutShape
<1>3. w \in Seq(Int)
  BY <1>1, <1>2 DEF LaysOut
<1>4. Appended(p) = staticData \o w
  BY <1>1 DEF Appended
<1>5. PICK x : x = staticData \o w
  OBVIOUS
<1>6. /\ x \in Seq(Int) /\ Len(x) = Len(staticData) + Len(w)
      /\ \A i \in 1..Len(staticData) : x[i] = staticData[i]
      /\ \A i \in 1..Len(w) : x[Len(staticData) + i] = w[i]
  BY <1>3, <1>5, ConcatShape
<1>7. Begins(staticData, x)
  <2>1. Len(staticData) <= Len(x)
    BY <1>3, <1>6
  <2> QED BY <1>6, <2>1 DEF Begins
<1> QED BY <1>1, <1>3, <1>4, <1>5, <1>6, <1>7

(* The offsets of a unit.                                                  *)
LEMMA OffsetsShape ==
  ASSUME NEW p \in Seq(UOp), staticData \in Seq(Int), SymbolsUnique(p)
  PROVE  /\ Offsets(p) \in StaticMaps
         /\ \A k \in StaticsOf(p) : p[k].l \in DOMAIN Offsets(p) =>
              Laid(p, k) /\ Offsets(p)[p[k].l] = Len(staticData) + Len(Layout(p)[k - 1])
         /\ \A l \in DOMAIN Offsets(p) : \E k \in StaticsOf(p) : p[k].l = l
<1>1. PICK laid : laid = {i \in DOMAIN p : Laid(p, i)}
  OBVIOUS
<1>2. PICK data : data = Layout(p) /\ LaysOut(data, p)
  BY LayoutShape
<1>3. PICK at0 : at0 = Len(Appended(p)) - Len(data[Len(p)])
  OBVIOUS
<1>4. at0 = Len(staticData) /\ at0 \in Nat
  <2>1. PICK a \in Nat, b \in Nat : a = Len(staticData) /\ b = Len(data[Len(p)])
    <3>1. data[Len(p)] \in Seq(Int)
      BY <1>2, AppendedShape
    <3> QED BY <3>1
  <2>2. Len(Appended(p)) = a + b
    BY <1>2, <2>1, AppendedShape
  <2> QED BY <1>3, <2>1, <2>2
<1>5. PICK L : L = {p[i].l : i \in laid}
  OBVIOUS
<1>6. PICK m : m = [s \in L |-> at0 + Len(data[(CHOOSE i \in laid : p[i].l = s) - 1])]
  OBVIOUS
<1>7. Offsets(p) = m
  BY <1>1, <1>2, <1>3, <1>5, <1>6 DEF Offsets
<1>8. laid \subseteq StaticsOf(p) /\ StaticsOf(p) \subseteq 1..Len(p)
  BY <1>1 DEF Laid, StaticsOf
<1>9. ASSUME NEW k \in laid
      PROVE  m[p[k].l] = at0 + Len(data[k - 1]) /\ p[k].l \in L
  <2>1. PICK c : c = CHOOSE i \in laid : p[i].l = p[k].l
    OBVIOUS
  <2>2. c \in laid /\ p[c].l = p[k].l
    BY <2>1
  <2>3. c = k
    BY <1>8, <2>2 DEF SymbolsUnique
  <2>4. p[k].l \in L
    BY <1>5
  <2>5. m[p[k].l] = at0 + Len(data[(CHOOSE i \in laid : p[i].l = p[k].l) - 1])
    BY <1>6, <2>4
  <2> QED BY <2>1, <2>3, <2>4, <2>5
<1>10. ASSUME NEW k \in StaticsOf(p), p[k].l \in L PROVE k \in laid
  <2>1. PICK i \in laid : p[i].l = p[k].l
    BY <1>5, <1>10
  <2>2. i = k
    BY <1>8, <2>1 DEF SymbolsUnique
  <2> QED BY <2>1, <2>2
<1>11. ASSUME NEW s \in L PROVE m[s] \in Nat /\ s \in Seq(STRING) /\ \E k \in StaticsOf(p) : p[k].l = s
  <2>1. PICK k \in laid : p[k].l = s
    BY <1>5
  <2>2. m[s] = at0 + Len(data[k - 1])
    BY <1>9, <2>1
  <2>3. k \in 1..Len(p) /\ k - 1 \in 0..Len(p)
    BY <1>8
  <2>4. data[k - 1] \in Seq(Int) /\ p[k] \in UOp
    BY <1>2, <2>3 DEF LaysOut
  <2>5. Len(data[k - 1]) \in Nat /\ p[k].l \in Seq(STRING)
    BY <2>4 DEF UOp
  <2> QED BY <1>4, <1>8, <2>1, <2>2, <2>5
<1>12. m \in StaticMaps
  <2>1. L \in SUBSET Seq(STRING)
    BY <1>11
  <2>2. m \in [L -> Nat]
    <3>1. m = [s \in L |-> m[s]]
      BY <1>6
    <3>2. \A s \in L : m[s] \in Nat
      BY <1>11
    <3> QED BY <3>1, <3>2
  <2> QED BY <2>1, <2>2 DEF StaticMaps
<1>13. DOMAIN m = L
  BY <1>6
<1>14. ASSUME NEW k \in StaticsOf(p), p[k].l \in L
       PROVE  Laid(p, k) /\ m[p[k].l] = Len(staticData) + Len(data[k - 1])
  BY <1>1, <1>4, <1>9, <1>10, <1>14
<1> QED BY <1>2, <1>7, <1>11, <1>12, <1>13, <1>14

(* A static that is read has a place, also one that only a text names.     *)
LEMMA ReadersLaid ==
  ASSUME NEW p \in Seq(UOp), Compiles(p), NEW i \in Readers(p)
  PROVE  p[i].l \in DOMAIN Offsets(p)
<1>1. CASE i \in Uses(p)
  BY <1>1 DEF Compiles
<1>2. CASE i \notin Uses(p)
  <2>1. PICK k \in StaticsOf(p) : p[k].l = p[i].l /\ i \in DOMAIN p /\ p[i].op = "inline"
    BY <1>2 DEF Readers
  <2>2. p[k].l \in Referenced(p)
    BY <2>1 DEF Referenced
  <2>3. k \in DOMAIN p /\ Laid(p, k)
    BY <2>2 DEF Laid, StaticsOf
  <2>4. DOMAIN Offsets(p) = {p[j].l : j \in {j \in DOMAIN p : Laid(p, j)}}
    BY DEF Offsets
  <2> QED BY <2>1, <2>3, <2>4
<1> QED BY <1>1, <1>2

(* The readers in a unit that compiles find theirs.                        *)
LEMMA UnitPlaced ==
  ASSUME NEW p \in Seq(UOp), staticData \in Seq(Int), Declared(p), Compiles(p)
  PROVE  Placed(p, Offsets(p), Appended(p))
<1>1. PICK m, d, data : m = Offsets(p) /\ d = Appended(p) /\ data = Layout(p) /\ LaysOut(data, p)
  BY LayoutShape
<1>2. SymbolsUnique(p) /\ \A i \in Readers(p) : p[i].l \in DOMAIN m
  BY <1>1, ReadersLaid DEF Declared
<1>3. m \in StaticMaps
  BY <1>1, <1>2, OffsetsShape
<1>4. PICK z \in Nat, w \in Seq(Int) : z = Len(staticData) /\ w = data[Len(p)]
  <2>1. data[Len(p)] \in Seq(Int)
    BY <1>1, AppendedShape
  <2>2. Len(staticData) \in Nat
    OBVIOUS
  <2> QED BY <2>1, <2>2
<1>5. Len(d) = z + Len(w) /\ \A j \in 1..Len(w) : d[z + j] = w[j]
  BY <1>1, <1>4, AppendedShape
<1>6. ASSUME NEW i \in Readers(p), NEW k \in StaticsOf(p), p[k].l = p[i].l
      PROVE  /\ m[p[i].l] + Len(p[k].data) <= Len(d)
             /\ \A j \in 1..Len(p[k].data) : d[m[p[i].l] + j] = p[k].data[j]
  <2>1. Laid(p, k) /\ m[p[i].l] = z + Len(data[k - 1])
    BY <1>1, <1>2, <1>4, <1>6, OffsetsShape
  <2>2. k \in 1..Len(p)
    BY DEF StaticsOf
  <2>3. PICK o : o = Len(data[k - 1])
    OBVIOUS
  <2>4. PICK t \in Seq(Int) : t = p[k].data
    <3>1. p[k] \in UOp
      BY <2>2
    <3> QED BY <3>1 DEF UOp
  <2>5. o \in Nat /\ o + Len(t) <= Len(w) /\ \A j \in 1..Len(t) : w[o + j] = t[j]
    BY <1>1, <1>4, <2>1, <2>2, <2>3, <2>4, PieceStands
  <2>6. (z + o) + Len(t) <= Len(d)
    BY <1>5, <2>4, <2>5
  <2>7. ASSUME NEW j \in 1..Len(t) PROVE d[(z + o) + j] = t[j]
    <3>1. o + j \in 1..Len(w) /\ (z + o) + j = z + (o + j)
      <4>1. PICK b \in Nat : b = Len(t)
        BY <2>4
      <4>2. o \in Nat /\ o + b <= Len(w)
        BY <2>5, <4>1
      <4>3. j \in 1..b
        BY <4>1
      <4> QED BY <1>4, <4>2, <4>3
    <3>2. d[z + (o + j)] = w[o + j]
      BY <1>5, <3>1
    <3> QED BY <2>5, <3>1, <3>2
  <2> QED BY <2>1, <2>3, <2>4, <2>6, <2>7
<1>7. ASSUME NEW i \in Readers(p) PROVE p[i].l \in DOMAIN m /\ m[p[i].l] \in Nat
  BY <1>2, <1>3 DEF StaticMaps
<1> QED BY <1>1, <1>6, <1>7 DEF Placed

(* They still do when data is appended.                                    *)
LEMMA PlacedStays ==
  ASSUME NEW p \in Seq(UOp), NEW m, NEW d \in Seq(Int), NEW e \in Seq(Int), Begins(d, e), Placed(p, m, d)
  PROVE  Placed(p, m, e)
<1> SUFFICES ASSUME NEW i \in Readers(p), NEW k \in StaticsOf(p), p[k].l = p[i].l
             PROVE  /\ m[p[i].l] + Len(p[k].data) <= Len(e)
                    /\ \A j \in 1..Len(p[k].data) : e[m[p[i].l] + j] = p[k].data[j]
  BY DEF Placed
<1>1. PICK o \in Nat : o = m[p[i].l]
  BY DEF Placed
<1>2. PICK t \in Seq(Int) : t = p[k].data
  <2>1. k \in 1..Len(p)
    BY DEF StaticsOf
  <2>2. p[k] \in UOp
    BY <2>1
  <2> QED BY <2>2 DEF UOp
<1>3. o + Len(t) <= Len(d) /\ \A j \in 1..Len(t) : d[o + j] = t[j]
  BY <1>1, <1>2 DEF Placed
<1>4. Len(d) <= Len(e) /\ \A x \in 1..Len(d) : e[x] = d[x]
  BY DEF Begins
<1>5. o + Len(t) <= Len(e)
  BY <1>2, <1>3, <1>4
<1>6. ASSUME NEW j \in 1..Len(t) PROVE e[o + j] = t[j]
  <2>1. PICK n \in Nat, h \in Nat : n = Len(t) /\ h = Len(d)
    BY <1>2
  <2>2. j \in 1..n /\ o + n <= h
    BY <1>3, <2>1
  <2>3. o + j \in 1..h
    BY <2>2
  <2>4. e[o + j] = d[o + j]
    BY <1>4, <2>1, <2>3
  <2> QED BY <1>3, <2>4
<1> QED BY <1>1, <1>2, <1>5, <1>6


-----------------------------------------------------------------------------
(* The names of functions.                                                 *)
(* A name with another last segment.                                       *)
LEMMA NameWithNumber ==
  ASSUME NEW S, NEW fn \in Seq(S), NEW n \in 1..Len(fn), n = Len(fn), NEW k, Numbered(fn[n], k) \in S
  PROVE  /\ WithNumber(fn, k) \in Seq(S)
         /\ Len(WithNumber(fn, k)) = n
         /\ WithNumber(fn, k)[n] = Numbered(fn[n], k)
         /\ n > 1 => WithNumber(fn, k)[1] = fn[1]
<1>1. PICK t \in S : t = Numbered(fn[n], k)
  OBVIOUS
<1>2. WithNumber(fn, k) = [fn EXCEPT ![n] = t]
  BY <1>1 DEF WithNumber
<1>3. PICK w : w = [fn EXCEPT ![n] = t]
  OBVIOUS
<1>4. w \in Seq(S) /\ Len(w) = Len(fn) /\ w[n] = t /\ (n > 1 => w[1] = fn[1])
  BY <1>3
<1> QED BY <1>1, <1>2, <1>3, <1>4

(* A number that is free is found, and the name made with it is new.       *)
LEMMA UniqueName ==
  ASSUME GiveWords, NumbersTell, NEW taken \in SUBSET Paths, IsFiniteSet(taken), NEW fn \in Paths
  PROVE  Unique(fn, taken) \in Paths \ taken
<1>1. PICK n \in Nat, s \in STRING : n = Len(fn) /\ s = fn[n] /\ n >= 2
  <2>1. fn \in Seq(STRING) /\ Len(fn) \in Nat /\ Len(fn) >= 2
    BY DEF Paths
  <2>2. fn[Len(fn)] \in STRING
    BY <2>1
  <2> QED BY <2>1, <2>2
<1>2. ASSUME NEW k \in Nat PROVE WithNumber(fn, k) \in Paths /\ WithNumber(fn, k)[n] = Numbered(s, k)
  <2>1. PICK S : S = STRING
    OBVIOUS
  <2>2. fn \in Seq(S)
    BY <2>1 DEF Paths
  <2>3. n \in 1..Len(fn) /\ n = Len(fn)
    BY <1>1
  <2>4. Numbered(fn[n], k) \in S
    BY <1>1, <2>1 DEF GiveWords
  <2>5. /\ WithNumber(fn, k) \in Seq(S)
        /\ Len(WithNumber(fn, k)) = n
        /\ WithNumber(fn, k)[n] = Numbered(fn[n], k)
        /\ n > 1 => WithNumber(fn, k)[1] = fn[1]
    BY <2>2, <2>3, <2>4, NameWithNumber
  <2>6. WithNumber(fn, k) \in Paths
    <3>1. n > 1 /\ fn[1] \in Stems
      BY <1>1 DEF Paths
    <3>2. PICK w : w = WithNumber(fn, k)
      OBVIOUS
    <3>3. w \in Seq(STRING) /\ Len(w) >= 2 /\ w[1] \in Stems
      BY <1>1, <2>1, <2>5, <3>1, <3>2
    <3> QED BY <3>2, <3>3 DEF Paths
  <2> QED BY <1>1, <2>5, <2>6
<1>3. PICK N \in Nat : N = Cardinality(taken) + 1 /\ Cardinality(taken) < N
  <2>1. Cardinality(taken) \in Nat
    BY FS_CardinalityType
  <2> QED BY <2>1
<1>4. PICK free : free = {k \in 1..N : WithNumber(fn, k) \notin taken}
  OBVIOUS
<1>5. free # {}
  <2> SUFFICES ASSUME free = {} PROVE FALSE
    OBVIOUS
  <2>1. ASSUME NEW k \in 1..N PROVE WithNumber(fn, k) \in taken
    BY <1>4
  <2>2. PICK f : f = [k \in 1..N |-> WithNumber(fn, k)]
    OBVIOUS
  <2>3. f \in [1..N -> taken]
    BY <2>1, <2>2
  <2>4. IsFiniteSet(1..N) /\ Cardinality(1..N) = IF 1 > N THEN 0 ELSE N - 1 + 1
    BY FS_Interval
  <2>5. Cardinality(1..N) = N
    <3>1. ~ (1 > N) /\ N - 1 + 1 = N
      <4>1. Cardinality(taken) \in Nat
        BY FS_CardinalityType
      <4> QED BY <1>3, <4>1
    <3> QED BY <2>4, <3>1
  <2>6. Cardinality(taken) < Cardinality(1..N)
    BY <1>3, <2>5
  <2>7. PICK x, y \in 1..N : x # y /\ f[x] = f[y]
    BY <2>3, <2>4, <2>6, FS_PigeonHole
  <2>8. WithNumber(fn, x) = WithNumber(fn, y) /\ x \in Nat /\ y \in Nat
    BY <2>2, <2>7
  <2>9. Numbered(s, x) = Numbered(s, y)
    BY <1>2, <2>8
  <2> QED BY <2>7, <2>8, <2>9 DEF NumbersTell
<1>6. PICK c : c = CHOOSE k \in free : \A j \in free : k <= j
  OBVIOUS
<1>7. c \in free
  <2>1. free \in SUBSET Nat
    BY <1>4
  <2>2. \E k \in free : \A j \in free : k <= j
    BY <1>5, <2>1, LeastElement
  <2> QED BY <1>6, <2>2
<1>8. WithNumber(fn, c) \in Paths \ taken
  <2>1. c \in Nat /\ WithNumber(fn, c) \notin taken
    BY <1>4, <1>7
  <2> QED BY <1>2, <2>1
<1>9. CASE fn \notin taken
  BY <1>9 DEF Unique
<1>10. CASE fn \in taken
  <2>1. Unique(fn, taken) = WithNumber(fn, c)
    BY <1>3, <1>4, <1>6, <1>10 DEF Unique
  <2> QED BY <1>8, <2>1
<1> QED BY <1>9, <1>10

(* The function of a label that is no entry has a path.                    *)
LEMMA PathOfLabel ==
  ASSUME PPOk, GiveWords, NEW u \in Targets, NEW o \in UOp, LabelFormed(o), ~Entry(o.kind)
  PROVE  ForCall(u, o) \in Paths
<1>1. Stem(u) \in STRING
  <2>1. job.targets[u] \in Path
    BY JobShape DEF PPOk
  <2> QED BY <2>1 DEF Stem, Path
<1>2. PICK a \in STRING : a = Legal(Stem(u))
  BY <1>1 DEF GiveWords
<1>3. PICK n \in Nat, l \in Seq(STRING) : l = o.l /\ n = Len(l) /\ n >= 1
  BY DEF UOp, LabelFormed
<1>4. PICK b : b = [i \in 1..n |-> Legal(l[i])]
  OBVIOUS
<1>5. b \in Seq(STRING) /\ Len(b) = n
  <2>1. ASSUME NEW i \in 1..n PROVE b[i] \in STRING
    <3>1. l[i] \in STRING
      BY <1>3
    <3> QED BY <1>4, <3>1 DEF GiveWords
  <2>2. b \in [1..n -> STRING]
    BY <1>4, <2>1
  <2> QED BY <2>2
<1>6. PICK c : c = <<a>> \o b
  OBVIOUS
<1>7. <<a>> \in Seq(STRING) /\ Len(<<a>>) = 1
  BY <1>2
<1>8. c \in Seq(STRING) /\ Len(c) = Len(<<a>>) + Len(b)
  BY <1>5, <1>6, <1>7, ConcatShape
<1>9. c \in Paths
  <2>1. Len(c) >= 2
    BY <1>3, <1>5, <1>7, <1>8
  <2>2. c[1] = a
    BY <1>2, <1>5, <1>6
  <2>3. a \in Stems
    <3>1. job \in Jobs /\ u \in DOMAIN job.targets
      BY DEF PPOk, Targets
    <3>2. PICK B : B = UNION {{j.targets[t].base : t \in DOMAIN j.targets} : j \in Jobs}
      OBVIOUS
    <3>3. Stem(u) \in B
      BY <3>1, <3>2 DEF Stem
    <3>4. Stems = {Legal(x) : x \in B}
      BY <3>2 DEF Stems
    <3> QED BY <1>2, <3>3, <3>4, Zenon
  <2> QED BY <1>8, <2>1, <2>2, <2>3 DEF Paths
<1>10. DOMAIN o.l = 1..n
  BY <1>3
<1>11. ForCall(u, o) = c
  BY <1>2, <1>3, <1>4, <1>6, <1>10 DEF ForCall
<1> QED BY <1>9, <1>11

(* The function a label gets, with the names that are taken.               *)
FunctionOf(u, o, taken) == IF Entry(o.kind) THEN ForCall(u, o) ELSE Unique(ForCall(u, o), taken)

(* What initLabels has made of the labels so far.                          *)
Naming == [map : Renamings, internal : {taken \in SUBSET Paths : IsFiniteSet(taken)}]

NameStep(u, o, t) ==
  IF o.op # "label"
  THEN t
  ELSE [map |-> Emplace(t.map, o.l, FunctionOf(u, o, t.internal)),
        internal |-> IF Entry(o.kind) THEN t.internal ELSE t.internal \cup {FunctionOf(u, o, t.internal)}]

(* f names the labels of unit u, with ops p, one after the other.          *)
NamesAlong(f, u, p) ==
  /\ f[0] = [map |-> <<>>, internal |-> internal]
  /\ \A i \in 0..Len(p) : f[i] \in Naming
  /\ \A i \in 1..Len(p) : f[i] = NameStep(u, p[i], f[i - 1])

(* An entry keeps its label, any other label gets a name that is new.      *)
LEMMA FunctionShape ==
  ASSUME PPOk, GiveWords, NumbersTell, NEW u \in Targets, NEW o \in UOp, LabelFormed(o),
         NEW taken \in SUBSET Paths, IsFiniteSet(taken)
  PROVE  /\ FunctionOf(u, o, taken) \in Seq(STRING)
         /\ Entry(o.kind) => FunctionOf(u, o, taken) = Spelled(o.l[1])
         /\ ~Entry(o.kind) => FunctionOf(u, o, taken) \in Paths \ taken
<1>1. CASE Entry(o.kind)
  <2>1. FunctionOf(u, o, taken) = Spelled(o.l[1])
    BY <1>1 DEF FunctionOf, ForCall
  <2>2. o.l[1] \in STRING
    <3>1. o.l \in Seq(STRING) /\ Len(o.l) >= 1
      BY DEF UOp, LabelFormed
    <3> QED BY <3>1
  <2>3. Spelled(o.l[1]) \in Seq(STRING)
    BY <2>2 DEF GiveWords
  <2> QED BY <1>1, <2>1, <2>3
<1>2. CASE ~Entry(o.kind)
  <2>1. PICK fn : fn = ForCall(u, o)
    OBVIOUS
  <2>2. fn \in Paths
    BY <1>2, <2>1, PathOfLabel
  <2>3. Unique(fn, taken) \in Paths \ taken
    BY <2>2, UniqueName
  <2>4. FunctionOf(u, o, taken) = Unique(fn, taken)
    BY <1>2, <2>1 DEF FunctionOf
  <2>5. FunctionOf(u, o, taken) \in Paths \ taken
    BY <2>3, <2>4
  <2> QED BY <1>2, <2>5 DEF Paths
<1> QED BY <1>1, <1>2

(* A step of initLabels.                                                   *)
LEMMA NameStepShape ==
  ASSUME PPOk, GiveWords, NumbersTell, NEW u \in Targets, NEW o \in UOp, o.op = "label" => LabelFormed(o),
         NEW t \in Naming
  PROVE  NameStep(u, o, t) \in Naming
<1>1. CASE o.op # "label"
  BY <1>1 DEF NameStep
<1>2. CASE o.op = "label"
  <2>1. PICK map, taken, fn : map = t.map /\ taken = t.internal /\ fn = FunctionOf(u, o, taken)
    OBVIOUS
  <2>2. map \in Renamings /\ taken \in SUBSET Paths /\ IsFiniteSet(taken)
    BY <2>1 DEF Naming
  <2>3. fn \in Seq(STRING) /\ (~Entry(o.kind) => fn \in Paths)
    BY <1>2, <2>1, <2>2, FunctionShape
  <2>4. PICK e : e = Emplace(map, o.l, fn)
    OBVIOUS
  <2>5. e \in Renamings
    <3>1. o.l \in Seq(STRING)
      BY DEF UOp
    <3> QED BY <2>2, <2>3, <2>4, <3>1, EmplaceRenaming
  <2>6. PICK more : more = IF Entry(o.kind) THEN taken ELSE taken \cup {fn}
    OBVIOUS
  <2>7. more \in SUBSET Paths /\ IsFiniteSet(more)
    <3>1. IsFiniteSet(taken \cup {fn})
      BY <2>2, FS_AddElement
    <3> QED BY <2>2, <2>3, <2>6, <3>1
  <2>8. NameStep(u, o, t) = [map |-> e, internal |-> more]
    BY <1>2, <2>1, <2>4, <2>6 DEF NameStep
  <2> QED BY <2>5, <2>7, <2>8 DEF Naming
<1> QED BY <1>1, <1>2

(* initLabels can be followed through the ops.                             *)
LEMMA NamesFollow ==
  ASSUME PPOk, GiveWords, NumbersTell, internal \subseteq Paths, IsFiniteSet(internal),
         NEW u \in Targets, NEW p \in Seq(UOp), LabelsFormed(p)
  PROVE  \E f : NamesAlong(f, u, p) /\ LabelNames(u, p) = f[Len(p)]
<1>1. PICK n \in Nat : n = Len(p)
  OBVIOUS
<1>2. PICK e : e = [map |-> <<>>, internal |-> internal]
  OBVIOUS
<1>3. e \in Naming
  <2>1. PICK m : m = <<>>
    OBVIOUS
  <2>2. m \in [{} -> Seq(STRING)] /\ {} \in SUBSET Seq(STRING)
    BY <2>1
  <2>3. m \in Renamings
    BY <2>2 DEF Renamings
  <2> QED BY <1>2, <2>1, <2>3 DEF Naming
<1>4. PICK G : G = [i \in 1..n |-> [t \in Naming |-> NameStep(u, p[i], t)]]
  OBVIOUS
<1>5. ASSUME NEW i \in 1..n, NEW t \in Naming PROVE NameStep(u, p[i], t) \in Naming
  <2>1. p[i] \in UOp
    BY <1>1
  <2>2. p[i].op = "label" => LabelFormed(p[i])
    BY <1>1 DEF LabelsFormed, LabelPos, IsLabel
  <2> QED BY <2>1, <2>2, NameStepShape
<1>6. G \in Steps(Naming, n)
  BY <1>4, <1>5 DEF Steps
<1>7. PICK f \in [0..n -> Naming] : Carried(f, e, n, G)
  BY <1>3, <1>6, CarriedExists
<1>8. f[0] = e
  BY <1>7 DEF Carried
<1>9. ASSUME NEW i \in 1..n PROVE f[i] = NameStep(u, p[i], f[i - 1])
  <2>1. i - 1 \in 0..n
    OBVIOUS
  <2>2. f[i] = G[i][f[i - 1]] /\ f[i - 1] \in Naming
    BY <1>7, <2>1 DEF Carried
  <2> QED BY <1>4, <2>2
<1> DEFINE Is(g) ==
      g = [i \in 0..Len(p) |->
             IF i = 0 THEN [map |-> <<>>, internal |-> internal]
             ELSE IF p[i].op # "label" THEN g[i - 1]
             ELSE LET before == g[i - 1]
                      plain == ~Entry(p[i].kind)
                      fn == IF plain THEN Unique(ForCall(u, p[i]), before.internal) ELSE ForCall(u, p[i])
                  IN [map |-> Emplace(before.map, p[i].l, fn),
                      internal |-> IF plain THEN before.internal \cup {fn} ELSE before.internal]]
<1>10. ASSUME NEW g PROVE Is(g) <=> g = [i \in 0..Len(p) |-> IF i = 0 THEN e ELSE NameStep(u, p[i], g[i - 1])]
  BY <1>2 DEF NameStep, FunctionOf
<1> HIDE DEF Is
<1>11. Is(f)
  <2>1. ASSUME NEW i \in 0..n PROVE f[i] = IF i = 0 THEN e ELSE NameStep(u, p[i], f[i - 1])
    BY <1>8, <1>9
  <2>2. f = [i \in 0..Len(p) |-> IF i = 0 THEN e ELSE NameStep(u, p[i], f[i - 1])]
    BY <1>1, <2>1
  <2> QED BY <1>10, <2>2
<1>12. PICK h : h = CHOOSE g : Is(g)
  OBVIOUS
<1>13. Is(h)
  BY <1>11, <1>12
<1>14. LabelNames(u, p) = h[Len(p)]
  BY <1>12 DEF LabelNames, Is
<1>15. h = [i \in 0..n |-> IF i = 0 THEN e ELSE NameStep(u, p[i], h[i - 1])]
  BY <1>1, <1>10, <1>13
<1>16. h[0] = e /\ \A i \in 1..n : h[i] = NameStep(u, p[i], h[i - 1])
  BY <1>15
<1>17. PICK S : S = {i \in 0..n : h[i] \in Naming}
  OBVIOUS
<1>18. 0 \in S
  BY <1>3, <1>16, <1>17
<1>19. ASSUME NEW i \in 1..n, i - 1 \in S PROVE i \in S
  <2>1. h[i - 1] \in Naming /\ i \in 0..n
    BY <1>17, <1>19
  <2>2. NameStep(u, p[i], h[i - 1]) \in Naming
    BY <1>5, <2>1
  <2> QED BY <1>16, <1>17, <2>1, <2>2
<1>20. 0..n \subseteq S
  BY <1>18, <1>19, UpTo
<1>21. \A i \in 0..n : h[i] \in Naming
  BY <1>17, <1>20
<1>22. NamesAlong(h, u, p)
  BY <1>1, <1>2, <1>16, <1>21 DEF NamesAlong
<1> QED BY <1>14, <1>22

(* The labels of the first i ops have functions, of their own, that were   *)
(* not among the internal ones; no other label has one.                    *)
NamedUpTo(p, i, t) ==
  /\ internal \subseteq t.internal
  /\ \A k \in LabelPos(p) : k <= i => p[k].l \in DOMAIN t.map
  /\ \A l \in DOMAIN t.map : \E k \in LabelPos(p) : k <= i /\ p[k].l = l
  /\ \A k \in LabelPos(p) : k <= i /\ Entry(p[k].kind) => t.map[p[k].l] = Spelled(p[k].l[1])
  /\ \A k \in PlainPos(p) : k <= i => t.map[p[k].l] \in t.internal \ internal
  /\ \A j, k \in PlainPos(p) : j <= i /\ k <= i /\ t.map[p[j].l] = t.map[p[k].l] => j = k

(* So does the next one.                                                   *)
LEMMA NameStepNamed ==
  ASSUME PPOk, GiveWords, NumbersTell, NEW u \in Targets, NEW p \in Seq(UOp), LabelsFormed(p),
         UniqueLabels(p), NEW i \in 1..Len(p), NEW t \in Naming, NamedUpTo(p, i - 1, t)
  PROVE  NamedUpTo(p, i, NameStep(u, p[i], t))
<1>1. \A k \in LabelPos(p) : k \in Nat /\ (k <= i <=> k <= i - 1 \/ k = i)
  BY DEF LabelPos
<1>2. PlainPos(p) \subseteq LabelPos(p)
  BY DEF PlainPos
<1>3. CASE p[i].op # "label"
  <2>1. NameStep(u, p[i], t) = t
    BY <1>3 DEF NameStep
  <2>2. i \notin LabelPos(p)
    BY <1>3 DEF LabelPos, IsLabel
  <2>3. \A k \in LabelPos(p) : k <= i <=> k <= i - 1
    BY <1>1, <2>2
  <2> QED BY <1>2, <2>1, <2>3, Zenon DEF NamedUpTo
<1>4. CASE p[i].op = "label"
  <2>1. i \in LabelPos(p) /\ p[i] \in UOp /\ LabelFormed(p[i])
    BY <1>4 DEF LabelPos, IsLabel, LabelsFormed
  <2>2. PICK map, taken, fn : map = t.map /\ taken = t.internal /\ fn = FunctionOf(u, p[i], taken)
    OBVIOUS
  <2>3. taken \in SUBSET Paths /\ IsFiniteSet(taken)
    BY <2>2 DEF Naming
  <2>4. /\ Entry(p[i].kind) => fn = Spelled(p[i].l[1])
        /\ ~Entry(p[i].kind) => fn \in Paths \ taken
    BY <2>1, <2>2, <2>3, FunctionShape
  <2>5. PICK m, more : /\ m = Emplace(map, p[i].l, fn)
                       /\ more = IF Entry(p[i].kind) THEN taken ELSE taken \cup {fn}
    OBVIOUS
  <2>6. NameStep(u, p[i], t) = [map |-> m, internal |-> more]
    BY <1>4, <2>2, <2>5 DEF NameStep
  <2>7. /\ internal \subseteq taken
        /\ \A k \in LabelPos(p) : k <= i - 1 => p[k].l \in DOMAIN map
        /\ \A l \in DOMAIN map : \E k \in LabelPos(p) : k <= i - 1 /\ p[k].l = l
        /\ \A k \in LabelPos(p) : k <= i - 1 /\ Entry(p[k].kind) => map[p[k].l] = Spelled(p[k].l[1])
        /\ \A k \in PlainPos(p) : k <= i - 1 => map[p[k].l] \in taken \ internal
        /\ \A j, k \in PlainPos(p) : j <= i - 1 /\ k <= i - 1 /\ map[p[j].l] = map[p[k].l] => j = k
    BY <2>2 DEF NamedUpTo
  <2>8. p[i].l \notin DOMAIN map
    <3>1. ~(i <= i - 1)
      OBVIOUS
    <3> QED BY <2>1, <2>7, <3>1 DEF UniqueLabels
  <2>9. m = [x \in DOMAIN map \cup {p[i].l} |-> IF x = p[i].l THEN fn ELSE map[x]]
    BY <2>5, <2>8 DEF Emplace
  <2>10. DOMAIN m = DOMAIN map \cup {p[i].l} /\ m[p[i].l] = fn
    BY <2>9
  <2>11. ASSUME NEW k \in LabelPos(p), k <= i - 1
         PROVE  p[k].l \in DOMAIN map /\ m[p[k].l] = map[p[k].l]
    <3>1. p[k].l \in DOMAIN map
      BY <2>7, <2>11
    <3> QED BY <2>8, <2>9, <3>1
  <2>12. internal \subseteq more /\ taken \subseteq more
    BY <2>5, <2>7
  <2>13. \A k \in LabelPos(p) : k <= i => p[k].l \in DOMAIN m
    BY <1>1, <2>10, <2>11, Zenon
  <2>14. ASSUME NEW l \in DOMAIN m PROVE \E k \in LabelPos(p) : k <= i /\ p[k].l = l
    <3>1. CASE l = p[i].l
      BY <1>1, <2>1, <3>1
    <3>2. CASE l \in DOMAIN map
      BY <1>1, <2>7, <3>2, Zenon
    <3> QED BY <2>10, <3>1, <3>2
  <2>15. ASSUME NEW k \in LabelPos(p), k <= i, Entry(p[k].kind) PROVE m[p[k].l] = Spelled(p[k].l[1])
    <3>1. CASE k = i
      BY <2>4, <2>10, <2>15, <3>1
    <3>2. CASE k <= i - 1
      <4>1. map[p[k].l] = Spelled(p[k].l[1])
        BY <2>7, <2>15, <3>2
      <4> QED BY <2>11, <3>2, <4>1
    <3> QED BY <1>1, <2>15, <3>1, <3>2
  <2>16. ASSUME NEW k \in PlainPos(p), k <= i
         PROVE  /\ m[p[k].l] \in more \ internal
                /\ k <= i - 1 => m[p[k].l] \in taken /\ m[p[k].l] = map[p[k].l]
                /\ k = i => m[p[k].l] \notin taken
    <3>0. k \in LabelPos(p) /\ ~Entry(p[k].kind)
      BY DEF PlainPos
    <3>1. CASE k = i
      <4>1. fn \in Paths \ taken
        BY <2>4, <3>0, <3>1
      <4>2. fn \in more /\ fn \notin internal
        BY <2>5, <2>7, <3>0, <3>1, <4>1
      <4>3. ~(i <= i - 1)
        OBVIOUS
      <4> QED BY <2>10, <3>1, <4>1, <4>2, <4>3
    <3>2. CASE k <= i - 1
      <4>1. map[p[k].l] \in taken \ internal
        BY <2>7, <3>2
      <4>2. m[p[k].l] = map[p[k].l]
        BY <2>11, <3>0, <3>2
      <4>3. k # i
        BY <3>2
      <4> QED BY <2>12, <4>1, <4>2, <4>3
    <3> QED BY <1>1, <2>16, <3>0, <3>1, <3>2
  <2>17. ASSUME NEW j \in PlainPos(p), NEW k \in PlainPos(p), j <= i, k <= i, m[p[j].l] = m[p[k].l]
         PROVE  j = k
    <3>1. j \in LabelPos(p) /\ k \in LabelPos(p)
      BY <1>2
    <3>2. CASE j = i /\ k = i
      BY <3>2
    <3>3. CASE j <= i - 1 /\ k <= i - 1
      <4>1. map[p[j].l] = map[p[k].l]
        BY <2>16, <2>17, <3>3
      <4> QED BY <2>7, <3>3, <4>1
    <3>4. CASE j <= i - 1 /\ k = i
      BY <2>16, <2>17, <3>4
    <3>5. CASE j = i /\ k <= i - 1
      BY <2>16, <2>17, <3>5
    <3> QED BY <1>1, <2>17, <3>1, <3>2, <3>3, <3>4, <3>5
  <2>18. PICK w : w = [map |-> m, internal |-> more]
    OBVIOUS
  <2>19. w.map = m /\ w.internal = more
    BY <2>18
  <2>20. NamedUpTo(p, i, w)
    BY <2>12, <2>13, <2>14, <2>15, <2>16, <2>17, <2>19 DEF NamedUpTo
  <2> QED BY <2>6, <2>18, <2>20
<1> QED BY <1>3, <1>4

(* The functions of a unit: new ones, but for its entries.                 *)
LEMMA LabelNamesShape ==
  ASSUME PPOk, GiveWords, NumbersTell, internal \subseteq Paths, IsFiniteSet(internal),
         NEW u \in Targets, NEW p \in Seq(UOp), LabelsFormed(p), UniqueLabels(p)
  PROVE  LabelNames(u, p) \in Naming /\ NamedUpTo(p, Len(p), LabelNames(u, p))
<1>1. PICK n \in Nat : n = Len(p)
  OBVIOUS
<1>2. PICK f : NamesAlong(f, u, p) /\ LabelNames(u, p) = f[Len(p)]
  BY NamesFollow
<1>3. /\ f[0] = [map |-> <<>>, internal |-> internal]
      /\ \A i \in 0..n : f[i] \in Naming
      /\ \A i \in 1..n : f[i] = NameStep(u, p[i], f[i - 1])
  BY <1>1, <1>2 DEF NamesAlong
<1>4. PICK S : S = {i \in 0..n : NamedUpTo(p, i, f[i])}
  OBVIOUS
<1>5. 0 \in S
  <2>1. f[0].internal = internal /\ DOMAIN f[0].map = {}
    <3>1. PICK m : m = <<>>
      OBVIOUS
    <3>2. DOMAIN m = {}
      BY <3>1
    <3> QED BY <1>3, <3>1, <3>2
  <2>2. \A k \in LabelPos(p) : ~(k <= 0)
    BY DEF LabelPos
  <2>3. PlainPos(p) \subseteq LabelPos(p)
    BY DEF PlainPos
  <2>4. NamedUpTo(p, 0, f[0])
    BY <2>1, <2>2, <2>3, Zenon DEF NamedUpTo
  <2> QED BY <1>4, <2>4
<1>6. ASSUME NEW i \in 1..n, i - 1 \in S PROVE i \in S
  <2>1. NamedUpTo(p, i - 1, f[i - 1]) /\ i - 1 \in 0..n /\ i \in 0..n
    BY <1>4, <1>6
  <2>2. f[i - 1] \in Naming /\ f[i] = NameStep(u, p[i], f[i - 1])
    BY <1>3, <2>1
  <2>3. NamedUpTo(p, i, NameStep(u, p[i], f[i - 1]))
    BY <1>1, <2>1, <2>2, NameStepNamed
  <2> QED BY <1>4, <2>1, <2>2, <2>3
<1>7. 0..n \subseteq S
  BY <1>5, <1>6, UpTo
<1>8. n \in 0..n
  OBVIOUS
<1> QED BY <1>1, <1>2, <1>3, <1>4, <1>7, <1>8

-----------------------------------------------------------------------------
(* The link of the units.                                                  *)
(* Appending.                                                              *)
LEMMA AppendShape ==
  ASSUME NEW S, NEW s \in Seq(S), NEW x \in S
  PROVE  /\ Append(s, x) \in Seq(S)
         /\ Len(Append(s, x)) = Len(s) + 1
         /\ \A i \in 1..Len(s) : Append(s, x)[i] = s[i]
         /\ Append(s, x)[Len(s) + 1] = x
<1>1. Append(s, x) \in Seq(S)
  OBVIOUS
<1>2. Len(Append(s, x)) = Len(s) + 1
  OBVIOUS
<1>3. \A i \in 1..Len(s) : Append(s, x)[i] = s[i]
  OBVIOUS
<1>4. Append(s, x)[Len(s) + 1] = x
  OBVIOUS
<1> QED BY <1>1, <1>2, <1>3, <1>4

(* A step before any unit is compiled.                                     *)
LEMMA LinkEarly ==
  ASSUME LinkOk, phase \in {"pp", "parse", "verify"}, UNCHANGED linkVars, Len(values') \in Nat,
         phase' \in {"pp", "parse", "verify", "compile", "failed"},
         phase' = "verify" => unit' = 1,
         phase' = "compile" => unit' = 1 /\ \A u \in DOMAIN values' : Declared(values'[u])
  PROVE  LinkOk'
<1>1. names = <<>> /\ staticMap \in Seq(StaticMaps) /\ names \in Seq(Renamings)
      /\ staticData \in Seq(Int) /\ Len(staticMap) = Len(names)
  BY DEF LinkOk
<1>2. UNCHANGED <<staticMap, staticData, names>>
  BY DEF linkVars
<1>3. Len(names) = 0
  <2>1. PICK e : e = <<>>
    OBVIOUS
  <2>2. Len(e) = 0
    BY <2>1
  <2>3. names = e
    BY <1>1, <2>1
  <2> QED BY <2>2, <2>3, Zenon
<1>4. 0 \in 0..Len(values') /\ 1..0 = {} /\ 0 + 1 = 1
  OBVIOUS
<1>5. /\ staticData' \in Seq(Int)
      /\ Len(staticMap') = Len(names')
      /\ staticMap' \in Seq(StaticMaps)
      /\ names' \in Seq(Renamings)
      /\ Len(names') = 0
      /\ names' = <<>>
  BY <1>1, <1>2, <1>3
<1>6. Len(names') \in 0..Len(values') /\ Len(names') + 1 = 1 /\ 1..Len(names') = {}
  BY <1>4, <1>5, Zenon
<1>7. \A u \in 1..Len(names') : Placed(values'[u], staticMap'[u], staticData')
  BY <1>6
<1>8. /\ phase' \in {"pp", "parse", "verify"} => names' = <<>>
      /\ phase' = "verify" => unit' = 1
      /\ phase' = "compile" => Len(names') + 1 = unit'
      /\ phase' = "built" => Len(names') = Len(values')
      /\ phase' \in {"compile", "built"} => \A u \in DOMAIN values' : Declared(values'[u])
  BY <1>5, <1>6
<1> QED BY <1>5, <1>6, <1>7, <1>8, Zenon DEF LinkOk

(* A step that fails, or goes on in the same unit.                         *)
LEMMA LinkAlone ==
  ASSUME LinkOk, UNCHANGED <<linkVars, values>>, phase' = "failed" \/ (phase' = phase /\ unit' = unit)
  PROVE  LinkOk'
<1>1. UNCHANGED <<staticMap, staticData, names, values>>
  BY DEF linkVars
<1>2. CASE phase' = "failed"
  BY <1>1, <1>2 DEF LinkOk
<1>3. CASE phase' = phase /\ unit' = unit
  BY <1>1, <1>3 DEF LinkOk
<1> QED BY <1>2, <1>3

(* The next unit.                                                          *)
LEMMA CompileUnitLink ==
  ASSUME PPOk, ParseOk, LinkOk, CompileUnit, phase' # "failed",
         LabelNames(unit, values[unit]).map \in Renamings
  PROVE  LinkOk'
<1>1. /\ unit \in 1..Len(values) /\ Len(values) \in Nat /\ DOMAIN values = 1..Len(values)
      /\ values[unit] \in Seq(UOp)
  BY UnitShape
<1>2. PICK p \in Seq(UOp) : p = values[unit]
  BY <1>1
<1>3. /\ phase = "compile" /\ values' = values
      /\ Compiles(p)
      /\ staticMap' = Append(staticMap, Offsets(p))
      /\ staticData' = Appended(p)
      /\ names' = Append(names, LabelNames(unit, p).map)
      /\ IF unit < Len(values)
         THEN unit' = unit + 1 /\ phase' = phase
         ELSE unit' = 1 /\ phase' = "built"
  BY <1>2 DEF CompileUnit
<1>4. /\ staticData \in Seq(Int)
      /\ Len(staticMap) = Len(names)
      /\ staticMap \in Seq(StaticMaps)
      /\ names \in Seq(Renamings)
      /\ Len(names) + 1 = unit
      /\ \A u \in DOMAIN values : Declared(values[u])
      /\ \A u \in 1..Len(names) : Placed(values[u], staticMap[u], staticData)
  BY <1>3 DEF LinkOk
<1>5. Declared(p) /\ SymbolsUnique(p)
  BY <1>1, <1>2, <1>4 DEF Declared
<1>6. Offsets(p) \in StaticMaps
  BY <1>4, <1>5, OffsetsShape
<1>7. Appended(p) \in Seq(Int) /\ Begins(staticData, Appended(p))
  BY <1>4, AppendedShape
<1>8. Placed(p, Offsets(p), Appended(p))
  BY <1>3, <1>4, <1>5, UnitPlaced
<1>9. PICK n \in Nat : n = Len(names) /\ n + 1 = unit
  BY <1>4
<1>10. /\ staticMap' \in Seq(StaticMaps) /\ Len(staticMap') = n + 1
       /\ \A i \in 1..n : staticMap'[i] = staticMap[i]
       /\ staticMap'[n + 1] = Offsets(p)
  BY <1>3, <1>4, <1>6, <1>9, AppendShape
<1>11. names' \in Seq(Renamings) /\ Len(names') = n + 1
  BY <1>2, <1>3, <1>4, <1>9, AppendShape
<1>12. ASSUME NEW u \in 1..(n + 1) PROVE Placed(values[u], staticMap'[u], Appended(p))
  <2>1. CASE u = n + 1
    BY <1>2, <1>8, <1>9, <1>10, <2>1
  <2>2. CASE u # n + 1
    <3>1. u \in 1..n /\ u \in 1..Len(values)
      BY <1>1, <1>9, <2>2
    <3>2. Placed(values[u], staticMap[u], staticData)
      BY <1>4, <1>9, <3>1
    <3>3. values[u] \in Seq(UOp)
      <4>1. values \in Seq(Seq(UOp))
        BY DEF ParseOk
      <4> QED BY <3>1, <4>1
    <3>4. Placed(values[u], staticMap[u], Appended(p))
      BY <1>4, <1>7, <3>2, <3>3, PlacedStays
    <3> QED BY <1>10, <3>1, <3>4
  <2> QED BY <2>1, <2>2
<1>13. n + 1 \in 0..Len(values)
  BY <1>1, <1>9
<1>14. /\ phase' \in {"compile", "built"}
       /\ phase' = "compile" => n + 1 + 1 = unit'
       /\ phase' = "built" => n + 1 = Len(values)
  <2>1. PICK L \in Nat : L = Len(values)
    BY <1>1
  <2>2. unit \in 1..L /\ unit \in Nat
    BY <1>1, <2>1
  <2>3. /\ unit < L => unit' = unit + 1 /\ phase' = "compile"
        /\ ~(unit < L) => unit = L /\ phase' = "built"
    <3>1. ~(unit < L) => unit = L
      BY <2>2
    <3>2. IF unit < L THEN unit' = unit + 1 /\ phase' = phase ELSE unit' = 1 /\ phase' = "built"
      BY <1>3, <2>1, Zenon
    <3>3. phase = "compile"
      BY <1>3
    <3> QED BY <3>1, <3>2, <3>3
  <2>4. /\ phase' \in {"compile", "built"}
        /\ phase' = "compile" => n + 1 + 1 = unit'
        /\ phase' = "built" => n + 1 = L
    BY <1>9, <2>3
  <2> QED BY <2>1, <2>4
<1>15. /\ staticData' \in Seq(Int)
       /\ Len(staticMap') = Len(names')
       /\ Len(names') \in 0..Len(values')
       /\ \A u \in 1..Len(names') : Placed(values'[u], staticMap'[u], staticData')
  BY <1>3, <1>7, <1>10, <1>11, <1>12, <1>13, Zenon
<1>16. /\ phase' = "compile" => Len(names') + 1 = unit'
       /\ phase' = "built" => Len(names') = Len(values')
       /\ phase' \notin {"pp", "parse", "verify"} /\ phase' # "verify"
       /\ \A u \in DOMAIN values' : Declared(values'[u])
  BY <1>3, <1>4, <1>11, <1>14
<1> QED BY <1>10, <1>11, <1>15, <1>16, Zenon DEF LinkOk

(* Names as they are.                                                      *)
LEMMA NamesAlone ==
  ASSUME NamesOk, UNCHANGED <<internal, names>>, names = <<>> \/ values' = values
  PROVE  NamesOk'
<1>1. CASE names = <<>>
  <2>1. PICK e : e = <<>>
    OBVIOUS
  <2>2. Len(e) = 0
    BY <2>1
  <2>3. names' = e
    BY <1>1, <2>1
  <2>4. Len(names') = 0
    BY <2>2, <2>3, Zenon
  <2>5. 1..0 = {}
    OBVIOUS
  <2>6. 1..Len(names') = {}
    BY <2>4, <2>5, Zenon
  <2>7. internal' \subseteq Paths /\ IsFiniteSet(internal')
    BY DEF NamesOk
  <2> QED BY <2>6, <2>7, Zenon DEF NamesOk
<1>2. CASE values' = values
  BY <1>2, Zenon DEF NamesOk
<1> QED BY <1>1, <1>2

(* The functions of the next unit.                                         *)
LEMMA CompileUnitNames ==
  ASSUME PPOk, ParseOk, LinkOk, NamesOk, GiveWords, NumbersTell, CompileUnit, phase' # "failed"
  PROVE  NamesOk' /\ LabelNames(unit, values[unit]).map \in Renamings
<1>1. /\ unit \in 1..Len(values) /\ Len(values) \in Nat /\ DOMAIN values = 1..Len(values)
      /\ values[unit] \in Seq(UOp)
  BY UnitShape
<1>2. PICK p \in Seq(UOp) : p = values[unit]
  BY <1>1
<1>3. unit \in Targets /\ LabelsFormed(p)
  BY <1>1, <1>2 DEF PPOk, ParseOk
<1>4. /\ phase = "compile" /\ values' = values
      /\ Compiles(p)
      /\ names' = Append(names, LabelNames(unit, p).map)
      /\ internal' = LabelNames(unit, p).internal
  BY <1>2 DEF CompileUnit
<1>5. UniqueLabels(p)
  BY <1>4 DEF Compiles
<1>6. internal \subseteq Paths /\ IsFiniteSet(internal)
  BY DEF NamesOk
<1>7. PICK t : t = LabelNames(unit, p)
  OBVIOUS
<1>8. t \in Naming /\ NamedUpTo(p, Len(p), t)
  BY <1>3, <1>5, <1>6, <1>7, LabelNamesShape
<1>9. PICK m, more : m = t.map /\ more = t.internal
  OBVIOUS
<1>10. m \in Renamings /\ more \subseteq Paths /\ IsFiniteSet(more)
  BY <1>8, <1>9 DEF Naming
<1>11. \A k \in LabelPos(p) : k <= Len(p)
  BY DEF LabelPos
<1>12. PlainPos(p) \subseteq LabelPos(p)
  BY DEF PlainPos
<1>13. /\ internal \subseteq more
       /\ \A k \in LabelPos(p) : Entry(p[k].kind) => m[p[k].l] = Spelled(p[k].l[1])
       /\ \A k \in PlainPos(p) : m[p[k].l] \in more \ internal
       /\ \A j, k \in PlainPos(p) : m[p[j].l] = m[p[k].l] => j = k
  BY <1>8, <1>9, <1>11, <1>12, Zenon DEF NamedUpTo
<1>14. NamedIn(p, m, more)
  BY <1>5, <1>13 DEF NamedIn
<1>15. names \in Seq(Renamings) /\ Len(names) + 1 = unit
  BY <1>4 DEF LinkOk
<1>16. PICK n \in Nat : n = Len(names) /\ n + 1 = unit
  BY <1>15
<1>17. names' = Append(names, m) /\ internal' = more
  BY <1>4, <1>7, <1>9
<1>18. /\ Len(names') = n + 1
       /\ \A i \in 1..n : names'[i] = names[i]
       /\ names'[n + 1] = m
  BY <1>10, <1>15, <1>16, <1>17, AppendShape
<1>19. \A u \in 1..(n + 1) : u = n + 1 \/ (u \in 1..n /\ u # n + 1)
  OBVIOUS
<1>20. values[n + 1] = p
  BY <1>2, <1>16
<1>21. ASSUME NEW u \in 1..n PROVE NamedIn(values[u], names[u], internal)
  BY <1>16 DEF NamesOk
<1>22. ASSUME NEW u \in 1..n PROVE NamedIn(values[u], names[u], more)
  BY <1>13, <1>21 DEF NamedIn
<1>23. ASSUME NEW u \in 1..(n + 1) PROVE NamedIn(values[u], names'[u], more)
  BY <1>14, <1>18, <1>19, <1>20, <1>22, Zenon
<1>24. ASSUME NEW u \in 1..n PROVE Apart(values[u], names[u], p, m) /\ Apart(p, m, values[u], names[u])
  <2>1. \A i \in PlainPos(values[u]) : names[u][values[u][i].l] \in internal
    BY <1>21 DEF NamedIn
  <2> QED BY <1>13, <2>1 DEF Apart
<1>25. ASSUME NEW u \in 1..n, NEW v \in 1..n, u # v PROVE Apart(values[u], names[u], values[v], names[v])
  BY <1>16, <1>25 DEF NamesOk
<1>26. ASSUME NEW u \in 1..(n + 1), NEW v \in 1..(n + 1), u # v
       PROVE  Apart(values[u], names'[u], values[v], names'[v])
  <2>1. CASE u = n + 1 /\ v \in 1..n
    BY <1>18, <1>20, <1>24, <2>1, Zenon
  <2>2. CASE u \in 1..n /\ v = n + 1
    BY <1>18, <1>20, <1>24, <2>2, Zenon
  <2>3. CASE u \in 1..n /\ v \in 1..n
    <3>1. Apart(values[u], names[u], values[v], names[v])
      BY <1>25, <1>26, <2>3
    <3> QED BY <1>18, <2>3, <3>1, Zenon
  <2> QED BY <1>19, <1>26, <2>1, <2>2, <2>3
<1>27. NamesOk'
  BY <1>4, <1>10, <1>17, <1>18, <1>23, <1>26, Zenon DEF NamesOk
<1>28. LabelNames(unit, values[unit]).map \in Renamings
  BY <1>2, <1>7, <1>9, <1>10
<1> QED BY <1>27, <1>28

-----------------------------------------------------------------------------
(* All steps.                                                              *)
(* A step of the preprocessor.                                             *)
LEMMA PPPhases ==
  ASSUME PPNext
  PROVE  phase = "pp" /\ phase' \in {"pp", "parse", "failed"} /\ job' = job
<1>1. CASE OutputText \/ Include \/ IgnoreInclude \/ EndInclude
  BY <1>1 DEF OutputText, Include, IgnoreInclude, EndInclude, Reading, AtEnd
<1>2. CASE IncludeFails \/ Unbalanced
  BY <1>2 DEF IncludeFails, Unbalanced, Fail, Reading, AtEnd
<1>3. CASE EndTarget
  BY <1>3 DEF EndTarget, AtEnd
<1>4. CASE Conditional \/ Endif \/ Define \/ DefineFunc \/ Undef \/ Once \/ OtherDirective
  BY <1>4 DEF Conditional, Endif, Define, DefineFunc, Undef, Once, OtherDirective, Reading
<1> QED BY <1>1, <1>2, <1>3, <1>4 DEF PPNext

(* A step before the link leaves it alone.                                 *)
LEMMA FrontEarly ==
  ASSUME FrontOk, UNCHANGED linkVars, phase \in {"pp", "parse", "verify"}, PPOk', ParseOk',
         phase' \in {"pp", "parse", "verify", "compile", "failed"},
         phase' = "verify" => unit' = 1,
         phase' = "compile" => unit' = 1 /\ \A u \in DOMAIN values' : Declared(values'[u])
  PROVE  FrontOk'
<1>1. Len(values') \in Nat
  <2>1. values' \in Seq(Seq(UOp))
    BY DEF ParseOk
  <2> QED BY <2>1
<1>2. LinkOk'
  BY <1>1, LinkEarly DEF FrontOk
<1>3. names = <<>> /\ UNCHANGED <<internal, names>>
  BY DEF FrontOk, LinkOk, linkVars
<1>4. NamesOk'
  BY <1>3, NamesAlone DEF FrontOk
<1> QED BY <1>2, <1>4 DEF FrontOk

(* The preprocessor.                                                       *)
LEMMA PreProcessingFront == FrontOk /\ PreProcessing => FrontOk'
<1> SUFFICES ASSUME FrontOk, PreProcessing PROVE FrontOk'
  OBVIOUS
<1>1. PPNext /\ UNCHANGED <<parseVars, values, linkVars>>
  BY DEF PreProcessing
<1>2. phase = "pp" /\ phase' \in {"pp", "parse", "failed"} /\ job' = job
  BY <1>1, PPPhases
<1>3. PPOk'
  BY <1>1, PreProcessingPP DEF FrontOk
<1>4. ParseOk'
  BY <1>1, <1>2, OthersParse DEF FrontOk
<1> QED BY <1>1, <1>2, <1>3, <1>4, FrontEarly

(* The lines of the parse.                                                 *)
LEMMA LinesFront ==
  FrontOk /\ GoodNames /\ (PushLine \/ PopLine \/ PushLabel \/ PopLabel \/ ParseOp) => FrontOk'
<1> SUFFICES ASSUME FrontOk, GoodNames, PushLine \/ PopLine \/ PushLabel \/ PopLabel \/ ParseOp
             PROVE  FrontOk'
  OBVIOUS
<1>1. /\ phase = "parse" /\ phase' = phase /\ unit' = unit /\ job' = job
      /\ UNCHANGED <<ppVars, linkVars>>
  BY DEF PushLine, PopLine, PushLabel, PopLabel, ParseOp, Parsing
<1>2. PPOk'
  <2>1. phase' \in Phases \ {"pp"} /\ unit' \in Targets
    BY <1>1 DEF FrontOk, PPOk, Phases
  <2> QED BY <1>1, <2>1, LaterPP DEF FrontOk
<1>3. ParseOk'
  BY LinesParse, PushLabelParse, PopLabelParse, ParseOpParse DEF FrontOk, GoodNames
<1> QED BY <1>1, <1>2, <1>3, FrontEarly

(* Errors of the parse.                                                    *)
LEMMA ParseFailsFront == FrontOk /\ ParseFails => FrontOk'
<1> SUFFICES ASSUME FrontOk, ParseFails PROVE FrontOk'
  OBVIOUS
<1>1. /\ phase = "parse" /\ phase' = "failed" /\ unit' = unit /\ job' = job
      /\ UNCHANGED <<ppVars, parseVars, values, linkVars>>
  BY DEF ParseFails, Parsing
<1>2. PPOk'
  <2>1. phase' \in Phases \ {"pp"} /\ unit' \in Targets
    BY <1>1 DEF FrontOk, PPOk, Phases
  <2> QED BY <1>1, <2>1, LaterPP DEF FrontOk
<1>3. ParseOk'
  <2>1. UNCHANGED <<job, values, labelState, labelStack, generated>>
    BY <1>1 DEF parseVars
  <2>2. at' \in Nat \ {0} /\ last' \in LastLabel /\ lineStack' \in Seq(LastLabel)
    BY <1>1 DEF FrontOk, ParseOk, parseVars
  <2>3. phase' \in {"parse", "failed"}
    BY <1>1
  <2> QED BY <1>1, <2>1, <2>2, <2>3, OpsAlone DEF FrontOk
<1> QED BY <1>1, <1>2, <1>3, FrontEarly

(* The unit behind the one at work.                                        *)
LEMMA NextUnit ==
  ASSUME FrontOk, phase \notin {"pp", "failed"},
         (unit < Len(sources) /\ unit' = unit + 1) \/ (unit < Len(values) /\ unit' = unit + 1) \/ unit' = 1,
         job' = job
  PROVE  unit' \in Targets
<1>1. Targets = 1..Len(job.targets) /\ Len(job.targets) \in Nat \ {0} /\ 1 \in Targets
  BY JobShape DEF FrontOk, PPOk
<1>2. unit \in Targets /\ Len(sources) = Len(job.targets) /\ Len(values) = Len(job.targets)
  BY DEF FrontOk, PPOk, ParseOk
<1>3. PICK L \in Nat \ {0} : L = Len(job.targets)
  BY <1>1
<1>4. \A k \in 1..L : k < L => k + 1 \in 1..L
  OBVIOUS
<1>5. Len(sources) = L /\ Len(values) = L /\ Targets = 1..L
  BY <1>1, <1>2, <1>3, Zenon
<1> QED BY <1>1, <1>2, <1>4, <1>5, Zenon

(* EndParse.                                                               *)
LEMMA EndParseFront == FrontOk /\ EndParse => FrontOk'
<1> SUFFICES ASSUME FrontOk, EndParse PROVE FrontOk'
  OBVIOUS
<1>1. /\ phase = "parse" /\ job' = job /\ UNCHANGED <<ppVars, linkVars>>
      /\ \/ unit < Len(sources) /\ unit' = unit + 1 /\ phase' = phase
         \/ unit' = 1 /\ phase' = "verify"
  BY DEF EndParse
<1>2. unit' \in Targets
  BY <1>1, NextUnit
<1>3. PPOk'
  <2>1. phase' \in Phases \ {"pp"}
    BY <1>1 DEF Phases
  <2> QED BY <1>1, <1>2, <2>1, LaterPP DEF FrontOk
<1>4. ParseOk'
  BY EndParseParse DEF FrontOk
<1> QED BY <1>1, <1>3, <1>4, FrontEarly

(* Verify.                                                                 *)
LEMMA VerifyFront == FrontOk /\ Verify => FrontOk'
<1> SUFFICES ASSUME FrontOk, Verify PROVE FrontOk'
  OBVIOUS
<1>1. /\ phase = "verify" /\ job' = job /\ unit' = unit /\ UNCHANGED <<ppVars, linkVars>>
      /\ phase' \in {"compile", "failed"}
  BY DEF Verify
<1>2. unit = 1 /\ unit \in Targets
  BY <1>1 DEF FrontOk, LinkOk, PPOk
<1>3. PPOk'
  <2>1. phase' \in Phases \ {"pp"}
    BY <1>1 DEF Phases
  <2> QED BY <1>1, <1>2, <2>1, LaterPP DEF FrontOk
<1>4. ParseOk' /\ (phase' = "compile" => \A u \in DOMAIN values' : Declared(values'[u]))
  BY VerifyParse DEF FrontOk
<1> QED BY <1>1, <1>2, <1>3, <1>4, FrontEarly

(* CompileUnit.                                                            *)
LEMMA CompileUnitFront == FrontOk /\ GoodNames /\ CompileUnit => FrontOk'
<1> SUFFICES ASSUME FrontOk, GoodNames, CompileUnit PROVE FrontOk'
  OBVIOUS
<1>1. /\ phase = "compile" /\ job' = job /\ UNCHANGED <<ppVars, parseVars, values>>
      /\ \/ phase' = "failed" /\ unit' = unit /\ UNCHANGED linkVars
         \/ unit < Len(values) /\ unit' = unit + 1 /\ phase' = phase
         \/ unit' = 1 /\ phase' = "built"
  BY DEF CompileUnit
<1>2. unit' \in Targets
  <2>1. unit \in Targets
    BY DEF FrontOk, PPOk
  <2>2. CASE phase' = "failed" /\ unit' = unit
    BY <2>1, <2>2
  <2> QED BY <1>1, <2>1, <2>2, NextUnit
<1>3. PPOk'
  <2>1. phase' \in Phases \ {"pp"}
    BY <1>1 DEF Phases
  <2> QED BY <1>1, <1>2, <2>1, LaterPP DEF FrontOk
<1>4. ParseOk'
  <2>1. phase' \in {"compile", "built", "failed"}
    BY <1>1
  <2> QED BY <1>1, <2>1, OthersParse DEF FrontOk
<1>5. CASE phase' = "failed" /\ UNCHANGED linkVars
  <2>1. LinkOk'
    BY <1>1, <1>5, LinkAlone DEF FrontOk
  <2>2. NamesOk'
    BY <1>1, <1>5, NamesAlone DEF FrontOk, linkVars
  <2> QED BY <1>3, <1>4, <2>1, <2>2 DEF FrontOk
<1>6. CASE phase' # "failed"
  <2>1. NamesOk' /\ LabelNames(unit, values[unit]).map \in Renamings
    BY <1>6, CompileUnitNames DEF FrontOk, GoodNames
  <2>2. LinkOk'
    BY <1>6, <2>1, CompileUnitLink DEF FrontOk
  <2> QED BY <1>3, <1>4, <2>1, <2>2 DEF FrontOk
<1> QED BY <1>1, <1>5, <1>6

(* The game.                                                               *)
LEMMA GameFront ==
  ASSUME FrontOk, UNCHANGED <<job, phase, unit, ppVars, parseVars, values, linkVars>>
  PROVE  FrontOk'
<1>1. UNCHANGED <<frames, defines, funcs, includeOnce, bypass, sources>>
  BY DEF ppVars
<1>2. UNCHANGED <<at, last, lineStack, labelState, labelStack, generated>>
  BY DEF parseVars
<1>3. UNCHANGED <<staticMap, staticData, names, internal, startFunc>>
  BY DEF linkVars
<1>4. PPOk'
  <2>1. Targets' = Targets
    BY DEF Targets
  <2> QED BY <1>1, <2>1, Zenon DEF FrontOk, PPOk
<1>5. ParseOk'
  BY <1>2, OthersParse DEF FrontOk
<1>6. LinkOk'
  BY LinkAlone DEF FrontOk
<1>7. NamesOk'
  BY <1>3, NamesAlone DEF FrontOk
<1> QED BY <1>4, <1>5, <1>6, <1>7 DEF FrontOk

(* All of them.                                                            *)
LEMMA FrontStep == FrontOk /\ GoodNames /\ [Next]_vars => FrontOk'
<1> SUFFICES ASSUME FrontOk, GoodNames, [Next]_vars PROVE FrontOk'
  OBVIOUS
<1>1. CASE PreProcessing
  BY <1>1, PreProcessingFront
<1>2. CASE Compiling
  BY <1>2, LinesFront, ParseFailsFront, EndParseFront, VerifyFront, CompileUnitFront DEF Compiling
<1>3. CASE Game \/ Load \/ Grow
  <2>1. UNCHANGED <<job, phase, unit, ppVars, parseVars, values, linkVars>>
    BY <1>3 DEF Game, RunInit, RunData, RunStart, Tick, Load, Grow
  <2> QED BY <2>1, GameFront
<1>4. CASE UNCHANGED vars
  <2>1. UNCHANGED <<job, phase, unit, ppVars, parseVars, values, linkVars>>
    BY <1>4 DEF vars
  <2> QED BY <2>1, GameFront
<1> QED BY <1>1, <1>2, <1>3, <1>4 DEF Next

(* At first.                                                               *)
LEMMA InitFront == Init => FrontOk
<1> SUFFICES ASSUME Init PROVE FrontOk
  OBVIOUS
<1>1. PPOk /\ ParseOk
  BY InitPP, InitParse
<1>2. /\ staticMap = <<>> /\ staticData = <<>> /\ names = <<>> /\ internal = {} /\ phase = "pp"
  BY DEF Init, PPInit
<1>3. PICK e : e = <<>>
  OBVIOUS
<1>4. e \in Seq(Int) /\ e \in Seq(StaticMaps) /\ e \in Seq(Renamings) /\ Len(e) = 0
  BY <1>3
<1>5. staticMap = e /\ staticData = e /\ names = e
  BY <1>2, <1>3
<1>6. Len(values) \in Nat
  <2>1. values \in Seq(Seq(UOp))
    BY <1>1 DEF ParseOk
  <2> QED BY <2>1
<1>7. \A n \in Nat : 0 \in 0..n
  OBVIOUS
<1>8. 1..0 = {}
  OBVIOUS
<1>9. Len(names) \in 0..Len(values) /\ 1..Len(names) = {} /\ Len(staticMap) = Len(names)
  BY <1>4, <1>5, <1>6, <1>7, <1>8, Zenon
<1>10. LinkOk
  BY <1>2, <1>4, <1>5, <1>9, Zenon DEF LinkOk
<1>11. IsFiniteSet({})
  BY FS_EmptySet
<1>12. NamesOk
  BY <1>2, <1>9, <1>11 DEF NamesOk
<1> QED BY <1>1, <1>10, <1>12 DEF FrontOk

-----------------------------------------------------------------------------
(* The schedule of the game.                                               *)
(* The entries of t are entries of s, in the same order.                   *)
Follows(t, s, g) ==
  \A i \in DOMAIN t :
    /\ g[i] \in DOMAIN s /\ t[i] = s[g[i]]
    /\ \A k \in DOMAIN t : i < k => g[i] < g[k]

Within(t, s) == \E g : Follows(t, s, g)

(* So they are scheduled as they were.                                     *)
LEMMA WithinKeeps ==
  ASSUME NEW s \in Seq(Slots), NEW t \in Seq(Slots), Within(t, s)
  PROVE  /\ Single(s) => Single(t)
         /\ \A a, b : Together(s, a, b) => Together(t, a, b)
         /\ \A a, b : Ahead(s, a, b) => Ahead(t, a, b)
         /\ \A i \in DOMAIN t : \E k \in DOMAIN s : t[i] = s[k]
<1>1. PICK g : Follows(t, s, g)
  BY DEF Within
<1>2. /\ \A i \in DOMAIN t : g[i] \in DOMAIN s /\ t[i] = s[g[i]]
      /\ \A i, k \in DOMAIN t : i < k => g[i] < g[k]
  BY <1>1 DEF Follows
<1>3. DOMAIN t \subseteq Nat /\ DOMAIN s \subseteq Nat
  <2>1. DOMAIN t = 1..Len(t)
    OBVIOUS
  <2>2. DOMAIN s = 1..Len(s)
    OBVIOUS
  <2> QED BY <2>1, <2>2
<1>4. ASSUME NEW i \in DOMAIN t, NEW k \in DOMAIN t, g[i] = g[k] PROVE i = k
  <2>1. i \in Nat /\ k \in Nat /\ g[i] \in Nat /\ g[k] \in Nat
    BY <1>2, <1>3
  <2>2. ~(i < k) /\ ~(k < i)
    BY <1>2, <1>4, <2>1
  <2> QED BY <2>1, <2>2
<1>5. Single(s) => Single(t)
  BY <1>2, <1>4 DEF Single
<1>6. ASSUME NEW a, NEW b, Together(s, a, b) PROVE Together(t, a, b)
  <2> SUFFICES ASSUME NEW i \in DOMAIN t, NEW k \in DOMAIN t, t[i][2] = a, t[k][2] = b
               PROVE  t[i][1] = t[k][1] /\ i < k
    BY DEF Together, For
  <2>1. s[g[i]][1] = s[g[k]][1] /\ g[i] < g[k]
    BY <1>2, <1>6 DEF Together, For
  <2>2. i \in Nat /\ k \in Nat /\ g[i] \in Nat /\ g[k] \in Nat
    BY <1>2, <1>3
  <2>3. ~(k < i) /\ i # k
    BY <1>2, <2>1, <2>2
  <2> QED BY <1>2, <2>1, <2>2, <2>3
<1>7. ASSUME NEW a, NEW b, Ahead(s, a, b) PROVE Ahead(t, a, b)
  BY <1>2, <1>7 DEF Ahead, For
<1>8. \A i \in DOMAIN t : \E k \in DOMAIN s : t[i] = s[k]
  BY <1>2
<1> QED BY <1>5, <1>6, <1>7, <1>8

(* All is within itself.                                                   *)
LEMMA WithinSelf == ASSUME NEW s \in Seq(Slots) PROVE Within(s, s)
<1>1. PICK g : g = [i \in DOMAIN s |-> i]
  OBVIOUS
<1>2. \A i \in DOMAIN s : g[i] = i
  BY <1>1
<1>3. Follows(s, s, g)
  BY <1>2 DEF Follows
<1> QED BY <1>3 DEF Within

(* One entry less.                                                         *)
LEMMA LessShape ==
  ASSUME NEW s \in Seq(Slots), NEW i \in DOMAIN s
  PROVE  /\ Less(s, i) \in Seq(Slots)
         /\ Within(Less(s, i), s)
         /\ Single(s) => Scheduled(Less(s, i)) = Scheduled(s) \ {s[i][2]}
<1>1. PICK n \in Nat : n = Len(s) /\ DOMAIN s = 1..n /\ n > 0
  <2>1. Len(s) \in Nat /\ DOMAIN s = 1..Len(s)
    OBVIOUS
  <2>2. Len(s) > 0
    BY <2>1
  <2> QED BY <2>1, <2>2
<1>2. PICK m \in Nat : m = n - 1
  BY <1>1
<1>3. PICK g : g = [k \in 1..m |-> IF k < i THEN k ELSE k + 1]
  OBVIOUS
<1>4. PICK t : t = Less(s, i)
  OBVIOUS
<1>5. t = [k \in 1..m |-> s[IF k < i THEN k ELSE k + 1]]
  BY <1>1, <1>2, <1>4 DEF Less
<1>6. i \in 1..n /\ i \in Nat
  BY <1>1
<1>7. ASSUME NEW k \in 1..m
      PROVE  g[k] \in 1..n /\ g[k] # i /\ t[k] = s[g[k]]
  <2>1. g[k] = IF k < i THEN k ELSE k + 1
    BY <1>3
  <2>2. t[k] = s[IF k < i THEN k ELSE k + 1]
    BY <1>5
  <2>3. g[k] \in 1..n /\ g[k] # i
    BY <1>2, <1>6, <2>1
  <2> QED BY <2>1, <2>2, <2>3
<1>8. ASSUME NEW k \in 1..m, NEW l \in 1..m, k < l PROVE g[k] < g[l]
  BY <1>3, <1>6, <1>8
<1>9. ASSUME NEW j \in 1..n, j # i PROVE \E k \in 1..m : g[k] = j
  <2>1. CASE j < i
    <3>1. j \in 1..m
      BY <1>2, <1>6, <2>1
    <3>2. g[j] = j
      BY <1>3, <2>1, <3>1
    <3> QED BY <3>1, <3>2
  <2>2. CASE ~(j < i)
    <3>1. j - 1 \in 1..m /\ ~(j - 1 < i) /\ (j - 1) + 1 = j
      BY <1>2, <1>6, <1>9, <2>2
    <3>2. g[j - 1] = j
      BY <1>3, <3>1
    <3> QED BY <3>1, <3>2
  <2> QED BY <2>1, <2>2
<1>10. DOMAIN t = 1..m
  BY <1>5
<1>11. t \in Seq(Slots)
  <2>1. ASSUME NEW k \in 1..m PROVE t[k] \in Slots
    <3>1. s[g[k]] \in Slots
      <4>1. g[k] \in 1..Len(s)
        BY <1>1, <1>7
      <4> QED BY <4>1
    <3> QED BY <1>7, <3>1
  <2>2. t \in [1..m -> Slots]
    BY <1>5, <2>1
  <2> QED BY <2>2
<1>12. Follows(t, s, g)
  BY <1>1, <1>7, <1>8, <1>10, Zenon DEF Follows
<1>13. ASSUME Single(s) PROVE Scheduled(t) = Scheduled(s) \ {s[i][2]}
  <2>1. ASSUME NEW k \in 1..m PROVE t[k][2] \in Scheduled(s) \ {s[i][2]}
    <3>1. s[g[k]][2] # s[i][2]
      BY <1>1, <1>6, <1>7, <1>13 DEF Single
    <3>2. s[g[k]][2] \in Scheduled(s)
      BY <1>1, <1>7 DEF Scheduled
    <3> QED BY <1>7, <3>1, <3>2
  <2>2. ASSUME NEW j \in 1..n, s[j][2] # s[i][2] PROVE s[j][2] \in Scheduled(t)
    <3>1. PICK k \in 1..m : g[k] = j
      BY <1>9, <2>2
    <3>2. t[k][2] = s[j][2]
      BY <1>7, <3>1
    <3> QED BY <1>10, <3>2 DEF Scheduled
  <2> QED BY <1>1, <1>10, <2>1, <2>2 DEF Scheduled
<1> QED BY <1>4, <1>11, <1>12, <1>13 DEF Within

(* w is t with function f for tick m behind it.                            *)
Added(t, f, m, w) ==
  /\ w \in Seq(Slots)
  /\ Single(w)
  /\ Scheduled(w) = Scheduled(t) \cup {f}
  /\ \A i \in DOMAIN w : For(w, i, f) => w[i][1] = m
  /\ \A i \in DOMAIN w : ~For(w, i, f) => i \in DOMAIN t /\ w[i] = t[i]
  /\ \A i, k \in DOMAIN w : ~For(w, i, f) /\ For(w, k, f) => i < k

(* One entry more, behind the others.                                      *)
LEMMA MoreShape ==
  ASSUME NEW t \in Seq(Slots), Single(t), NEW m \in Nat, NEW f \in LoadFunctions, f \notin Scheduled(t)
  PROVE  Added(t, f, m, Append(t, <<m, f>>))
<1>0. PICK w : w = Append(t, <<m, f>>)
  OBVIOUS
<1>1. PICK x : x = <<m, f>>
  OBVIOUS
<1>2. x \in Slots /\ x[1] = m /\ x[2] = f
  BY <1>1 DEF Slots
<1>3. PICK n \in Nat : n = Len(t) /\ DOMAIN t = 1..n
  <2>1. Len(t) \in Nat /\ DOMAIN t = 1..Len(t)
    OBVIOUS
  <2> QED BY <2>1
<1>4. /\ w \in Seq(Slots) /\ Len(w) = n + 1
      /\ \A i \in 1..n : w[i] = t[i]
      /\ w[n + 1] = x
  BY <1>0, <1>1, <1>2, <1>3, AppendShape
<1>5. DOMAIN w = 1..(n + 1)
  <2>1. w \in Seq(Slots)
    BY <1>4
  <2>2. DOMAIN w = 1..Len(w)
    BY <2>1
  <2> QED BY <1>4, <2>2
<1>6. ASSUME NEW i \in 1..(n + 1)
      PROVE  (i \in 1..n /\ w[i] = t[i] /\ w[i][2] # f /\ i < n + 1) \/ (i = n + 1 /\ w[i] = x)
  <2>1. CASE i = n + 1
    BY <1>4, <2>1
  <2>2. CASE i # n + 1
    <3>1. i \in 1..n /\ i < n + 1
      BY <2>2
    <3>2. t[i][2] \in Scheduled(t)
      BY <1>3, <3>1 DEF Scheduled
    <3> QED BY <1>4, <3>1, <3>2
  <2> QED BY <2>1, <2>2
<1>7. Single(w)
  <2> SUFFICES ASSUME NEW i \in 1..(n + 1), NEW k \in 1..(n + 1), w[i][2] = w[k][2]
               PROVE  i = k
    BY <1>5 DEF Single
  <2>1. CASE i \in 1..n /\ w[i] = t[i] /\ k \in 1..n /\ w[k] = t[k]
    BY <1>3, <2>1 DEF Single
  <2>2. CASE i = n + 1 /\ k = n + 1
    BY <2>2
  <2> QED BY <1>2, <1>6, <2>1, <2>2
<1>8. Scheduled(w) = Scheduled(t) \cup {f}
  <2>1. ASSUME NEW i \in 1..(n + 1) PROVE w[i][2] \in Scheduled(t) \cup {f}
    <3>1. CASE i \in 1..n /\ w[i] = t[i]
      BY <1>3, <3>1 DEF Scheduled
    <3>2. CASE i = n + 1 /\ w[i] = x
      BY <1>2, <3>2
    <3> QED BY <1>6, <3>1, <3>2
  <2>2. ASSUME NEW i \in 1..n PROVE t[i][2] \in Scheduled(w)
    <3>1. i \in 1..(n + 1) /\ w[i] = t[i]
      BY <1>4
    <3> QED BY <1>5, <3>1 DEF Scheduled
  <2>3. f \in Scheduled(w)
    <3>1. n + 1 \in 1..(n + 1)
      OBVIOUS
    <3> QED BY <1>2, <1>4, <1>5, <3>1 DEF Scheduled
  <2> QED BY <1>3, <1>5, <2>1, <2>2, <2>3 DEF Scheduled
<1>9. \A i \in DOMAIN w : For(w, i, f) => w[i][1] = m
  BY <1>2, <1>5, <1>6 DEF For
<1>10. \A i \in DOMAIN w : ~For(w, i, f) => i \in DOMAIN t /\ w[i] = t[i]
  BY <1>2, <1>3, <1>5, <1>6 DEF For
<1>11. \A i, k \in DOMAIN w : ~For(w, i, f) /\ For(w, k, f) => i < k
  BY <1>2, <1>5, <1>6 DEF For
<1> QED BY <1>0, <1>4, <1>7, <1>8, <1>9, <1>10, <1>11 DEF Added

(* What that keeps.                                                        *)
LEMMA MoreKeeps ==
  ASSUME NEW t, NEW w, NEW f, NEW a, NEW b, a # f, b # f,
         \A i \in DOMAIN w : ~For(w, i, f) => i \in DOMAIN t /\ w[i] = t[i]
  PROVE  /\ Together(t, a, b) => Together(w, a, b)
         /\ Ahead(t, a, b) => Ahead(w, a, b)
<1>1. \A i \in DOMAIN w : For(w, i, a) => For(t, i, a) /\ w[i] = t[i]
  BY DEF For
<1>2. \A i \in DOMAIN w : For(w, i, b) => For(t, i, b) /\ w[i] = t[i]
  BY DEF For
<1>3. ASSUME NEW i \in DOMAIN w, NEW k \in DOMAIN w, For(w, i, a), For(w, k, b)
      PROVE  /\ i \in DOMAIN t /\ For(t, i, a) /\ w[i] = t[i]
             /\ k \in DOMAIN t /\ For(t, k, b) /\ w[k] = t[k]
  <2>1. For(t, i, a) /\ w[i] = t[i] /\ For(t, k, b) /\ w[k] = t[k]
    BY <1>1, <1>2, <1>3
  <2> QED BY <2>1 DEF For
<1>4. ASSUME Together(t, a, b) PROVE Together(w, a, b)
  <2> SUFFICES ASSUME NEW i \in DOMAIN w, NEW k \in DOMAIN w, For(w, i, a), For(w, k, b)
               PROVE  w[i][1] = w[k][1] /\ i < k
    BY DEF Together
  <2>1. t[i][1] = t[k][1] /\ i < k
    BY <1>3, <1>4 DEF Together
  <2> QED BY <1>3, <2>1
<1>5. Ahead(t, a, b) => Ahead(w, a, b)
  BY <1>3, Zenon DEF Ahead
<1> QED BY <1>4, <1>5

(* Function f runs at tick e.                                              *)
AtTick(s, f, e) == \A i \in DOMAIN s : For(s, i, f) => s[i][1] = e

(* Function f, which may have been scheduled before, is now for tick m.    *)
Reset(s, f, m, w) ==
  /\ w \in Seq(Slots)
  /\ Single(w)
  /\ Scheduled(w) = Scheduled(s) \cup {f}
  /\ AtTick(w, f, m)
  /\ \A i \in DOMAIN w : ~For(w, i, f) => \E k \in DOMAIN s : w[i] = s[k]
  /\ \A i, k \in DOMAIN w : ~For(w, i, f) /\ For(w, k, f) => i < k
  /\ \A a, b : a # f /\ b # f /\ Together(s, a, b) => Together(w, a, b)
  /\ \A a, b : a # f /\ b # f /\ Ahead(s, a, b) => Ahead(w, a, b)

(* schedule function.                                                      *)
LEMMA ScheduleShape ==
  ASSUME NEW s \in Seq(Slots), Single(s), NEW f \in LoadFunctions, NEW k \in Nat, now \in Nat
  PROVE  Reset(s, f, now + k, Schedule(s, f, k))
<1>1. PICK of : of = {i \in DOMAIN s : s[i][2] = f}
  OBVIOUS
<1>2. PICK t : t = IF of = {} THEN s ELSE Less(s, CHOOSE i \in of : TRUE)
  OBVIOUS
<1>3. PICK m \in Nat : m = now + k
  OBVIOUS
<1>4. PICK w : w = Schedule(s, f, k)
  OBVIOUS
<1>5. w = Append(t, <<m, f>>)
  BY <1>1, <1>2, <1>3, <1>4 DEF Schedule
<1>6. t \in Seq(Slots) /\ Within(t, s) /\ Scheduled(t) = Scheduled(s) \ {f}
  <2>1. CASE of = {}
    <3>1. t = s
      BY <1>2, <2>1
    <3>2. f \notin Scheduled(s)
      BY <1>1, <2>1 DEF Scheduled
    <3>3. Scheduled(s) = Scheduled(s) \ {f}
      BY <3>2
    <3> QED BY <3>1, <3>3, WithinSelf
  <2>2. CASE of # {}
    <3>1. PICK c : c = CHOOSE i \in of : TRUE
      OBVIOUS
    <3>2. c \in of
      BY <2>2, <3>1
    <3>3. c \in DOMAIN s /\ s[c][2] = f
      BY <1>1, <3>2
    <3>4. t = Less(s, c)
      BY <1>2, <2>2, <3>1
    <3> QED BY <3>3, <3>4, LessShape
  <2> QED BY <2>1, <2>2
<1>7. /\ Single(t)
      /\ \A a, b : Together(s, a, b) => Together(t, a, b)
      /\ \A a, b : Ahead(s, a, b) => Ahead(t, a, b)
      /\ \A i \in DOMAIN t : \E j \in DOMAIN s : t[i] = s[j]
  BY <1>6, WithinKeeps
<1>8. f \notin Scheduled(t)
  BY <1>6
<1>9. /\ w \in Seq(Slots)
      /\ Single(w)
      /\ Scheduled(w) = Scheduled(t) \cup {f}
      /\ \A i \in DOMAIN w : For(w, i, f) => w[i][1] = m
      /\ \A i \in DOMAIN w : ~For(w, i, f) => i \in DOMAIN t /\ w[i] = t[i]
      /\ \A i, j \in DOMAIN w : ~For(w, i, f) /\ For(w, j, f) => i < j
  <2>1. Added(t, f, m, Append(t, <<m, f>>))
    BY <1>6, <1>7, <1>8, MoreShape
  <2> QED BY <1>5, <2>1, Zenon DEF Added
<1>10. \A i \in DOMAIN w : ~For(w, i, f) => \E j \in DOMAIN s : w[i] = s[j]
  BY <1>7, <1>9, Zenon
<1>11. ASSUME NEW a, NEW b, a # f, b # f, Together(s, a, b) PROVE Together(w, a, b)
  BY <1>7, <1>9, <1>11, MoreKeeps
<1>12. ASSUME NEW a, NEW b, a # f, b # f, Ahead(s, a, b) PROVE Ahead(w, a, b)
  BY <1>7, <1>9, <1>12, MoreKeeps
<1>13. Scheduled(w) = Scheduled(s) \cup {f}
  BY <1>6, <1>9
<1>14. Reset(s, f, m, w)
  BY <1>9, <1>10, <1>11, <1>12, <1>13, Zenon DEF Reset, AtTick
<1> QED BY <1>3, <1>4, <1>14

-----------------------------------------------------------------------------
(* What runs is due now, and first.                                        *)
LEMMA RunsShape ==
  ASSUME GameOk, NEW f, Runs(f)
  PROVE  \E i \in DOMAIN sched :
           /\ sched[i][2] = f /\ sched[i][1] = now /\ sched' = Less(sched, i)
           /\ \A j \in DOMAIN sched : sched[j][1] = now => i <= j
<1>1. PICK s : s = sched
  OBVIOUS
<1>2. s \in Seq(Slots) /\ now \in Nat /\ \A i \in DOMAIN s : s[i][1] \in now..(now + 2)
  BY <1>1 DEF GameOk
<1>3. PICK due : due = {i \in DOMAIN s : s[i][1] <= now}
  OBVIOUS
<1>4. due = Due /\ due # {}
  BY <1>1, <1>3 DEF Due, Runs
<1>5. \A i \in DOMAIN s : s[i][1] <= now => s[i][1] = now
  BY <1>2
<1>6. due \in SUBSET Nat
  <2>1. DOMAIN s = 1..Len(s)
    BY <1>2
  <2> QED BY <1>3, <2>1
<1>7. PICK l \in due : \A j \in due : l <= j
  BY <1>4, <1>6, LeastElement
<1>8. PICK c : c = CHOOSE k \in due : \A j \in due : s[k][1] < s[j][1] \/ (s[k][1] = s[j][1] /\ k <= j)
  OBVIOUS
<1>9. \A j \in due : j \in DOMAIN s /\ s[j][1] = now
  BY <1>3, <1>5
<1>10. \A j \in due : s[l][1] < s[j][1] \/ (s[l][1] = s[j][1] /\ l <= j)
  BY <1>7, <1>9
<1>11. c \in due /\ \A j \in due : s[c][1] < s[j][1] \/ (s[c][1] = s[j][1] /\ c <= j)
  BY <1>7, <1>8, <1>10
<1>12. \A j \in due : c <= j
  <2>1. ~(now < now)
    BY <1>2
  <2> QED BY <1>9, <1>11, <2>1
<1>13. s[c][2] = f /\ sched' = Less(s, c)
  <2>1. c = CHOOSE k \in Due : \A j \in Due : sched[k][1] < sched[j][1] \/ (sched[k][1] = sched[j][1] /\ k <= j)
    BY <1>1, <1>4, <1>8
  <2>2. sched[c][2] = f /\ sched' = Less(sched, c)
    BY <2>1 DEF Runs
  <2> QED BY <1>1, <2>2
<1>14. ASSUME NEW j \in DOMAIN s, s[j][1] = now PROVE c <= j
  <2>1. j \in due
    BY <1>2, <1>3, <1>14
  <2> QED BY <1>12, <2>1
<1> QED BY <1>1, <1>9, <1>11, <1>13, <1>14

(* What is left when f has run.                                            *)
Left(f) ==
  /\ sched' \in Seq(Slots)
  /\ Ordered(sched')
  /\ Scheduled(sched') = Scheduled(sched) \ {f}
  /\ \A i \in DOMAIN sched' : \E k \in DOMAIN sched : sched'[i] = sched[k]
  /\ \E i \in DOMAIN sched :
       /\ For(sched, i, f) /\ sched[i][1] = now
       /\ \A j \in DOMAIN sched : sched[j][1] = now => i <= j

LEMMA RunsLeft == ASSUME GameOk, NEW f, Runs(f) PROVE Left(f)
<1>1. PICK i \in DOMAIN sched :
           /\ sched[i][2] = f /\ sched[i][1] = now /\ sched' = Less(sched, i)
           /\ \A j \in DOMAIN sched : sched[j][1] = now => i <= j
  BY RunsShape
<1>2. sched \in Seq(Slots) /\ Ordered(sched) /\ Single(sched)
  BY DEF GameOk, Ordered
<1>3. PICK s : s = sched
  OBVIOUS
<1>4. PICK t : t = Less(s, i)
  OBVIOUS
<1>5. t \in Seq(Slots) /\ Within(t, s) /\ Scheduled(t) = Scheduled(s) \ {s[i][2]}
  BY <1>2, <1>3, <1>4, LessShape
<1>6. /\ Single(t)
      /\ \A a, b : Together(s, a, b) => Together(t, a, b)
      /\ \A a, b : Ahead(s, a, b) => Ahead(t, a, b)
      /\ \A k \in DOMAIN t : \E j \in DOMAIN s : t[k] = s[j]
  BY <1>2, <1>3, <1>5, WithinKeeps
<1>7. Ordered(t)
  BY <1>2, <1>3, <1>6 DEF Ordered
<1>8. sched' = t
  BY <1>1, <1>3, <1>4
<1>9. For(sched, i, f)
  BY <1>1 DEF For
<1>10. Scheduled(t) = Scheduled(sched) \ {f}
  BY <1>1, <1>3, <1>5
<1> QED BY <1>1, <1>3, <1>5, <1>6, <1>7, <1>8, <1>9, <1>10, Zenon DEF Left

(* What is scheduled has an entry.                                         *)
LEMMA ScheduledFor == \A s, f : f \in Scheduled(s) <=> \E i \in DOMAIN s : For(s, i, f)
BY DEF Scheduled, For

(* What has run leaves the ticks of the others.                            *)
LEMMA LeftTicks ==
  ASSUME GameOk, NEW f, Left(f)
  PROVE  /\ \A i \in DOMAIN sched' : sched'[i][1] \in now..(now + 2)
         /\ loads > 0 /\ loads \in Nat
         /\ f \in Scheduled(sched)
<1>1. \A i \in DOMAIN sched : sched[i][1] \in now..(now + 2)
  BY DEF GameOk
<1>2. \A i \in DOMAIN sched' : \E k \in DOMAIN sched : sched'[i] = sched[k]
  BY DEF Left
<1>3. \A i \in DOMAIN sched' : sched'[i][1] \in now..(now + 2)
  BY <1>1, <1>2
<1>4. f \in Scheduled(sched)
  BY ScheduledFor DEF Left
<1>5. loads \in Nat /\ (loads = 0 => sched = <<>>)
  BY DEF GameOk
<1>6. sched # <<>>
  <2>1. PICK e : e = <<>>
    OBVIOUS
  <2>2. DOMAIN e = {}
    BY <2>1
  <2>3. DOMAIN sched # {}
    BY DEF Left
  <2> QED BY <2>1, <2>2, <2>3
<1>7. loads # 0
  BY <1>5, <1>6, Zenon
<1> QED BY <1>3, <1>4, <1>5, <1>7

(* The parts of the invariant.                                             *)
GameTypes ==
  /\ sched \in Seq(Slots)
  /\ now \in Nat /\ loads \in Nat /\ shp \in Nat /\ base = 0
  /\ heap \in [0..(HeapSize - 1) -> Int]
  /\ program \in {"none", "runs", "stale"}
  /\ shp <= HeapSize

GameOrder ==
  /\ phase # "built" => loads = 0
  /\ loads = 0 => sched = <<>> /\ program = "none"
  /\ \A i \in DOMAIN sched : sched[i][1] \in now..(now + 2)
  /\ Ordered(sched)
  /\ "data" \in Scheduled(sched) => staticData # <<>>
  /\ "start" \in Scheduled(sched) => startFunc # None
  /\ "init" \in Scheduled(sched) => staticData = <<>> \/ "data" \in Scheduled(sched)

GameData ==
  /\ "data" \in Scheduled(sched) /\ "init" \notin Scheduled(sched) =>
       shp = 0 /\ \A i \in DOMAIN sched : For(sched, i, "data") => sched[i][1] = now
  /\ loads > 0 /\ Scheduled(sched) \cap {"init", "data"} = {} => Loaded
  /\ program = "runs" => loads > 0 /\ Scheduled(sched) \cap {"init", "data"} = {}

LEMMA GameParts == GameTypes' /\ GameOrder' /\ GameData' => GameOk'
BY Zenon DEF GameOk, GameTypes, GameOrder, GameData

(* Nothing but the game.                                                   *)
LEMMA Played ==
  ASSUME UNCHANGED linkVars
  PROVE  UNCHANGED <<staticData, startFunc>>
BY DEF linkVars

(* The order, when f has run.                                              *)
LEMMA RunsOrder ==
  ASSUME GameOk, NEW f, Left(f), UNCHANGED <<phase, linkVars, now, loads>>, f = "data" => "init" \notin Scheduled(sched')
  PROVE  GameOrder'
<1>1. UNCHANGED <<staticData, startFunc>>
  BY Played
<1>2. Ordered(sched') /\ Scheduled(sched') = Scheduled(sched) \ {f}
  BY DEF Left
<1>3. /\ \A i \in DOMAIN sched' : sched'[i][1] \in now'..(now' + 2)
      /\ loads' > 0 /\ loads' # 0
  <2>1. /\ \A i \in DOMAIN sched' : sched'[i][1] \in now..(now + 2)
        /\ loads > 0 /\ loads # 0
    BY LeftTicks
  <2> QED BY <2>1
<1>4. /\ phase # "built" => loads = 0
      /\ "data" \in Scheduled(sched) => staticData # <<>>
      /\ "start" \in Scheduled(sched) => startFunc # None
      /\ "init" \in Scheduled(sched) => staticData = <<>> \/ "data" \in Scheduled(sched)
  BY DEF GameOk
<1>5. /\ phase' # "built" => loads' = 0
      /\ "data" \in Scheduled(sched') => staticData' # <<>>
      /\ "start" \in Scheduled(sched') => startFunc' # None
      /\ "init" \in Scheduled(sched') => staticData' = <<>> \/ "data" \in Scheduled(sched')
  BY <1>1, <1>2, <1>4
<1> QED BY <1>2, <1>3, <1>5, Zenon DEF GameOrder

(* RunInit.                                                                *)
LEMMA RunInitGame ==
  ASSUME GameOk, RunInit, HeapSize \in Nat
  PROVE  GameOk'
<1>1. Left("init") /\ UNCHANGED <<phase, linkVars, now, loads, base, program>> /\ shp' = 0
      /\ heap' = [a \in 0..(HeapSize - 1) |-> 0]
  BY RunsLeft DEF RunInit
<1>2. /\ \A i \in DOMAIN sched' : sched'[i][1] \in now..(now + 2)
      /\ loads > 0 /\ "init" \in Scheduled(sched)
  BY <1>1, LeftTicks
<1>3. /\ sched' \in Seq(Slots)
      /\ Scheduled(sched') = Scheduled(sched) \ {"init"}
      /\ \A i \in DOMAIN sched' : \E k \in DOMAIN sched : sched'[i] = sched[k]
  BY <1>1 DEF Left
<1>4. GameOrder'
  BY <1>1, RunsOrder
<1>5. GameTypes'
  <2>1. now \in Nat /\ loads \in Nat /\ base = 0 /\ program \in {"none", "runs", "stale"}
    BY DEF GameOk
  <2>2. heap' \in [0..(HeapSize - 1) -> Int]
    BY <1>1
  <2>3. 0 \in Nat /\ 0 <= HeapSize
    OBVIOUS
  <2> QED BY <1>1, <1>3, <2>1, <2>2, <2>3, Zenon DEF GameTypes
<1>6. Together(sched, "init", "data") /\ (program = "runs" => Scheduled(sched) \cap {"init", "data"} = {})
      /\ ("init" \in Scheduled(sched) => staticData = <<>> \/ "data" \in Scheduled(sched))
  BY DEF GameOk, Ordered
<1>7. PICK c \in DOMAIN sched : For(sched, c, "init") /\ sched[c][1] = now
  BY <1>1 DEF Left
<1>8. ASSUME NEW i \in DOMAIN sched', For(sched', i, "data") PROVE sched'[i][1] = now
  <2>1. PICK k \in DOMAIN sched : sched'[i] = sched[k]
    BY <1>3
  <2>2. For(sched, k, "data")
    BY <1>8, <2>1 DEF For
  <2>3. sched[c][1] = sched[k][1]
    BY <1>6, <1>7, <2>2 DEF Together
  <2> QED BY <1>7, <2>1, <2>3
<1>9. ASSUME Scheduled(sched') \cap {"init", "data"} = {} PROVE Loaded'
  <2>1. staticData = <<>>
    BY <1>2, <1>3, <1>6, <1>9
  <2>2. PICK e : e = <<>>
    OBVIOUS
  <2>3. Len(e) = 0
    BY <2>2
  <2>4. staticData' = e
    BY <1>1, <2>1, <2>2, Played
  <2>5. Len(staticData') = 0
    BY <2>3, <2>4, Zenon
  <2>6. 0 <= 0 /\ \A a \in 0..(HeapSize - 1) : ~(a < 0)
    OBVIOUS
  <2> QED BY <1>1, <2>5, <2>6, Zenon DEF Loaded
<1>10. program' # "runs"
  BY <1>1, <1>2, <1>6
<1>11. GameData'
  <2>1. \A i \in DOMAIN sched' : For(sched', i, "data") => sched'[i][1] = now'
    BY <1>1, <1>8
  <2>2. shp' = 0
    BY <1>1
  <2> QED BY <1>9, <1>10, <2>1, <2>2 DEF GameData
<1> QED BY <1>4, <1>5, <1>11, GameParts

(* RunData: init has run before.                                           *)
LEMMA RunDataGame ==
  ASSUME GameOk, RunData, HeapSize \in Nat, staticData \in Seq(Int), Fits
  PROVE  GameOk'
<1>1. /\ Left("data") /\ UNCHANGED <<phase, linkVars, now, loads, program>>
      /\ base' = shp /\ shp' = shp + Len(staticData)
      /\ heap' = [a \in 0..(HeapSize - 1) |-> IF a < Len(staticData) THEN staticData[a + 1] ELSE heap[a]]
  BY RunsLeft DEF RunData, ShpAfterData
<1>2. loads > 0 /\ "data" \in Scheduled(sched)
  BY <1>1, LeftTicks
<1>3. /\ sched' \in Seq(Slots)
      /\ Scheduled(sched') = Scheduled(sched) \ {"data"}
  BY <1>1 DEF Left
<1>4. PICK c \in DOMAIN sched : /\ For(sched, c, "data") /\ sched[c][1] = now
                                /\ \A j \in DOMAIN sched : sched[j][1] = now => c <= j
  BY <1>1 DEF Left
<1>5. "init" \notin Scheduled(sched)
  <2> SUFFICES ASSUME "init" \in Scheduled(sched) PROVE FALSE
    OBVIOUS
  <2>1. PICK i \in DOMAIN sched : For(sched, i, "init")
    BY ScheduledFor
  <2>2. sched[i][1] = sched[c][1] /\ i < c
    BY <1>4, <2>1 DEF GameOk, Ordered, Together
  <2>3. c <= i
    BY <1>4, <2>2
  <2>4. i \in Nat /\ c \in Nat
    <3>1. sched \in Seq(Slots)
      BY DEF GameOk
    <3>2. DOMAIN sched = 1..Len(sched)
      BY <3>1
    <3> QED BY <3>2
  <2> QED BY <2>2, <2>3, <2>4
<1>6. shp = 0
  BY <1>2, <1>5 DEF GameOk
<1>7. GameOrder'
  BY <1>1, <1>3, <1>5, RunsOrder
<1>8. PICK n \in Nat : n = Len(staticData) /\ n <= HeapSize
  BY DEF Fits
<1>9. shp' = n /\ base' = 0
  BY <1>1, <1>6, <1>8
<1>10. ASSUME NEW a \in 0..(HeapSize - 1), a < n PROVE a + 1 \in 1..n /\ heap'[a] = staticData[a + 1]
  BY <1>1, <1>8, <1>10
<1>11. heap' \in [0..(HeapSize - 1) -> Int]
  <2>1. heap \in [0..(HeapSize - 1) -> Int]
    BY DEF GameOk
  <2>2. ASSUME NEW a \in 0..(HeapSize - 1) PROVE heap'[a] \in Int
    <3>1. CASE a < n
      <4>1. a + 1 \in 1..Len(staticData)
        BY <1>8, <1>10, <3>1
      <4>2. staticData[a + 1] \in Int
        BY <4>1
      <4> QED BY <1>10, <3>1, <4>2
    <3>2. CASE ~(a < n)
      <4>1. heap'[a] = heap[a]
        BY <1>1, <1>8, <3>2
      <4> QED BY <2>1, <4>1
    <3> QED BY <3>1, <3>2
  <2>3. PICK h : h = heap'
    OBVIOUS
  <2>4. h = [a \in 0..(HeapSize - 1) |-> h[a]]
    BY <1>1, <2>3
  <2>5. \A a \in 0..(HeapSize - 1) : h[a] \in Int
    BY <2>2, <2>3
  <2>6. h \in [0..(HeapSize - 1) -> Int]
    BY <2>4, <2>5
  <2> QED BY <2>3, <2>6
<1>12. GameTypes'
  <2>1. now \in Nat /\ loads \in Nat /\ program \in {"none", "runs", "stale"}
    BY DEF GameOk
  <2>2. shp' \in Nat /\ shp' <= HeapSize
    BY <1>8, <1>9
  <2> QED BY <1>1, <1>3, <1>9, <1>11, <2>1, <2>2, Zenon DEF GameTypes
<1>13. Loaded'
  <2>1. staticData' = staticData
    BY <1>1, Played
  <2>2. n <= n
    OBVIOUS
  <2>3. Len(staticData') = n
    BY <1>8, <2>1
  <2> QED BY <1>9, <1>10, <2>1, <2>2, <2>3, Zenon DEF Loaded
<1>14. program' # "runs"
  BY <1>1, <1>2 DEF GameOk
<1>15. "data" \notin Scheduled(sched')
  BY <1>3
<1>16. GameData'
  BY <1>13, <1>14, <1>15 DEF GameData
<1> QED BY <1>7, <1>12, <1>16, GameParts

(* RunStart: init and data have run before.                                *)
LEMMA RunStartGame ==
  ASSUME GameOk, RunStart
  PROVE  GameOk'
<1>1. /\ Left("start") /\ UNCHANGED <<phase, linkVars, now, loads, base, shp, heap>>
      /\ program' = "runs"
  BY RunsLeft DEF RunStart
<1>2. loads > 0 /\ "start" \in Scheduled(sched)
  BY <1>1, LeftTicks
<1>3. /\ sched' \in Seq(Slots)
      /\ Scheduled(sched') = Scheduled(sched) \ {"start"}
  BY <1>1 DEF Left
<1>4. PICK c \in DOMAIN sched : For(sched, c, "start") /\ sched[c][1] = now
  BY <1>1 DEF Left
<1>5. ASSUME NEW f \in {"init", "data"} PROVE f \notin Scheduled(sched)
  <2> SUFFICES ASSUME f \in Scheduled(sched) PROVE FALSE
    OBVIOUS
  <2>1. PICK i \in DOMAIN sched : For(sched, i, f)
    BY ScheduledFor
  <2>2. Ahead(sched, f, "start") /\ sched[i][1] \in now..(now + 2) /\ now \in Nat
    BY DEF GameOk, Ordered
  <2>3. sched[i][1] < sched[c][1]
    BY <1>4, <2>1, <2>2 DEF Ahead
  <2> QED BY <1>4, <2>2, <2>3
<1>6. Scheduled(sched) \cap {"init", "data"} = {} /\ Scheduled(sched') \cap {"init", "data"} = {}
  BY <1>3, <1>5
<1>7. GameOrder'
  BY <1>1, RunsOrder
<1>8. GameTypes'
  <2>1. now \in Nat /\ loads \in Nat /\ shp \in Nat /\ base = 0 /\ shp <= HeapSize
        /\ heap \in [0..(HeapSize - 1) -> Int]
    BY DEF GameOk
  <2> QED BY <1>1, <1>3, <2>1 DEF GameTypes
<1>9. Loaded'
  <2>1. Loaded
    BY <1>2, <1>6 DEF GameOk
  <2>2. UNCHANGED <<staticData, shp, heap>>
    BY <1>1, Played
  <2> QED BY <2>1, <2>2 DEF Loaded
<1>10. loads' > 0 /\ "data" \notin Scheduled(sched')
  BY <1>1, <1>2, <1>6
<1>11. GameData'
  BY <1>6, <1>9, <1>10 DEF GameData
<1> QED BY <1>7, <1>8, <1>11, GameParts

(* Nothing is due: what is scheduled waits for a later tick.               *)
LEMMA NothingDue ==
  ASSUME GameOk, Due = {}
  PROVE  /\ \A i \in DOMAIN sched : sched[i][1] \in (now + 1)..(now + 2)
         /\ ~("data" \in Scheduled(sched) /\ "init" \notin Scheduled(sched))
<1>1. now \in Nat /\ \A i \in DOMAIN sched : sched[i][1] \in now..(now + 2)
  BY DEF GameOk
<1>2. \A i \in DOMAIN sched : ~(sched[i][1] <= now)
  BY DEF Due
<1>3. \A i \in DOMAIN sched : sched[i][1] \in (now + 1)..(now + 2)
  BY <1>1, <1>2
<1>4. ASSUME "data" \in Scheduled(sched), "init" \notin Scheduled(sched) PROVE FALSE
  <2>1. PICK i \in DOMAIN sched : For(sched, i, "data")
    BY <1>4, ScheduledFor
  <2>2. sched[i][1] = now
    BY <1>4, <2>1 DEF GameOk
  <2> QED BY <1>1, <1>2, <2>2
<1> QED BY <1>3, <1>4

(* Tick.                                                                   *)
LEMMA TickGame ==
  ASSUME GameOk, Tick
  PROVE  GameOk'
<1>1. /\ UNCHANGED <<phase, linkVars, sched, loads, base, shp, heap, program>>
      /\ Due = {} /\ now' = now + 1
  BY DEF Tick
<1>2. /\ \A i \in DOMAIN sched : sched[i][1] \in (now + 1)..(now + 2)
      /\ ~("data" \in Scheduled(sched) /\ "init" \notin Scheduled(sched))
  BY <1>1, NothingDue
<1>3. UNCHANGED <<staticData, startFunc>>
  BY <1>1, Played
<1>4. now \in Nat
  BY DEF GameOk
<1>5. GameTypes'
  <2>1. now' \in Nat
    BY <1>1, <1>4
  <2> QED BY <1>1, <2>1 DEF GameOk, GameTypes
<1>6. \A i \in DOMAIN sched' : sched'[i][1] \in now'..(now' + 2)
  <2>1. \A i \in DOMAIN sched : sched[i][1] \in (now + 1)..((now + 1) + 2)
    BY <1>2, <1>4
  <2> QED BY <1>1, <2>1
<1>7. GameOrder'
  <2>1. GameOrder
    BY Zenon DEF GameOk, GameOrder
  <2> QED BY <1>1, <1>3, <1>6, <2>1, Zenon DEF GameOrder
<1>8. Loaded' = Loaded
  BY <1>1, <1>3 DEF Loaded
<1>9. GameData'
  <2>1. GameData
    BY Zenon DEF GameOk, GameData
  <2> QED BY <1>1, <1>2, <1>8, <2>1, Zenon DEF GameData
<1> QED BY <1>5, <1>7, <1>9, GameParts

(* Grow: the program takes words behind the data.                          *)
LEMMA GrowGame ==
  ASSUME GameOk, Grow, HeapSize \in Nat, staticData \in Seq(Int)
  PROVE  GameOk'
<1>1. /\ UNCHANGED <<phase, linkVars, sched, now, loads, base, program>>
      /\ Due = {} /\ heap' = [heap EXCEPT ![shp] = -1] /\ shp' = shp + 1 /\ shp < HeapSize
  BY DEF Grow
<1>2. ~("data" \in Scheduled(sched) /\ "init" \notin Scheduled(sched))
  BY <1>1, NothingDue
<1>3. UNCHANGED <<staticData, startFunc>>
  BY <1>1, Played
<1>4. shp \in Nat /\ heap \in [0..(HeapSize - 1) -> Int]
  BY DEF GameOk
<1>5. GameTypes'
  <2>1. shp' \in Nat /\ shp' <= HeapSize
    BY <1>1, <1>4
  <2>2. heap' \in [0..(HeapSize - 1) -> Int]
    <3>1. -1 \in Int
      OBVIOUS
    <3> QED BY <1>1, <1>4, <3>1
  <2> QED BY <1>1, <2>1, <2>2 DEF GameOk, GameTypes
<1>6. GameOrder'
  <2>1. GameOrder
    BY Zenon DEF GameOk, GameOrder
  <2> QED BY <1>1, <1>3, <2>1, Zenon DEF GameOrder
<1>7. ASSUME Loaded PROVE Loaded'
  <2>1. PICK n \in Nat : n = Len(staticData)
    OBVIOUS
  <2>2. n <= shp /\ \A a \in 0..(HeapSize - 1) : a < n => heap[a] = staticData[a + 1]
    BY <1>7, <2>1 DEF Loaded
  <2>3. n <= shp'
    BY <1>1, <1>4, <2>2
  <2>4. ASSUME NEW a \in 0..(HeapSize - 1), a < n PROVE heap'[a] = staticData[a + 1]
    <3>1. a # shp
      BY <1>4, <2>2, <2>4
    <3>2. heap'[a] = heap[a]
      BY <1>1, <1>4, <3>1
    <3> QED BY <2>2, <2>4, <3>2
  <2>5. Len(staticData') = n
    BY <1>3, <2>1
  <2> QED BY <1>3, <2>3, <2>4, <2>5, Zenon DEF Loaded
<1>8. GameData'
  <2>1. GameData
    BY Zenon DEF GameOk, GameData
  <2> QED BY <1>1, <1>2, <1>7, <2>1, Zenon DEF GameData
<1> QED BY <1>5, <1>6, <1>8, GameParts

-----------------------------------------------------------------------------
(* The load function schedules them for the next ticks.                    *)
Wanted == {"init"} \cup (IF staticData = <<>> THEN {} ELSE {"data"}) \cup (IF startFunc = None THEN {} ELSE {"start"})

(* Schedule w, and the ticks of the three.                                 *)
Timed(w) ==
  /\ AtTick(w, "init", now + 1)
  /\ AtTick(w, "data", now + 1)
  /\ AtTick(w, "start", now + 2)

(* An entry is for one function.                                           *)
LEMMA ForOne == \A s, i, f, g : For(s, i, f) /\ f # g => ~For(s, i, g)
BY DEF For

(* An entry that stays keeps its tick.                                     *)
LEMMA ResetOthers ==
  ASSUME NEW s, NEW f, NEW m, NEW w, Reset(s, f, m, w), NEW g, g # f, NEW e, AtTick(s, g, e)
  PROVE  AtTick(w, g, e)
<1> SUFFICES ASSUME NEW i \in DOMAIN w, For(w, i, g) PROVE w[i][1] = e
  BY DEF AtTick
<1>1. ~For(w, i, f)
  BY ForOne
<1>2. PICK k \in DOMAIN s : w[i] = s[k]
  BY <1>1, Zenon DEF Reset
<1>3. For(s, k, g)
  BY <1>2 DEF For
<1> QED BY <1>2, <1>3 DEF AtTick

(* The schedule that the load function leaves.                             *)
LEMMA LoadShape ==
  ASSUME GameOk, NEW w, w = WithStart(WithData(Schedule(sched, "init", 1)))
  PROVE  /\ w \in Seq(Slots)
         /\ Ordered(w)
         /\ Scheduled(w) = Wanted
         /\ Timed(w)
<1>1. /\ sched \in Seq(Slots) /\ now \in Nat /\ Single(sched)
      /\ "data" \in Scheduled(sched) => staticData # <<>>
      /\ "start" \in Scheduled(sched) => startFunc # None
  BY DEF GameOk, Ordered
<1>2. 1 \in Nat /\ 2 \in Nat /\ {"init", "data", "start"} \subseteq LoadFunctions
  BY DEF LoadFunctions
<1>3. PICK s1 : s1 = Schedule(sched, "init", 1)
  OBVIOUS
<1>4. Reset(sched, "init", now + 1, s1)
  BY <1>1, <1>2, <1>3, ScheduleShape
<1>5. /\ s1 \in Seq(Slots) /\ Single(s1) /\ Scheduled(s1) = Scheduled(sched) \cup {"init"}
      /\ AtTick(s1, "init", now + 1)
  BY <1>4, Zenon DEF Reset
<1>6. PICK s2 : s2 = WithData(s1)
  OBVIOUS
<1>7. /\ s2 \in Seq(Slots) /\ Single(s2)
      /\ Scheduled(s2) = Scheduled(s1) \cup (IF staticData = <<>> THEN {} ELSE {"data"})
      /\ AtTick(s2, "init", now + 1)
      /\ AtTick(s2, "data", now + 1)
      /\ Together(s2, "init", "data")
  <2>1. CASE staticData = <<>>
    <3>1. s2 = s1
      BY <1>6, <2>1 DEF WithData
    <3>2. "data" \notin Scheduled(s2)
      BY <1>1, <1>5, <2>1, <3>1
    <3>3. \A i \in DOMAIN s2 : ~For(s2, i, "data")
      BY <3>2, ScheduledFor
    <3>4. Together(s2, "init", "data")
      BY <3>3 DEF Together
    <3>5. AtTick(s2, "data", now + 1)
      BY <3>3 DEF AtTick
    <3> QED BY <1>5, <2>1, <3>1, <3>4, <3>5
  <2>2. CASE staticData # <<>>
    <3>1. s2 = Schedule(s1, "data", 1)
      BY <1>6, <2>2 DEF WithData
    <3>2. Reset(s1, "data", now + 1, s2)
      BY <1>1, <1>2, <1>5, <3>1, ScheduleShape
    <3>3. /\ s2 \in Seq(Slots) /\ Single(s2) /\ Scheduled(s2) = Scheduled(s1) \cup {"data"}
          /\ AtTick(s2, "data", now + 1)
          /\ \A i, k \in DOMAIN s2 : ~For(s2, i, "data") /\ For(s2, k, "data") => i < k
      BY <3>2, Zenon DEF Reset
    <3>4. AtTick(s2, "init", now + 1)
      <4>1. "init" # "data"
        OBVIOUS
      <4>2. AtTick(s1, "init", now + 1)
        BY <1>5
      <4> QED BY <3>2, <4>1, <4>2, ResetOthers
    <3>5. Together(s2, "init", "data")
      <4> SUFFICES ASSUME NEW i \in DOMAIN s2, NEW k \in DOMAIN s2, For(s2, i, "init"), For(s2, k, "data")
                   PROVE  s2[i][1] = s2[k][1] /\ i < k
        BY DEF Together
      <4>1. ~For(s2, i, "data")
        BY ForOne
      <4> QED BY <3>3, <3>4, <4>1 DEF AtTick
    <3> QED BY <2>2, <3>3, <3>4, <3>5
  <2> QED BY <2>1, <2>2
<1>8. w = WithStart(s2)
  BY <1>3, <1>6
<1>9. /\ w \in Seq(Slots) /\ Single(w)
      /\ Scheduled(w) = Scheduled(s2) \cup (IF startFunc = None THEN {} ELSE {"start"})
      /\ Timed(w)
      /\ Together(w, "init", "data")
  <2>1. CASE startFunc = None
    <3>1. w = s2
      BY <1>8, <2>1 DEF WithStart
    <3>2. "start" \notin Scheduled(w)
      BY <1>1, <1>5, <1>7, <2>1, <3>1
    <3>3. \A i \in DOMAIN w : ~For(w, i, "start")
      BY <3>2, ScheduledFor
    <3>4. Timed(w)
      BY <1>7, <3>1, <3>3 DEF Timed, AtTick
    <3> QED BY <1>7, <2>1, <3>1, <3>4
  <2>2. CASE startFunc # None
    <3>1. w = Schedule(s2, "start", 2)
      BY <1>8, <2>2 DEF WithStart
    <3>2. Reset(s2, "start", now + 2, w)
      BY <1>1, <1>2, <1>7, <3>1, ScheduleShape
    <3>3. /\ w \in Seq(Slots) /\ Single(w) /\ Scheduled(w) = Scheduled(s2) \cup {"start"}
          /\ AtTick(w, "start", now + 2)
          /\ \A a, b : a # "start" /\ b # "start" /\ Together(s2, a, b) => Together(w, a, b)
      BY <3>2, Zenon DEF Reset
    <3>4. AtTick(w, "init", now + 1)
      <4>1. "init" # "start"
        OBVIOUS
      <4>2. AtTick(s2, "init", now + 1)
        BY <1>7
      <4> QED BY <3>2, <4>1, <4>2, ResetOthers
    <3>5. AtTick(w, "data", now + 1)
      <4>1. "data" # "start"
        OBVIOUS
      <4>2. AtTick(s2, "data", now + 1)
        BY <1>7
      <4> QED BY <3>2, <4>1, <4>2, ResetOthers
    <3>6. Together(w, "init", "data")
      BY <1>7, <3>3
    <3>7. Timed(w)
      BY <3>3, <3>4, <3>5 DEF Timed
    <3> QED BY <2>2, <3>3, <3>6, <3>7
  <2> QED BY <2>1, <2>2
<1>10. now + 1 < now + 2
  BY <1>1
<1>11. Ahead(w, "init", "start") /\ Ahead(w, "data", "start")
  <2>1. /\ AtTick(w, "init", now + 1)
        /\ AtTick(w, "data", now + 1)
        /\ AtTick(w, "start", now + 2)
    BY <1>9 DEF Timed
  <2> QED BY <1>10, <2>1 DEF Ahead, AtTick
<1>12. Scheduled(w) = Wanted
  <2>1. Scheduled(sched) \subseteq {"init", "data", "start"}
    <3>1. \A i \in 1..Len(sched) : sched[i] \in Slots
      BY <1>1
    <3>2. DOMAIN sched = 1..Len(sched)
      BY <1>1
    <3> QED BY <3>1, <3>2 DEF Slots, LoadFunctions, Scheduled
  <2> QED BY <1>1, <1>5, <1>7, <1>9, <2>1 DEF Wanted
<1> QED BY <1>9, <1>11, <1>12 DEF Ordered

(* Load.                                                                   *)
LEMMA LoadGame ==
  ASSUME GameOk, Load
  PROVE  GameOk'
<1>1. /\ UNCHANGED <<phase, linkVars, now, base, shp, heap>>
      /\ phase = "built" /\ loads' = loads + 1
      /\ sched' = WithStart(WithData(Schedule(sched, "init", 1)))
      /\ program' = IF program = "none" THEN "none" ELSE "stale"
  BY DEF Load
<1>2. PICK w : w = sched'
  OBVIOUS
<1>3. w \in Seq(Slots) /\ Ordered(w) /\ Scheduled(w) = Wanted /\ Timed(w)
  BY <1>1, <1>2, LoadShape
<1>4. UNCHANGED <<staticData, startFunc>>
  BY <1>1, Played
<1>5. now \in Nat /\ loads \in Nat /\ loads' \in Nat /\ loads' > 0 /\ loads' # 0
  <2>1. now \in Nat /\ loads \in Nat
    BY DEF GameOk
  <2> QED BY <1>1, <2>1
<1>6. program' \in {"none", "stale"} /\ program' # "runs"
  BY <1>1
<1>7. GameTypes'
  <2>1. shp \in Nat /\ base = 0 /\ shp <= HeapSize /\ heap \in [0..(HeapSize - 1) -> Int]
    BY DEF GameOk
  <2> QED BY <1>1, <1>2, <1>3, <1>5, <1>6, <2>1 DEF GameTypes
<1>8. ASSUME NEW i \in DOMAIN w PROVE w[i][1] \in now..(now + 2)
  <2>1. w[i][1] = now + 1 \/ w[i][1] = now + 2
    <3>1. w[i] \in Slots
      <4>1. DOMAIN w = 1..Len(w)
        BY <1>3
      <4> QED BY <1>3, <4>1
    <3>2. w[i][2] \in {"init", "data", "start"}
      BY <3>1 DEF Slots, LoadFunctions
    <3>3. For(w, i, "init") \/ For(w, i, "data") \/ For(w, i, "start")
      BY <3>2 DEF For
    <3> QED BY <1>3, <3>3 DEF Timed, AtTick
  <2>2. now + 1 \in now..(now + 2) /\ now + 2 \in now..(now + 2)
    BY <1>5
  <2> QED BY <2>1, <2>2
<1>9. /\ "data" \in Scheduled(w) => staticData # <<>>
      /\ "start" \in Scheduled(w) => startFunc # None
      /\ "init" \in Scheduled(w)
      /\ staticData = <<>> \/ "data" \in Scheduled(w)
  BY <1>3 DEF Wanted
<1>10. GameOrder'
  <2>1. \A i \in DOMAIN sched' : sched'[i][1] \in now'..(now' + 2)
    BY <1>1, <1>2, <1>8
  <2> QED BY <1>1, <1>2, <1>3, <1>4, <1>5, <1>9, <2>1, Zenon DEF GameOrder
<1>11. GameData'
  <2>1. "init" \in Scheduled(sched')
    BY <1>2, <1>9
  <2> QED BY <1>6, <2>1 DEF GameData
<1> QED BY <1>7, <1>10, <1>11, GameParts

(* Before the program is built no world is loaded.                         *)
LEMMA EarlierGame ==
  ASSUME GameOk, UNCHANGED gameVars, phase # "built"
  PROVE  GameOk'
<1>1. UNCHANGED <<sched, now, loads, base, shp, heap, program>>
  BY DEF gameVars
<1>2. loads = 0 /\ sched = <<>> /\ program = "none"
  BY DEF GameOk
<1>3. DOMAIN sched' = {}
  <2>1. PICK e : e = <<>>
    OBVIOUS
  <2>2. DOMAIN e = {}
    BY <2>1
  <2> QED BY <1>1, <1>2, <2>1, <2>2
<1>4. Scheduled(sched') = {}
  BY <1>3 DEF Scheduled
<1>5. Ordered(sched')
  BY <1>3 DEF Ordered, Single, Together, Ahead
<1>6. GameTypes'
  BY <1>1 DEF GameOk, GameTypes
<1>7. ~(0 > 0)
  OBVIOUS
<1>8. GameOrder'
  BY <1>1, <1>2, <1>3, <1>4, <1>5 DEF GameOrder
<1>9. program' # "runs" /\ ~(loads' > 0)
  BY <1>1, <1>2, <1>7
<1>10. GameData'
  BY <1>4, <1>9 DEF GameData
<1> QED BY <1>6, <1>8, <1>10, GameParts

(* All steps.                                                              *)
LEMMA GameStep ==
  ASSUME FrontOk, GameOk, Fits, [Next]_vars
  PROVE  GameOk'
<1>1. HeapSize \in Nat
  BY BoundsAssumption
<1>2. staticData \in Seq(Int)
  BY DEF FrontOk, LinkOk
<1>3. CASE PreProcessing
  <2>1. phase # "built" /\ UNCHANGED gameVars
    BY <1>3, PPPhases DEF PreProcessing
  <2> QED BY <2>1, EarlierGame
<1>4. CASE Compiling
  <2>1. UNCHANGED gameVars
    BY <1>4 DEF Compiling, PushLine, PopLine, PushLabel, PopLabel, ParseOp, ParseFails, EndParse, Verify, CompileUnit
  <2>2. phase \in {"parse", "verify", "compile"}
    BY <1>4 DEF Compiling, PushLine, PopLine, PushLabel, PopLabel, ParseOp, ParseFails, EndParse, Verify, CompileUnit, Parsing
  <2>3. phase # "built"
    BY <2>2
  <2> QED BY <2>1, <2>3, EarlierGame
<1>5. CASE Game
  BY <1>1, <1>2, <1>5, RunInitGame, RunDataGame, RunStartGame, TickGame DEF Game
<1>6. CASE Load
  BY <1>6, LoadGame
<1>7. CASE Grow
  BY <1>1, <1>2, <1>7, GrowGame
<1>8. CASE UNCHANGED vars
  <2>1. UNCHANGED <<phase, linkVars, gameVars>>
    BY <1>8 DEF vars
  <2>2. UNCHANGED <<staticData, startFunc>>
    BY <2>1, Played
  <2>3. UNCHANGED <<sched, now, loads, base, shp, heap, program>>
    BY <2>1 DEF gameVars
  <2>4. GameTypes'
    BY <2>3, Zenon DEF GameOk, GameTypes
  <2>5. GameOrder'
    BY <2>1, <2>2, <2>3, Zenon DEF GameOk, GameOrder
  <2>6. Loaded' = Loaded
    BY <2>2, <2>3 DEF Loaded
  <2>7. GameData
    BY Zenon DEF GameOk, GameData
  <2>8. GameData'
    BY <2>3, <2>6, <2>7, Zenon DEF GameData
  <2> QED BY <2>4, <2>5, <2>8, GameParts
<1> QED BY <1>3, <1>4, <1>5, <1>6, <1>7, <1>8 DEF Next

(* At first.                                                               *)
LEMMA InitGame == Init => GameOk
<1> SUFFICES ASSUME Init PROVE GameOk
  OBVIOUS
<1>1. /\ sched = <<>> /\ now = 0 /\ loads = 0 /\ base = 0 /\ shp = 0 /\ program = "none" /\ phase = "pp"
      /\ heap = [a \in 0..(HeapSize - 1) |-> 0]
  BY DEF Init, PPInit
<1>2. HeapSize \in Nat
  BY BoundsAssumption
<1>3. PICK e : e = <<>>
  OBVIOUS
<1>4. e \in Seq(Slots) /\ DOMAIN e = {}
  BY <1>3
<1>5. sched \in Seq(Slots) /\ DOMAIN sched = {}
  BY <1>1, <1>3, <1>4
<1>6. Scheduled(sched) = {} /\ Ordered(sched)
  BY <1>5 DEF Scheduled, Ordered, Single, Together, Ahead
<1>7. heap \in [0..(HeapSize - 1) -> Int]
  BY <1>1
<1>8. /\ 0 \in Nat /\ 0 <= HeapSize /\ ~(0 > 0)
  BY <1>2
<1>9. GameTypes
  BY <1>1, <1>5, <1>7, <1>8 DEF GameTypes
<1>10. GameOrder
  BY <1>1, <1>5, <1>6 DEF GameOrder
<1>11. GameData
  BY <1>1, <1>6, <1>8 DEF GameData
<1> QED BY <1>9, <1>10, <1>11, Zenon DEF GameOk, GameTypes, GameOrder, GameData

-----------------------------------------------------------------------------
(* Names of functions are their own: those of entries are elsewhere.       *)
LEMMA FrontNames == FrontOk /\ ExportsElsewhere => NamesUnique
<1> SUFFICES ASSUME FrontOk, ExportsElsewhere, NEW u \in DOMAIN names, NEW v \in DOMAIN names,
                    NEW i \in LabelPos(values[u]), NEW k \in LabelPos(values[v]),
                    ~Entry(values[u][i].kind), <<u, i>> # <<v, k>>
             PROVE  names[u][values[u][i].l] # names[v][values[v][k].l]
  BY DEF NamesUnique
<1>1. names \in Seq(Renamings) /\ Len(names) \in 0..Len(values) /\ values \in Seq(Seq(UOp))
  BY DEF FrontOk, LinkOk, ParseOk
<1>2. u \in 1..Len(names) /\ v \in 1..Len(names)
  <2>1. DOMAIN names = 1..Len(names)
    BY <1>1
  <2> QED BY <2>1
<1>3. PICK p, q, m, n : p = values[u] /\ q = values[v] /\ m = names[u] /\ n = names[v]
  OBVIOUS
<1>4. NamedIn(p, m, internal) /\ NamedIn(q, n, internal) /\ internal \subseteq Paths
  BY <1>2, <1>3 DEF FrontOk, NamesOk
<1>5. i \in PlainPos(p)
  BY <1>3 DEF PlainPos
<1>6. m[p[i].l] \in internal
  BY <1>4, <1>5 DEF NamedIn
<1>7. CASE Entry(q[k].kind)
  <2>1. n[q[k].l] = Spelled(q[k].l[1])
    BY <1>3, <1>4, <1>7 DEF NamedIn
  <2>2. PICK path : path = Spelled(q[k].l[1])
    OBVIOUS
  <2>3. path \notin Paths
    <3>1. Len(path) >= 2 => path[1] \notin Stems
      BY <1>3, <1>7, <2>2 DEF ExportsElsewhere
    <3> QED BY <3>1, Zenon DEF Paths
  <2> QED BY <1>3, <1>4, <1>6, <2>1, <2>2, <2>3
<1>8. CASE ~Entry(q[k].kind)
  <2>1. k \in PlainPos(q)
    BY <1>3, <1>8 DEF PlainPos
  <2>2. CASE u = v
    <3>1. i # k /\ p = q /\ m = n
      BY <1>3, <2>2
    <3>2. m[p[i].l] = m[p[k].l] => i = k
      BY <1>4, <1>5, <2>1, <3>1 DEF NamedIn
    <3> QED BY <1>3, <3>1, <3>2
  <2>3. CASE u # v
    <3>1. Apart(p, m, q, n)
      BY <1>2, <1>3, <2>3 DEF FrontOk, NamesOk
    <3> QED BY <1>3, <1>5, <2>1, <3>1 DEF Apart
  <2> QED BY <2>2, <2>3
<1> QED BY <1>7, <1>8

(* The functions of all units have names of their own: whatever labels and *)
(* file names are made legal by, initLabels finds a number that is free in *)
(* all units compiled so far.  It never looks at the names of exports:     *)
(* these must not be paths behind the stem of a target, where the names of *)
(* internal functions are.                                                 *)
THEOREM NamesDiffer ==
  ASSUME GoodNames
  PROVE  Spec /\ []ExportsElsewhere => []NamesUnique
<1>1. Init => FrontOk
  BY InitFront
<1>2. FrontOk /\ [Next]_vars => FrontOk'
  BY FrontStep
<1>3. FrontOk /\ ExportsElsewhere => NamesUnique
  BY FrontNames
<1> QED BY <1>1, <1>2, <1>3, PTL DEF Spec

(* The operands of a program that runs find their data.                    *)
LEMMA GameReads == IInv => StaticsRead
<1> SUFFICES ASSUME FrontOk, GameOk, program = "runs", NEW u \in DOMAIN values, NEW i \in Readers(values[u])
             PROVE  LET s == CHOOSE k \in StaticsOf(values[u]) : values[u][k].l = values[u][i].l
                        from == base + staticMap[u][values[u][i].l]
                    IN /\ values[u][i].l \in DOMAIN staticMap[u]
                       /\ \A d \in DOMAIN values[u][s].data : heap[from + d - 1] = values[u][s].data[d]
  BY DEF IInv, StaticsRead
<1>1. loads > 0 /\ loads \in Nat /\ Loaded /\ base = 0 /\ shp \in Nat /\ shp <= HeapSize /\ (phase # "built" => loads = 0)
  BY DEF GameOk
<1>2. phase = "built"
  BY <1>1
<1>3. /\ values \in Seq(Seq(UOp)) /\ staticData \in Seq(Int)
      /\ Len(names) = Len(values)
      /\ Declared(values[u])
      /\ \A v \in 1..Len(names) : Placed(values[v], staticMap[v], staticData)
  BY <1>2 DEF FrontOk, LinkOk, ParseOk
<1>4. u \in 1..Len(values)
  <2>1. DOMAIN values = 1..Len(values)
    BY <1>3
  <2> QED BY <2>1
<1>5. PICK p \in Seq(UOp) : p = values[u]
  BY <1>3, <1>4
<1>6. PICK m : m = staticMap[u]
  OBVIOUS
<1>7. Placed(p, m, staticData)
  <2>1. u \in 1..Len(names)
    BY <1>3, <1>4, Zenon
  <2> QED BY <1>3, <1>5, <1>6, <2>1
<1>8. PICK s : s = CHOOSE k \in StaticsOf(p) : p[k].l = p[i].l
  OBVIOUS
<1>9. s \in StaticsOf(p) /\ p[s].l = p[i].l
  <2>1. \E k \in StaticsOf(p) : p[k].l = p[i].l
    BY <1>3, <1>5 DEF Declared, SymbolsDeclared, Readers
  <2> QED BY <1>8, <2>1
<1>10. PICK a \in Nat : a = m[p[i].l]
  BY <1>5, <1>7 DEF Placed
<1>11. PICK c \in Seq(Int) : c = p[s].data
  <2>1. DOMAIN p = 1..Len(p)
    BY <1>5
  <2>2. p[s] \in UOp
    BY <1>5, <1>9, <2>1 DEF StaticsOf
  <2> QED BY <2>2 DEF UOp
<1>12. a + Len(c) <= Len(staticData) /\ \A j \in 1..Len(c) : staticData[a + j] = c[j]
  BY <1>5, <1>7, <1>9, <1>10, <1>11 DEF Placed
<1>13. PICK n \in Nat : n = Len(staticData)
  BY <1>3
<1>14. n <= shp /\ \A x \in 0..(HeapSize - 1) : x < n => heap[x] = staticData[x + 1]
  BY <1>1, <1>13 DEF Loaded
<1>15. ASSUME NEW d \in DOMAIN c PROVE heap[base + a + d - 1] = c[d]
  <2>1. PICK l \in Nat : l = Len(c)
    BY <1>11
  <2>2. d \in 1..l
    <3>1. DOMAIN c = 1..Len(c)
      BY <1>11
    <3> QED BY <2>1, <3>1
  <2>3. a + l <= n
    BY <1>12, <1>13, <2>1
  <2>4. HeapSize \in Nat
    BY BoundsAssumption
  <2>5. PICK x : x = base + a + d - 1
    OBVIOUS
  <2>6. x \in 0..(HeapSize - 1) /\ x < n /\ x + 1 = a + d
    BY <1>1, <1>14, <2>2, <2>3, <2>4, <2>5
  <2>7. heap[x] = staticData[a + d]
    BY <1>14, <2>6
  <2>8. staticData[a + d] = c[d]
    BY <1>12, <2>1, <2>2
  <2> QED BY <2>5, <2>7, <2>8
<1>16. p[i].l \in DOMAIN m
  BY <1>5, <1>7 DEF Placed
<1> QED BY <1>5, <1>6, <1>8, <1>10, <1>11, <1>15, <1>16

(* The invariants of the front and of the game give the types.             *)
LEMMA Types == IInv => TypeOK
<1> SUFFICES ASSUME FrontOk, GameOk PROVE TypeOK
  BY DEF IInv
<1>1. PPOk /\ ParseOk /\ LinkOk
  BY DEF FrontOk
<1>2. phase \in Phases /\ unit \in DOMAIN job.targets
  BY <1>1 DEF PPOk, Targets
<1>3. \A i \in DOMAIN frames : frames[i].file \in DOMAIN job.files /\ frames[i].ignore \in BOOLEAN
  <2>1. frames \in Seq(Frame(DOMAIN job.files))
    BY <1>1 DEF PPOk
  <2>2. DOMAIN frames = 1..Len(frames)
    BY <2>1
  <2>3. \A i \in DOMAIN frames : frames[i] \in Frame(DOMAIN job.files)
    BY <2>1, <2>2
  <2> QED BY <2>3 DEF Frame
<1>4. DOMAIN defines = DOMAIN job.targets /\ DOMAIN funcs = DOMAIN job.targets
  BY <1>1 DEF PPOk, Targets
<1>5. \A t \in DOMAIN bypass : bypass[t] \subseteq includeOnce
  BY <1>1 DEF PPOk
<1>6. includeOnce \subseteq DOMAIN job.files /\ Len(sources) <= Len(job.targets)
  BY <1>1 DEF PPOk
<1>7. labelState.pending \subseteq DOMAIN values[unit]
  BY <1>1 DEF ParseOk, CallPos
<1>8. ASSUME NEW u \in DOMAIN values, NEW i \in DOMAIN values[u]
      PROVE  values[u][i].op \in OpNames \cup {"inline", "use", "useptr"} /\ values[u][i].kind \in LabelKinds
  <2>1. values \in Seq(Seq(UOp))
    BY <1>1 DEF ParseOk
  <2>2. DOMAIN values = 1..Len(values)
    BY <2>1
  <2>3. values[u] \in Seq(UOp)
    BY <2>1, <2>2
  <2>4. DOMAIN values[u] = 1..Len(values[u])
    BY <2>3
  <2>5. values[u][i] \in UOp
    BY <2>3, <2>4
  <2> QED BY <2>5 DEF UOp
<1>9. Len(names) = Len(staticMap) /\ Len(names) <= Len(values)
  <2>1. Len(names) = Len(staticMap) /\ Len(names) \in 0..Len(values)
    BY <1>1, Zenon DEF LinkOk
  <2>2. Len(values) \in Nat
    <3>1. values \in Seq(Seq(UOp))
      BY <1>1 DEF ParseOk
    <3> QED BY <3>1
  <2>3. \A a \in Nat : \A b \in 0..a : b <= a
    OBVIOUS
  <2> QED BY <2>1, <2>2, <2>3, Zenon
<1>10. \A i \in DOMAIN sched : sched[i][1] \in now..(now + 2)
  BY DEF GameOk
<1>11. base \in 0..HeapSize /\ shp \in 0..HeapSize /\ DOMAIN heap = 0..(HeapSize - 1)
  <2>1. HeapSize \in Nat
    BY BoundsAssumption
  <2>2. shp \in Nat /\ base = 0 /\ shp <= HeapSize /\ heap \in [0..(HeapSize - 1) -> Int]
    BY DEF GameOk
  <2> QED BY <2>1, <2>2
<1> QED BY <1>2, <1>3, <1>4, <1>5, <1>6, <1>7, <1>8, <1>9, <1>10, <1>11, Zenon DEF TypeOK

(* The invariant of a program whose data fits.                             *)
THEOREM Invariant ==
  ASSUME GoodNames
  PROVE  Spec /\ []Fits => []IInv
<1>1. Init => IInv
  BY InitFront, InitGame DEF IInv
<1>2. IInv /\ Fits /\ [Next]_vars => IInv'
  BY FrontStep, GameStep DEF IInv
<1> QED BY <1>1, <1>2, PTL DEF Spec

(* Every variable has its type, if the heap has room for the static data.  *)
THEOREM TypeCorrect ==
  ASSUME GoodNames
  PROVE  Spec /\ []Fits => []TypeOK
BY Invariant, Types, PTL

(* While the program runs, all that reads a static finds its own data:     *)
(* whatever units the program has, whichever statics are left out, however *)
(* the heap grows, and whenever the world is loaded again.                 *)
THEOREM StaticsFound ==
  ASSUME GoodNames
  PROVE  Spec /\ []Fits => []StaticsRead
BY Invariant, GameReads, PTL
=============================================================================
