------------------------------- MODULE Units -------------------------------
(***************************************************************************)
(* A whole compilation, ClangMc::start, and its program in the game: the   *)
(* targets are preprocessed (PreProcess), parsed one after the other       *)
(* (IR::parse, with the scopes that macros give their labels), verified    *)
(* together, and compiled in order, which lays out the static data of all  *)
(* units in one array and names their functions; the game runs the load    *)
(* function of the result at every (re)load of the world.                  *)
(***************************************************************************)
EXTENDS PreProcess

CONSTANTS
  Legal(_),        \* string::legalizeMCPath, of one segment of a label
  Gen(_),          \* the k-th name of a NameGenerator
  Numbered(_, _),  \* a segment with _k behind it
  Spelled(_),      \* the path of a function that a name spells, <<>> if none
  None,
  HeapSize,        \* bound: words of the heap looked at
  MaxLoads         \* bound: how often the world is loaded

ASSUME BoundsAssumption == {HeapSize, MaxLoads} \subseteq Nat

LOCAL INSTANCE SequencesExt

INSTANCE Verifier WITH Labels <- Seq(STRING)

VARIABLES
  at,           \* the line at work
  last,         \* LineState::lastLabel
  lineStack,
  labelState,   \* renameLabelMap and toRenameLabel, as indices of ops
  labelStack,
  generated,    \* names taken from labelRenamer
  values,       \* IR::values of each unit
  staticMap,    \* staticDataMap of each unit
  staticData,   \* BuildContext: of all units
  names,        \* of each unit: labels to functions
  internal,     \* BuildContext: getInternalFunctions
  startFunc,
  sched,        \* functions the game will run: <<tick, function>>, in order
  now,          \* ticks
  loads,
  base,         \* the register for the start of the static data
  shp,          \* the size of the heap in use
  heap,
  program       \* of the player: "none", "runs", or "stale", that of an earlier load

parseVars == <<at, last, lineStack, labelState, labelStack, generated>>
linkVars == <<staticMap, staticData, names, internal, startFunc>>
gameVars == <<sched, now, loads, base, shp, heap, program>>

vars == <<job, phase, unit, ppVars, parseVars, values, linkVars, gameVars>>

-----------------------------------------------------------------------------
(***************************************************************************)
(* IR::parse.  A label is a sequence of segments: a local label .x is the  *)
(* label before it and x; a renamed one ends with a generated segment.     *)
(***************************************************************************)
Start == <<"_start">>

NoLabels == [map |-> <<>>, pending |-> {}]

Parsing == phase = "parse" /\ at <= Len(sources[unit])

Src == sources[unit][at]

Named == {"label", "call", "jmp", "static", "use", "useptr"}

(* fixLabel, fixSymbol                                                     *)
Full(line) == IF line.loc THEN Append(last, line.n) ELSE <<line.n>>

Entry(kind) == kind \in {"export", "api", "extern"}

Renames(line) == line.op = "label" /\ labelStack # <<>> /\ ~Entry(line.kind)

Renamed(label) == [i \in DOMAIN label |-> Legal(label[i])] \o <<Gen(generated + 1)>>

(* HashMap::emplace                                                        *)
Emplace(map, k, v) == IF k \in DOMAIN map THEN map ELSE [x \in DOMAIN map \cup {k} |-> IF x = k THEN v ELSE map[x]]

LabelKind(line, l) == IF line.kind = "plain" /\ l = Start THEN "start" ELSE line.kind

NopOp == [op |-> "nop", l |-> <<>>, kind |-> "plain", data |-> <<>>, line |-> 0]

OpOf(line) ==
  LET l == IF line.op \notin Named THEN <<>> ELSE IF Renames(line) THEN Renamed(Full(line)) ELSE Full(line)
  IN [op |-> line.op,
      l |-> IF line.op = "inline" THEN <<line.n>> ELSE l,
      kind |-> IF line.op = "label" THEN LabelKind(line, l) ELSE "plain",
      data |-> IF line.op = "static" THEN line.data ELSE <<>>,
      line |-> at]

NextLine == at' = at + 1

PushLine ==
  /\ Parsing /\ Src.op = "pushline"
  /\ lineStack' = Append(lineStack, last)
  /\ NextLine
  /\ UNCHANGED <<job, phase, unit, ppVars, last, labelState, labelStack, generated, values, linkVars, gameVars>>

PopLine ==
  /\ Parsing /\ Src.op = "popline"
  /\ lineStack # <<>>
  /\ last' = lineStack[Len(lineStack)]
  /\ lineStack' = SubSeq(lineStack, 1, Len(lineStack) - 1)
  /\ NextLine
  /\ UNCHANGED <<job, phase, unit, ppVars, labelState, labelStack, generated, values, linkVars, gameVars>>

PushLabel ==
  /\ Parsing /\ Src.op = "pushlabel"
  /\ labelStack' = Append(labelStack, labelState)
  /\ NextLine
  /\ UNCHANGED <<job, phase, unit, ppVars, last, lineStack, labelState, generated, values, linkVars, gameVars>>

(* Variant: the state of the scope outlives it.                            *)
PoppedNothing == labelState

PoppedState == labelStack[Len(labelStack)]

(* A call or jump gets the new name of its label.                          *)
Rename(o) == IF o.l \in DOMAIN labelState.map THEN [o EXCEPT !.l = labelState.map[o.l]] ELSE o

PopLabel ==
  /\ Parsing /\ Src.op = "poplabel"
  /\ labelStack # <<>>
  /\ values' = [values EXCEPT ![unit] =
       [i \in DOMAIN @ |-> IF i \in labelState.pending THEN Rename(@[i]) ELSE @[i]]]
  /\ labelState' = PoppedState
  /\ labelStack' = SubSeq(labelStack, 1, Len(labelStack) - 1)
  /\ NextLine
  /\ UNCHANGED <<job, phase, unit, ppVars, last, lineStack, generated, linkVars, gameVars>>

(* A local name without a label to belong to, or with an identifier.       *)
InvalidLocal == Src.op \in Named /\ Src.loc /\ (last = None \/ (Src.op = "label" /\ Entry(Src.kind)))

(* createOp and what follows it, for one op.                               *)
ParseOp ==
  /\ Parsing
  /\ Src.op \in Named \cup {"ret", "inline"}
  /\ ~InvalidLocal
  /\ LET o == OpOf(Src)
         isLabel == Src.op = "label"
         entry == isLabel /\ Src.kind \in {"export", "api"}
     IN /\ values' = [values EXCEPT ![unit] = @ \o (IF entry THEN <<o, NopOp>> ELSE <<o>>)]
        /\ last' = IF isLabel /\ ~Src.loc THEN o.l ELSE last
        /\ labelState' =
             CASE Renames(Src) -> [labelState EXCEPT !.map = Emplace(@, Full(Src), o.l)]
               [] IsCallLike(o) /\ labelStack # <<>> ->
                    [labelState EXCEPT !.pending = @ \cup {Len(values[unit]) + 1}]
               [] OTHER -> labelState
        /\ generated' = IF Renames(Src) THEN generated + 1 ELSE generated
  /\ NextLine
  /\ UNCHANGED <<job, phase, unit, ppVars, lineStack, labelStack, linkVars, gameVars>>

(* invalid_pop, invalid_local_label, unknown_op: reported, and the parse   *)
(* of the unit fails at its end.                                           *)
ParseFails ==
  /\ Parsing
  /\ \/ Src.op = "popline" /\ lineStack = <<>>
     \/ Src.op = "poplabel" /\ labelStack = <<>>
     \/ Src.op = "invoke"
     \/ InvalidLocal
  /\ phase' = "failed"
  /\ UNCHANGED <<job, unit, ppVars, parseVars, values, linkVars, gameVars>>

(* ParseManager::loadIR goes on with the next unit.                        *)
EndParse ==
  /\ phase = "parse" /\ at > Len(sources[unit])
  /\ at' = 1 /\ last' = None /\ lineStack' = <<>> /\ labelState' = NoLabels /\ labelStack' = <<>>
  /\ generated' = 0
  /\ IF unit < Len(sources)
     THEN unit' = unit + 1 /\ UNCHANGED phase
     ELSE unit' = 1 /\ phase' = "verify"
  /\ UNCHANGED <<job, ppVars, values, linkVars, gameVars>>

-----------------------------------------------------------------------------
(***************************************************************************)
(* Verifier::verify, over all units.                                       *)
(***************************************************************************)
Uses(p) == {i \in DOMAIN p : p[i].op \in {"use", "useptr"}}
StaticsOf(p) == {i \in DOMAIN p : p[i].op = "static"}

(* Where a static is read: by an operand, or by the text of an inline op.  *)
Readers(p) == Uses(p) \cup {i \in DOMAIN p : p[i].op = "inline" /\ \E k \in StaticsOf(p) : p[k].l = p[i].l}

SymbolsUnique(p) == \A i, k \in StaticsOf(p) : p[i].l = p[k].l => i = k
SymbolsDeclared(p) == \A i \in Uses(p) : \E k \in StaticsOf(p) : p[k].l = p[i].l

Starts == {u \in DOMAIN values : \E i \in DOMAIN values[u] : values[u][i].op = "label" /\ values[u][i].kind = "start"}

(* Entries are named by resource locations.                                *)
Located(p) == \A i \in LabelPos(p) : Entry(p[i].kind) => Spelled(p[i].l[1]) # <<>>

Valid ==
  /\ \A u \in DOMAIN values :
       Accepts(values[u]) /\ Located(values[u]) /\ SymbolsUnique(values[u]) /\ SymbolsDeclared(values[u])
  /\ Cardinality(Starts) <= 1

Verify ==
  /\ phase = "verify"
  /\ IF Valid
     THEN phase' = "compile" /\ values' = [u \in DOMAIN values |-> Prune(values[u])]
     ELSE phase' = "failed" /\ UNCHANGED values
  /\ UNCHANGED <<job, unit, ppVars, parseVars, linkVars, gameVars>>

-----------------------------------------------------------------------------
(***************************************************************************)
(* IR::preCompile: the statics that get a place in the shared array.       *)
(***************************************************************************)
(* Variant: the symbols of SymbolPtr operands are not looked at.           *)
ReferencedByValue(p) ==
  {p[i].l : i \in {k \in DOMAIN p : p[k].op \in {"use", "inline"}}}

Referenced(p) == {p[i].l : i \in Uses(p) \cup {k \in DOMAIN p : p[k].op = "inline"}}

Laid(p, i) == p[i].op = "static" /\ (job.opt => p[i].l \in Referenced(p))

(* The data of the statics before op i.                                    *)
Layout(p) ==
  LET Data[i \in 0..Len(p)] ==
        IF i = 0 THEN <<>> ELSE Data[i - 1] \o (IF Laid(p, i) THEN p[i].data ELSE <<>>)
  IN Data

(* Variant: every unit starts over.                                        *)
AppendedToNothing(p) == Layout(p)[Len(p)]

Appended(p) == staticData \o Layout(p)[Len(p)]

Offsets(p) ==
  LET laid == {i \in DOMAIN p : Laid(p, i)}
      data == Layout(p)
      at0 == Len(Appended(p)) - Len(data[Len(p)])
  IN [s \in {p[i].l : i \in laid} |-> at0 + Len(data[(CHOOSE i \in laid : p[i].l = s) - 1])]

(***************************************************************************)
(* IR::initLabels, in order of the ops.                                    *)
(***************************************************************************)
Stem(u) == job.targets[u].base

(* createForCall: an entry keeps its name, and has no local one.           *)
ForCall(u, o) ==
  IF Entry(o.kind) THEN Spelled(o.l[1]) ELSE <<Legal(Stem(u))>> \o [i \in DOMAIN o.l |-> Legal(o.l[i])]

WithNumber(fn, k) == [fn EXCEPT ![Len(fn)] = Numbered(@, k)]

(* Variant: two names that differ as labels are taken to differ.           *)
AsItIs(fn, taken) == fn

Unique(fn, taken) ==
  IF fn \notin taken
  THEN fn
  ELSE LET free == {k \in 1..(Cardinality(taken) + 1) : WithNumber(fn, k) \notin taken}
       IN WithNumber(fn, CHOOSE k \in free : \A j \in free : k <= j)

LabelNames(u, p) ==
  LET After[i \in 0..Len(p)] ==
        IF i = 0 THEN [map |-> <<>>, internal |-> internal]
        ELSE IF p[i].op # "label" THEN After[i - 1]
        ELSE LET before == After[i - 1]
                 plain == ~Entry(p[i].kind)
                 fn == IF plain THEN Unique(ForCall(u, p[i]), before.internal) ELSE ForCall(u, p[i])
             IN [map |-> Emplace(before.map, p[i].l, fn),
                 internal |-> IF plain THEN before.internal \cup {fn} ELSE before.internal]
  IN After[Len(p)]

(* requireStaticOffset, and the labels of calls and jumps.                 *)
Compiles(p) ==
  /\ \A i \in Uses(p) : p[i].l \in DOMAIN Offsets(p)
  /\ LabelsDeclared(p)
  /\ UniqueLabels(p)
  /\ \A i \in LabelPos(p) : p[i].l = Start => startFunc = None

CompileUnit ==
  /\ phase = "compile"
  /\ LET p == values[unit]
     IN IF ~Compiles(p)
        THEN phase' = "failed" /\ UNCHANGED <<unit, linkVars>>
        ELSE /\ staticMap' = Append(staticMap, Offsets(p))
             /\ staticData' = Appended(p)
             /\ LET named == LabelNames(unit, p)
                IN /\ names' = Append(names, named.map)
                   /\ internal' = named.internal
                   /\ startFunc' = IF Start \in DOMAIN named.map THEN named.map[Start] ELSE startFunc
             /\ IF unit < Len(values)
                THEN unit' = unit + 1 /\ UNCHANGED phase
                ELSE unit' = 1 /\ phase' = "built"
  /\ UNCHANGED <<job, ppVars, parseVars, values, gameVars>>

-----------------------------------------------------------------------------
(***************************************************************************)
(* The load function Builder::build writes, and the functions it schedules.*)
(***************************************************************************)
(* Entry i of s has run, or has been replaced.                             *)
Less(s, i) == [k \in 1..(Len(s) - 1) |-> s[IF k < i THEN k ELSE k + 1]]

(* schedule function f kt: an earlier schedule of f, there is one at most, *)
(* is replaced.                                                            *)
Schedule(s, f, k) ==
  LET of == {i \in DOMAIN s : s[i][2] = f}
  IN Append(IF of = {} THEN s ELSE Less(s, CHOOSE i \in of : TRUE), <<now + k, f>>)

WithData(s) == IF staticData = <<>> THEN s ELSE Schedule(s, "data", 1)

(* Variant: the start function is scheduled along with the data.           *)
StartWithData(s) ==
  IF startFunc = None \/ staticData = <<>> THEN s ELSE Schedule(s, "start", 2)

WithStart(s) == IF startFunc = None THEN s ELSE Schedule(s, "start", 2)

Load ==
  /\ phase = "built"
  /\ loads < MaxLoads
  /\ loads' = loads + 1
  /\ sched' = WithStart(WithData(Schedule(sched, "init", 1)))
  /\ program' = IF program = "none" THEN "none" ELSE "stale"
  /\ UNCHANGED <<job, phase, unit, ppVars, parseVars, values, linkVars, now, base, shp, heap>>

Due == {i \in DOMAIN sched : sched[i][1] <= now}

Runs(f) ==
  /\ Due # {}
  /\ LET i == CHOOSE k \in Due : \A j \in Due : sched[k][1] < sched[j][1] \/ (sched[k][1] = sched[j][1] /\ k <= j)
     IN sched[i][2] = f /\ sched' = Less(sched, i)

(* std:init_vm                                                             *)
RunInit ==
  /\ Runs("init")
  /\ shp' = 0
  /\ heap' = [a \in 0..(HeapSize - 1) |-> 0]
  /\ UNCHANGED <<job, phase, unit, ppVars, parseVars, values, linkVars, now, loads, base, program>>

ShpAfterData == shp + Len(staticData)

(* buildStaticData                                                         *)
RunData ==
  /\ Runs("data")
  /\ base' = shp
  /\ heap' = [a \in 0..(HeapSize - 1) |-> IF a < Len(staticData) THEN staticData[a + 1] ELSE heap[a]]
  /\ shp' = ShpAfterData
  /\ UNCHANGED <<job, phase, unit, ppVars, parseVars, values, linkVars, now, loads, program>>

RunStart ==
  /\ Runs("start")
  /\ program' = "runs"
  /\ UNCHANGED <<job, phase, unit, ppVars, parseVars, values, linkVars, now, loads, base, shp, heap>>

(* The program takes a word of the heap and writes to it: a task it has    *)
(* scheduled does so also between a load and the next start.               *)
Grow ==
  /\ phase = "built"
  /\ Due = {}
  /\ program # "none"
  /\ shp < HeapSize
  /\ heap' = [heap EXCEPT ![shp] = -1]
  /\ shp' = shp + 1
  /\ UNCHANGED <<job, phase, unit, ppVars, parseVars, values, linkVars, sched, now, loads, base, program>>

(* The next tick: all that was due has run.                                *)
Tick ==
  /\ phase = "built"
  /\ Due = {}
  /\ sched # <<>>
  /\ now' = now + 1
  /\ UNCHANGED <<job, phase, unit, ppVars, parseVars, values, linkVars, sched, loads, base, shp, heap, program>>

-----------------------------------------------------------------------------
Init ==
  /\ PPInit
  /\ at = 1 /\ last = None /\ lineStack = <<>> /\ labelState = NoLabels /\ labelStack = <<>>
  /\ generated = 0
  /\ values = [t \in DOMAIN job.targets |-> <<>>]
  /\ staticMap = <<>> /\ staticData = <<>> /\ names = <<>> /\ internal = {} /\ startFunc = None
  /\ sched = <<>> /\ now = 0 /\ loads = 0 /\ base = 0 /\ shp = 0 /\ program = "none"
  /\ heap = [a \in 0..(HeapSize - 1) |-> 0]

PreProcessing == PPNext /\ UNCHANGED <<parseVars, values, linkVars, gameVars>>

Compiling ==
  \/ PushLine
  \/ PopLine
  \/ PushLabel
  \/ PopLabel
  \/ ParseOp
  \/ ParseFails
  \/ EndParse
  \/ Verify
  \/ CompileUnit

Game ==
  \/ RunInit
  \/ RunData
  \/ RunStart
  \/ Tick

Next ==
  \/ PreProcessing
  \/ Compiling
  \/ Game
  \/ Load
  \/ Grow

(* The server ticks, and the world with the new data pack is loaded.       *)
Fairness == WF_vars(Game) /\ WF_vars(Load /\ loads = 0)

Spec == Init /\ [][Next]_vars /\ Fairness

-----------------------------------------------------------------------------
Phases == {"pp", "parse", "verify", "compile", "built", "failed"}

(* Type correctness of every variable.                                     *)
TypeOK ==
  /\ phase \in Phases
  /\ unit \in DOMAIN job.targets
  /\ \A i \in DOMAIN frames : frames[i].file \in DOMAIN job.files /\ frames[i].ignore \in BOOLEAN
  /\ DOMAIN defines = DOMAIN job.targets /\ DOMAIN funcs = DOMAIN job.targets
  /\ \A t \in DOMAIN bypass : bypass[t] \subseteq includeOnce
  /\ includeOnce \subseteq DOMAIN job.files
  /\ Len(sources) <= Len(job.targets)
  /\ labelState.pending \subseteq DOMAIN values[unit]
  /\ \A u \in DOMAIN values : \A i \in DOMAIN values[u] :
       values[u][i].op \in OpNames \cup {"inline", "use", "useptr"} /\ values[u][i].kind \in LabelKinds
  /\ Len(names) = Len(staticMap) /\ Len(names) <= Len(values)
  /\ \A i \in DOMAIN sched : sched[i][1] \in now..(now + 2)
  /\ base \in 0..HeapSize /\ shp \in 0..HeapSize
  /\ DOMAIN heap = 0..(HeapSize - 1)

-----------------------------------------------------------------------------
(* What the text says, without renaming anything: the lines op that are    *)
(* open at line i, innermost last.                                         *)
OpenAt(s, push, pop, i) ==
  LET Before[k \in 1..i] ==
        IF k = 1 THEN <<>>
        ELSE LET open == Before[k - 1]
             IN CASE s[k - 1].op = push -> Append(open, k - 1)
                  [] s[k - 1].op = pop -> SubSeq(open, 1, Len(open) - 1)
                  [] OTHER -> open
  IN Before[i]

ScopeAt(s, i) == OpenAt(s, "pushlabel", "poplabel", i)

(* The label that the local names of line i belong to, 0 if none: the last *)
(* one that is not in a header, or in pushed lines, closed by then.        *)
Owner(s, i) ==
  LET lines == OpenAt(s, "pushline", "popline", i)
      before == {k \in 1..(i - 1) :
                   s[k].op = "label" /\ ~s[k].loc /\ IsPrefix(OpenAt(s, "pushline", "popline", k), lines)}
  IN IF before = {} THEN 0 ELSE CHOOSE k \in before : \A j \in before : j <= k

SameName(s, i, k) == s[i].n = s[k].n /\ s[i].loc = s[k].loc /\ (s[i].loc => Owner(s, i) = Owner(s, k))

(* The labels a call sees: those of its own scope and the ones around it.  *)
Visible(s, i) ==
  {k \in DOMAIN s :
     /\ s[k].op = "label" /\ SameName(s, i, k)
     /\ Entry(s[k].kind) \/ IsPrefix(ScopeAt(s, k), ScopeAt(s, i))}

Meant(s, i) ==
  LET seen == Visible(s, i)
  IN CHOOSE k \in seen : \A j \in seen : Len(ScopeAt(s, j)) <= Len(ScopeAt(s, k))

LabelOfLine(u, k) == values[u][CHOOSE i \in DOMAIN values[u] : values[u][i].line = k].l

(* Expanding a macro with labels of its own any number of times, next to   *)
(* labels of the same name in the unit, does not change where the jumps    *)
(* and calls of either go: after the parse, each names the label that the  *)
(* text around it means.                                                   *)
ScopesBind ==
  phase = "verify" =>
    \A u \in DOMAIN values : \A i \in DOMAIN values[u] :
      LET o == values[u][i]
          s == sources[u]
      IN IsCallLike(o) /\ Visible(s, o.line) # {} => o.l = LabelOfLine(u, Meant(s, o.line))

(* What the Verifier has accepted, and pruned, compiles: the statics that  *)
(* are left out, the labels and the start function give no more errors.    *)
VerifiedCompiles == [][phase = "compile" => phase' # "failed"]_vars

(* The functions of all units have names of their own, whatever labels     *)
(* become equal when they are made legal and whatever targets have the     *)
(* same file name.                                                         *)
NamesUnique ==
  \A u, v \in DOMAIN names : \A i \in LabelPos(values[u]), k \in LabelPos(values[v]) :
    ~Entry(values[u][i].kind) /\ <<u, i>> # <<v, k>>
      => names[u][values[u][i].l] # names[v][values[v][k].l]

(* While the program runs, the operand of every instruction, and the name  *)
(* of a static in the text of an inline op, finds the data of its own      *)
(* unit's static: across units, with statics left out, with the heap       *)
(* growing, and when the world is loaded again at any time.                *)
StaticsRead ==
  program = "runs" =>
    \A u \in DOMAIN values : \A i \in Readers(values[u]) :
      LET s == CHOOSE k \in StaticsOf(values[u]) : values[u][k].l = values[u][i].l
          from == base + staticMap[u][values[u][i].l]
      IN /\ values[u][i].l \in DOMAIN staticMap[u]
         /\ \A d \in DOMAIN values[u][s].data : heap[from + d - 1] = values[u][s].data[d]

(* A program with a start function that builds gets started.               *)
Boots == (phase = "built" /\ startFunc # None) ~> program = "runs"
=============================================================================
