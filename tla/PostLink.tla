------------------------------ MODULE PostLink ------------------------------
(***************************************************************************)
(* From the compiled functions of all units to the data pack: what         *)
(* PostOptimizer::optimize does to functions (grouping of execute lines,   *)
(* inlining, removal of dead ones, new names), Builder::build writes to    *)
(* the build directory and Builder::link adds from the standard library.   *)
(*                                                                         *)
(* All of it works on text: whether a function is used, and where, is what *)
(* a scan for its name finds.  The passes look at one unit's functions at  *)
(* a time.                                                                 *)
(***************************************************************************)
EXTENDS Datapack, SequencesExt, Functions, FiniteSetsExt

CONSTANTS
  Programs,   \* the compilations considered
  Stdlib,     \* the standard library, as the data pack it is
  InitVm,     \* std:init_vm
  StaticData, \* the effect of the function that loads static data
  Generated,  \* the names NameGenerator hands out, in order
  Helpers,    \* the same with "_postopt_" in front
  NoName      \* the empty string

ASSUME StdlibAssumption == IsPack(Stdlib) /\ InitVm \in DOMAIN Stdlib
ASSUME NamesAssumption ==
  /\ NoName \notin Names
  /\ StaticData \in Effects
  /\ Generated \in Seq(Names)
  /\ Helpers \in [DOMAIN Generated -> Names]
  /\ \A i, j \in DOMAIN Generated :
       /\ Helpers[i] # Generated[j]
       /\ Generated[i] = Generated[j] \/ Helpers[i] = Helpers[j] => i = j

(* What is nested behind a return ends with one: jumps are compiled so.    *)
ReturnsNest(g) ==
  \A f \in DOMAIN g : \A k \in DOMAIN g[f] : Ended(g[f][k], Len(g[f][k].on) + 1) => g[f][k].cmd \in Returning

(* A compilation:                                                          *)
(*   units     the functions of each unit                                  *)
(*   internal  BuildContext::internalFunctions, labels seen in their unit  *)
(*   exported  BuildContext::exportedFunctions                             *)
(*   start     the name of _start, or NoName                               *)
(*   statics   there is static data                                        *)
(*   extra     the functions of the --data directory                       *)
(*   level, debug   -O and -g                                              *)
IsProgram(p) ==
  /\ p.units \in Seq(Range(p.units))
  /\ \A i \in DOMAIN p.units : IsPack(p.units[i]) /\ ReturnsNest(p.units[i])
  /\ IsPack(p.extra)
  /\ p.internal \subseteq UNION {DOMAIN p.units[i] : i \in DOMAIN p.units}
  /\ p.exported \subseteq UNION {DOMAIN p.units[i] : i \in DOMAIN p.units}
  /\ p.start \in {NoName} \cup UNION {DOMAIN p.units[i] : i \in DOMAIN p.units}
  /\ p.level \in 0..2 /\ {p.statics, p.debug} \subseteq BOOLEAN

(* How many names the compiler may take for p.                             *)
NamesNeeded(p) ==
  LET functions == UNION {{<<m, f>> : f \in DOMAIN p.units[m]} : m \in DOMAIN p.units}
      Executes(b) == {k \in DOMAIN b : b[k].on # <<>>}
      executes == UNION {{<<x, k>> : k \in Executes(p.units[x[1]][x[2]])} : x \in functions}
  IN Cardinality(functions) + Cardinality(executes) \div 2 + 2

(* Names are unique over all units; an internal name, which has the path   *)
(* of its unit in it, is not one of the generator's; those do not run out. *)
ASSUME ProgramsAssumption ==
  \A p \in Programs :
    /\ IsProgram(p)
    /\ p.units # <<>>
    /\ \A i, j \in DOMAIN p.units : i # j => DOMAIN p.units[i] \cap DOMAIN p.units[j] = {}
    /\ \A f \in p.internal : \A i \in DOMAIN Generated : f \notin {Generated[i], Helpers[i]}
    /\ NamesNeeded(p) <= Len(Generated)

VARIABLES
  prog,       \* the compilation, as IR::compile left it
  maps,       \* mcFunctions
  internal, exported, start,   \* the BuildContext
  gen,        \* index of the next name in Generated
  phase,      \* "lines", "group", "inline", "dead", "rename", "build", "link" or "done"
  unit,       \* the unit the pass is at
  edits,      \* inlining: the edits of this round not yet made
  changed,    \* inlining: the last round changed something
  files,      \* the build directory
  load        \* the function behind the tag minecraft:load, or NoName

context == <<internal, exported, start>>
vars == <<prog, maps, context, gen, phase, unit, edits, changed, files, load>>

-----------------------------------------------------------------------------
Renames == prog.level >= 1 /\ ~prog.debug

AfterPasses == IF Renames THEN "rename" ELSE "build"

Init ==
  /\ prog \in Programs
  /\ maps = prog.units
  /\ internal = prog.internal
  /\ exported = prog.exported
  /\ start = prog.start
  /\ gen = 1
  /\ phase = IF prog.level = 2 THEN "lines" ELSE AfterPasses
  /\ unit = 1
  /\ edits = {}
  /\ changed = TRUE
  /\ files = NoFiles
  /\ load = NoName

(* Internal and exported functions may go.                                 *)
Prunable == internal \cup exported

(* Variant: one of the two sets is not kept up.                            *)
ForgetInternal(S) == internal' = internal \ S /\ UNCHANGED exported

(* The functions of S are gone.                                            *)
Forget(S) == internal' = internal \ S /\ exported' = exported \ S

(* A pass is done with a unit.                                             *)
NextUnit(next) ==
  IF unit < Len(maps) THEN unit' = unit + 1 /\ UNCHANGED phase
                      ELSE unit' = 1 /\ phase' = next

-----------------------------------------------------------------------------
(***************************************************************************)
(* runFunctionPasses: the lines of each function are simplified, and       *)
(* execute lines in a row that begin alike become one, which calls a       *)
(* helper function with what is left of them.                              *)
(***************************************************************************)
(* cleanupFunctionText, and those of the rewritings of optimizeLine that   *)
(* change which of the kinds above a line is of.  A return in front of an  *)
(* execute with another return goes: the function then ends only where all *)
(* clauses hold.                                                           *)
Unnested(on) ==
  FlattenSeq([j \in DOMAIN on |-> IF on[j].kind \in {"nest", "retnest"} THEN <<>> ELSE <<on[j]>>])

SimplifiedLine(l) ==
  [l EXCEPT !.on = Unnested(@), !.cmd = IF @ = "retret" THEN "ret" ELSE @]

Simplified(b) ==
  FlattenSeq([k \in DOMAIN b |-> IF b[k].cmd = "note" THEN <<>> ELSE <<SimplifiedLine(b[k])>>])

(* Every function is simplified before its lines are grouped; one does not *)
(* depend on the other functions, so that all of them may come first.      *)
SimplifyLines ==
  /\ phase = "lines"
  /\ maps' = [m \in DOMAIN maps |-> [f \in DOMAIN maps[m] |-> Simplified(maps[m][f])]]
  /\ phase' = "group"
  /\ UNCHANGED <<prog, context, gen, unit, edits, changed, files, load>>

(* findCommonExecutePrefix: how many clauses the lines i to j of b begin   *)
(* with alike.                                                             *)
Common(b, i, j) ==
  Max({n \in 0..Len(b[i].on) : \A k \in i..j : IsPrefix(SubSeq(b[i].on, 1, n), b[k].on)})

(* No clause is left, and every command is a return run.                   *)
AllReturnRun(b, i, j) == \A k \in i..j : Len(b[k].on) = Common(b, i, j) /\ b[k].cmd = "tail"

(* What is left of line k.                                                 *)
Suffix(b, i, j, k) ==
  [b[k] EXCEPT !.on = SubSeq(@, Common(b, i, j) + 1, Len(@)),
               !.cmd = IF AllReturnRun(b, i, j) THEN "call" ELSE @]

(* The longest rows of lines that begin alike.                             *)
Batches(b) ==
  {r \in (DOMAIN b) \X (DOMAIN b) :
     LET Alike(k) == k \in DOMAIN b /\ b[k].on # <<>> /\ b[k].on[1] = b[r[1]].on[1]
     IN /\ r[1] < r[2]
        /\ \A k \in r[1]..r[2] : Alike(k)
        /\ ~Alike(r[1] - 1) /\ ~Alike(r[2] + 1)}

(* Variant: any line may move.                                             *)
NoneConditional(b, r, k) == FALSE

(* What is left of the line would return on a condition.                   *)
ConditionalReturn(b, r, k) ==
  LET s == Suffix(b, r[1], r[2], k) IN s.on # <<>> /\ s.cmd \in Returning

(* extractGroupsFromBlock: a return on a condition splits a batch.         *)
Groups(b) ==
  UNION {{r \in (DOMAIN b) \X (DOMAIN b) :
            LET Stays(k) == k < B[1] \/ k > B[2] \/ ConditionalReturn(b, B, k)
            IN /\ r[1] < r[2]
               /\ \A k \in r[1]..r[2] : ~Stays(k)
               /\ Stays(r[1] - 1) /\ Stays(r[2] + 1)} : B \in Batches(b)}

HelperText(b, r) == [n \in 1..(r[2] - r[1] + 1) |-> Suffix(b, r[1], r[2], r[1] + n - 1)]

(* The line that calls the helper h for the group r.                       *)
HelperCall(b, r, h) ==
  LET text == HelperText(b, r)
      hasReturn == \E k \in DOMAIN text : text[k].on = <<>> /\ text[k].cmd \in Returning
  IN [on |-> SubSeq(b[r[1]].on, 1, Common(b, r[1], r[2])),
      cmd |-> IF hasReturn \/ AllReturnRun(b, r[1], r[2]) THEN "tail" ELSE "call",
      f |-> h]

AllGroups(g) == UNION {{<<f, r>> : r \in Groups(g[f])} : f \in DOMAIN g}

(* Which function comes first depends on the hash map.                     *)
InOrder(nm) ==
  \A x, y, z \in DOMAIN nm :
    /\ x[1] = y[1] /\ x[2][1] < y[2][1] => nm[x] < nm[y]
    /\ x[1] = z[1] /\ nm[x] < nm[y] /\ nm[y] < nm[z] => x[1] = y[1]

(* makeHelperPath: the groups of a unit take the next names it has free.   *)
HelperNumbers(g) ==
  {nm \in [AllGroups(g) -> {i \in gen..Len(Generated) : Helpers[i] \notin DOMAIN g}] :
     /\ IsInjective(nm)
     /\ \A i \in Range(nm) : \A j \in gen..i : j \in Range(nm) \/ Helpers[j] \in DOMAIN g
     /\ InOrder(nm)}

(* Line k, or what is in its place: the first line of a group is its call. *)
GroupedLine(f, b, nm, k) ==
  LET at == {x \in DOMAIN nm : x[1] = f /\ k \in x[2][1]..x[2][2]}
  IN IF at = {} THEN <<b[k]>>
     ELSE LET x == CHOOSE y \in at : TRUE
          IN IF k = x[2][1] THEN <<HelperCall(b, x[2], Helpers[nm[x]])>> ELSE <<>>

(* A function with one line for each of its groups.                        *)
Grouped(f, b, nm) == FlattenSeq([k \in DOMAIN b |-> GroupedLine(f, b, nm, k)])

(* The functions of g and what their groups become.                        *)
HelperNames(nm) == {Helpers[nm[x]] : x \in DOMAIN nm}

HelperFor(g, nm, h) ==
  LET x == CHOOSE y \in DOMAIN nm : Helpers[nm[y]] = h IN HelperText(g[x[1]], x[2])

WithHelpers(g, nm) ==
  [f \in HelperNames(nm) \cup DOMAIN g |->
     IF f \in HelperNames(nm) THEN HelperFor(g, nm, f) ELSE Grouped(f, g[f], nm)]

(* The helpers join the unit's functions once all of those are done.       *)
GroupExecutes ==
  /\ phase = "group"
  /\ LET g == maps[unit]
     IN \E nm \in HelperNumbers(g) :
          /\ maps' = [maps EXCEPT ![unit] = WithHelpers(g, nm)]
          /\ gen' = Max({gen - 1} \cup Range(nm)) + 1
  /\ NextUnit("inline")
  /\ UNCHANGED <<prog, context, edits, changed, files, load>>

-----------------------------------------------------------------------------
(***************************************************************************)
(* inlineFunctions                                                         *)
(***************************************************************************)
(* A call that may be replaced by the text of f: a line of its own, or the *)
(* last line of a function.                                                *)
Site(g, h, k) ==
  CASE g[h][k].on = <<>> /\ g[h][k].cmd = "call" -> "standalone"
    [] g[h][k].on = <<>> /\ g[h][k].cmd = "tail" /\ k = Len(g[h]) -> "tail"
    [] OTHER -> "none"

(* Variant: a return in front of the last line is overlooked.              *)
StandaloneInlinableByLast(b) == b # <<>> => b[Len(b)].cmd \notin Returning \/ b[Len(b)].on = <<>>

(* Where a call stood, no line but the last may return, and that one only  *)
(* plainly.                                                                *)
StandaloneInlinable(b) ==
  /\ \A k \in 1..(Len(b) - 1) : b[k].cmd \notin Returning
  /\ b # <<>> => b[Len(b)].cmd \notin Returning \/ b[Len(b)].on = <<>>

(* The functions of g that are mentioned once, by a call that may be       *)
(* replaced, with that call.                                               *)
Candidates(g) ==
  {e \in [callee : DOMAIN g \cap Prunable, at : DOMAIN g, kind : {"standalone", "tail"}] :
     /\ e.callee # start
     /\ e.callee # e.at
     /\ \E k \in DOMAIN g[e.at] :
          Occurrences(g, e.callee) = {<<e.at, k, 0>>} /\ Site(g, e.at, k) = e.kind
     /\ e.kind = "standalone" => StandaloneInlinable(g[e.callee])}

(* Those whose text mentions no other candidate.                           *)
Leaves(g) ==
  LET names == {e.callee : e \in Candidates(g)}
  IN {e \in Candidates(g) : Mentions(g[e.callee]) \cap (names \ {e.callee}) = {}}

(* One round's edits: at most one in a function, whichever the hash map    *)
(* yields first.                                                           *)
Rounds(g) ==
  {E \in SUBSET Leaves(g) :
     /\ \A d, e \in E : d.at = e.at => d = e
     /\ \A d \in Leaves(g) : \E e \in E : d.at = e.at}

(* buildInlinedText                                                        *)
Inlined(b, kind) ==
  LET n == Len(b)
  IN CASE kind = "tail" \/ b = <<>> -> b
       [] kind = "standalone" /\ b # <<>> ->
            CASE b[n].on = <<>> /\ b[n].cmd = "tail" -> [b EXCEPT ![n].cmd = "call"]
              [] b[n].on = <<>> /\ b[n].cmd = "ret" -> SubSeq(b, 1, n - 1)
              [] OTHER -> b

Replaced(b, k, text) == SubSeq(b, 1, k - 1) \o text \o SubSeq(b, k + 1, Len(b))

(* Variant: rounds go on until there are no candidates, which is the other *)
(* end that InlineScan knows.                                              *)
WhileCandidates == TRUE

(* Rounds go on until one changes nothing.                                 *)
AnotherRound == changed

InlineScan ==
  /\ phase = "inline"
  /\ unit > 1 \/ Prunable # {}
  /\ edits = {} /\ AnotherRound
  /\ \/ /\ Candidates(maps[unit]) = {}
        /\ NextUnit("dead")
        /\ changed' = TRUE
        /\ UNCHANGED edits
     \/ /\ Candidates(maps[unit]) # {}
        /\ edits' \in Rounds(maps[unit])
        /\ changed' = FALSE
        /\ UNCHANGED <<unit, phase>>
  /\ UNCHANGED <<prog, maps, context, gen, files, load>>

(* The next edit finds both functions, and the name, still there.          *)
InlineEdit ==
  /\ phase = "inline"
  /\ \E e \in edits :
       LET g == maps[unit]
           spots == {k \in DOMAIN g[e.at] : e.callee \in NamesIn(g[e.at][k])}
       IN /\ edits' = edits \ {e}
          /\ IF {e.callee, e.at} \subseteq DOMAIN g /\ spots # {}
             THEN /\ \E k \in spots :
                       /\ \A j \in spots : k <= j
                       /\ maps' = [maps EXCEPT ![unit] =
                            Without([g EXCEPT ![e.at] =
                                       Replaced(@, k, Inlined(g[e.callee], e.kind))], {e.callee})]
                  /\ Forget({e.callee})
                  /\ changed' = TRUE
             ELSE UNCHANGED <<maps, internal, exported, changed>>
  /\ UNCHANGED <<prog, start, gen, phase, unit, files, load>>

(* Nothing was inlined in the last round.                                  *)
InlineStable ==
  /\ phase = "inline"
  /\ edits = {} /\ ~AnotherRound
  /\ NextUnit("dead")
  /\ changed' = TRUE
  /\ UNCHANGED <<prog, maps, context, gen, edits, files, load>>

(* Neither pass has anything to do without prunable functions.             *)
NothingToPrune ==
  /\ phase \in {"inline", "dead"}
  /\ unit = 1 /\ edits = {} /\ changed
  /\ Prunable = {}
  /\ phase' = IF phase = "inline" THEN "dead" ELSE AfterPasses
  /\ UNCHANGED <<prog, maps, context, gen, unit, edits, changed, files, load>>

-----------------------------------------------------------------------------
(***************************************************************************)
(* eliminateDeadFunctions                                                  *)
(***************************************************************************)
(* What the mentions in g lead to from the functions in R.                 *)
Reach(g, R) ==
  {f \in DOMAIN g :
     \A S \in SUBSET DOMAIN g :
       /\ R \cap DOMAIN g \subseteq S
       /\ \A h \in S : Mentions(g[h]) \cap DOMAIN g \subseteq S
       => f \in S}

Dead(g) == (DOMAIN g \cap Prunable) \ Reach(g, {start} \cup (DOMAIN g \ Prunable))

EliminateDead ==
  /\ phase = "dead"
  /\ unit > 1 \/ Prunable # {}
  /\ LET dead == Dead(maps[unit])
     IN /\ maps' = [maps EXCEPT ![unit] = Without(@, dead)]
        /\ Forget(dead)
  /\ NextUnit(AfterPasses)
  /\ UNCHANGED <<prog, start, gen, edits, changed, files, load>>

-----------------------------------------------------------------------------
(***************************************************************************)
(* renameInternalFunctions                                                 *)
(***************************************************************************)
Occupied == (UNION {DOMAIN maps[m] : m \in DOMAIN maps}) \ internal

(* Variant: no look at the names in use.                                   *)
TakesAnyNext(I) ==
  /\ Cardinality(I) = Cardinality(internal)
  /\ \A i \in I : \A j \in gen..i : j \in I

(* I are the next indices of Generated with names that are free.           *)
TakesNext(I) ==
  /\ Cardinality(I) = Cardinality(internal)
  /\ \A i \in I : Generated[i] \notin Occupied
  /\ \A i \in I : \A j \in gen..i : j \in I \/ Generated[j] \in Occupied

(* Which function gets which name depends on the hash set.                 *)
Namings(I) ==
  {nm \in [internal -> {Generated[i] : i \in I}] :
     \A f, h \in internal : nm[f] = nm[h] => f = h}

(* Every name that nm has a new one for is replaced in the text of b.      *)
NewName(f, nm) == IF f \in DOMAIN nm THEN nm[f] ELSE f

RewrittenClause(c, nm) == IF c.kind = "func" THEN [c EXCEPT !.f = NewName(@, nm)] ELSE c

RewrittenOn(l, nm) == [l EXCEPT !.on = [j \in DOMAIN @ |-> RewrittenClause(@[j], nm)]]

RewrittenLine(l, nm) ==
  IF l.cmd \in Mentioning THEN [RewrittenOn(l, nm) EXCEPT !.f = NewName(@, nm)]
                          ELSE RewrittenOn(l, nm)

Rewritten(b, nm) == [k \in DOMAIN b |-> RewrittenLine(b[k], nm)]

(* The unit's own functions move, and the unit's text follows.             *)
Renamed(g, nm) ==
  LET local == [f \in DOMAIN nm \cap DOMAIN g |-> nm[f]]
      old(n) == {f \in DOMAIN local : local[f] = n}
  IN [n \in (DOMAIN g \ DOMAIN local) \cup {local[f] : f \in DOMAIN local} |->
        Rewritten(g[IF old(n) = {} THEN n ELSE CHOOSE f \in old(n) : TRUE], local)]

(* Variant: _start keeps its name.                                         *)
SameStart(nm) == start

NewStart(nm) == IF start \in internal THEN nm[start] ELSE start

Rename ==
  /\ phase = "rename"
  /\ \E I \in SUBSET (gen..Len(Generated)) :
       /\ TakesNext(I)
       /\ \E nm \in Namings(I) :
            /\ maps' = [m \in DOMAIN maps |-> Renamed(maps[m], nm)]
            /\ start' = NewStart(nm)
       /\ gen' = Max({gen - 1} \cup I) + 1
  /\ phase' = "build"
  /\ UNCHANGED <<prog, internal, exported, unit, edits, changed, files, load>>

-----------------------------------------------------------------------------
(***************************************************************************)
(* Builder::build and Builder::link                                        *)
(***************************************************************************)
(* All units in one directory, the files of later ones over the earlier.   *)
Written(ms) ==
  [f \in UNION {DOMAIN ms[m] : m \in DOMAIN ms} |->
     ms[Max({m \in DOMAIN ms : f \in DOMAIN ms[m]})][f]]

Schedule(f) == <<[on |-> <<>>, cmd |-> "sched", f |-> f]>>

OnLoad(data) ==
  Schedule(InitVm)
  \o (IF prog.statics THEN Schedule(data) ELSE <<>>)
  \o (IF start = NoName THEN <<>> ELSE Schedule(start))

Build ==
  /\ phase = "build"
  /\ LET data == Generated[gen + 1]
         loader == IF prog.statics THEN File(data, <<[on |-> <<>>, cmd |-> "do", f |-> StaticData]>>) ELSE NoFiles
     IN files' = Over(Over(File(Generated[gen], OnLoad(data)), loader), Written(maps))
  /\ load' = Generated[gen]
  /\ gen' = gen + (IF prog.statics THEN 2 ELSE 1)
  /\ phase' = "link"
  /\ UNCHANGED <<prog, maps, context, unit, edits, changed>>

(* The library functions that the user has no file for.                    *)
LibraryLeft == [f \in DOMAIN Stdlib \ DOMAIN files |-> Stdlib[f]]

(* Variant: the --data directory is not scanned.                           *)
LinkedFromFiles ==
  IF prog.level = 0 THEN DOMAIN LibraryLeft
  ELSE Reach(LibraryLeft, UNION {Mentions(files[f]) : f \in DOMAIN files})

(* From -O1 on, those that some text outside the library leads to.         *)
LinkedFunctions ==
  IF prog.level = 0 THEN DOMAIN LibraryLeft
  ELSE Reach(LibraryLeft, UNION ({Mentions(files[f]) : f \in DOMAIN files}
                                   \cup {Mentions(prog.extra[f]) : f \in DOMAIN prog.extra}))

Link ==
  /\ phase = "link"
  /\ LET own == Over(prog.extra, files)
     IN files' = [f \in DOMAIN own \cup LinkedFunctions |->
                    IF f \in DOMAIN own THEN own[f] ELSE Stdlib[f]]
  /\ phase' = "done"
  /\ UNCHANGED <<prog, maps, context, gen, unit, edits, changed, load>>

-----------------------------------------------------------------------------
Next ==
  \/ SimplifyLines
  \/ GroupExecutes
  \/ InlineScan
  \/ InlineEdit
  \/ InlineStable
  \/ NothingToPrune
  \/ EliminateDead
  \/ Rename
  \/ Build
  \/ Link

(* The compiler runs to its end.                                           *)
Spec == Init /\ [][Next]_vars /\ WF_vars(Next)

-----------------------------------------------------------------------------
(***************************************************************************)
(* Properties                                                              *)
(***************************************************************************)
(* What may hold of the conditions the program asks for.                   *)
Valuations ==
  LET Clauses(b) == UNION {{l.on[j] : j \in DOMAIN l.on} : l \in Lines(b)}
      Asked(g) == UNION {{c.f : c \in {d \in Clauses(g[f]) : d.kind \in {"if", "unless"}}} : f \in DOMAIN g}
  IN [UNION {Asked(prog.units[m]) : m \in DOMAIN prog.units} -> BOOLEAN]

(* The data pack, were the passes that are left out to change nothing.     *)
Current ==
  CASE phase = "done" -> files
    [] phase = "link" -> Over(prog.extra, Over(files, Stdlib))
    [] OTHER -> Over(prog.extra, Over(Written(maps), Stdlib))

(* The program as it was compiled, with all of the library.                *)
Compiled == Over(prog.extra, Over(Written(prog.units), Stdlib))

(* Functions that can be called from outside the program: neither internal *)
(* nor exported.                                                           *)
Api ==
  (UNION {DOMAIN prog.units[m] : m \in DOMAIN prog.units}) \ (prog.internal \cup prog.exported)

(* What can be called, and what it is now called.                          *)
Callable ==
  {<<f, f>> : f \in Api \cup DOMAIN prog.extra}
    \cup (IF prog.start = NoName THEN {} ELSE {<<prog.start, start>>})

(* The state is well formed; the names that may go are functions.          *)
TypeOK ==
  /\ \A m \in DOMAIN maps : IsPack(maps[m])
  /\ IsPack(files)
  /\ {start, load} \subseteq Names \cup {NoName}
  /\ gen \in 1..(Len(Generated) + 1)
  /\ phase \in {"lines", "group", "inline", "dead", "rename", "build", "link", "done"}
  /\ unit \in DOMAIN maps
  /\ changed \in BOOLEAN
  /\ edits \subseteq [callee : Names, at : Names, kind : {"standalone", "tail"}]
  /\ phase \in {"lines", "group", "inline", "dead", "rename"} =>
       Prunable \subseteq UNION {DOMAIN maps[m] : m \in DOMAIN maps}

(* After every single edit of the passes, and in what is written, _start,  *)
(* the api functions and those of the --data directory do what they did    *)
(* when they were compiled: grouping and inlining keep early returns and   *)
(* the order of effects, nothing in use is removed, every mention follows  *)
(* its function.                                                           *)
MeaningKept ==
  \A c \in Valuations : \A fn \in Callable :
    Agree(Behaviour(Compiled, c, fn[1]), Behaviour(Current, c, fn[2]))

(* The function behind minecraft:load sets up the VM, loads the static     *)
(* data and runs the program, in this order.                               *)
LoadRunsProgram ==
  phase = "done" =>
    \A c \in Valuations :
      LET main == IF prog.start = NoName THEN Result(<<>>, "zero")
                  ELSE Behaviour(Compiled, c, prog.start)
          data == IF prog.statics THEN <<StaticData>> ELSE <<>>
          whole == Result(Behaviour(Compiled, c, InitVm).ev \o data \o main.ev,
                          IF main.val = "cut" THEN "cut" ELSE "zero")
      IN Agree(whole, Behaviour(files, c, load))

(* All that is mentioned in g is there.                                    *)
Complete(g) == \A f \in DOMAIN g : Mentions(g[f]) \subseteq DOMAIN g

(* The functions a program keeps to itself.                                *)
Own(p) == p.internal \cup p.exported

(* Internal and exported functions are mentioned in their own unit only,   *)
(* and the --data directory replaces no function of the program.           *)
Enclosed(p) ==
  /\ \A m \in DOMAIN p.units : \A f \in DOMAIN p.units[m] :
       Mentions(p.units[m][f]) \cap Own(p) \subseteq DOMAIN p.units[m]
  /\ \A f \in DOMAIN p.extra : f \notin Own(p) /\ Mentions(p.extra[f]) \cap Own(p) = {}
  /\ \A f \in DOMAIN Stdlib : f \notin Own(p) /\ Mentions(Stdlib[f]) \cap Own(p) = {}
  /\ \A m \in DOMAIN p.units : DOMAIN p.units[m] \cap DOMAIN p.extra = {}

(* If all that the compiled program and the library mention is there, all  *)
(* that is mentioned in the data pack is: what the link leaves out of the  *)
(* library nothing else leads to.                                          *)
Resolves == phase = "done" /\ Complete(Compiled) => Complete(files)

(* A function that no pass has dropped, and a helper, has a file of its    *)
(* own in the build directory, besides the functions that load: no two got *)
(* one name.                                                               *)
AllWritten ==
  LET Defined == UNION {DOMAIN prog.units[m] : m \in DOMAIN prog.units}
      Dropped == (prog.internal \cup prog.exported) \ Prunable
      helpers == IF prog.level < 2 THEN 0
                 ELSE MapThenSumSet(LAMBDA m : MapThenSumSet(
                        LAMBDA f : Cardinality(Groups(Simplified(prog.units[m][f]))),
                        DOMAIN prog.units[m]), DOMAIN prog.units)
  IN phase = "link" =>
       Cardinality(DOMAIN files) =
         Cardinality(Defined) - Cardinality(Dropped) + helpers + (IF prog.statics THEN 2 ELSE 1)

(* The compiler ends; the inlining rounds do.                              *)
Finished == <>(phase = "done")

(* Exported functions can be called from outside and are always kept, says *)
(* the comment on eliminateDeadFunctions.                                  *)
ExportsKept == phase = "done" => prog.exported \subseteq DOMAIN files
=============================================================================
