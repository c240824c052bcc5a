# clang-mc in TLA+

clang-mc compiles mcasm, a small assembly language, to a Minecraft data pack: a
set of `.mcfunction` files, each a list of commands, that a game server runs.
This directory holds TLA+ models of the parts of the compiler and its run-time
library in which something non-obvious has to be right, TLC configurations that
check them on small instances, and TLAPS proofs about them.

    tlc -workers 2 -config MCBlockCompile.cfg MCBlockCompile
    tlapm BlockCompileProofs.tla
    tlapm MallocTinyProofs.tla
    tlapm StringRefsWorlds.tla
    tlapm StringRefsProofs.tla
    tlapm SeqLemmas.tla
    tlapm IRPassesProofs.tla
    tlapm PostLinkProofs.tla
    tlapm UnitsProofs.tla

Section 2 says what each module stands for, 3 what the runs check and why their
bounds are enough, 4 what is proved, 5 where the code does something else than it
says, 6 what is not modelled.

## 1. The system

The compiler is sequential. A run takes every source file through the same
phases (`src/cpp/ClangMc.cpp`); what one phase leaves in its data structures is
all the next one sees. What is hard in it is therefore not concurrency but

* **long sequences of legal inputs**: neighbouring ops, blocks or calls that no
  test happens to combine;
* **facts computed before an edit and used after it** (references collected
  before pruning, call sites before another inlining);
* **two components that must agree without checking** (who may return early, who
  hands out names, which labels exist);
* **iteration in the order of a hash map**, whose outcome must not matter;
* the **meaning of the target**: a mcfunction has no jump, only calls and
  returns, and a caller acts on the value the callee completes with.

| component | state | operations | talks to | must hold |
|---|---|---|---|---|
| Driver `ClangMc.cpp` | list of IRs, config, BuildContext | start: parse, verify, optimise, compile, build, link; exits for -E, -c and errors | all | phases in order; nothing built after an error |
| ParseManager, PreProcessor | sources, macros and headers put in per target, include-once for all | load, expand, `#if` nesting | driver | each header once; conditionals balanced |
| IR parse, LabelScope (`ir/IR.cpp`, `ir/IRCommon.cpp`) | ops, line states, scope stack | parse, push and pop of scopes, nop behind an entry label | PreProcessor, Verifier | a reference means the label of its own scope |
| Verifier | labels, symbols, references, line states | scan, report, prune | IR, JmpTable | what is accepted can be compiled; pruning keeps all that is used |
| IR optimiser (`ir/opt`) | ops, a table of what is known of the registers | fold, simplify, devirtualise, inline, dead code, at most 8 rounds | IR | meaning kept; ends |
| IR obfuscator (`ir/obf`) | ops | indirect calls, hidden constants | IR | meaning kept, registers included |
| JmpTable, `IR::compile` | label map, values map, jump lists, shared static data | preCompile, initLabels, make, compile | ops, BuildContext | jumps between blocks behave like jumps; names and offsets of all units agree |
| Post-optimiser, lines and groups (`builder/postopt/passes/function`) | one function's text | clean up, group `execute` lines into helpers | Post-optimiser, functions | meaning kept |
| Post-optimiser, functions (`builder/postopt/passes/generated`) | function texts per unit; names internal, exported, start | inline, remove dead functions, rename | BuildContext, NameGenerator | meaning kept; nothing in use removed; no name taken twice |
| Builder | build directory | build (files, load and data function), link (library, `--data`) | NameGenerator, BuildContext | all functions written; load order; library complete |
| NameGenerator | a counter | generate | renaming, IR, Builder | names differ |
| C library allocator (`resources/libc/stdlib/malloc_tiny.c`) | heap words, free list, heap end | malloc, calloc, realloc, free | programs | blocks disjoint, contents kept, fails only when full |
| libmc (`resources/libmc`): strings, targets, NBT, command bindings | counts, cached handles, the caller's literals | make, retain, release, assign, append, run a command | allocator, slot heaps, programs | counts right; a cached handle is current; nothing lost when memory runs out |
| VM runtime (`resources/assets/stdlib`) | scoreboards, heap storage, slot heaps | init_vm, heap expand and shrink, slots | load function, libmc | heap as large as its size says; a slot has one owner |
| mcfunction interpreter (`tools/foo-benchmark/mcfunc_interp.py`) | scoreboards, call stack | run lines | - | the reference for what `function`, `return` and `execute` mean |
| CLI, i18n, logging, rest of libc, assets | - | - | - | not modelled: straight-line, wording, vendored or generated |

`PROJECT.json` lists every component with its status, and under "hazards" what
can go wrong at which line, with the properties that watch it.

## 2. Modules

| module | stands for | role |
|---|---|---|
| `Mcasm` | the ops of a unit, labels and blocks | vocabulary |
| `Verifier` | what Verifier::handleSingle accepts and prunes | used by `BlockCompile` and `Units` |
| `IRMachine` | what a unit means: one instruction stream with labels, calls and returns | abstract specification |
| `BlockCompile` | Verifier, JmpTable, `IR::compile`, and the functions at work | refines `IRMachine` |
| `MCBlockCompile` | units for TLC | instance |
| `BlockCompileProofs` | | proofs of types and control flow, and that the compiled unit implements `IRMachine` |
| `PreProcess` | PreProcessor: headers, macros, conditionals | part of `Units` |
| `Units` | several targets from source to the running game: parse, verify, names, static data, load | |
| `MCUnits` | compilations for TLC | instance |
| `UnitsProofs` | | proofs about any targets, from source to the running game |
| `RegMachine` | ops with their operands, `opt::analyze`, a machine that runs them | vocabulary |
| `IRPasses` | the optimiser's and the obfuscator's passes over one unit | |
| `MCIRPasses` | units for TLC | instance |
| `SeqLemmas` | | lemmas about recursion over positions and about sequences put together |
| `IRPassesProofs` | | proofs about the passes on a unit of any length |
| `Datapack` | functions as sequences of lines, and what running one does | vocabulary |
| `PostLink` | PostOptimizer, Builder::build and Builder::link | |
| `MCPostLink` | programs for TLC | instance |
| `PostLinkProofs` | | proofs that the data pack is well formed and lacks nothing it mentions |
| `Heap` | blocks with contents, as a C program sees malloc and its kin | abstract specification |
| `MallocTiny` | malloc_tiny.c, loop iteration by loop iteration | refines `Heap` |
| `MCMallocTiny` | sizes and data for TLC | instance |
| `MallocTinyProofs` | | what one write does to a heap that is whole; proofs of the allocator's invariants, and that `MallocTiny` implements `Heap` |
| `SlotHeap` | the slots of mcstr and nbt in the game's storage | vocabulary |
| `CommandBindings` | which handles each binding asks for | vocabulary |
| `StringRefs` | McfStrRef, String, Target, Nbt, execute builders and their client | |
| `MCStringRefs` | values for TLC | instance |
| `StringRefsWorlds` | | lemmas: what each C function does to a world that is well formed |
| `StringRefsProofs` | | proofs of the counts, slots and texts of libmc |

The modules follow a program on its way: `Units` takes sources to verified ops with
names and offsets, `IRPasses` rewrites the ops of one unit, `BlockCompile` turns them
into functions, `PostLink` rewrites the functions and writes the pack. Each starts
from what the one before may hand over. `MallocTiny` and `StringRefs` are the library
the programs are linked with.

The abstract specifications `IRMachine` and `Heap` say what a user expects and
translate no code; they have no entry in the map. Operators whose comment starts
with "Variant:" are deliberately wrong forms of the definition that follows them,
kept to show that a property notices the difference; no behaviour uses them.

### 2.1 BlockCompile: jumps made of functions

A block of mcasm becomes a function. A jump to a label becomes a list of lines
`execute if function X run return 1`, one for each block that control would run
through, and `return run function Y` for the first block that ends. The list is a
jump only if no X completes with 0; then the line would count as a failed test.
Whether X may do so depends on where its block ends, what follows it, what the
Verifier has pruned and what it has let through.

* `Verify` is the whole of `Verifier::handleSingle` for the labels of one unit, from
  the module `Verifier`: `UniqueLabels`,
  `LabelsDeclared` and `LastLabelKnown => EndsUnreachable` are its errors, `Keep`
  its worklist, `Erased` its last loop, in which a static stops the erasing. The
  look-ups in the label map that fail during compile are the phase `crashed`.
* `Emitted`, `EndsSpan`, `NextLabel` and `JumpLine` are `IR::compile` and
  `JmpTable::make`; `Call`, `Jump`, `NextBlock`, `CondJump`, `Ret`, `CondRet`
  are the lines the ops compile to.
* `Push`, `TailCall`, `FallOff`, `Unwind` and `Cut` are the game: a stack of
  frames, `return run`, the value of a function without a return, and the limit
  on a command chain.

All arithmetic is one addition modulo `Width` on one scoreboard; the conditional
jumps and returns test whether it is 0. An extern function may leave it at any
value. The ops of different operand forms compile to straight-line commands and
are not told apart.

Properties: `TypeOK`; `NeverZero` (no function of a defined unit completes with 0);
`EnteredIsEmitted` (nothing pruned, extern or missing is run); `ImplementsIR`
(the functions do what the instruction stream says: same scoreboard, same calls,
nothing lost or run twice). The refinement mapping reads the program counter off
the innermost frame; while a value is being handed up, it is already where the
nearest `function` call will go on. `Defined` is the precondition: no jump or
fall-through into an extern label, which the Verifier calls undefined and only
warns of, and no entry without code at the very end, which is finding 1.

### 2.2 MallocTiny: the allocator

Every iteration of the loops of malloc, free and realloc is a step. `mem` is the
word heap; block headers and free-list links lie in it, next to the program's
data. calloc and the copying realloc run malloc (and free) as parts of a call;
`call` says what remains to be done. The program calls with sizes from `Sizes` and
frees or resizes blocks it owns. Sizes are computed modulo `SizeMod`, the 2^32 of
size_t, so that a request can wrap. Between calls nothing else touches the heap header.

Properties: `HeapWhole` (headers tile the heap; the free list is in order of
addresses, ends, and has no two neighbours), between any two steps; `PayloadFits`;
`FreeAsserts` (the assertion in free); `FailsWhenFull` (NULL means no run of free
words is long enough); `CallsReturn`; `ImplementsHeap` (blocks are disjoint and keep
their contents until freed; realloc moves them). calloc, realloc to 0, realloc of NULL and the failing realloc
are part of the refinement; that calloc's words are zero is not, since `Heap` promises nothing
of the contents of a new block.

### 2.3 PostLink: from functions to a data pack

The passes after compilation work on text. Whether a function is used is what a
scan for its name finds, and each pass looks at one unit's functions at a time.
`Datapack` tells lines apart by the clauses of their `execute`, by how they mention a
function and by whether they may return, and defines what running a function does:
the sequence of effects and the value. `PostLink` has one action for the line
transforms (`SimplifyLines`), one per unit for the grouping of `execute` lines into
helper functions (`GroupExecutes`) and for the removal of dead functions, one for
renaming, build and link each, and three for the inlining: the scan of a round, a
single edit, and the end of the rounds. Where the code iterates over a hash map the
model may take any order: which function's groups take the next helper names, which
candidate of a referrer goes first, the order of the edits, which function gets which
new name.

Properties: `MeaningKept` after every single edit: what can be called from outside
(`_start`, api functions, those of the `--data` directory) has the effects and the
value it had when compiled, for conditions true and false; `LoadRunsProgram`;
`Resolves` (pruning the library leaves no name without a function); `AllWritten`
(no two functions get one name); `Finished`.

A conditional jump has a line `execute if C run return run execute if function X run
return 1` for each X that control would run through. `SimplifyLines` takes its outer return away, as the code does
(`SafeLineTransforms.cpp:48`): a failed test of X then goes on where it had ended the function. This keeps the
meaning because no X completes with 0, which is `NeverZero` of `BlockCompile`; the programs in `Jumping` have such
lines, and blocks behind them that fall through or jump themselves.

Not in the model: macro functions (never inlined and only called by lines that are
no inlining site), the transforms that change a line's wording only, the exits for -E
and -c, the check of generated paths, files that are no functions. Depth bounds how
many nested functions a run is followed through; runs that are cut are compared as far
as both can be seen.

### 2.4 PreProcess and Units: a compilation of several targets

`PreProcess` has an action for each kind of line the preprocessor tells apart, and a
stack of frames for its calls of `handleTarget`. Macros and the headers already put in
(`bypass`) are kept per target; the files that said `#once` for all targets. `HashMap`
iterates in order of insertion and moves the last entry to an erased place; `Put` and
`Erase` keep that order, since the order in which macros are replaced is visible. Includes
are looked for in two kinds of places, and with `.mch` behind all of the name once nothing was found
without; a name is a stem and a sequence of extensions.

`Units` goes on with the text: `IR::parse` line by line with its stacks of line and label
states, the renaming of references when a label scope is popped, `Verifier::verify` over all units,
then per unit, in order, the layout of static data and the names of functions, and at
last the game: `Load` is the load function at every (re)load of the world, `Tick`, `RunInit`,
`RunData`, `RunStart` the functions it schedules. A label is a sequence of segments;
`Legal` stands for `legalizeMCPath`, which maps different labels to one. An entry is named by one word,
and `Spelled` gives the path that the word spells as a resource location, none for `_start`. A local label
without a label to belong to, or with `export`, `api` or `extern` in front, is an error
(`InvalidLocal`).

Properties: `HeadersOnce`; `ScopesBind` (each call and jump names the label the text
around it means, found from the lexical nesting of scopes and without renaming);
`NamesUnique`; `VerifiedCompiles`; `StaticsRead` (every operand, and every static that the
text of an inline op names, finds the data of its own unit's static, whatever is loaded again and whenever); `Boots`.

### 2.5 RegMachine and IRPasses: rewriting ops

`BlockCompile` needs no data; the optimiser is about nothing else. `RegMachine` has one
register of each class the passes tell apart, words modulo `Modulus`, memory, the
stack, handles of functions, and the six conditional jumps as the ranges of scores they
compile to. `inline` stands for a command that may look at every register. `IRPasses`
has one action per pass; the five of the optimiser repeat until none changes the unit or
eight rounds are over. `Forward` is the loop the first three share, with a table of what
is known that labels, calls and inline text reset.

Properties: `MeaningKept` (after every single pass, from every register file, the unit
leaves all registers, the memory and what inline text saw as the source does);
`ObfuscationKept` (the same for what a caller may rely on); `Resolves`; `Settled` (the
rounds end because nothing is left to do); `JumpsAsWritten` (jumps are signed
comparisons up to the ends of the range). `ObfuscationKept` is checked on units that
touch a call's arguments in the straight line in front of it (`ArgumentsLocal`); without
this condition it fails, which is finding 6.

### 2.6 SlotHeap, CommandBindings, StringRefs: objects with counts

A string of a C program that a command needs lives in a slot of the game's storage.
`SlotHeap` is the mcfunctions that hand slots out: a list that only grows and a free list
through it. `StringRefs` has one operator per C function, from a world (objects, both
slot heaps, literals) to the one after it, and one action per call a client may make. A
`String` borrows a literal until it is written to and keeps a handle to its text;
`Target` is the same with objects that are never freed; `McfStrRef` and `Nbt` count
their holders, and write the count to the slot. malloc may fail at every call.

`CommandBindings` lists, for each of the functions that run a command, which handles it
asks for and in which order. `Command` starts any of them; each request (`RequireOwn`,
`RequireKept`) and each release at the end (`ReleaseMade`) is a step, with `asks` and `made`
for the requests to come and the handles made so far. A request without memory gets nothing and
the binding goes on, as the generated functions do: they look at all slots once, behind the last
request. The client has no step in between.

Properties: `SlotsAccounted`, `SlotsReused`, `RefsAccounted` (a count is the number of
holders, nothing held is freed and nothing else stays), `TextKept`, `CacheCurrent`,
`LiteralsKept`. The client releases what it owns and does not write through a handle
that an object keeps for its text.

## 3. Runs

| run | instance | shows |
|---|---|---|
| `codegen` | units of three blocks, each with one of the bodies in `Bodies`, entered by `_start` or by an export; with an extern label in front, in the middle; with statics; `Width = 2`, `MaxFrames = 4` | `TypeOK`, `NeverZero`, `EnteredIsEmitted`, `ImplementsIR` |
| `trailing_export` | units that end in an export label | finding 1 |
| `static_in_unused_block` | a static inside a block nothing refers to | finding 2 |
| `malloc` | eight words of heap, sizes 0, 2, 3; the program writes -1, which is no size and no address | all of 2.2 |
| `malloc_wrap` | the same with a request of SIZE_MAX | finding 3 |
| `postlink` | two units, five functions, a library of four, -O0, -O1, -O2, -g, with and without `--data` and static data; ten names of the generator and as many helpers | all of 2.3 |
| `export_pruned` | `_start` calls an export of the other unit | finding 4 |
| `load_name` | -O0, an api function named like the first generated name | finding 5 |
| `frontend` | 2901 compilations of the targets `src/a` and `lib/a`: one half over headers, macros and conditionals, one half over scopes, statics and names; ten words of heap, two loads | all of 2.4 |
| `passes` | three skeletons (straight-line code, calls and handles, cold calls) with their holes filled in all ways from small pools, and every jump over every kind of operands; words modulo 4 | all of 2.5 |
| `forwarded_argument` | the cold skeleton with arguments passed on | finding 6 |
| `strings` | three blocks of memory, one literal, one static target, texts of at most one character, bindings of at most three handles, three references of the client | all of 2.6 |

Why the bounds are enough to be interesting.

*codegen*: three blocks are the least with a jump over a block, a span of two and a block
between two roots; the bodies hold every way to end, not to end and to return early;
four frames allow recursion through `call` and through jump lists.

*malloc*: eight words hold four smallest blocks or a smallest and a larger one with a
gap of every kind, so merging on neither, one or both sides, splitting, a remainder too
small to split, growing at the end of the heap, absorbing the block behind in whole and
in part, and failing all occur.

*postlink*: three functions in a unit allow two candidates with one referrer, candidates
that mention one another, recursion, and a callee that returns early in front of its last
line. Ten names are the most that any of the programs takes (`NamesNeeded`), one of them
taken. The first unit takes all combinations of its bodies; the other, which it does not mention, three
pairs of bodies with their settings at -O2 and -g, and all api bodies at -O0 and -O1. Rows of three
`execute` lines have one or two common clauses, none, or are split by a
conditional return, some with a comment between them; the name of the first helper is taken in
the unit. Conditional jumps have a span of two functions, the first of which falls through.

*frontend*: two targets with the same file name in different directories have equal stems;
two headers can include one another, be guarded or not, and be reached directly and
through the other, or have a second extension and be found before one without; a macro with a scope is expanded zero or two times next to labels of the
same name; statics exist in either unit, both, with the same name and different data, named by an operand or by
inline text only, or without any; an export spells a path outside the targets' stems; the second load comes while functions of the first are still scheduled, or
after the program has grown the heap.

*passes*: modulo 4 there are two negative scores and two others, and both ends of
the range; five labels and up to fourteen ops hold functions inlined one after
the other, a handle that a second one replaces, and a branch between two writes. A run
is followed for `Fuel` ops: if the source's run has ended by then, so must that of the
rewritten unit, and the other way round. The eight rounds are those of the code.

*strings*: with three blocks there can be two handles and a string, or a string, its handle
and a third object that takes the slot just freed; one character tells an empty text from
one that is not. Objects are interchangeable and nothing in the model orders them, so that they
are a symmetry set. A binding that asks for more handles than there are blocks finds no memory for the
rest, so three requests show all outcomes three blocks allow; the theorems of 4.3 hold for any number.

In the programs of `postlink` no unit mentions an export of the other; with such a
program `MeaningKept` fails for the reason finding 4 gives. The api function may be
named like a generated name only where some internal function takes that number
first, or where the pass skips it; the rest is finding 5.

Deadlock is not checked in `codegen` (a rejected unit stops), `postlink` and `passes` (the
compiler ends, which `Finished` states of the former), `frontend` (a rejected compilation
stops, and so does a game with nothing scheduled) and `strings` (the client may have used up what
it may hold, and need not do anything).

Fairness. `MallocTiny` assumes weak fairness of the steps inside a call and of
nothing else: a call that was made is run to its end by the game, while nothing
obliges the program to make one. `PostLink` assumes weak fairness of the whole
next-state relation: the compiler is a process that keeps running. `Units` assumes that the
server ticks and runs what is due (`WF_vars(Game)`) and that the world is loaded once; it
assumes nothing of later loads or of what the program does, which may come between any two
steps. `BlockCompile` states no fairness and no liveness: mcasm programs may loop, and the
game may cut them. `IRPasses` and `StringRefs` have safety properties only.

## 4. Proofs

### 4.1 Compiled blocks

`BlockCompileProofs` proves for **every** set of units, every `Width` and every bound
on frames

* `TypeCorrect`: `Spec => []TypeOK`;
* `JumpListsJump`: `Spec => []NeverZero`;
* `RunsWhatIsWritten`: `Spec => []EnteredIsEmitted`.

Assumptions: `WidthAssumption` (`Width` is a positive number) and
`ProgramsAssumption` (a unit is a sequence of ops in which only statics stand in
front of the first label).

`TypeOK` is not inductive alone. `TypeInv` adds that a frame waiting in a jump holds
the position of a label, so that the next label is one; that the outermost frame hands
its value to nobody, so that popping never leaves a value without a frame; that nothing
runs before the unit is built; and that what runs is the pruned form of an accepted
unit. `FlowInv` adds, for units with a defined meaning, where control may be. It is (`At`) at an op of the function's own
block with no block end before it, or at the label that follows a block without an
end; and that the function's label is kept and not extern (`Live`). This is what
makes `FallOff` impossible, and it is inductive because of three facts the lemmas
establish about the Verifier: the last block of an accepted unit ends
(`LastBlockEnds`), the block behind one that falls through is kept and not extern
(`NextLive`), and pruning changes no op of a kept block (`PruneKept`, `SpanKept`).
The lemma names a reader should start from are these and `KeepClosed`, which
characterises the worklist as a least fixed point.

In its second part `BlockCompileProofs` proves

* `CompiledUnitImplementsIR`: `Spec => ImplementsIR`, if every unit of `Programs` the
  Verifier accepts is `Defined`.

That premise is the one under which the unit as written has a meaning at all; the
`codegen` run also holds `ImplementsIR` against units outside it (an entry without code
that only the outside enters). Every step of the compiled functions is one step of
`IRMachine` or none: a line of a jump list that enters the block behind the label is
the jump itself, handing a value up is nothing (`Unwind`), because the op that returned
has already moved control to where the nearest `function` call waits, and the cut of a
command chain is the end of the run. `RefInv` adds to `FlowInv` the shape of the stack
that makes this true: no frame but the outermost is one nobody waits for, a frame that
waits for a *call* is in no jump list, and neither is the innermost one (`WaitOK`,
`Waits`). `FlowInv` excludes the remaining step, `FallOff`. The refinement mapping
takes the places to come back to from the frames below calls, by rank; `NthIs` and
`SavedAppend` say that only the innermost frame can change them, so that stepping,
entering a block and pushing a frame are computed once (`Moves`, `JumpMoves`), and
`TargetSame` that pruning leaves a label's meaning alone.

### 4.2 The allocator

`MallocTinyProofs` proves for **every** heap (`DataStart`, `HeapMax`), every set of words the program
writes, and any sequence of calls

* `TypesKept`: `Spec => []TypeOK`;
* `HeapStaysWhole`: `Spec => []HeapWhole`;
* `PayloadsFit`: `Spec => []PayloadFits`;
* `FreeAssertHolds`: `Spec => []FreeAsserts`;
* `NullWhenFull`: `Spec => FailsWhenFull`, an action property;
* `ImplementsHeapProved`: `Spec => ImplementsHeap`.

Assumptions: `AddressAssumption` (the heap lies behind its header and two words fewer than
`SizeMod` end it, as they do in a game whose addresses are scores), `SizesAssumption`,
`DataAssumption`, and the theorems' premise `NoWrap`: no request is of `SizeMod - 1` bytes. That is
the one size for which the count of words wraps; the run `malloc_wrap` shows what happens then
(finding 3), so nothing weaker would do.

None of the properties is inductive. `HeapInv` says that there is a set of free blocks, `Good`:
the memory is an `Arena` (free blocks and blocks in use tile it, the list threads the free ones in
order, none of them touch); the loop at work stands in that list (`Position`); whatever malloc has passed
is too small, and does not end the heap (`Passed`); the block that free or realloc is about to
put back is no longer the program's and lies behind the place reached (`Freeing`); and realloc has
already copied what fits (`Moved`). In the middle of a call the block on its way to the free list
is in use by nobody else: `Used` counts it with the blocks in use until the write that links it in.
TLC has found `HeapInv` to hold on the instance of the run `malloc` as well.

The first part of the module speaks of no state. It has one lemma for each thing the code does to a whole heap:
split a block, merge two, grow or add the last one, link a block in, take one out, write inside
one. Each says which memory words may differ and that there is an arena again. In the second
one lemma for each action picks the arena of the step before, cites these lemmas, and states what the
action has kept (`Keeps`) and what it did to the program's blocks, which is all that the refinement needs.

`NullWhenFull` takes an argument of its own, because first fit looks at one free block at a time. Every
address below the heap's end lies in a block (`Covered`, by the least counterexample); a window
of `arg` words that met only free blocks would lie in one of them, since no two free blocks touch, or
in the last one and the words behind the end; malloc has looked at both (`Passed`).

In the refinement a step of a loop is no step of `Heap`, with two exceptions: the last step of an
allocation is `Alloc` or `Resize`, and free takes the block away when it is called. A block keeps its contents since
the step writes headers, links, or words of a block that is nobody's (`KeptContents`), and is
disjoint from the others because blocks in use are.

### 4.3 Counts, slots and texts of libmc

`StringRefsProofs` proves for **any** number of objects and literals, texts of any length, bindings
with any number of handles, and whichever calls the client leaves out (`Left`, `Breaking`)

* `TypesKept`: `Spec => []TypeOK`;
* `NoSlotLost`: `Spec => []SlotsAccounted`;
* `HeapsBounded`: `Spec => []SlotsReused`, if `Objects` is finite;
* `CountsExact`: `Spec => []RefsAccounted`;
* `LiteralsUntouched`: `Spec => []LiteralsKept`, if the client does not call `String_Clear` on a
  String that borrows its literal;
* `TextsTold`: `Spec => []TextKept`, and `HandlesCurrent`: `Spec => []CacheCurrent`, if besides
  `Nbt_SetFloatStr` is called where there is memory and no character breaks a quoted macro argument.

Assumptions: those of `StringRefs` (blocks and statics differ, `Null` is neither; texts of literals
are sequences of `Chars`). The hypotheses of the last three are that `Left` names the call
(`ClearsOwn`, `FloatsStored`) and `Breaking = {}`, the values `MCStringRefs.cfg` gives them. They are
not there for the proof's sake: section 5 says what the code does without them.

The inductive invariant `RefsInv` speaks of a world and of who holds what in it. `Holds` counts for
each object the references of the client and of the binding at work. `WorldOK(World, Holds)` says that
every object has the form of its kind (`Shape`); a handle is kept by one object at most, since each
makes its own (`HandlesOK`); a count is `Holds` and one more where the handle is kept
(`GraphOK`); each heap is a free list and the slots of the live handles, once each, with the counts
of those, and is no longer than there are objects (`Housed`); a String borrows no more of a literal than
there is (`LiteralsFit`). `MadeOK` says that what a binding has made is each time another handle: without it
the second of two releases would hit an object that is gone. `RefsAccounted` alone is not inductive, for
it does not know that a handle is kept only once, nor that a slot in use is on no free list.

`StringRefsWorlds` has one lemma for each C function, over any world and any
`hold`, so that the steps of the client and of the bindings cite the same ones. Each says that the world is
well formed again, for which holders, and which objects may say something else (`Spares`).

For the texts a second invariant, `Telling`, stands on the first: everything somebody owns, and every static,
says what is wanted of it, and the handle that a builder of execute writes through is not the client's
(`ClientTexts`); literals are as written, an object's own text has no terminator inside, a literal is borrowed
whole (`Clean`), and the slot of the handle an object keeps says what the object does
(`Current`), together `TextsOK`. None of it is inductive alone: a kept handle is current after
a call on *another* object only because the slot belongs to nobody else, which is in `WorldOK`; and a
writer keeps texts since it drops the handle before it writes, which `Spares` hands from lemma to lemma. A call
of the client changes what is wanted of one object and what that object says, and its `Spares` leaves the rest
(`MadeTells` and its kin); a step of a binding changes neither. `LiteralsKept` needs no `Telling`: nothing but
`EnsureCapacity` and `String_Clear` come near a borrowed pointer, and the first makes a buffer of its own.

`AppendRt` computes character by character. That it is defined for texts of every
length (`MergedExists`) is proved by `SetInduction`, induction over a *set* of natural numbers, from the
order of the numbers alone; the induction theorems of the library take a predicate as an argument and
cannot be used here.

### 4.4 The passes over a unit

`IRPassesProofs` proves for a unit of **any** length, any `Modulus`, any bound on the rounds and
whichever addends are drawn

* `TypeCorrect`: `Spec => []TypeOK`;
* `ReferencesResolve`: `Spec => []Resolves`;
* `JumpsCompare`: `Spec => []JumpsAsWritten`.

Assumptions: `RoundsAssumption`, `AddendsAssumption` (an addend is a score other than 0), those of
`RegMachine` on the scores, and `JobsAssumption`: a unit is a sequence of ops that is `Linked`,
which is what `Verifier::handleSingle` lets through. A reference names a label that is there, only
jumps, calls and `movd` have one, and no label is there twice.

`Resolves` is not inductive. The inliner moves a body to its only call and takes away the label,
so that afterwards nothing may mention it: that depends on there being one such label, and on
references being of the kinds that `OtherRefs` counts. The invariant `IInv` is `TypeOK` and
`Linked(values)`. What a pass must give back is therefore that the unit is `Linked`, and there are three
ways to it, one lemma each. Folding, copies, handles and dead code leave a label where it is and an
op in its place (`InPlaceLinked`); a handle that becomes a call names a label that some `movd` of the
unit named. The obfuscator puts one to three ops in the place of one (`ExpandedLinked`). The
inliner takes out a call, a body and its label (`InlineAtLinked`): of the ops that are left none named
that label, and none but the call had it.

The passes are walks along the unit with a table in hand. What such a walk yields is not found by
unfolding its recursive definition: that there is a table behind every op, and that it maps registers
to what it should, is proved position by position with `UpTo`, induction over a set of
numbers in place of a predicate, which `SeqLemmas` derives from the least element of a set
(`CarriedExists`, and `FoldTable`, `IsCopyTableExists`, `IsHandleTableExists` for the three tables).
`FlattenComposed` does the same for `FlattenSeq`: what it makes holds the elements of the parts, in order,
each once. `JumpsCompare` needs no walk: `HoldsCompares` shows for every score that the range a conditional
jump compiles to, with a constant on either side, is the signed comparison, the ends
of the range included where a bound plus one is no score.

The walk of the first three passes is written with the table *behind* op i, for i from 0, so that the
table of an empty unit exists; `InlineCalls` counts its rounds against the length the unit has by
then, as the loop at `InlinePass.cpp:49` does.

### 4.5 The data pack

`PostLinkProofs` proves for **every** set of programs, any library and any order the hash maps yield

* `TypeCorrect`: `Spec /\ []NamesLeft => []TypeOK`;
* `NothingMissing`: `Spec /\ []NamesLeft => []Resolves`, if every program is `Enclosed`.

Resolves says that the finished pack mentions no function it does not have, if the
compiled program and the library together do not either. In between, functions are grouped into helpers,
put into their callers, removed as unreachable, renamed, written and linked, each time by what a
scan of the text finds.

`TInv` is the invariant behind the first. A pass keeps well-formed lines (`Formed`), and the names
that may still go are functions (`Homed`): this is what the inliner and the removal must remember to
erase. It is not inductive on its own during a round of inlining, for the round was planned before
its first edit. `EditsStand` says that a plan stays good: every edit still to be made finds its callee with a
single mention, the call (`Solo`), and any two edits are `Apart`: different callees, different callers, and
no edit's caller is the callee of another. The last is what `Leaves` is for. From this follows that an edit
neither removes nor copies the call of another (`EditedSolo`), so that the branch of `InlineEdit` in which the code
finds nothing to do is never taken.

`Resolving` is the invariant behind the second. Until the build each unit mentions only
functions of its own and `Outside`: the library, the `--data` directory and the api functions, which no pass
touches (`UnitsResolve`). `OwnOutside` is the reason that a look at one unit suffices. Inlining
keeps it since the mention goes with the function; removal since it keeps what is reachable (`ReachClosed`: the
least set that is closed is closed); renaming since every mention of a unit follows (`RenamedWithin`).
After the build the same holds of the directory, and the link adds of the library what is mentioned and what
that leads to (`LinkedClosed`).

The premises say what the code relies on.

* `Enclosed`: internal and exported functions are mentioned in their own unit, as the comments of the three
  passes say of internal ones, and `--data` replaces no function of the program. For exports
  nothing in the code ensures it, and without it the theorem is false: the run `export_pruned` removes one
  that the other unit calls (finding 4). A file of `--data` in the place of a function that has a
  helper would keep the helper and lose its caller, hence the second half. TLC evaluates
  `MCEnclosed`, that all programs of the run `postlink` are `Enclosed`.
* `NamesLeft`: when the build begins, `Generated` has the two names it may take. The code's generator
  never ends, the constant does; `ProgramsAssumption` asks for `NamesNeeded` names and TLC found `NamesLeft`
  an invariant of the run. It is a premise because the number of helpers a program needs is not computed
  in the proof.

### 4.6 A compilation of several targets

`UnitsProofs` proves of `Units`, for **every** set of targets, headers, macros and include directories,
any number of loads, and whatever `legalizeMCPath` makes of labels and file names

* `TypeCorrect`: `Spec /\ []Fits => []TypeOK`;
* `NamesDiffer`: `Spec /\ []ExportsElsewhere => []NamesUnique`;
* `StaticsFound`: `Spec /\ []Fits => []StaticsRead`.

Neither of the last two is inductive: `StaticsRead` speaks of the program at run time, which depends on
what was laid out units ago and on what is still scheduled; `NamesUnique` of the units that have names, not of
the set that keeps them apart. The invariant `IInv` has one part for each stage and carries what a
stage leaves to the next; TLC finds each part an invariant of the instance of `frontend`.

* `PPOk` and `ParseOk`: frames, macros, scopes and ops are well formed, and each stage has done the targets
  before the one at work. References that wait for a scope to end are calls or jumps
  of the unit at work (`labelState.pending`), in the outer scopes too, and none waits when the unit is done.
  A label has a segment, and an entry exactly one.
* `LinkOk`: in each unit compiled every operand, and every static that inline text names, finds what was laid
  down for it (`Placed`; `ReadersLaid` is the reason that the second is laid down at all). Data only grows
  at its end, so that what was placed stays (`Layout` is cut at the static, and all behind it is other data),
  and the offsets of a unit count from the length that the array had before it, whichever statics are left
  out. This needs what the verifier ensured: a symbol used is one static, and still is after pruning (`Declared`).
* `NamesOk`: `internal` holds the names of all plain labels, no two of the labels of a unit share one
  (`NamedIn`), nor do labels of two units (`Apart`). A plain label's path starts with the stem of a target
  (`Paths`), which is what tells it from an entry's. That `Unique` finds a number at all
  is the pigeonhole principle: of n + 1 numbers, n taken names leave one. The code's loop ends for that reason.
* `GameOk`: each of init, data and start is scheduled once at most and data with or behind init;
  between init and data the stack pointer is 0 and no program runs; once neither is scheduled the heap begins
  with the static data (`Loaded`). A program starts in no other state, and a load stops it.

The premises:

* `GoodNames`: what `legalizeMCPath`, the generator and the counter give are words, a name spells a path or
  none, and another number makes another name (`NumbersTell`), as `fmt::format("{}_{}", ...)` does.
* `ExportsElsewhere`: no export, api or extern name spells a path behind the stem of a target. Nothing in the
  code ensures it, and without it the theorem is false (section 5). The units of `frontend` export `lib/k`,
  a path behind no stem.
* `Fits`: the static data is no longer than `HeapSize`, the number of words the model looks at. The bound
  is the model's; the heap of the game grows by the data. TLC finds `Fits` an invariant of `frontend`.
* `JobsAssumption`, `DirsAssumption` and `BoundsAssumption`, on the shape of the constants.

### 4.7 What is only model-checked

Liveness under fairness and ENABLED are beyond the prover as installed: `CallsReturn`, `Finished`,
`Boots`.

`MeaningKept` of both machines, `ObfuscationKept` and `LoadRunsProgram`
compare what two programs do, by recursive evaluators; a proof would be an induction over runs for
each pass, and the induction theorems take an operator, which the provers cannot instantiate. `AllWritten` counts
the functions of all units and the groups in them, `Settled` is about the number of rounds, which holds for the
instance only.

`HeadersOnce` and `ScopesBind` compare what the front end did with what the text says, read again as a whole
(the lexical nesting of scopes, the marks of headers in all that was put out); the invariant would have to
relate every line read so far to its op, through macros. `ScopesBind` is also false of nested scopes (section 5).
`VerifiedCompiles` is false of some units: a static in a block that is pruned takes with
it what the rest refers to (finding 2). In the units of `frontend` the statics stand in front of the labels.

## 5. Findings

1. *trailing_export* (code): a unit that ends in an export or api label without
   code is accepted, since the nop parse adds behind it has no line state; the entry
   completes without a return. `Verifier.cpp:228`.
2. *static_in_unused_block* (code): a static ends the pruning of its block early; what
   is left may name labels that are gone, and the compile fails an assertion.
   `Verifier.cpp:317`.
3. *malloc_wrap* (code): the size computation of malloc wraps. `malloc_tiny.c:66`.
4. *export_pruned* (comment and code differ): exports that only another unit calls
   are removed at -O2, while the header says they are always kept.
   `DeadFunctionEliminationPass.cpp:67`.
5. *load_name* (code): the load function may overwrite a user function, because
   Builder::build does not look whether a generated name is in use.
   `Builder.cpp:108`.
6. *forwarded_argument* (comment and code differ): the scratch register of an indirect
   call may hold an argument that the function passes on without touching it.
   `IndirectCallPass.cpp:111`.

### Kept out of the runs

The inputs of the passing runs leave the following out. Each was found by a run that failed,
or by reading, and is no behaviour a property here should bless.

Front end:

* A conditional nested in a region that is left out switches the output on again
  (`PreProcessor.cpp:435-440`): the state is set from its own condition alone. The
  conditionals of `frontend` are not nested.
* A header is recorded as put in though the text around its include is being left out
  (`PreProcessor.cpp:410-415`).
* A circular include through another spelling of the path ("./x") is not seen
  (`PreProcessor.cpp:341`).
* Nested label scopes: references from an inner scope to a label that the outer one
  defines later, or to a label both define, go to the wrong one (`IR.cpp:57`, `:78-83`);
  the scopes of `frontend` follow one another.
* The comment at `IR.cpp:201-203` has function paths unique across units, but an export is neither looked
  up nor recorded among the names that are kept apart (`IR.cpp:211`): an export `a/loop` gets the path of
  the label `Loop` in a target `a`, with which `NamesUnique` fails, and in one unit the second of the two
  functions is dropped without a word (`IR.cpp:379`). Nor is one name exported by two units noticed
  (`IR.cpp:220`). The entries of `frontend` spell no path behind a target's stem. A local label `.a` under
  `after` and a generated label `after.a` are one label.
* `event.mch` expects a macro parameter to be replaced inside a longer word,
  `_wrapper_labelName`; whole words are replaced (`PreProcessor.cpp:236-252`).
* `reportUnreachable` is a static lambda that keeps the ops of the first unit
  (`Verifier.cpp:85`): for code in front of the first label of a later unit it looks at the wrong ops,
  and leaves the code. `JmpTable.cpp:36` then writes `terminateData[-1]`. Both are undefined
  behaviour; in all units here only statics stand in front of the first label.

Post-optimiser, where the grouping of `execute` lines is not invisible:

* A command of a group that changes what the common clauses test, or clauses that test
  a function: they are evaluated once where they were evaluated for each line
  (`ExecuteGroupPass.cpp:215`). The conditions of `postlink` hold or fail throughout.
* Two neighbouring lines with the same clauses that both `return run`: the prefix is
  cut at the second `run`, the helper runs both and returns nothing
  (`ExecuteParser.cpp:355-369`).
* Clauses with `store`, and `as` over several entities, whose commands run once for each.
* A helper `_postopt_x` is new in its unit only; another unit may have a function of that
  name.
* A line that a user writes as inline text, `return run execute` with a second return behind a test that
  fails: it loses its first return (`SafeLineTransforms.cpp:48`) and goes on. Compiled code has no such
  test (section 2.3), and the callees of `Jumping` complete with what a block completes with.

Run time:

* `String_Clear` writes through the pointer of a literal it borrows (`String.c:220`), and
  `Nbt_SetFloatStr` without memory reads the slot -1, the last one (`Nbt.c:221`). The client of
  `strings` makes neither call; `Left` names them.
* A quote or backslash breaks the macro of `merge_string.mcfunction:4`; `Breaking` is empty.
* Of the four unrolled steps of `shrink.mcfunction` the first takes one from `shp` and the
  others (16, 22, 28) add one, while each removes a word.

## 6. Not modelled

* **Line transforms** other than those that change the kind of a line: `as @s`, redundant
  subcommands, the order of selector arguments, `__bit_shr`. They rewrite the
  wording of one command, with no state; a table of examples tests them better than a model.
* **Command text**: operands, selectors, text components, the strings ops compile to.
  Ops with div, rem and bit operations are opaque to every pass and compile to
  straight-line commands.
* **CLI, i18n, logging**: options become constants of the models; the rest is wording.
* **-E and -c**, which end early, raw files and the archive of the build.
* **The rest of libc, crt and compiler-rt**: sequential, mostly vendored functions over
  numbers and characters whose specification is another implementation to compare with.
* **Heap expand and shrink** of the VM, unrolled straight-line code (see section 5), and
  index and displacement of pointer operands.
* **The asset pack** and the tables of blocks and items, which are data.

What would be worth doing next: `HeadersOnce` and `ScopesBind` of `Units` as theorems, from an
invariant that relates lines to ops; and `MeaningKept` of `PostLink` for a single inlining edit, where the
evaluator could be replaced by a step relation.
