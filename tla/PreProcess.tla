----------------------------- MODULE PreProcess -----------------------------
(***************************************************************************)
(* PreProcessor: every target of a compilation is turned into one text,    *)
(* headers put in, macros expanded, conditionals resolved.  Macros and the *)
(* headers already put in are kept per target, the files that said #once   *)
(* for all targets together.                                               *)
(*                                                                         *)
(* A line is a record with a field op.  The ops of text are those of       *)
(* mcasm; their names (field n) are the words that macros replace.         *)
(* Continuation lines are joined: the body of a function macro is a        *)
(* sequence of lines, and the only way to a directive of IR::parse.        *)
(***************************************************************************)
EXTENDS Integers, Sequences, FiniteSets

CONSTANTS
  Jobs,         \* compilations: files, targets, optLevel >= 1 or not
  IncludeDirs   \* PreProcessor::includeDirs

(* The name of a file: a stem and the extensions behind it.                *)
Name == [base : STRING, ext : Seq(STRING)]

Path == [dir : STRING, base : STRING, ext : Seq(STRING)]

(* Lines of text.  loc: the name starts with a dot.                        *)
TextLine ==
  [op : {"label"}, n : STRING, loc : BOOLEAN, kind : {"plain", "export", "api", "extern"}]
  \cup [op : {"call", "jmp", "use", "useptr"}, n : STRING, loc : BOOLEAN]
  \cup [op : {"static"}, n : STRING, loc : BOOLEAN, data : Seq(Int)]
  \cup [op : {"inline"}, n : STRING]
  \cup [op : {"ret", "pushline", "popline", "pushlabel", "poplabel"}]
  \cup [op : {"invoke"}, n : STRING, args : Seq(STRING)]

(* Lines of directives.                                                    *)
DirectiveLine ==
  [op : {"include"}, file : Name]
  \cup [op : {"ifdef", "ifndef", "undef", "endif"}, n : STRING]
  \cup [op : {"define"}, n : STRING, value : STRING]
  \cup [op : {"definefunc"}, n : STRING, params : Seq(STRING), body : Seq(TextLine)]
  \cup [op : {"once", "other"}]

(* Files are named by path and made of lines; targets are distinct files,  *)
(* of a stem and one extension.                                            *)
ASSUME JobsAssumption ==
  \A j \in Jobs : /\ DOMAIN j.files \subseteq Path
                  /\ \A p \in DOMAIN j.files : j.files[p] \in Seq(TextLine \cup DirectiveLine)
                  /\ j.targets \in Seq(DOMAIN j.files) /\ j.targets # <<>>
                  /\ \A t \in DOMAIN j.targets : Len(j.targets[t].ext) <= 1
                  /\ \A t, u \in DOMAIN j.targets : j.targets[t] = j.targets[u] => t = u

ASSUME DirsAssumption == IncludeDirs \in Seq(STRING)

VARIABLES
  job,          \* the compilation
  phase,        \* "pp", then "parse" and so on: see Units; "failed"
  unit,         \* the target or unit at work
  frames,       \* calls of handleTarget, the innermost last: PreProcessor::processing
  defines,      \* of each target: object macros, in the order of the map
  funcs,        \* of each target: function macros
  includeOnce,  \* files that said #once
  bypass,       \* of each target: those of them put in already
  sources       \* Target::code of the targets done

ppVars == <<frames, defines, funcs, includeOnce, bypass, sources>>

-----------------------------------------------------------------------------
(* HashMap of the code: iterates in order of insertion; erasing an entry   *)
(* moves the last one to its place.                                        *)
Keys(pairs) == {pairs[i][1] : i \in DOMAIN pairs}

Place(pairs, k) == CHOOSE i \in DOMAIN pairs : pairs[i][1] = k

Put(pairs, k, v) ==
  IF k \in Keys(pairs) THEN [pairs EXCEPT ![Place(pairs, k)] = <<k, v>>] ELSE Append(pairs, <<k, v>>)

Erase(pairs, k) ==
  IF k \notin Keys(pairs)
  THEN pairs
  ELSE SubSeq([pairs EXCEPT ![Place(pairs, k)] = pairs[Len(pairs)]], 1, Len(pairs) - 1)

(* One replacement after the other: what one puts in, a later one sees.    *)
Replace(pairs, word) ==
  LET After[i \in 0..Len(pairs)] ==
        IF i = 0 THEN word
        ELSE LET w == After[i - 1] IN IF w = pairs[i][1] THEN pairs[i][2] ELSE w
  IN After[Len(pairs)]

ReplaceIn(pairs, line) ==
  IF "n" \in DOMAIN line THEN [line EXCEPT !.n = Replace(pairs, @)] ELSE line

(* tryExpandFuncMacro                                                      *)
CallsMacro(fs, line) ==
  line.op = "invoke" /\ line.n \in DOMAIN fs /\ Len(fs[line.n].params) = Len(line.args)

Body(fs, line) ==
  IF CallsMacro(fs, line)
  THEN LET f == fs[line.n]
           args == [i \in DOMAIN line.args |-> <<f.params[i], line.args[i]>>]
       IN [i \in DOMAIN f.body |-> ReplaceIn(args, f.body[i])]
  ELSE <<line>>

(* A line of text: function macro, then object macros.                     *)
Expand(defs, fs, line) ==
  LET body == Body(fs, line) IN [i \in DOMAIN body |-> ReplaceIn(defs, body[i])]

-----------------------------------------------------------------------------
Call(p) == [file |-> p, at |-> 1, ignore |-> FALSE, stack |-> <<>>, out |-> <<>>]

Top == frames[Len(frames)]

Text == job.files[Top.file]

Line == Text[Top.at]

AtEnd == phase = "pp" /\ Top.at > Len(Text)

Directives == {"include", "ifdef", "ifndef", "endif", "define", "definefunc", "undef", "once", "other"}

Reading(ops) == phase = "pp" /\ Top.at <= Len(Text) /\ Line.op \in ops

WithTop(f) == [frames EXCEPT ![Len(frames)] = f]

Next1 == [Top EXCEPT !.at = @ + 1]

Advance == frames' = WithTop(Next1)

Fail == phase' = "failed" /\ UNCHANGED <<unit, ppVars>>

-----------------------------------------------------------------------------
(* getInclude: the places in which a file is looked for, in order; .mch is *)
(* appended to all of the name once nothing was found without.             *)
In(dir, f) == [dir |-> dir, base |-> f.base, ext |-> f.ext]

Candidates(cur, f) ==
  LET Dirs == <<cur.dir>> \o IncludeDirs
      Plain == [i \in DOMAIN Dirs |-> In(Dirs[i], f)]
      Header == [f EXCEPT !.ext = Append(@, ".mch")]
  IN IF f.ext # <<>> /\ f.ext[Len(f.ext)] = ".mch" THEN Plain ELSE Plain \o [i \in DOMAIN Dirs |-> In(Dirs[i], Header)]

Found(cur, f) == {i \in DOMAIN Candidates(cur, f) : Candidates(cur, f)[i] \in DOMAIN job.files}

Resolved(cur, f) ==
  Candidates(cur, f)[CHOOSE i \in Found(cur, f) : \A k \in Found(cur, f) : i <= k]

Processing == {frames[i].file : i \in DOMAIN frames}

(* Neither include_not_found nor circular_include.                         *)
Includable(cur, f) == Found(cur, f) # {} /\ Resolved(cur, f) \notin Processing

Include ==
  /\ Reading({"include"})
  /\ ~Top.ignore
  /\ Includable(Top.file, Line.file)
  /\ frames' = Append(frames, Call(Resolved(Top.file, Line.file)))
  /\ UNCHANGED <<job, phase, unit, defines, funcs, includeOnce, bypass, sources>>

IgnoreInclude ==
  /\ Reading({"include"})
  /\ Top.ignore
  /\ Advance
  /\ UNCHANGED <<job, phase, unit, defines, funcs, includeOnce, bypass, sources>>

IncludeFails ==
  /\ Reading({"include"})
  /\ ~Top.ignore
  /\ ~Includable(Top.file, Line.file)
  /\ Fail
  /\ UNCHANGED job

(* Variant: one set of headers already put in for all targets.             *)
SkippedAnywhere(file) ==
  file \in includeOnce /\ \E t \in DOMAIN bypass : file \in bypass[t]

Skipped(file) == file \in includeOnce /\ file \in bypass[unit]

(* Variant: all headers are recorded.                                      *)
RecordedAlways(file) == {file}

Recorded(file) == IF file \in includeOnce THEN {file} ELSE {}

Marked(text) ==
  <<[op |-> "pushline"]>> \o text \o <<[op |-> "popline"]>>

(* The end of a header: back to the #include line.                         *)
EndInclude ==
  /\ AtEnd
  /\ Top.stack = <<>>
  /\ Len(frames) > 1
  /\ LET outer == frames[Len(frames) - 1]
         text == IF Skipped(Top.file) THEN <<>> ELSE Marked(Top.out)
     IN frames' = Append(SubSeq(frames, 1, Len(frames) - 2),
                         [outer EXCEPT !.at = @ + 1, !.out = @ \o text])
  /\ bypass' = [bypass EXCEPT ![unit] = @ \cup Recorded(Top.file)]
  /\ UNCHANGED <<job, phase, unit, defines, funcs, includeOnce, sources>>

EndTarget ==
  /\ AtEnd
  /\ Top.stack = <<>>
  /\ Len(frames) = 1
  /\ sources' = Append(sources, Top.out)
  /\ IF unit < Len(job.targets)
     THEN unit' = unit + 1 /\ frames' = <<Call(job.targets[unit + 1])>> /\ UNCHANGED phase
     ELSE unit' = 1 /\ frames' = <<>> /\ phase' = "parse"
  /\ UNCHANGED <<job, defines, funcs, includeOnce, bypass>>

(* unterminated_if, endif_without_if                                       *)
Unbalanced ==
  /\ \/ AtEnd /\ Top.stack # <<>>
     \/ Reading({"endif"}) /\ Top.stack = <<>>
  /\ Fail
  /\ UNCHANGED job

-----------------------------------------------------------------------------
OutputText ==
  /\ phase = "pp" /\ Top.at <= Len(Text) /\ Line.op \notin Directives
  /\ frames' = WithTop([Next1 EXCEPT !.out =
                 IF Top.ignore THEN @ ELSE @ \o Expand(defines[unit], funcs[unit], Line)])
  /\ UNCHANGED <<job, phase, unit, defines, funcs, includeOnce, bypass, sources>>

(* ignore is set from this condition alone.                                *)
Conditional ==
  /\ Reading({"ifdef", "ifndef"})
  /\ LET defined == Line.n \in Keys(defines[unit])
     IN frames' = WithTop([Next1 EXCEPT !.stack = Append(@, Top.ignore),
                                        !.ignore = (Line.op = "ifdef") # defined])
  /\ UNCHANGED <<job, phase, unit, defines, funcs, includeOnce, bypass, sources>>

Endif ==
  /\ Reading({"endif"})
  /\ Top.stack # <<>>
  /\ frames' = WithTop([Next1 EXCEPT !.ignore = Top.stack[Len(Top.stack)],
                                     !.stack = SubSeq(@, 1, Len(@) - 1)])
  /\ UNCHANGED <<job, phase, unit, defines, funcs, includeOnce, bypass, sources>>

Define ==
  /\ Reading({"define"})
  /\ Advance
  /\ defines' = IF Top.ignore THEN defines
                ELSE [defines EXCEPT ![unit] = Put(@, Line.n, Line.value)]
  /\ UNCHANGED <<job, phase, unit, funcs, includeOnce, bypass, sources>>

DefineFunc ==
  /\ Reading({"definefunc"})
  /\ Advance
  /\ funcs' = IF Top.ignore THEN funcs
              ELSE [funcs EXCEPT ![unit] =
                      [k \in DOMAIN @ \cup {Line.n} |->
                         IF k = Line.n THEN [params |-> Line.params, body |-> Line.body] ELSE @[k]]]
  /\ UNCHANGED <<job, phase, unit, defines, includeOnce, bypass, sources>>

Undef ==
  /\ Reading({"undef"})
  /\ Advance
  /\ defines' = IF Top.ignore THEN defines ELSE [defines EXCEPT ![unit] = Erase(@, Line.n)]
  /\ funcs' = IF Top.ignore THEN funcs
              ELSE [funcs EXCEPT ![unit] = [k \in DOMAIN @ \ {Line.n} |-> @[k]]]
  /\ UNCHANGED <<job, phase, unit, includeOnce, bypass, sources>>

Once ==
  /\ Reading({"once"})
  /\ Advance
  /\ includeOnce' = IF Top.ignore THEN includeOnce ELSE includeOnce \cup {Top.file}
  /\ UNCHANGED <<job, phase, unit, defines, funcs, bypass, sources>>

(* Directives it does not know are left out, those of IR::parse included.  *)
OtherDirective ==
  /\ Reading({"other"})
  /\ Advance
  /\ UNCHANGED <<job, phase, unit, defines, funcs, includeOnce, bypass, sources>>

PPInit ==
  /\ job \in Jobs
  /\ phase = "pp"
  /\ unit = 1
  /\ frames = <<Call(job.targets[1])>>
  /\ defines = [t \in DOMAIN job.targets |-> <<>>]
  /\ funcs = [t \in DOMAIN job.targets |-> <<>>]
  /\ includeOnce = {}
  /\ bypass = [t \in DOMAIN job.targets |-> {}]
  /\ sources = <<>>

PPNext ==
  \/ OutputText
  \/ Include
  \/ IgnoreInclude
  \/ IncludeFails
  \/ EndInclude
  \/ EndTarget
  \/ Unbalanced
  \/ Conditional
  \/ Endif
  \/ Define
  \/ DefineFunc
  \/ Undef
  \/ Once
  \/ OtherDirective

-----------------------------------------------------------------------------
(* Headers that mean to be put in once: #once first, or all of the file in *)
(* a guard of its own.                                                     *)
Guarded(f) ==
  /\ Len(f) >= 3
  /\ f[1].op = "ifndef" /\ f[2].op = "define" /\ f[2].n = f[1].n /\ f[Len(f)].op = "endif"

SaysOnce(p) ==
  LET f == job.files[p] IN f # <<>> /\ (f[1].op = "once" \/ Guarded(f))

(* The target's own text includes header h, whatever is defined.           *)
Wants(t, h) ==
  LET p == job.targets[t]
      f == job.files[p]
      opened(i) == Cardinality({k \in 1..i : f[k].op \in {"ifdef", "ifndef"}})
      closed(i) == Cardinality({k \in 1..i : f[k].op = "endif"})
  IN \E i \in DOMAIN f :
       /\ f[i].op = "include" /\ opened(i) = closed(i)
       /\ Found(p, f[i].file) # {} /\ Resolved(p, f[i].file) = h

LabelsOf(p) == {job.files[p][i].n : i \in {k \in DOMAIN job.files[p] : job.files[p][k].op = "label"}}

(* However headers include one another, and whatever the targets before it *)
(* included, each target holds the text of a header that says #once, or    *)
(* has a guard, exactly once if it includes it.                            *)
HeadersOnce ==
  \A t \in DOMAIN sources, h \in DOMAIN job.files :
    SaysOnce(h) /\ Wants(t, h) =>
      \A l \in LabelsOf(h) :
        Cardinality({i \in DOMAIN sources[t] : sources[t][i].op = "label" /\ sources[t][i].n = l}) = 1
=============================================================================
