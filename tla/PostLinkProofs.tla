--------------------------- MODULE PostLinkProofs ---------------------------
(***************************************************************************)
(* Proofs about what happens to functions after compilation, for every     *)
(* program: the functions stay well formed, and what they mention is       *)
(* there, through every pass, in the build directory and in the pack.      *)
(***************************************************************************)
EXTENDS PostLink, SeqLemmas

-----------------------------------------------------------------------------
(* Lines and the names in them.                                            *)

(* What a line is made of.                                                 *)
LEMMA LineShape ==
  ASSUME NEW l \in Line
  PROVE  /\ l.on \in Seq(Clause)
         /\ l.cmd \in Mentioning => l.f \in Names
         /\ l.cmd \in Mentioning \cup {"do", "ret", "retret", "note"}
         /\ l.cmd \notin Mentioning => l.f \in Effects
BY DEF Line, Mentioning

(* A line with other clauses.                                              *)
LEMMA OtherOn ==
  ASSUME NEW l \in Line, NEW on \in Seq(Clause)
  PROVE  /\ [l EXCEPT !.on = on] \in Line
         /\ [l EXCEPT !.on = on].on = on
         /\ [l EXCEPT !.on = on].cmd = l.cmd
         /\ [l EXCEPT !.on = on].f = l.f
BY DEF Line

(* The changes of the command that the passes make.                        *)
Recast(c, d) == d = c \/ (c = "retret" /\ d = "ret") \/ (c = "tail" /\ d = "call")

(* A line with another command of the same kind.                           *)
LEMMA OtherCommand ==
  ASSUME NEW l \in Line, NEW c, Recast(l.cmd, c)
  PROVE  /\ [l EXCEPT !.cmd = c] \in Line
         /\ [l EXCEPT !.cmd = c].on = l.on
         /\ [l EXCEPT !.cmd = c].cmd = c
         /\ [l EXCEPT !.cmd = c].f = l.f
BY DEF Line, Mentioning, Recast

(* The names in a line are those of its clauses and of its command.        *)
LEMMA NamesOf ==
  ASSUME NEW l \in Line, NEW x
  PROVE  x \in NamesIn(l) <=>
           \/ \E j \in 1..Len(l.on) : l.on[j].kind = "func" /\ l.on[j].f = x
           \/ l.cmd \in Mentioning /\ l.f = x
<1>1. l.on \in Seq(Clause)
  BY LineShape
<1>2. DOMAIN l.on = 1..Len(l.on) /\ ~(0 \in 1..Len(l.on))
  BY <1>1
<1>3. \A j \in 1..Len(l.on) : NameAt(l, j) = l.on[j].f
  BY <1>2 DEF NameAt
<1>4. NameAt(l, 0) = l.f
  BY DEF NameAt
<1>5. Places(l) = {j \in 1..Len(l.on) : l.on[j].kind = "func"} \cup (IF l.cmd \in Mentioning THEN {0} ELSE {})
  BY <1>2 DEF Places
<1>6. ASSUME x \in NamesIn(l)
      PROVE  \/ \E j \in 1..Len(l.on) : l.on[j].kind = "func" /\ l.on[j].f = x
             \/ l.cmd \in Mentioning /\ l.f = x
  <2>1. PICK j \in Places(l) : x = NameAt(l, j)
    BY <1>6 DEF NamesIn
  <2> QED BY <1>3, <1>4, <1>5, <2>1
<1>7. ASSUME NEW j \in 1..Len(l.on), l.on[j].kind = "func", l.on[j].f = x
      PROVE  x \in NamesIn(l)
  BY <1>3, <1>5, <1>7 DEF NamesIn
<1>8. ASSUME l.cmd \in Mentioning, l.f = x PROVE x \in NamesIn(l)
  BY <1>4, <1>5, <1>8 DEF NamesIn
<1> QED BY <1>6, <1>7, <1>8

(* A line whose clauses are some of those of l, and whose command names    *)
(* what that of l names.                                                   *)
LessOf(n, l) ==
  /\ \A j \in 1..Len(n.on) : \E i \in 1..Len(l.on) : n.on[j] = l.on[i]
  /\ Recast(l.cmd, n.cmd) /\ n.f = l.f

(* It names no more than l does.                                           *)
LEMMA LessNames ==
  ASSUME NEW l \in Line, NEW n \in Line, LessOf(n, l)
  PROVE  NamesIn(n) \subseteq NamesIn(l)
<1> SUFFICES ASSUME NEW x \in NamesIn(n) PROVE x \in NamesIn(l)
  OBVIOUS
<1>1. \/ \E j \in 1..Len(n.on) : n.on[j].kind = "func" /\ n.on[j].f = x
      \/ n.cmd \in Mentioning /\ n.f = x
  BY NamesOf
<1>2. CASE \E j \in 1..Len(n.on) : n.on[j].kind = "func" /\ n.on[j].f = x
  <2>1. \E i \in 1..Len(l.on) : l.on[i].kind = "func" /\ l.on[i].f = x
    BY <1>2 DEF LessOf
  <2> QED BY <2>1, NamesOf
<1>3. CASE n.cmd \in Mentioning /\ n.f = x
  <2>1. l.cmd \in Mentioning /\ l.f = x
    BY <1>3 DEF LessOf, Recast, Mentioning
  <2> QED BY <2>1, NamesOf
<1> QED BY <1>1, <1>2, <1>3

-----------------------------------------------------------------------------
(* Texts and what they mention.                                            *)

(* The mentions in a text are the names in its lines.                      *)
LEMMA MentionsOf ==
  ASSUME NEW b \in Seq(Line), NEW x
  PROVE  x \in Mentions(b) <=> \E k \in 1..Len(b) : x \in NamesIn(b[k])
BY DEF Mentions

(* A text whose lines name what b mentions, or names of X.                 *)
LEMMA CoveredText ==
  ASSUME NEW b, NEW c \in Seq(Line), NEW X,
         \A k \in 1..Len(c) : NamesIn(c[k]) \subseteq Mentions(b) \cup X
  PROVE  Mentions(c) \subseteq Mentions(b) \cup X
BY MentionsOf

(* A line of a text names what the text mentions.                          *)
LEMMA LineCovered ==
  ASSUME NEW b \in Seq(Line), NEW k \in 1..Len(b)
  PROVE  b[k] \in Line /\ NamesIn(b[k]) \subseteq Mentions(b)
BY MentionsOf

(* The elements of what FlattenSeq makes are those of the parts.           *)
LEMMA FlattenFrom ==
  ASSUME NEW S, NEW s \in Seq(Seq(S))
  PROVE  /\ FlattenSeq(s) \in Seq(S)
         /\ \A k \in 1..Len(FlattenSeq(s)) :
              \E i \in 1..Len(s) : \E j \in 1..Len(s[i]) : FlattenSeq(s)[k] = s[i][j]
<1>1. FlattenSeq(s) \in Seq(S) /\ Composed(s, Len(s), FlattenSeq(s))
  BY FlattenComposed
<1>2. PICK z : z = FlattenSeq(s)
  OBVIOUS
<1>3. PICK row, col : Sources(row, col, s, Len(s), z)
  BY <1>1, <1>2 DEF Composed
<1>4. \A k \in 1..Len(z) : row[k] \in 1..Len(s) /\ col[k] \in 1..Len(s[row[k]]) /\ z[k] = s[row[k]][col[k]]
  BY <1>3 DEF Sources
<1> QED BY <1>1, <1>2, <1>4

-----------------------------------------------------------------------------
(* SimplifyLines                                                           *)

(* The clauses that stay.                                                  *)
LEMMA UnnestedShape ==
  ASSUME NEW on \in Seq(Clause)
  PROVE  /\ Unnested(on) \in Seq(Clause)
         /\ \A j \in 1..Len(Unnested(on)) : \E i \in 1..Len(on) : Unnested(on)[j] = on[i]
<1>1. PICK s : s = [j \in DOMAIN on |-> IF on[j].kind \in {"nest", "retnest"} THEN <<>> ELSE <<on[j]>>]
  OBVIOUS
<1>2. DOMAIN on = 1..Len(on) /\ Len(on) \in Nat
  OBVIOUS
<1>3. \A j \in 1..Len(on) : on[j] \in Clause
  OBVIOUS
<1>4. \A j \in 1..Len(on) : s[j] = <<>> \/ s[j] = <<on[j]>>
  BY <1>1, <1>2
<1>5. \A j \in 1..Len(on) : s[j] \in Seq(Clause)
  <2>1. <<>> \in Seq(Clause)
    OBVIOUS
  <2>2. \A c \in Clause : <<c>> \in Seq(Clause)
    OBVIOUS
  <2> QED BY <1>3, <1>4, <2>1, <2>2
<1>6. s \in Seq(Seq(Clause)) /\ Len(s) = Len(on)
  BY <1>1, <1>2, <1>5
<1>7. Unnested(on) = FlattenSeq(s)
  BY <1>1 DEF Unnested
<1>8. PICK z : z = FlattenSeq(s)
  OBVIOUS
<1>9. z \in Seq(Clause) /\ \A k \in 1..Len(z) : \E i \in 1..Len(s) : \E j \in 1..Len(s[i]) : z[k] = s[i][j]
  BY <1>6, <1>8, FlattenFrom
<1>10. ASSUME NEW i \in 1..Len(on), NEW j \in 1..Len(s[i]) PROVE s[i][j] = on[i]
  <2>1. CASE s[i] = <<>>
    <3>1. Len(s[i]) = 0
      BY <2>1
    <3> QED BY <3>1
  <2>2. CASE s[i] = <<on[i]>>
    <3>1. Len(s[i]) = 1 /\ s[i][1] = on[i]
      BY <2>2
    <3> QED BY <3>1
  <2> QED BY <1>4, <2>1, <2>2
<1>11. ASSUME NEW k \in 1..Len(z) PROVE \E i \in 1..Len(on) : z[k] = on[i]
  <2>1. PICK i \in 1..Len(on) : \E j \in 1..Len(s[i]) : z[k] = s[i][j]
    BY <1>6, <1>9
  <2>2. PICK j \in 1..Len(s[i]) : z[k] = s[i][j]
    BY <2>1
  <2>3. s[i][j] = on[i]
    BY <1>10
  <2> QED BY <2>2, <2>3
<1> QED BY <1>7, <1>8, <1>9, <1>11

(* A simplified line names no more.                                        *)
LEMMA SimplifiedLineShape ==
  ASSUME NEW l \in Line
  PROVE  SimplifiedLine(l) \in Line /\ NamesIn(SimplifiedLine(l)) \subseteq NamesIn(l)
<1>1. l.on \in Seq(Clause)
  BY LineShape
<1>2. PICK on : on = Unnested(l.on)
  OBVIOUS
<1>3. on \in Seq(Clause) /\ \A j \in 1..Len(on) : \E i \in 1..Len(l.on) : on[j] = l.on[i]
  BY <1>1, <1>2, UnnestedShape
<1>4. PICK c : c = IF l.cmd = "retret" THEN "ret" ELSE l.cmd
  OBVIOUS
<1>5. Recast(l.cmd, c)
  BY <1>4 DEF Recast
<1>6. PICK m : m = [l EXCEPT !.on = on]
  OBVIOUS
<1>7. m \in Line /\ m.on = on /\ m.cmd = l.cmd /\ m.f = l.f
  BY <1>3, <1>6, OtherOn
<1>8. PICK n : n = [m EXCEPT !.cmd = c]
  OBVIOUS
<1>9. n \in Line /\ n.on = on /\ n.cmd = c /\ n.f = l.f
  BY <1>5, <1>7, <1>8, OtherCommand
<1>10. SimplifiedLine(l) = n
  BY <1>2, <1>4, <1>6, <1>8 DEF SimplifiedLine
<1>11. LessOf(n, l)
  BY <1>3, <1>5, <1>9 DEF LessOf
<1> QED BY <1>9, <1>10, <1>11, LessNames

(* A simplified text mentions no more.                                     *)
LEMMA SimplifiedShape ==
  ASSUME NEW b \in Seq(Line)
  PROVE  Simplified(b) \in Seq(Line) /\ Mentions(Simplified(b)) \subseteq Mentions(b)
<1>1. PICK s : s = [k \in DOMAIN b |-> IF b[k].cmd = "note" THEN <<>> ELSE <<SimplifiedLine(b[k])>>]
  OBVIOUS
<1>2. DOMAIN b = 1..Len(b) /\ Len(b) \in Nat
  OBVIOUS
<1>3. \A k \in 1..Len(b) : SimplifiedLine(b[k]) \in Line /\ NamesIn(SimplifiedLine(b[k])) \subseteq Mentions(b)
  BY SimplifiedLineShape, LineCovered
<1>4. \A k \in 1..Len(b) : s[k] = <<>> \/ s[k] = <<SimplifiedLine(b[k])>>
  BY <1>1, <1>2
<1>5. ASSUME NEW k \in 1..Len(b)
      PROVE  s[k] \in Seq(Line) /\ \A j \in 1..Len(s[k]) : NamesIn(s[k][j]) \subseteq Mentions(b)
  <2>1. PICK l : l = SimplifiedLine(b[k])
    OBVIOUS
  <2>2. l \in Line /\ NamesIn(l) \subseteq Mentions(b)
    BY <1>3, <2>1
  <2>3. CASE s[k] = <<>>
    <3>1. Len(s[k]) = 0 /\ s[k] \in Seq(Line)
      BY <2>3
    <3> QED BY <3>1
  <2>4. CASE s[k] = <<l>>
    <3>1. Len(s[k]) = 1 /\ s[k] \in Seq(Line) /\ s[k][1] = l
      BY <2>2, <2>4
    <3>2. \A j \in 1..Len(s[k]) : j = 1
      BY <3>1
    <3> QED BY <2>2, <3>1, <3>2
  <2> QED BY <1>4, <2>1, <2>3, <2>4
<1>6. s \in Seq(Seq(Line)) /\ Len(s) = Len(b)
  BY <1>1, <1>2, <1>5
<1>7. PICK z : z = FlattenSeq(s)
  OBVIOUS
<1>8. z \in Seq(Line) /\ \A k \in 1..Len(z) : \E i \in 1..Len(s) : \E j \in 1..Len(s[i]) : z[k] = s[i][j]
  BY <1>6, <1>7, FlattenFrom
<1>9. \A k \in 1..Len(z) : NamesIn(z[k]) \subseteq Mentions(b) \cup {}
  BY <1>5, <1>6, <1>8
<1>10. Mentions(z) \subseteq Mentions(b) \cup {}
  BY <1>8, <1>9, CoveredText
<1> QED BY <1>1, <1>7, <1>8, <1>10 DEF Simplified

-----------------------------------------------------------------------------
(* GroupExecutes                                                           *)

(* A group of lines of b.                                                  *)
IsRow(b, r) == r[1] \in 1..Len(b) /\ r[2] \in 1..Len(b) /\ r[1] < r[2]

(* A group is one.                                                         *)
LEMMA GroupIsRow ==
  ASSUME NEW b \in Seq(Line), NEW r \in Groups(b)
  PROVE  IsRow(b, r) /\ r \in (DOMAIN b) \X (DOMAIN b)
BY DEF Groups, IsRow

(* What the lines of a row begin with in common is in each of them.        *)
LEMMA CommonShape ==
  ASSUME NEW b \in Seq(Line), NEW i \in 1..Len(b), NEW j \in 1..Len(b), i < j
  PROVE  /\ Common(b, i, j) \in Nat
         /\ \A k \in i..j : Common(b, i, j) <= Len(b[k].on)
<1>1. PICK T : T = {n \in 0..Len(b[i].on) : \A k \in i..j : IsPrefix(SubSeq(b[i].on, 1, n), b[k].on)}
  OBVIOUS
<1>2. \A k \in i..j : k \in 1..Len(b) /\ b[k] \in Line /\ b[k].on \in Seq(Clause)
  BY LineShape
<1>3. i \in i..j /\ b[i].on \in Seq(Clause)
  BY <1>2
<1>4. PICK on : on = b[i].on /\ on \in Seq(Clause)
  BY <1>3
<1>5. Len(on) \in Nat /\ Len(SubSeq(on, 1, 0)) = 0
  BY <1>4
<1>6. \A k \in i..j : IsPrefix(SubSeq(on, 1, 0), b[k].on)
  <2>1. SubSeq(on, 1, 0) = <<>>
    BY <1>4
  <2> SUFFICES ASSUME NEW k \in i..j PROVE IsPrefix(<<>>, b[k].on)
    BY <2>1
  <2>2. PICK s : s = b[k].on /\ s \in Seq(Clause)
    BY <1>2
  <2>3. SubSeq(s, 1, 0) = <<>>
    BY <2>2
  <2>4. Len(<<>>) = 0 /\ 0 <= Len(s) /\ SubSeq(<<>>, 1, 0) = <<>>
    BY <2>2
  <2> QED BY <2>2, <2>3, <2>4 DEF IsPrefix
<1>7. 0 \in T /\ T \in SUBSET Nat /\ BoundedBy(T, Len(on))
  BY <1>1, <1>4, <1>5, <1>6 DEF BoundedBy
<1>8. Max(T) \in T
  BY <1>5, <1>7, MaxGreatest
<1>9. Common(b, i, j) = Max(T)
  BY <1>1 DEF Common
<1>10. ASSUME NEW k \in i..j PROVE Max(T) <= Len(b[k].on)
  <2>1. PICK n : n = Max(T) /\ n \in 0..Len(on) /\ IsPrefix(SubSeq(on, 1, n), b[k].on)
    BY <1>1, <1>4, <1>8
  <2>2. Len(SubSeq(on, 1, n)) = n
    BY <1>4, <2>1
  <2>3. Len(SubSeq(on, 1, n)) <= Len(b[k].on)
    BY <2>1 DEF IsPrefix
  <2> QED BY <2>1, <2>2, <2>3
<1>11. Max(T) \in Nat
  BY <1>1, <1>5, <1>8
<1> QED BY <1>9, <1>10, <1>11

(* What is left of a line of a row.                                        *)
LEMMA SuffixShape ==
  ASSUME NEW b \in Seq(Line), NEW r, IsRow(b, r), NEW k \in r[1]..r[2]
  PROVE  /\ Suffix(b, r[1], r[2], k) \in Line
         /\ NamesIn(Suffix(b, r[1], r[2], k)) \subseteq Mentions(b)
<1>1. PICK i, j : i = r[1] /\ j = r[2]
  OBVIOUS
<1>2. i \in 1..Len(b) /\ j \in 1..Len(b) /\ i < j /\ k \in i..j
  BY <1>1 DEF IsRow
<1>3. k \in 1..Len(b) /\ b[k] \in Line /\ NamesIn(b[k]) \subseteq Mentions(b)
  BY <1>2, LineCovered
<1>4. PICK c : c = Common(b, i, j) /\ c \in Nat /\ c <= Len(b[k].on)
  BY <1>2, CommonShape
<1>5. PICK s : s = b[k].on /\ s \in Seq(Clause) /\ Len(s) \in Nat
  BY <1>3, LineShape
<1>6. PICK on : on = SubSeq(s, c + 1, Len(s))
  OBVIOUS
<1>7. on \in Seq(Clause) /\ Len(on) = Len(s) - c /\ \A q \in 1..(Len(s) - c) : on[q] = s[(c + 1) + q - 1]
  <2>1. PICK lo, hi : lo = c + 1 /\ hi = Len(s)
    OBVIOUS
  <2>2. lo \in Nat /\ hi \in Nat /\ 1 <= lo /\ hi <= Len(s) /\ lo <= hi + 1
    BY <1>4, <1>5, <2>1
  <2>3. (hi + 1) - lo = Len(s) - c
    BY <1>4, <1>5, <2>1
  <2>4. /\ SubSeq(s, lo, hi) \in Seq(Clause) /\ Len(SubSeq(s, lo, hi)) = (hi + 1) - lo
        /\ \A q \in 1..((hi + 1) - lo) : SubSeq(s, lo, hi)[q] = s[lo + q - 1]
    <3>1. s \in Seq(Clause)
      BY <1>5
    <3> QED BY <3>1, <2>2, SubSeqShape
  <2>5. on = SubSeq(s, lo, hi)
    BY <1>6, <2>1
  <2> QED BY <2>1, <2>3, <2>4, <2>5
<1>8. \A q \in 1..Len(on) : \E p \in 1..Len(s) : on[q] = s[p]
  <2> SUFFICES ASSUME NEW q \in 1..Len(on) PROVE \E p \in 1..Len(s) : on[q] = s[p]
    OBVIOUS
  <2>1. (c + 1) + q - 1 \in 1..Len(s) /\ q \in 1..(Len(s) - c)
    BY <1>4, <1>5, <1>7
  <2> QED BY <1>7, <2>1
<1>9. PICK d : d = IF AllReturnRun(b, i, j) THEN "call" ELSE b[k].cmd
  OBVIOUS
<1>10. Recast(b[k].cmd, d)
  <2>1. CASE AllReturnRun(b, i, j)
    BY <1>2, <1>9, <2>1 DEF AllReturnRun, Recast
  <2>2. CASE ~AllReturnRun(b, i, j)
    BY <1>9, <2>2 DEF Recast
  <2> QED BY <2>1, <2>2
<1>11. PICK m : m = [b[k] EXCEPT !.on = on]
  OBVIOUS
<1>12. m \in Line /\ m.on = on /\ m.cmd = b[k].cmd /\ m.f = b[k].f
  BY <1>3, <1>7, <1>11, OtherOn
<1>13. PICK n : n = [m EXCEPT !.cmd = d]
  OBVIOUS
<1>14. n \in Line /\ n.on = on /\ n.cmd = d /\ n.f = b[k].f
  BY <1>10, <1>12, <1>13, OtherCommand
<1>15. Suffix(b, i, j, k) = n
  BY <1>4, <1>5, <1>6, <1>9, <1>11, <1>13 DEF Suffix
<1>16. LessOf(n, b[k])
  BY <1>5, <1>8, <1>10, <1>14 DEF LessOf
<1>17. NamesIn(n) \subseteq NamesIn(b[k])
  BY <1>3, <1>14, <1>16, LessNames
<1> QED BY <1>1, <1>3, <1>14, <1>15, <1>17

(* A helper mentions what its function mentioned.                          *)
LEMMA HelperShape ==
  ASSUME NEW b \in Seq(Line), NEW r, IsRow(b, r)
  PROVE  HelperText(b, r) \in Seq(Line) /\ Mentions(HelperText(b, r)) \subseteq Mentions(b)
<1>1. r[1] \in Nat /\ r[2] \in Nat /\ r[1] < r[2]
  BY DEF IsRow
<1>2. PICK n : n = r[2] - r[1] + 1 /\ n \in Nat
  BY <1>1
<1>3. PICK t : t = HelperText(b, r)
  OBVIOUS
<1>4. t = [q \in 1..n |-> Suffix(b, r[1], r[2], r[1] + q - 1)]
  BY <1>2, <1>3 DEF HelperText
<1>5. \A q \in 1..n : r[1] + q - 1 \in r[1]..r[2]
  BY <1>1, <1>2
<1>6. \A q \in 1..n : t[q] \in Line /\ NamesIn(t[q]) \subseteq Mentions(b)
  BY <1>4, <1>5, SuffixShape
<1>7. t \in Seq(Line) /\ Len(t) = n
  BY <1>2, <1>4, <1>6
<1>8. \A q \in 1..Len(t) : NamesIn(t[q]) \subseteq Mentions(b) \cup {}
  BY <1>6, <1>7
<1>9. Mentions(t) \subseteq Mentions(b) \cup {}
  BY <1>7, <1>8, CoveredText
<1> QED BY <1>3, <1>7, <1>9

(* The call of a helper mentions it, and what the lines have in common.    *)
LEMMA HelperCallShape ==
  ASSUME NEW b \in Seq(Line), NEW r, IsRow(b, r), NEW h \in Names
  PROVE  HelperCall(b, r, h) \in Line /\ NamesIn(HelperCall(b, r, h)) \subseteq Mentions(b) \cup {h}
<1>1. PICK i, j : i = r[1] /\ j = r[2]
  OBVIOUS
<1>2. i \in 1..Len(b) /\ j \in 1..Len(b) /\ i < j /\ i \in i..j
  BY <1>1 DEF IsRow
<1>3. b[i] \in Line /\ NamesIn(b[i]) \subseteq Mentions(b)
  BY <1>2, LineCovered
<1>4. PICK c : c = Common(b, i, j) /\ c \in Nat /\ c <= Len(b[i].on)
  BY <1>2, CommonShape
<1>5. PICK s : s = b[i].on /\ s \in Seq(Clause) /\ Len(s) \in Nat
  BY <1>3, LineShape
<1>6. PICK on : on = SubSeq(s, 1, c)
  OBVIOUS
<1>7. on \in Seq(Clause) /\ Len(on) = c /\ \A q \in 1..c : on[q] = s[q]
  BY <1>4, <1>5, <1>6
<1>8. PICK l : l = HelperCall(b, r, h)
  OBVIOUS
<1>9. l.on = on /\ l.cmd \in {"tail", "call"} /\ l.f = h /\ l = [on |-> l.on, cmd |-> l.cmd, f |-> l.f]
  BY <1>1, <1>4, <1>5, <1>6, <1>8 DEF HelperCall
<1>10. l \in Line
  BY <1>7, <1>9 DEF Line, Mentioning
<1>11. ASSUME NEW x \in NamesIn(l) PROVE x \in Mentions(b) \cup {h}
  <2>1. \/ \E q \in 1..Len(l.on) : l.on[q].kind = "func" /\ l.on[q].f = x
        \/ l.f = x
    BY <1>10, NamesOf
  <2>2. CASE \E q \in 1..Len(l.on) : l.on[q].kind = "func" /\ l.on[q].f = x
    <3>1. PICK q \in 1..c : l.on[q].kind = "func" /\ l.on[q].f = x
      BY <1>7, <1>9, <2>2
    <3>2. q \in 1..Len(s) /\ l.on[q] = s[q]
      BY <1>4, <1>5, <1>7, <1>9
    <3>3. x \in NamesIn(b[i])
      BY <1>3, <1>5, <3>1, <3>2, NamesOf
    <3> QED BY <1>3, <3>3
  <2> QED BY <1>9, <2>1, <2>2
<1> QED BY <1>8, <1>10, <1>11

(* A group that has a number is a row of lines of a function.              *)
LEMMA GroupsOf ==
  ASSUME NEW g, IsPack(g), NEW x \in AllGroups(g)
  PROVE  x[1] \in DOMAIN g /\ IsRow(g[x[1]], x[2])
<1>1. PICK f \in DOMAIN g : \E r \in Groups(g[f]) : x = <<f, r>>
  BY DEF AllGroups
<1>2. PICK r \in Groups(g[f]) : x = <<f, r>>
  BY <1>1
<1>3. g[f] \in Seq(Line)
  BY DEF IsPack
<1>4. IsRow(g[f], r)
  BY <1>3, GroupIsRow
<1> QED BY <1>2, <1>4

(* The helpers of g have names of the generator that are left.             *)
LEMMA NumbersShape ==
  ASSUME NEW g, gen \in 1..(Len(Generated) + 1), NEW nm \in HelperNumbers(g)
  PROVE  /\ DOMAIN nm = AllGroups(g)
         /\ \A x \in DOMAIN nm : nm[x] \in gen..Len(Generated) /\ Helpers[nm[x]] \in Names
<1>1. nm \in [AllGroups(g) -> {i \in gen..Len(Generated) : Helpers[i] \notin DOMAIN g}]
  BY DEF HelperNumbers
<1>2. Len(Generated) \in Nat /\ DOMAIN Generated = 1..Len(Generated)
  BY NamesAssumption
<1>3. \A i \in gen..Len(Generated) : Helpers[i] \in Names
  BY <1>2, NamesAssumption
<1> QED BY <1>1, <1>3

(* A function whose groups call helpers.                                   *)
LEMMA GroupedShape ==
  ASSUME NEW g, IsPack(g), gen \in 1..(Len(Generated) + 1), NEW nm \in HelperNumbers(g), NEW f \in DOMAIN g
  PROVE  /\ Grouped(f, g[f], nm) \in Seq(Line)
         /\ Mentions(Grouped(f, g[f], nm)) \subseteq Mentions(g[f]) \cup HelperNames(nm)
<1>1. PICK b : b = g[f]
  OBVIOUS
<1>2. b \in Seq(Line) /\ DOMAIN b = 1..Len(b) /\ Len(b) \in Nat
  BY <1>1 DEF IsPack
<1>3. PICK X : X = HelperNames(nm)
  OBVIOUS
<1>4. PICK s : s = [k \in DOMAIN b |-> GroupedLine(f, b, nm, k)]
  OBVIOUS
<1>5. ASSUME NEW k \in 1..Len(b)
      PROVE  \/ s[k] = <<>>
             \/ \E l \in Line : s[k] = <<l>> /\ NamesIn(l) \subseteq Mentions(b) \cup X
  <2>1. PICK at : at = {x \in DOMAIN nm : x[1] = f /\ k \in x[2][1]..x[2][2]}
    OBVIOUS
  <2>2. CASE at = {}
    <3>1. s[k] = <<b[k]>>
      BY <1>2, <1>4, <2>1, <2>2 DEF GroupedLine
    <3>2. b[k] \in Line /\ NamesIn(b[k]) \subseteq Mentions(b)
      BY <1>2, LineCovered
    <3> QED BY <3>1, <3>2
  <2>3. CASE at # {}
    <3>1. PICK x : x = CHOOSE y \in at : TRUE
      OBVIOUS
    <3>2. x \in at
      BY <2>3, <3>1
    <3>3. PICK l : l = HelperCall(b, x[2], Helpers[nm[x]])
      OBVIOUS
    <3>4. s[k] = <<l>> \/ s[k] = <<>>
      BY <1>2, <1>4, <2>1, <2>3, <3>1, <3>3 DEF GroupedLine
    <3>5. x \in DOMAIN nm /\ x[1] = f
      BY <2>1, <3>2
    <3>6. x \in AllGroups(g) /\ Helpers[nm[x]] \in Names
      BY <3>5, NumbersShape
    <3>7. IsRow(b, x[2])
      BY <1>1, <3>5, <3>6, GroupsOf
    <3>8. l \in Line /\ NamesIn(l) \subseteq Mentions(b) \cup {Helpers[nm[x]]}
      BY <1>2, <3>3, <3>6, <3>7, HelperCallShape
    <3>9. Helpers[nm[x]] \in X
      BY <1>3, <3>5 DEF HelperNames
    <3> QED BY <3>4, <3>8, <3>9
  <2> QED BY <2>2, <2>3
<1>6. ASSUME NEW k \in 1..Len(b)
      PROVE  s[k] \in Seq(Line) /\ \A j \in 1..Len(s[k]) : NamesIn(s[k][j]) \subseteq Mentions(b) \cup X
  <2>1. CASE s[k] = <<>>
    <3>1. Len(s[k]) = 0 /\ s[k] \in Seq(Line)
      BY <2>1
    <3> QED BY <3>1
  <2>2. CASE \E l \in Line : s[k] = <<l>> /\ NamesIn(l) \subseteq Mentions(b) \cup X
    <3>1. PICK l \in Line : s[k] = <<l>> /\ NamesIn(l) \subseteq Mentions(b) \cup X
      BY <2>2
    <3>2. Len(s[k]) = 1 /\ s[k] \in Seq(Line) /\ s[k][1] = l
      BY <3>1
    <3>3. \A j \in 1..Len(s[k]) : j = 1
      BY <3>2
    <3> QED BY <3>1, <3>2, <3>3
  <2> QED BY <1>5, <2>1, <2>2
<1>7. s \in Seq(Seq(Line)) /\ Len(s) = Len(b)
  BY <1>2, <1>4, <1>6
<1>8. PICK z : z = FlattenSeq(s)
  OBVIOUS
<1>9. z \in Seq(Line) /\ \A k \in 1..Len(z) : \E i \in 1..Len(s) : \E j \in 1..Len(s[i]) : z[k] = s[i][j]
  BY <1>7, <1>8, FlattenFrom
<1>10. \A k \in 1..Len(z) : NamesIn(z[k]) \subseteq Mentions(b) \cup X
  BY <1>6, <1>7, <1>9
<1>11. Mentions(z) \subseteq Mentions(b) \cup X
  BY <1>9, <1>10, CoveredText
<1>12. Grouped(f, b, nm) = z
  BY <1>4, <1>8 DEF Grouped
<1> QED BY <1>1, <1>3, <1>9, <1>11, <1>12

-----------------------------------------------------------------------------
(* Packs whose functions mention what is in the pack or in S.              *)
Within(g, S) == \A f \in DOMAIN g : Mentions(g[f]) \subseteq DOMAIN g \cup S

(* The lines of a unit are simplified.                                     *)
LEMMA SimplifiedWithin ==
  ASSUME NEW g, IsPack(g), NEW S, NEW h, h = [f \in DOMAIN g |-> Simplified(g[f])]
  PROVE  IsPack(h) /\ DOMAIN h = DOMAIN g /\ (Within(g, S) => Within(h, S))
<1>1. \A f \in DOMAIN g : h[f] \in Seq(Line) /\ Mentions(h[f]) \subseteq Mentions(g[f])
  BY SimplifiedShape DEF IsPack
<1>2. DOMAIN h = DOMAIN g
  OBVIOUS
<1> QED BY <1>1, <1>2 DEF IsPack, Within

(* The execute lines of a unit are grouped.                                *)
LEMMA GroupedWithin ==
  ASSUME NEW g, IsPack(g), gen \in 1..(Len(Generated) + 1), NEW nm \in HelperNumbers(g), NEW S,
         NEW h, h = WithHelpers(g, nm)
  PROVE  IsPack(h) /\ DOMAIN g \subseteq DOMAIN h /\ (Within(g, S) => Within(h, S))
<1>1. PICK p, q : /\ p = [f \in HelperNames(nm) |-> HelperFor(g, nm, f)]
                  /\ q = [f \in DOMAIN g |-> Grouped(f, g[f], nm)]
  OBVIOUS
<1>2. DOMAIN p = HelperNames(nm) /\ DOMAIN q = DOMAIN g
  BY <1>1
<1>3. /\ DOMAIN h = DOMAIN p \cup DOMAIN q
      /\ \A f \in DOMAIN h : h[f] = IF f \in DOMAIN p THEN p[f] ELSE q[f]
  BY <1>1, <1>2 DEF WithHelpers
<1>4. ASSUME NEW f \in DOMAIN p
      PROVE  p[f] \in Seq(Line) /\ \E d \in DOMAIN g : Mentions(p[f]) \subseteq Mentions(g[d])
  <2>1. PICK x : x = CHOOSE y \in DOMAIN nm : Helpers[nm[y]] = f
    OBVIOUS
  <2>2. x \in DOMAIN nm
    BY <1>2, <2>1 DEF HelperNames
  <2>3. p[f] = HelperText(g[x[1]], x[2])
    BY <1>1, <1>2, <2>1 DEF HelperFor
  <2>4. x \in AllGroups(g)
    BY <2>2, NumbersShape
  <2>5. x[1] \in DOMAIN g /\ IsRow(g[x[1]], x[2])
    BY <2>4, GroupsOf
  <2>6. g[x[1]] \in Seq(Line)
    BY <2>5 DEF IsPack
  <2> QED BY <2>3, <2>5, <2>6, HelperShape
<1>5. ASSUME NEW f \in DOMAIN g
      PROVE  q[f] \in Seq(Line) /\ Mentions(q[f]) \subseteq Mentions(g[f]) \cup DOMAIN p
  BY <1>1, <1>2, GroupedShape
<1>6. DOMAIN p \subseteq Names
  BY <1>2, NumbersShape DEF HelperNames
<1>7. IsPack(h)
  BY <1>2, <1>3, <1>4, <1>5, <1>6 DEF IsPack
<1>8. ASSUME Within(g, S), NEW f \in DOMAIN h PROVE Mentions(h[f]) \subseteq DOMAIN h \cup S
  <2>1. CASE f \in DOMAIN p
    BY <1>2, <1>3, <1>4, <1>8, <2>1 DEF Within
  <2>2. CASE f \notin DOMAIN p
    BY <1>2, <1>3, <1>5, <1>8, <2>2 DEF Within
  <2> QED BY <2>1, <2>2
<1> QED BY <1>2, <1>3, <1>7, <1>8 DEF Within

-----------------------------------------------------------------------------
(* inlineFunctions                                                         *)

(* What is put in place of a call mentions what the function mentioned.    *)
LEMMA InlinedShape ==
  ASSUME NEW b \in Seq(Line), NEW kind \in {"standalone", "tail"}
  PROVE  Inlined(b, kind) \in Seq(Line) /\ Mentions(Inlined(b, kind)) \subseteq Mentions(b)
<1>1. PICK n : n = Len(b) /\ n \in Nat
  OBVIOUS
<1>2. PICK c : c = Inlined(b, kind)
  OBVIOUS
<1>3. CASE kind = "tail" \/ b = <<>>
  <2>1. c = b
    BY <1>2, <1>3 DEF Inlined
  <2> QED BY <1>2, <2>1
<1>4. CASE kind = "standalone" /\ b # <<>>
  <2>1. \/ b[n].cmd = "tail" /\ c = [b EXCEPT ![n].cmd = "call"]
        \/ c = SubSeq(b, 1, n - 1)
        \/ c = b
    BY <1>1, <1>2, <1>4 DEF Inlined
  <2>2. n \in 1..Len(b) /\ b[n] \in Line
    BY <1>1, <1>4
  <2>3. CASE b[n].cmd = "tail" /\ c = [b EXCEPT ![n].cmd = "call"]
    <3>1. PICK l : l = [b[n] EXCEPT !.cmd = "call"]
      OBVIOUS
    <3>2. Recast(b[n].cmd, "call")
      BY <2>3 DEF Recast
    <3>3. l \in Line /\ l.on = b[n].on /\ l.cmd = "call" /\ l.f = b[n].f
      BY <2>2, <3>1, <3>2, OtherCommand
    <3>4. LessOf(l, b[n])
      BY <3>2, <3>3 DEF LessOf
    <3>5. NamesIn(l) \subseteq NamesIn(b[n])
      BY <2>2, <3>3, <3>4, LessNames
    <3>6. c = [b EXCEPT ![n] = l]
      BY <2>3, <3>1
    <3>7. c \in Seq(Line) /\ Len(c) = Len(b) /\ \A k \in 1..Len(b) : c[k] = IF k = n THEN l ELSE b[k]
      BY <2>2, <3>3, <3>6
    <3>8. \A k \in 1..Len(c) : NamesIn(c[k]) \subseteq NamesIn(b[k])
      BY <3>5, <3>7
    <3>9. \A k \in 1..Len(c) : NamesIn(c[k]) \subseteq Mentions(b) \cup {}
      BY <3>7, <3>8, LineCovered
    <3>10. Mentions(c) \subseteq Mentions(b) \cup {}
      BY <3>7, <3>9, CoveredText
    <3> QED BY <1>2, <3>7, <3>10
  <2>4. CASE c = SubSeq(b, 1, n - 1)
    <3>1. c \in Seq(Line) /\ Len(c) = n - 1 /\ \A k \in 1..(n - 1) : c[k] = b[k]
      BY <1>1, <2>2, <2>4
    <3>2. \A k \in 1..Len(c) : k \in 1..Len(b) /\ c[k] = b[k]
      BY <1>1, <3>1
    <3>3. \A k \in 1..Len(c) : NamesIn(c[k]) \subseteq Mentions(b) \cup {}
      BY <3>2, LineCovered
    <3>4. Mentions(c) \subseteq Mentions(b) \cup {}
      BY <3>1, <3>3, CoveredText
    <3> QED BY <1>2, <3>1, <3>4
  <2>5. CASE c = b
    BY <1>2, <2>5
  <2> QED BY <2>1, <2>3, <2>4, <2>5
<1> QED BY <1>3, <1>4

(* A text in which t stands for line k.                                    *)
LEMMA ReplacedShape ==
  ASSUME NEW b \in Seq(Line), NEW k \in 1..Len(b), NEW t \in Seq(Line)
  PROVE  /\ Replaced(b, k, t) \in Seq(Line)
         /\ \A q \in 1..Len(Replaced(b, k, t)) :
              \/ \E i \in 1..Len(b) : i # k /\ Replaced(b, k, t)[q] = b[i]
              \/ \E i \in 1..Len(t) : Replaced(b, k, t)[q] = t[i]
<1>1. PICK p, s : p = SubSeq(b, 1, k - 1) /\ s = SubSeq(b, k + 1, Len(b))
  OBVIOUS
<1>2. p \in Seq(Line) /\ Len(p) = k - 1 /\ \A i \in 1..(k - 1) : p[i] = b[i]
  BY <1>1
<1>3. s \in Seq(Line) /\ Len(s) = Len(b) - k /\ \A i \in 1..(Len(b) - k) : s[i] = b[k + i]
  <2>1. PICK lo, hi : lo = k + 1 /\ hi = Len(b)
    OBVIOUS
  <2>2. lo \in Nat /\ hi \in Nat /\ 1 <= lo /\ hi <= Len(b) /\ lo <= hi + 1
    BY <2>1
  <2>3. (hi + 1) - lo = Len(b) - k /\ \A i \in Nat : lo + i - 1 = k + i
    BY <2>1
  <2>6. \A i \in 1..(Len(b) - k) : i \in Nat
    OBVIOUS
  <2>4. /\ SubSeq(b, lo, hi) \in Seq(Line) /\ Len(SubSeq(b, lo, hi)) = (hi + 1) - lo
        /\ \A i \in 1..((hi + 1) - lo) : SubSeq(b, lo, hi)[i] = b[lo + i - 1]
    BY <2>2, SubSeqShape
  <2>5. s = SubSeq(b, lo, hi)
    BY <1>1, <2>1
  <2>7. \A i \in 1..(Len(b) - k) : s[i] = b[k + i]
    <3> SUFFICES ASSUME NEW i \in 1..(Len(b) - k) PROVE s[i] = b[k + i]
      OBVIOUS
    <3>1. s[i] = b[lo + i - 1]
      BY <2>3, <2>4, <2>5
    <3> QED BY <2>3, <2>6, <3>1
  <2> QED BY <2>3, <2>4, <2>5, <2>7
<1>4. PICK z : z = Replaced(b, k, t)
  OBVIOUS
<1>5. PICK y : y = p \o t
  OBVIOUS
<1>6. z = y \o s
  BY <1>1, <1>4, <1>5 DEF Replaced
<1>7. y \in Seq(Line) /\ Len(y) = Len(p) + Len(t)
      /\ (\A i \in 1..Len(p) : y[i] = p[i]) /\ (\A i \in 1..Len(t) : y[Len(p) + i] = t[i])
  <2>1. p \in Seq(Line)
    BY <1>2
  <2>2. /\ p \o t \in Seq(Line) /\ Len(p \o t) = Len(p) + Len(t)
        /\ (\A i \in 1..Len(p) : (p \o t)[i] = p[i]) /\ (\A i \in 1..Len(t) : (p \o t)[Len(p) + i] = t[i])
    BY <2>1, ConcatShape
  <2> QED BY <1>5, <2>2
<1>8. z \in Seq(Line) /\ Len(z) = Len(y) + Len(s)
      /\ (\A i \in 1..Len(y) : z[i] = y[i]) /\ (\A i \in 1..Len(s) : z[Len(y) + i] = s[i])
  <2>1. y \in Seq(Line) /\ s \in Seq(Line)
    BY <1>3, <1>7
  <2>2. /\ y \o s \in Seq(Line) /\ Len(y \o s) = Len(y) + Len(s)
        /\ (\A i \in 1..Len(y) : (y \o s)[i] = y[i]) /\ (\A i \in 1..Len(s) : (y \o s)[Len(y) + i] = s[i])
    BY <2>1, ConcatShape
  <2> QED BY <1>6, <2>2
<1>9. Len(p) \in Nat /\ Len(t) \in Nat /\ Len(s) \in Nat
  BY <1>2, <1>3
<1>10. ASSUME NEW q \in 1..Len(z)
       PROVE  \/ \E i \in 1..Len(b) : i # k /\ z[q] = b[i]
              \/ \E i \in 1..Len(t) : z[q] = t[i]
  <2>1. CASE q <= Len(p)
    <3>1. q \in 1..Len(p) /\ q \in 1..Len(y) /\ q \in 1..Len(b) /\ q # k
      BY <1>2, <1>7, <1>9, <2>1
    <3>2. z[q] = b[q]
      BY <1>2, <1>7, <1>8, <3>1
    <3> QED BY <3>1, <3>2
  <2>2. CASE q > Len(p) /\ q <= Len(y)
    <3>1. PICK i : i = q - Len(p)
      OBVIOUS
    <3>2. i \in 1..Len(t) /\ q = Len(p) + i /\ q \in 1..Len(y)
      BY <1>7, <1>9, <2>2, <3>1
    <3>3. z[q] = t[i]
      BY <1>7, <1>8, <3>2
    <3> QED BY <3>2, <3>3
  <2>3. CASE q > Len(y)
    <3>1. PICK i : i = q - Len(y)
      OBVIOUS
    <3>2. i \in 1..Len(s) /\ q = Len(y) + i
      BY <1>7, <1>8, <1>9, <2>3, <3>1
    <3>3. z[q] = s[i] /\ i \in 1..(Len(b) - k)
      BY <1>3, <1>8, <3>2
    <3>4. z[q] = b[k + i] /\ k + i \in 1..Len(b) /\ k + i # k
      BY <1>3, <3>3
    <3> QED BY <3>4
  <2> QED BY <1>7, <1>9, <2>1, <2>2, <2>3
<1> QED BY <1>4, <1>8, <1>10

(* Where a name occurs.                                                    *)
LEMMA OccurrencesOf ==
  ASSUME NEW g, NEW x, NEW h \in DOMAIN g, NEW k \in DOMAIN g[h], x \in NamesIn(g[h][k])
  PROVE  \E j : <<h, k, j>> \in Occurrences(g, x)
<1>1. PICK j \in Places(g[h][k]) : NameAt(g[h][k], j) = x
  BY DEF NamesIn
<1>2. <<h, k, j>> \in {<<h, k, i>> : i \in {q \in Places(g[h][k]) : NameAt(g[h][k], q) = x}}
  BY <1>1
<1> QED BY <1>2 DEF Occurrences

(* A name that occurs is there.                                            *)
LEMMA OccurrenceIs ==
  ASSUME NEW g, NEW x, NEW h, NEW k, NEW j, <<h, k, j>> \in Occurrences(g, x)
  PROVE  h \in DOMAIN g /\ k \in DOMAIN g[h] /\ x \in NamesIn(g[h][k])
BY DEF Occurrences, NamesIn

(* The only line of g with the name of the callee is one of e.at.          *)
OnlyAt(g, e, k) ==
  /\ k \in 1..Len(g[e.at]) /\ e.callee \in NamesIn(g[e.at][k])
  /\ \A h \in DOMAIN g : \A i \in 1..Len(g[h]) :
       e.callee \in NamesIn(g[h][i]) => h = e.at /\ i = k

(* Nothing but that line mentions the callee of the edit e.                *)
Solo(g, e) ==
  /\ e.callee \in DOMAIN g /\ e.at \in DOMAIN g /\ e.callee # e.at
  /\ \E k : OnlyAt(g, e, k)

(* A candidate has one call.                                               *)
LEMMA CandidateSolo ==
  ASSUME NEW g, IsPack(g), NEW e \in Candidates(g)
  PROVE  /\ Solo(g, e) /\ e.callee \in Prunable /\ e.callee # start
         /\ e.kind \in {"standalone", "tail"}
<1>1. /\ e.callee \in DOMAIN g /\ e.callee \in Prunable /\ e.at \in DOMAIN g
      /\ e.kind \in {"standalone", "tail"}
      /\ e.callee # start /\ e.callee # e.at
  BY DEF Candidates
<1>2. PICK k \in DOMAIN g[e.at] : Occurrences(g, e.callee) = {<<e.at, k, 0>>}
  BY DEF Candidates
<1>3. <<e.at, k, 0>> \in Occurrences(g, e.callee)
  BY <1>2
<1>4. e.callee \in NamesIn(g[e.at][k])
  BY <1>3, OccurrenceIs
<1>5. \A h \in DOMAIN g : g[h] \in Seq(Line)
  BY DEF IsPack
<1>6. \A h \in DOMAIN g : DOMAIN g[h] = 1..Len(g[h])
  BY <1>5
<1>7. ASSUME NEW h \in DOMAIN g, NEW i \in 1..Len(g[h]), e.callee \in NamesIn(g[h][i])
      PROVE  h = e.at /\ i = k
  <2>1. PICK j : <<h, i, j>> \in Occurrences(g, e.callee)
    BY <1>6, <1>7, OccurrencesOf
  <2>2. <<h, i, j>> = <<e.at, k, 0>>
    BY <1>2, <2>1
  <2> QED BY <2>2
<1>8. OnlyAt(g, e, k)
  BY <1>1, <1>2, <1>4, <1>6, <1>7 DEF OnlyAt
<1> QED BY <1>1, <1>8 DEF Solo

(* Two edits that do not meet.                                             *)
Apart(d, e) == d.callee # e.callee /\ d.at # e.at /\ d.at # e.callee

(* No two edits of a round meet.                                           *)
LEMMA RoundApart ==
  ASSUME NEW g, IsPack(g), NEW E \in Rounds(g), NEW d \in E, NEW e \in E, d # e
  PROVE  d \in Candidates(g) /\ Apart(d, e)
<1>1. d \in Leaves(g) /\ e \in Leaves(g) /\ d.at # e.at
  BY DEF Rounds
<1>2. d \in Candidates(g) /\ e \in Candidates(g)
  BY <1>1 DEF Leaves
<1>3. Solo(g, d) /\ Solo(g, e)
  BY <1>2, CandidateSolo
<1>4. PICK k : OnlyAt(g, d, k)
  BY <1>3 DEF Solo
<1>5. d.callee # e.callee
  <2>1. PICK i : OnlyAt(g, e, i)
    BY <1>3 DEF Solo
  <2>2. d.at \in DOMAIN g /\ k \in 1..Len(g[d.at]) /\ d.callee \in NamesIn(g[d.at][k])
    BY <1>3, <1>4 DEF OnlyAt, Solo
  <2> QED BY <1>1, <2>1, <2>2 DEF OnlyAt
<1>6. d.at # e.callee
  <2> SUFFICES ASSUME d.at = e.callee PROVE FALSE
    OBVIOUS
  <2>1. e.callee \in DOMAIN g /\ k \in 1..Len(g[e.callee]) /\ d.callee \in NamesIn(g[e.callee][k])
    BY <1>3, <1>4 DEF OnlyAt, Solo
  <2>2. g[e.callee] \in Seq(Line)
    BY <2>1 DEF IsPack
  <2>3. d.callee \in Mentions(g[e.callee])
    BY <2>1, <2>2, MentionsOf
  <2>4. d.callee \in {c.callee : c \in Candidates(g)}
    BY <1>2
  <2>5. Mentions(g[e.callee]) \cap ({c.callee : c \in Candidates(g)} \ {e.callee}) = {}
    BY <1>1 DEF Leaves
  <2> QED BY <1>5, <2>3, <2>4, <2>5
<1> QED BY <1>1, <1>2, <1>5, <1>6 DEF Apart

(* g with the edit e made at line k.                                       *)
Edited(g, e, k) ==
  Without([g EXCEPT ![e.at] = Replaced(@, k, Inlined(g[e.callee], e.kind))], {e.callee})

(* h is that: lines of e.at but k, and lines of the callee.                *)
IsEdited(g, e, k, h) ==
  /\ IsPack(h) /\ DOMAIN h = DOMAIN g \ {e.callee}
  /\ \A f \in DOMAIN h : f # e.at => h[f] = g[f]
  /\ \A i \in 1..Len(h[e.at]) :
       \/ \E j \in 1..Len(g[e.at]) : j # k /\ h[e.at][i] = g[e.at][j]
       \/ NamesIn(h[e.at][i]) \subseteq Mentions(g[e.callee])

(* What an edit does.                                                      *)
LEMMA EditedShape ==
  ASSUME NEW g, IsPack(g), NEW e, Solo(g, e), e.kind \in {"standalone", "tail"},
         NEW k \in 1..Len(g[e.at]), e.callee \in NamesIn(g[e.at][k]), NEW h, h = Edited(g, e, k)
  PROVE  IsEdited(g, e, k, h)
<1>1. e.at \in DOMAIN g /\ e.callee \in DOMAIN g /\ e.at # e.callee
  BY DEF Solo
<1>2. g[e.at] \in Seq(Line) /\ g[e.callee] \in Seq(Line)
  BY <1>1 DEF IsPack
<1>3. PICK t : t = Inlined(g[e.callee], e.kind)
  OBVIOUS
<1>4. t \in Seq(Line) /\ Mentions(t) \subseteq Mentions(g[e.callee])
  BY <1>2, <1>3, InlinedShape
<1>5. PICK b : b = Replaced(g[e.at], k, t)
  OBVIOUS
<1>6. /\ b \in Seq(Line)
      /\ \A q \in 1..Len(b) :
           \/ \E i \in 1..Len(g[e.at]) : i # k /\ b[q] = g[e.at][i]
           \/ \E i \in 1..Len(t) : b[q] = t[i]
  BY <1>2, <1>4, <1>5, ReplacedShape
<1>7. PICK p : p = [g EXCEPT ![e.at] = b]
  OBVIOUS
<1>8. h = Without(p, {e.callee})
  BY <1>3, <1>5, <1>7 DEF Edited
<1>9. DOMAIN p = DOMAIN g /\ p[e.at] = b /\ \A f \in DOMAIN g : f # e.at => p[f] = g[f]
  BY <1>1, <1>7 DEF IsPack
<1>10. DOMAIN h = DOMAIN g \ {e.callee} /\ \A f \in DOMAIN h : h[f] = p[f]
  BY <1>8, <1>9 DEF Without
<1>11. h[e.at] = b
  BY <1>1, <1>9, <1>10
<1>12. \A f \in DOMAIN h : f # e.at => h[f] = g[f]
  BY <1>9, <1>10
<1>13. IsPack(h)
  BY <1>6, <1>10, <1>11, <1>12 DEF IsPack
<1>14. ASSUME NEW i \in 1..Len(b)
       PROVE  \/ \E j \in 1..Len(g[e.at]) : j # k /\ b[i] = g[e.at][j]
              \/ NamesIn(b[i]) \subseteq Mentions(g[e.callee])
  BY <1>4, <1>6, LineCovered
<1> QED BY <1>10, <1>11, <1>12, <1>13, <1>14 DEF IsEdited

(* After the edit nothing mentions the callee, and the rest is as before.  *)
LEMMA EditedWithin ==
  ASSUME NEW g, IsPack(g), NEW e, Solo(g, e), e.kind \in {"standalone", "tail"},
         NEW k \in 1..Len(g[e.at]), e.callee \in NamesIn(g[e.at][k]), NEW h, h = Edited(g, e, k),
         NEW S, e.callee \notin S, Within(g, S)
  PROVE  Within(h, S)
<1>1. PICK n : OnlyAt(g, e, n)
  BY DEF Solo
<1>2. e.at \in DOMAIN g /\ e.callee \in DOMAIN g /\ e.callee # e.at
  BY DEF Solo
<1>3. n = k
  BY <1>1, <1>2 DEF OnlyAt
<1>4. /\ IsPack(h) /\ DOMAIN h = DOMAIN g \ {e.callee}
      /\ \A f \in DOMAIN h : f # e.at => h[f] = g[f]
      /\ \A i \in 1..Len(h[e.at]) :
           \/ \E j \in 1..Len(g[e.at]) : j # k /\ h[e.at][i] = g[e.at][j]
           \/ NamesIn(h[e.at][i]) \subseteq Mentions(g[e.callee])
  <2>1. IsEdited(g, e, k, h)
    BY EditedShape
  <2> QED BY <2>1 DEF IsEdited
<1>5. \A f \in DOMAIN g : g[f] \in Seq(Line)
  BY DEF IsPack
<1>6. \A f \in DOMAIN g : \A i \in 1..Len(g[f]) : \A x \in NamesIn(g[f][i]) : x \in DOMAIN g \cup S
  <2> SUFFICES ASSUME NEW f \in DOMAIN g, NEW i \in 1..Len(g[f]), NEW x \in NamesIn(g[f][i])
               PROVE  x \in DOMAIN g \cup S
    OBVIOUS
  <2>1. NamesIn(g[f][i]) \subseteq Mentions(g[f])
    BY <1>5, LineCovered
  <2> QED BY <2>1 DEF Within
<1>7. \A x \in Mentions(g[e.callee]) : x # e.callee
  <2> SUFFICES ASSUME e.callee \in Mentions(g[e.callee]) PROVE FALSE
    OBVIOUS
  <2>1. PICK i \in 1..Len(g[e.callee]) : e.callee \in NamesIn(g[e.callee][i])
    BY <1>2, <1>5, MentionsOf
  <2> QED BY <1>1, <1>2, <2>1 DEF OnlyAt
<1>8. \A x \in Mentions(g[e.callee]) : x \in DOMAIN g \cup S
  BY <1>2 DEF Within
<1>9. ASSUME NEW f \in DOMAIN h, NEW i \in 1..Len(h[f]), NEW x \in NamesIn(h[f][i])
      PROVE  x \in DOMAIN h \cup S
  <2>1. x \in DOMAIN g \cup S /\ x # e.callee
    <3>1. CASE f # e.at
      <4>1. h[f] = g[f] /\ f \in DOMAIN g
        BY <1>4, <3>1
      <4>2. x # e.callee
        BY <1>1, <1>9, <3>1, <4>1 DEF OnlyAt
      <4> QED BY <1>6, <1>9, <4>1, <4>2
    <3>2. CASE f = e.at
      <4>1. CASE \E j \in 1..Len(g[e.at]) : j # k /\ h[e.at][i] = g[e.at][j]
        <5>1. PICK j \in 1..Len(g[e.at]) : j # k /\ h[e.at][i] = g[e.at][j]
          BY <4>1
        <5>2. x \in NamesIn(g[e.at][j])
          BY <1>9, <3>2, <5>1
        <5>3. x # e.callee
          BY <1>1, <1>2, <1>3, <5>1, <5>2 DEF OnlyAt
        <5> QED BY <1>2, <1>6, <5>2, <5>3
      <4>2. CASE NamesIn(h[e.at][i]) \subseteq Mentions(g[e.callee])
        BY <1>7, <1>8, <1>9, <3>2, <4>2
      <4> QED BY <1>4, <1>9, <3>2, <4>1, <4>2
    <3> QED BY <3>1, <3>2
  <2> QED BY <1>4, <2>1
<1>10. ASSUME NEW f \in DOMAIN h PROVE Mentions(h[f]) \subseteq DOMAIN h \cup S
  <2>1. h[f] \in Seq(Line)
    BY <1>4 DEF IsPack
  <2> QED BY <1>9, <2>1, MentionsOf
<1> QED BY <1>10 DEF Within

(* An edit leaves the others of the round as they are.                     *)
LEMMA EditedSolo ==
  ASSUME NEW g, IsPack(g), NEW e, Solo(g, e), e.kind \in {"standalone", "tail"},
         NEW k \in 1..Len(g[e.at]), e.callee \in NamesIn(g[e.at][k]), NEW h, h = Edited(g, e, k),
         NEW d, Solo(g, d), Apart(d, e)
  PROVE  Solo(h, d)
<1>1. PICK n : OnlyAt(g, d, n)
  BY DEF Solo
<1>2. /\ d.at \in DOMAIN g /\ d.callee \in DOMAIN g /\ d.callee # d.at
      /\ e.at \in DOMAIN g /\ e.callee \in DOMAIN g /\ e.callee # e.at
  BY DEF Solo
<1>3. /\ IsPack(h) /\ DOMAIN h = DOMAIN g \ {e.callee}
      /\ \A f \in DOMAIN h : f # e.at => h[f] = g[f]
      /\ \A i \in 1..Len(h[e.at]) :
           \/ \E j \in 1..Len(g[e.at]) : j # k /\ h[e.at][i] = g[e.at][j]
           \/ NamesIn(h[e.at][i]) \subseteq Mentions(g[e.callee])
  <2>1. IsEdited(g, e, k, h)
    BY EditedShape
  <2> QED BY <2>1 DEF IsEdited
<1>4. d.at \in DOMAIN h /\ d.callee \in DOMAIN h /\ h[d.at] = g[d.at]
  BY <1>2, <1>3 DEF Apart
<1>5. n \in 1..Len(h[d.at]) /\ d.callee \in NamesIn(h[d.at][n])
  BY <1>1, <1>4 DEF OnlyAt
<1>6. d.callee \notin Mentions(g[e.callee])
  <2> SUFFICES ASSUME d.callee \in Mentions(g[e.callee]) PROVE FALSE
    OBVIOUS
  <2>1. g[e.callee] \in Seq(Line)
    BY <1>2 DEF IsPack
  <2>2. PICK i \in 1..Len(g[e.callee]) : d.callee \in NamesIn(g[e.callee][i])
    BY <2>1, MentionsOf
  <2> QED BY <1>1, <1>2, <2>2 DEF OnlyAt, Apart
<1>7. ASSUME NEW f \in DOMAIN h, NEW i \in 1..Len(h[f]), d.callee \in NamesIn(h[f][i])
      PROVE  f = d.at /\ i = n
  <2>1. CASE f # e.at
    <3>1. h[f] = g[f] /\ f \in DOMAIN g
      BY <1>3, <2>1
    <3> QED BY <1>1, <1>7, <3>1 DEF OnlyAt
  <2>2. CASE f = e.at
    <3>1. CASE \E j \in 1..Len(g[e.at]) : j # k /\ h[e.at][i] = g[e.at][j]
      <4>1. PICK j \in 1..Len(g[e.at]) : h[e.at][i] = g[e.at][j]
        BY <3>1
      <4>2. d.callee \in NamesIn(g[e.at][j])
        BY <1>7, <2>2, <4>1
      <4> QED BY <1>1, <1>2, <4>2 DEF OnlyAt, Apart
    <3>2. CASE NamesIn(h[e.at][i]) \subseteq Mentions(g[e.callee])
      BY <1>6, <1>7, <2>2, <3>2
    <3> QED BY <1>3, <1>7, <2>2, <3>1, <3>2
  <2> QED BY <2>1, <2>2
<1>8. OnlyAt(h, d, n)
  BY <1>5, <1>7 DEF OnlyAt
<1> QED BY <1>2, <1>4, <1>8 DEF Solo

-----------------------------------------------------------------------------
(* eliminateDeadFunctions                                                  *)

(* What Reach leads to is closed.                                          *)
LEMMA ReachClosed ==
  ASSUME NEW g, NEW R
  PROVE  /\ Reach(g, R) \subseteq DOMAIN g
         /\ R \cap DOMAIN g \subseteq Reach(g, R)
         /\ \A h \in Reach(g, R) : Mentions(g[h]) \cap DOMAIN g \subseteq Reach(g, R)
BY DEF Reach

(* What is left of a unit.                                                 *)
LEMMA DeadWithin ==
  ASSUME NEW g, IsPack(g), NEW S, S \cap Prunable = {}, NEW h, h = Without(g, Dead(g))
  PROVE  /\ IsPack(h) /\ DOMAIN h = DOMAIN g \ Dead(g)
         /\ Dead(g) \subseteq Prunable /\ start \notin Dead(g)
         /\ Within(g, S) => Within(h, S)
<1>1. PICK R : R = {start} \cup (DOMAIN g \ Prunable)
  OBVIOUS
<1>2. PICK A : A = Reach(g, R)
  OBVIOUS
<1>3. /\ A \subseteq DOMAIN g /\ R \cap DOMAIN g \subseteq A
      /\ \A f \in A : Mentions(g[f]) \cap DOMAIN g \subseteq A
  BY <1>2, ReachClosed
<1>4. Dead(g) = (DOMAIN g \cap Prunable) \ A
  BY <1>1, <1>2 DEF Dead
<1>5. DOMAIN h = DOMAIN g \ Dead(g) /\ \A f \in DOMAIN h : h[f] = g[f]
  BY DEF Without
<1>6. DOMAIN h = A
  BY <1>1, <1>3, <1>4, <1>5
<1>7. start \notin Dead(g)
  BY <1>1, <1>3, <1>4
<1>8. IsPack(h)
  BY <1>5 DEF IsPack
<1>9. ASSUME Within(g, S), NEW f \in DOMAIN h PROVE Mentions(h[f]) \subseteq DOMAIN h \cup S
  BY <1>3, <1>5, <1>6, <1>9 DEF Within
<1> QED BY <1>4, <1>5, <1>7, <1>8, <1>9 DEF Within

-----------------------------------------------------------------------------
(* renameInternalFunctions                                                 *)

(* New names are names.                                                    *)
NewNames(nm) == \A f \in DOMAIN nm : nm[f] \in Names

(* A clause whose name is replaced.                                        *)
LEMMA RewrittenClauseShape ==
  ASSUME NEW c \in Clause, NEW nm, NewNames(nm)
  PROVE  /\ RewrittenClause(c, nm) \in Clause /\ RewrittenClause(c, nm).kind = c.kind
         /\ c.kind = "func" => RewrittenClause(c, nm).f = NewName(c.f, nm)
<1>1. CASE c.kind = "func"
  <2>1. c.f \in Names /\ c = [kind |-> "func", f |-> c.f]
    BY <1>1 DEF Clause
  <2>2. PICK n : n = NewName(c.f, nm)
    OBVIOUS
  <2>3. n \in Names
    BY <2>1, <2>2 DEF NewName, NewNames
  <2>4. PICK d : d = [c EXCEPT !.f = n]
    OBVIOUS
  <2>5. d \in Clause /\ d.kind = c.kind /\ d.f = n
    BY <2>1, <2>3, <2>4 DEF Clause
  <2>6. RewrittenClause(c, nm) = d
    BY <1>1, <2>2, <2>4 DEF RewrittenClause
  <2> QED BY <2>2, <2>5, <2>6
<1>2. CASE c.kind # "func"
  BY <1>2 DEF RewrittenClause
<1> QED BY <1>1, <1>2

(* A line whose names are replaced.                                        *)
LEMMA RewrittenLineShape ==
  ASSUME NEW l \in Line, NEW nm, NewNames(nm)
  PROVE  /\ RewrittenLine(l, nm) \in Line
         /\ \A x \in NamesIn(RewrittenLine(l, nm)) : \E y \in NamesIn(l) : x = NewName(y, nm)
<1>1. PICK s : s = l.on /\ s \in Seq(Clause) /\ Len(s) \in Nat
  BY LineShape
<1>2. PICK on : on = [j \in DOMAIN s |-> RewrittenClause(s[j], nm)]
  OBVIOUS
<1>3. \A j \in 1..Len(s) : s[j] \in Clause
  BY <1>1
<1>4. \A j \in 1..Len(s) : /\ RewrittenClause(s[j], nm) \in Clause
                           /\ RewrittenClause(s[j], nm).kind = s[j].kind
                           /\ s[j].kind = "func" => RewrittenClause(s[j], nm).f = NewName(s[j].f, nm)
  BY <1>3, RewrittenClauseShape
<1>5. on \in Seq(Clause) /\ Len(on) = Len(s) /\ \A j \in 1..Len(s) : on[j] = RewrittenClause(s[j], nm)
  BY <1>1, <1>2, <1>4
<1>6. PICK m : m = [l EXCEPT !.on = on]
  OBVIOUS
<1>7. m \in Line /\ m.on = on /\ m.cmd = l.cmd /\ m.f = l.f
  BY <1>5, <1>6, OtherOn
<1>8. RewrittenOn(l, nm) = m
  BY <1>1, <1>2, <1>6 DEF RewrittenOn
<1>9. PICK n : n = RewrittenLine(l, nm)
  OBVIOUS
<1>10. n \in Line /\ n.on = on /\ n.cmd = l.cmd /\ (l.cmd \in Mentioning => n.f = NewName(l.f, nm))
  <2>1. CASE l.cmd \in Mentioning
    <3>1. NewName(l.f, nm) \in Names
      BY <2>1, LineShape DEF NewName, NewNames
    <3>2. n = [m EXCEPT !.f = NewName(m.f, nm)]
      BY <1>8, <1>9, <2>1 DEF RewrittenLine
    <3>3. PICK a : a = NewName(l.f, nm)
      OBVIOUS
    <3>4. n = [m EXCEPT !.f = a] /\ a \in Names /\ m.cmd \in Mentioning
      BY <1>7, <2>1, <3>1, <3>2, <3>3
    <3>5. n \in Line /\ n.on = m.on /\ n.cmd = m.cmd /\ n.f = a
      BY <1>7, <3>4 DEF Line, Mentioning
    <3> QED BY <1>7, <3>3, <3>5
  <2>2. CASE l.cmd \notin Mentioning
    BY <1>7, <1>8, <1>9, <2>2 DEF RewrittenLine
  <2> QED BY <2>1, <2>2
<1>11. ASSUME NEW x \in NamesIn(n) PROVE \E y \in NamesIn(l) : x = NewName(y, nm)
  <2>1. \/ \E j \in 1..Len(n.on) : n.on[j].kind = "func" /\ n.on[j].f = x
        \/ n.cmd \in Mentioning /\ n.f = x
    BY <1>10, NamesOf
  <2>2. CASE \E j \in 1..Len(n.on) : n.on[j].kind = "func" /\ n.on[j].f = x
    <3>1. PICK j \in 1..Len(s) : on[j].kind = "func" /\ on[j].f = x
      BY <1>5, <1>10, <2>2
    <3>2. s[j].kind = "func" /\ x = NewName(s[j].f, nm)
      BY <1>4, <1>5, <3>1
    <3>3. s[j].f \in NamesIn(l)
      BY <1>1, <3>2, NamesOf
    <3> QED BY <3>2, <3>3
  <2>3. CASE n.cmd \in Mentioning /\ n.f = x
    <3>1. l.f \in NamesIn(l) /\ x = NewName(l.f, nm)
      BY <1>10, <2>3, NamesOf
    <3> QED BY <3>1
  <2> QED BY <2>1, <2>2, <2>3
<1> QED BY <1>9, <1>10, <1>11

(* A text whose names are replaced.                                        *)
LEMMA RewrittenShape ==
  ASSUME NEW b \in Seq(Line), NEW nm, NewNames(nm)
  PROVE  /\ Rewritten(b, nm) \in Seq(Line)
         /\ \A x \in Mentions(Rewritten(b, nm)) : \E y \in Mentions(b) : x = NewName(y, nm)
<1>1. PICK c : c = Rewritten(b, nm)
  OBVIOUS
<1>2. DOMAIN b = 1..Len(b) /\ Len(b) \in Nat
  OBVIOUS
<1>3. c = [k \in 1..Len(b) |-> RewrittenLine(b[k], nm)]
  BY <1>1, <1>2 DEF Rewritten
<1>4. \A k \in 1..Len(b) : b[k] \in Line
  OBVIOUS
<1>5. \A k \in 1..Len(b) : RewrittenLine(b[k], nm) \in Line
  BY <1>4, RewrittenLineShape
<1>6. c \in Seq(Line) /\ Len(c) = Len(b) /\ \A k \in 1..Len(b) : c[k] = RewrittenLine(b[k], nm)
  BY <1>2, <1>3, <1>5
<1>7. ASSUME NEW x \in Mentions(c) PROVE \E y \in Mentions(b) : x = NewName(y, nm)
  <2>1. PICK k \in 1..Len(b) : x \in NamesIn(RewrittenLine(b[k], nm))
    BY <1>6, MentionsOf
  <2>2. PICK y \in NamesIn(b[k]) : x = NewName(y, nm)
    BY <1>4, <2>1, RewrittenLineShape
  <2>3. y \in Mentions(b)
    BY <2>2, MentionsOf
  <2> QED BY <2>2, <2>3
<1> QED BY <1>1, <1>6, <1>7

(* A unit whose functions get new names, and its text with them.           *)
LEMMA RenamedWithin ==
  ASSUME NEW g, IsPack(g), NEW nm, NewNames(nm), NEW S, NEW h, h = Renamed(g, nm)
  PROVE  /\ IsPack(h)
         /\ \A f \in DOMAIN g : NewName(f, nm) \in DOMAIN h
         /\ Within(g, S) => Within(h, S)
<1>1. PICK local : local = [f \in DOMAIN nm \cap DOMAIN g |-> nm[f]]
  OBVIOUS
<1>2. DOMAIN local = DOMAIN nm \cap DOMAIN g /\ \A f \in DOMAIN local : local[f] = nm[f]
  BY <1>1
<1>3. PICK D : D = (DOMAIN g \ DOMAIN local) \cup {local[f] : f \in DOMAIN local}
  OBVIOUS
<1>4. h = [n \in D |-> Rewritten(g[IF {f \in DOMAIN local : local[f] = n} = {} THEN n
                                   ELSE CHOOSE f \in {f \in DOMAIN local : local[f] = n} : TRUE], local)]
  BY <1>1, <1>3 DEF Renamed
<1>5. NewNames(local)
  BY <1>2 DEF NewNames
<1>6. ASSUME NEW n \in D PROVE \E f \in DOMAIN g : h[n] = Rewritten(g[f], local)
  <2>1. PICK o : o = {f \in DOMAIN local : local[f] = n}
    OBVIOUS
  <2>2. CASE o = {}
    <3>1. h[n] = Rewritten(g[n], local)
      BY <1>4, <2>1, <2>2
    <3>2. n \in DOMAIN g
      BY <1>3, <2>1, <2>2
    <3> QED BY <3>1, <3>2
  <2>3. CASE o # {}
    <3>1. PICK f : f = CHOOSE q \in o : TRUE
      OBVIOUS
    <3>2. f \in DOMAIN g
      BY <1>2, <2>1, <2>3, <3>1
    <3>3. h[n] = Rewritten(g[f], local)
      BY <1>4, <2>1, <2>3, <3>1
    <3> QED BY <3>2, <3>3
  <2> QED BY <2>2, <2>3
<1>7. DOMAIN h = D
  BY <1>4
<1>8. D \subseteq Names
  BY <1>2, <1>3, <1>5 DEF IsPack, NewNames
<1>9. ASSUME NEW n \in D PROVE h[n] \in Seq(Line)
  <2>1. PICK f \in DOMAIN g : h[n] = Rewritten(g[f], local)
    BY <1>6
  <2>2. g[f] \in Seq(Line)
    BY DEF IsPack
  <2> QED BY <1>5, <2>1, <2>2, RewrittenShape
<1>10. IsPack(h)
  BY <1>7, <1>8, <1>9 DEF IsPack
<1>11. ASSUME NEW f \in DOMAIN g PROVE NewName(f, nm) \in D /\ NewName(f, local) = NewName(f, nm)
  BY <1>2, <1>3 DEF NewName
<1>12. ASSUME Within(g, S), NEW n \in D PROVE Mentions(h[n]) \subseteq D \cup S
  <2>1. PICK f \in DOMAIN g : h[n] = Rewritten(g[f], local)
    BY <1>6
  <2>2. g[f] \in Seq(Line)
    BY DEF IsPack
  <2> SUFFICES ASSUME NEW x \in Mentions(h[n]) PROVE x \in D \cup S
    OBVIOUS
  <2>3. PICK y \in Mentions(g[f]) : x = NewName(y, local)
    BY <1>5, <2>1, <2>2, RewrittenShape
  <2>4. y \in DOMAIN g \cup S
    BY <1>12 DEF Within
  <2>5. CASE y \in DOMAIN g
    BY <1>11, <2>3, <2>5
  <2>6. CASE y \notin DOMAIN g
    <3>1. y \in S /\ y \notin DOMAIN local
      BY <1>2, <2>4, <2>6
    <3>2. x = y
      BY <2>3, <3>1 DEF NewName
    <3> QED BY <3>1, <3>2
  <2> QED BY <2>5, <2>6
<1> QED BY <1>7, <1>10, <1>11, <1>12 DEF Within

-----------------------------------------------------------------------------
(* Builder::build                                                          *)

(* The functions of n units.                                               *)
IsUnits(ms, n) ==
  /\ n \in Nat \ {0} /\ ms = [m \in 1..n |-> ms[m]]
  /\ \A m \in 1..n : IsPack(ms[m])

(* The functions of all units.                                             *)
Homes(ms) == UNION {DOMAIN ms[m] : m \in DOMAIN ms}

(* There are n of them.                                                    *)
LEMMA UnitsLen ==
  ASSUME NEW ms, NEW n, IsUnits(ms, n)
  PROVE  DOMAIN ms = 1..n /\ Len(ms) = n
<1>1. n \in Nat /\ ms = [m \in 1..n |-> ms[m]]
  BY DEF IsUnits
<1>2. PICK X : X = {ms[m] : m \in 1..n}
  OBVIOUS
<1>3. ms \in [1..n -> X]
  BY <1>1, <1>2
<1>4. ms \in Seq(X)
  BY <1>1, <1>3
<1> QED BY <1>1, <1>3, <1>4

(* v is ms but for unit u, which is h.                                     *)
Differs(ms, n, u, h, v) == v[u] = h /\ \A m \in 1..n : m # u => v[m] = ms[m]

(* One unit changes.                                                       *)
LEMMA UnitChanged ==
  ASSUME NEW ms, NEW n, IsUnits(ms, n), NEW u \in 1..n, NEW h, IsPack(h), NEW v, v = [ms EXCEPT ![u] = h]
  PROVE  IsUnits(v, n) /\ Differs(ms, n, u, h, v)
<1>1. DOMAIN ms = 1..n
  BY UnitsLen
<1>2. DOMAIN v = 1..n /\ v[u] = h /\ \A m \in 1..n : m # u => v[m] = ms[m]
  BY <1>1
<1>3. v = [m \in 1..n |-> v[m]]
  BY <1>1
<1>4. \A m \in 1..n : IsPack(v[m])
  BY <1>2 DEF IsUnits
<1> QED BY <1>2, <1>3, <1>4 DEF IsUnits, Differs

(* Every function written is one of a unit.                                *)
LEMMA WrittenShape ==
  ASSUME NEW ms, NEW n, IsUnits(ms, n)
  PROVE  /\ DOMAIN Written(ms) = Homes(ms)
         /\ \A f \in Homes(ms) : \E m \in 1..n : f \in DOMAIN ms[m] /\ Written(ms)[f] = ms[m][f]
<1>1. DOMAIN ms = 1..n /\ n \in Nat
  BY UnitsLen DEF IsUnits
<1>2. DOMAIN Written(ms) = Homes(ms)
  BY DEF Written, Homes
<1>3. ASSUME NEW f \in Homes(ms) PROVE \E m \in 1..n : f \in DOMAIN ms[m] /\ Written(ms)[f] = ms[m][f]
  <2>1. PICK T : T = {m \in DOMAIN ms : f \in DOMAIN ms[m]}
    OBVIOUS
  <2>2. T \in SUBSET Nat /\ T # {} /\ BoundedBy(T, n)
    BY <1>1, <1>3, <2>1 DEF Homes, BoundedBy
  <2>3. Max(T) \in T
    BY <1>1, <2>2, MaxGreatest
  <2>4. PICK k : k = Max(T)
    OBVIOUS
  <2>5. Written(ms)[f] = ms[k][f]
    BY <2>1, <2>4 DEF Written, Homes
  <2> QED BY <1>1, <2>1, <2>3, <2>4, <2>5
<1> QED BY <1>2, <1>3

(* The files of units within S are.                                        *)
LEMMA WrittenWithin ==
  ASSUME NEW ms, NEW n, IsUnits(ms, n), NEW S
  PROVE  /\ IsPack(Written(ms))
         /\ (\A m \in 1..n : Within(ms[m], S)) => Within(Written(ms), S)
<1>1. PICK w : w = Written(ms)
  OBVIOUS
<1>2. DOMAIN w = Homes(ms) /\ \A f \in Homes(ms) : \E m \in 1..n : f \in DOMAIN ms[m] /\ w[f] = ms[m][f]
  BY <1>1, WrittenShape
<1>3. DOMAIN ms = 1..n
  BY UnitsLen
<1>4. \A m \in 1..n : DOMAIN ms[m] \subseteq Homes(ms)
  BY <1>3 DEF Homes
<1>5. IsPack(w)
  BY <1>2, <1>3 DEF IsPack, IsUnits, Homes
<1>6. ASSUME \A m \in 1..n : Within(ms[m], S), NEW f \in DOMAIN w
      PROVE  Mentions(w[f]) \subseteq DOMAIN w \cup S
  <2>1. PICK m \in 1..n : f \in DOMAIN ms[m] /\ w[f] = ms[m][f]
    BY <1>2, <1>6
  <2>2. Mentions(ms[m][f]) \subseteq DOMAIN ms[m] \cup S
    BY <1>6, <2>1 DEF Within
  <2> QED BY <1>2, <1>4, <2>1, <2>2
<1> QED BY <1>1, <1>5, <1>6 DEF Within

(* A file above others.                                                    *)
LEMMA OverShape ==
  ASSUME NEW g, NEW h
  PROVE  /\ DOMAIN Over(g, h) = DOMAIN g \cup DOMAIN h
         /\ \A f \in DOMAIN g : Over(g, h)[f] = g[f]
         /\ \A f \in DOMAIN h : f \notin DOMAIN g => Over(g, h)[f] = h[f]
         /\ IsPack(g) /\ IsPack(h) => IsPack(Over(g, h))
<1>1. /\ DOMAIN Over(g, h) = DOMAIN g \cup DOMAIN h
      /\ \A f \in DOMAIN g : Over(g, h)[f] = g[f]
      /\ \A f \in DOMAIN h : f \notin DOMAIN g => Over(g, h)[f] = h[f]
  BY DEF Over
<1>2. ASSUME IsPack(g), IsPack(h) PROVE IsPack(Over(g, h))
  <2>1. DOMAIN Over(g, h) \subseteq Names
    BY <1>1, <1>2 DEF IsPack
  <2>2. ASSUME NEW f \in DOMAIN Over(g, h) PROVE Over(g, h)[f] \in Seq(Line)
    <3>1. CASE f \in DOMAIN g
      BY <1>1, <1>2, <3>1 DEF IsPack
    <3>2. CASE f \notin DOMAIN g
      BY <1>1, <1>2, <2>2, <3>2 DEF IsPack
    <3> QED BY <3>1, <3>2
  <2> QED BY <2>1, <2>2 DEF IsPack
<1> QED BY <1>1, <1>2

(* A file of its own.                                                      *)
LEMMA FileShape ==
  ASSUME NEW f \in Names, NEW b \in Seq(Line)
  PROVE  IsPack(File(f, b)) /\ DOMAIN File(f, b) = {f} /\ File(f, b)[f] = b
BY DEF File, IsPack

-----------------------------------------------------------------------------
(* What the passes make of the functions of all units.                     *)

(* One unit changes and keeps its functions but those of D.                *)
LEMMA HomesChanged ==
  ASSUME NEW ms, NEW n, IsUnits(ms, n), NEW u \in 1..n, NEW h, IsPack(h), NEW v, v = [ms EXCEPT ![u] = h],
         NEW D, DOMAIN ms[u] \ D \subseteq DOMAIN h
  PROVE  Homes(ms) \ D \subseteq Homes(v)
<1>1. IsUnits(v, n) /\ v[u] = h /\ \A m \in 1..n : m # u => v[m] = ms[m]
  <2>1. IsUnits(v, n) /\ Differs(ms, n, u, h, v)
    BY UnitChanged
  <2> QED BY <2>1 DEF Differs
<1>2. DOMAIN v = 1..n /\ DOMAIN ms = 1..n
  BY <1>1, UnitsLen
<1>3. ASSUME NEW f \in Homes(ms), f \notin D PROVE f \in Homes(v)
  <2>1. PICK m \in 1..n : f \in DOMAIN ms[m]
    BY <1>2 DEF Homes
  <2>2. f \in DOMAIN v[m]
    BY <1>1, <1>3, <2>1
  <2> QED BY <1>2, <2>2 DEF Homes
<1> QED BY <1>3

(* All lines are simplified.                                               *)
LEMMA SimplifiedUnits ==
  ASSUME NEW ms, NEW n, IsUnits(ms, n), NEW S,
         NEW v, v = [m \in DOMAIN ms |-> [f \in DOMAIN ms[m] |-> Simplified(ms[m][f])]]
  PROVE  /\ IsUnits(v, n) /\ Homes(v) = Homes(ms)
         /\ (\A m \in 1..n : Within(ms[m], S)) => \A m \in 1..n : Within(v[m], S)
<1>1. DOMAIN ms = 1..n
  BY UnitsLen
<1>2. DOMAIN v = 1..n /\ v = [m \in 1..n |-> v[m]]
  BY <1>1
<1>3. ASSUME NEW m \in 1..n
      PROVE  IsPack(v[m]) /\ DOMAIN v[m] = DOMAIN ms[m] /\ (Within(ms[m], S) => Within(v[m], S))
  <2>1. v[m] = [f \in DOMAIN ms[m] |-> Simplified(ms[m][f])]
    BY <1>1
  <2>2. PICK g, h : g = ms[m] /\ h = v[m]
    OBVIOUS
  <2>3. IsPack(g) /\ h = [f \in DOMAIN g |-> Simplified(g[f])]
    BY <2>1, <2>2 DEF IsUnits
  <2>4. IsPack(h) /\ DOMAIN h = DOMAIN g /\ (Within(g, S) => Within(h, S))
    BY <2>3, SimplifiedWithin
  <2> QED BY <2>2, <2>4
<1>4. Homes(v) = Homes(ms)
  BY <1>1, <1>2, <1>3 DEF Homes
<1>5. IsUnits(v, n)
  BY <1>2, <1>3 DEF IsUnits
<1> QED BY <1>3, <1>4, <1>5

(* Functions get new names.                                                *)
LEMMA RenamedUnits ==
  ASSUME NEW ms, NEW n, IsUnits(ms, n), NEW S, NEW nm, NewNames(nm),
         NEW v, v = [m \in DOMAIN ms |-> Renamed(ms[m], nm)]
  PROVE  /\ IsUnits(v, n) /\ \A f \in Homes(ms) : NewName(f, nm) \in Homes(v)
         /\ (\A m \in 1..n : Within(ms[m], S)) => \A m \in 1..n : Within(v[m], S)
<1>1. DOMAIN ms = 1..n
  BY UnitsLen
<1>2. DOMAIN v = 1..n /\ v = [m \in 1..n |-> v[m]]
  BY <1>1
<1>3. ASSUME NEW m \in 1..n
      PROVE  /\ IsPack(v[m]) /\ \A f \in DOMAIN ms[m] : NewName(f, nm) \in DOMAIN v[m]
             /\ Within(ms[m], S) => Within(v[m], S)
  <2>1. PICK g, h : g = ms[m] /\ h = v[m]
    OBVIOUS
  <2>2. IsPack(g) /\ h = Renamed(g, nm)
    BY <1>1, <2>1 DEF IsUnits
  <2>3. /\ IsPack(h) /\ \A f \in DOMAIN g : NewName(f, nm) \in DOMAIN h
        /\ Within(g, S) => Within(h, S)
    BY <2>2, RenamedWithin
  <2> QED BY <2>1, <2>3
<1>4. ASSUME NEW f \in Homes(ms) PROVE NewName(f, nm) \in Homes(v)
  <2>1. PICK m \in 1..n : f \in DOMAIN ms[m]
    BY <1>1 DEF Homes
  <2> QED BY <1>2, <1>3, <2>1 DEF Homes
<1>5. IsUnits(v, n)
  BY <1>2, <1>3 DEF IsUnits
<1> QED BY <1>3, <1>4, <1>5

(* One unit changes and stays within S.                                    *)
LEMMA OneWithin ==
  ASSUME NEW ms, NEW n, IsUnits(ms, n), NEW u \in 1..n, NEW h, IsPack(h), NEW v, v = [ms EXCEPT ![u] = h],
         NEW S, \A m \in 1..n : Within(ms[m], S), Within(h, S)
  PROVE  \A m \in 1..n : Within(v[m], S)
<1>1. Differs(ms, n, u, h, v)
  BY UnitChanged
<1> QED BY <1>1 DEF Differs

-----------------------------------------------------------------------------
(***************************************************************************)
(* The invariant.                                                          *)
(***************************************************************************)
(* The generator has a name for the function that loads, and one for the   *)
(* static data: a bound of the model, where Generated ends.                *)
NamesLeft == phase = "build" => gen < Len(Generated)

(* What the compiler has in hand is of its kind.                           *)
Formed ==
  /\ prog \in Programs
  /\ IsUnits(maps, Len(prog.units))
  /\ IsPack(files)
  /\ {start, load} \subseteq Names \cup {NoName}
  /\ gen \in 1..(Len(Generated) + 1)
  /\ phase \in {"lines", "group", "inline", "dead", "rename", "build", "link", "done"}
  /\ unit \in 1..Len(prog.units)
  /\ changed \in BOOLEAN
  /\ internal \subseteq prog.internal /\ exported \subseteq prog.exported

(* The names that may go are functions until they get new names.           *)
Homed ==
  phase \in {"lines", "group", "inline", "dead", "rename"} => Prunable \subseteq Homes(maps)

(* Each edit still to be made has its call, the only one of its callee.    *)
EditsStand ==
  /\ edits \subseteq [callee : Names, at : Names, kind : {"standalone", "tail"}]
  /\ \A d \in edits : Solo(maps[unit], d) /\ d.callee \in Prunable /\ d.callee # start
  /\ \A d, e \in edits : d # e => Apart(d, e)
  /\ edits # {} => phase = "inline"

(* The invariant of the passes, the build and the link.                    *)
TInv == Formed /\ Homed /\ EditsStand

(* It has the type invariant in it.                                        *)
LEMMA TInvTypes == TInv => TypeOK
<1> SUFFICES ASSUME TInv PROVE TypeOK
  OBVIOUS
<1>1. DOMAIN maps = 1..Len(prog.units) /\ \A m \in 1..Len(prog.units) : IsPack(maps[m])
  BY UnitsLen DEF TInv, Formed, IsUnits
<1>2. Homes(maps) = UNION {DOMAIN maps[m] : m \in DOMAIN maps}
  BY DEF Homes
<1> QED BY <1>1, <1>2 DEF TInv, Formed, Homed, EditsStand, TypeOK

(* A program is what ProgramsAssumption says.                              *)
LEMMA ProgramShape ==
  ASSUME NEW p \in Programs
  PROVE  /\ IsUnits(p.units, Len(p.units)) /\ IsPack(p.extra)
         /\ p.internal \subseteq Homes(p.units) /\ p.exported \subseteq Homes(p.units)
         /\ p.start \in Homes(p.units) \cup {NoName} /\ Homes(p.units) \subseteq Names
         /\ \A i, j \in 1..Len(p.units) : i # j => DOMAIN p.units[i] \cap DOMAIN p.units[j] = {}
<1>1. IsProgram(p) /\ p.units # <<>>
      /\ \A i, j \in DOMAIN p.units : i # j => DOMAIN p.units[i] \cap DOMAIN p.units[j] = {}
  BY ProgramsAssumption
<1>2. PICK X : X = Range(p.units)
  OBVIOUS
<1>3. PICK ms : ms = p.units
  OBVIOUS
<1>4. ms \in Seq(X) /\ ms # <<>> /\ \A i \in DOMAIN ms : IsPack(ms[i])
  BY <1>1, <1>2, <1>3 DEF IsProgram
<1>5. DOMAIN ms = 1..Len(ms) /\ Len(ms) \in Nat \ {0} /\ ms = [m \in 1..Len(ms) |-> ms[m]]
  BY <1>4
<1>6. IsUnits(ms, Len(ms))
  BY <1>4, <1>5 DEF IsUnits
<1>7. Homes(ms) = UNION {DOMAIN p.units[i] : i \in DOMAIN p.units}
  BY <1>3 DEF Homes
<1>8. Homes(ms) \subseteq Names
  BY <1>4 DEF Homes, IsPack
<1> QED BY <1>1, <1>3, <1>5, <1>6, <1>7, <1>8 DEF IsProgram

(* The invariant holds at first.                                           *)
LEMMA Initially == Init => TInv
<1> SUFFICES ASSUME Init PROVE TInv
  OBVIOUS
<1>1. prog \in Programs /\ maps = prog.units
  BY DEF Init
<1>2. /\ IsUnits(maps, Len(prog.units))
      /\ prog.internal \subseteq Homes(maps) /\ prog.exported \subseteq Homes(maps)
      /\ prog.start \in Homes(maps) \cup {NoName} /\ Homes(maps) \subseteq Names
  BY <1>1, ProgramShape
<1>3. Len(prog.units) \in Nat \ {0} /\ 1 \in 1..Len(prog.units)
  <2>1. Len(prog.units) \in Nat \ {0}
    BY <1>2 DEF IsUnits
  <2>2. \A n \in Nat \ {0} : 1 \in 1..n
    OBVIOUS
  <2> QED BY <2>1, <2>2, Zenon
<1>4. IsPack(NoFiles)
  BY DEF IsPack, NoFiles
<1>5. Len(Generated) \in Nat /\ 1 \in 1..(Len(Generated) + 1)
  BY NamesAssumption
<1>6. phase \in {"lines", "group", "inline", "dead", "rename", "build", "link", "done"}
  BY DEF Init, AfterPasses
<1>7. Formed
  BY <1>1, <1>2, <1>3, <1>4, <1>5, <1>6 DEF Init, Formed
<1>8. Homed
  BY <1>2 DEF Init, Homed, Prunable
<1>9. EditsStand
  BY DEF Init, EditsStand
<1> QED BY <1>7, <1>8, <1>9 DEF TInv

(* Where a pass goes from a unit.                                          *)
LEMMA UnitNext ==
  ASSUME TInv, NEW next, NextUnit(next)
  PROVE  unit' \in 1..Len(prog.units) /\ phase' \in {phase, next}
<1>1. Len(maps) = Len(prog.units) /\ Len(prog.units) \in Nat \ {0} /\ unit \in 1..Len(prog.units)
  BY UnitsLen DEF TInv, Formed, IsUnits
<1>2. CASE unit < Len(maps)
  BY <1>1, <1>2 DEF NextUnit
<1>3. CASE ~(unit < Len(maps))
  BY <1>1, <1>3 DEF NextUnit
<1> QED BY <1>2, <1>3

(* Without edits there is nothing to say of them.                          *)
LEMMA NoEdits ==
  ASSUME edits' = {}
  PROVE  EditsStand'
BY DEF EditsStand

(* Edits are there while functions are inlined only.                       *)
LEMMA EditsWhen ==
  ASSUME TInv, phase # "inline"
  PROVE  edits = {}
BY DEF TInv, EditsStand

-----------------------------------------------------------------------------
(* Every action keeps the invariant.                                       *)

(* What the passes leave alone stays well formed.                          *)
LEMMA FormedKept ==
  ASSUME TInv, prog' = prog, IsUnits(maps', Len(prog.units)), files' = files, load' = load,
         start' \in Names \cup {NoName}, gen' \in 1..(Len(Generated) + 1),
         phase' \in {"lines", "group", "inline", "dead", "rename", "build", "link", "done"},
         unit' \in 1..Len(prog.units), changed' \in BOOLEAN,
         internal' \subseteq internal, exported' \subseteq exported
  PROVE  Formed'
BY DEF TInv, Formed

(* The name after those that were taken.                                   *)
LEMMA NextName ==
  ASSUME gen \in 1..(Len(Generated) + 1), NEW T, T \subseteq gen..Len(Generated)
  PROVE  Max({gen - 1} \cup T) + 1 \in 1..(Len(Generated) + 1)
<1>1. PICK n : n = Len(Generated) /\ n \in Nat
  BY NamesAssumption
<1>2. PICK U : U = {gen - 1} \cup T
  OBVIOUS
<1>3. U \in SUBSET Nat /\ U # {} /\ BoundedBy(U, n)
  BY <1>1, <1>2 DEF BoundedBy
<1>4. Max(U) \in U
  BY <1>1, <1>3, MaxGreatest
<1>5. \A x \in U : x + 1 \in 1..(n + 1)
  BY <1>1, <1>2
<1> QED BY <1>1, <1>2, <1>4, <1>5

(* Simplified lines leave every function where it is.                      *)
LEMMA SimplifyLinesTypes ==
  ASSUME TInv, SimplifyLines
  PROVE  TInv'
<1>1. phase = "lines" /\ phase' = "group" /\ edits' = {}
  BY EditsWhen DEF SimplifyLines
<1>2. PICK v : v = maps'
  OBVIOUS
<1>3. v = [m \in DOMAIN maps |-> [f \in DOMAIN maps[m] |-> Simplified(maps[m][f])]]
  BY <1>2 DEF SimplifyLines
<1>4. IsUnits(maps, Len(prog.units))
  BY DEF TInv, Formed
<1>5. IsUnits(v, Len(prog.units)) /\ Homes(v) = Homes(maps)
  BY <1>3, <1>4, SimplifiedUnits
<1>6. /\ prog' = prog /\ files' = files /\ load' = load /\ start' = start /\ gen' = gen
      /\ unit' = unit /\ changed' = changed /\ internal' = internal /\ exported' = exported
  BY DEF SimplifyLines, context
<1>7. Formed'
  BY <1>1, <1>2, <1>5, <1>6, FormedKept DEF TInv, Formed
<1>8. Homed'
  BY <1>1, <1>2, <1>5, <1>6 DEF TInv, Homed, Prunable
<1> QED BY <1>1, <1>7, <1>8, NoEdits DEF TInv

(* Helpers join the functions of a unit, and take the next names.          *)
LEMMA GroupExecutesTypes ==
  ASSUME TInv, GroupExecutes
  PROVE  TInv'
<1>1. phase = "group" /\ edits' = {}
  BY EditsWhen DEF GroupExecutes
<1>2. PICK g : g = maps[unit]
  OBVIOUS
<1>3. PICK nm \in HelperNumbers(g) :
        /\ maps' = [maps EXCEPT ![unit] = WithHelpers(g, nm)]
        /\ gen' = Max({gen - 1} \cup Range(nm)) + 1
  BY <1>2 DEF GroupExecutes
<1>4. PICK h : h = WithHelpers(g, nm)
  OBVIOUS
<1>5. PICK v : v = maps'
  OBVIOUS
<1>6. IsUnits(maps, Len(prog.units)) /\ unit \in 1..Len(prog.units) /\ gen \in 1..(Len(Generated) + 1)
  BY DEF TInv, Formed
<1>7. IsPack(g)
  BY <1>2, <1>6 DEF IsUnits
<1>8. IsPack(h) /\ DOMAIN g \subseteq DOMAIN h
  BY <1>4, <1>6, <1>7, GroupedWithin
<1>9. v = [maps EXCEPT ![unit] = h]
  BY <1>3, <1>4, <1>5
<1>10. IsUnits(v, Len(prog.units))
  BY <1>6, <1>8, <1>9, UnitChanged
<1>11. Homes(maps) \ {} \subseteq Homes(v)
  <2>1. DOMAIN maps[unit] \ {} \subseteq DOMAIN h
    BY <1>2, <1>8
  <2> QED BY <1>6, <1>8, <1>9, <2>1, HomesChanged
<1>12. Range(nm) \subseteq gen..Len(Generated)
  <2>1. \A x \in DOMAIN nm : nm[x] \in gen..Len(Generated)
    BY <1>6, NumbersShape
  <2> QED BY <2>1 DEF Range
<1>13. gen' \in 1..(Len(Generated) + 1)
  BY <1>3, <1>6, <1>12, NextName
<1>14. unit' \in 1..Len(prog.units) /\ phase' \in {"group", "inline"}
  <2>1. NextUnit("inline")
    BY DEF GroupExecutes
  <2> QED BY <1>1, <2>1, UnitNext
<1>15. /\ prog' = prog /\ files' = files /\ load' = load /\ start' = start
       /\ changed' = changed /\ internal' = internal /\ exported' = exported
  BY DEF GroupExecutes, context
<1>16. Formed'
  BY <1>5, <1>10, <1>13, <1>14, <1>15, FormedKept DEF TInv, Formed
<1>17. Homed'
  BY <1>1, <1>5, <1>11, <1>14, <1>15 DEF TInv, Homed, Prunable
<1> QED BY <1>1, <1>16, <1>17, NoEdits DEF TInv

(* The edits of a round are candidates, and do not meet.                   *)
LEMMA InlineScanTypes ==
  ASSUME TInv, InlineScan
  PROVE  TInv'
<1>1. phase = "inline"
  BY DEF InlineScan
<1>2. /\ prog' = prog /\ maps' = maps /\ files' = files /\ load' = load /\ start' = start /\ gen' = gen
      /\ internal' = internal /\ exported' = exported
  BY DEF InlineScan, context
<1>3. IsUnits(maps', Len(prog.units)) /\ unit \in 1..Len(prog.units)
  BY <1>2 DEF TInv, Formed
<1>4. CASE NextUnit("dead") /\ changed' = TRUE /\ edits' = edits /\ edits = {}
  <2>1. unit' \in 1..Len(prog.units) /\ phase' \in {"inline", "dead"}
    BY <1>1, <1>4, UnitNext
  <2>2. Formed'
    BY <1>2, <1>3, <1>4, <2>1, FormedKept DEF TInv, Formed
  <2>3. Homed'
    BY <1>1, <1>2, <2>1 DEF TInv, Homed, Prunable
  <2> QED BY <1>4, <2>2, <2>3, NoEdits DEF TInv
<1>5. CASE edits' \in Rounds(maps[unit]) /\ changed' = FALSE /\ UNCHANGED <<unit, phase>>
  <2>1. Formed'
    BY <1>1, <1>2, <1>3, <1>5, FormedKept DEF TInv, Formed
  <2>2. Homed'
    BY <1>1, <1>2, <1>5 DEF TInv, Homed, Prunable
  <2>3. PICK g : g = maps[unit]
    OBVIOUS
  <2>4. IsPack(g)
    BY <1>2, <1>3, <2>3 DEF IsUnits
  <2>5. PICK E \in Rounds(g) : E = edits'
    BY <1>5, <2>3
  <2>6. ASSUME NEW d \in E PROVE d \in Candidates(g)
    BY <2>6 DEF Rounds, Leaves
  <2>7. ASSUME NEW d \in E
        PROVE  Solo(g, d) /\ d.callee \in Prunable /\ d.callee # start
    BY <2>4, <2>6, CandidateSolo
  <2>8. E \subseteq [callee : Names, at : Names, kind : {"standalone", "tail"}]
    BY <2>4, <2>6 DEF Candidates, IsPack
  <2>9. ASSUME NEW d \in E, NEW e \in E, d # e PROVE Apart(d, e)
    BY <2>4, <2>9, RoundApart
  <2>10. Prunable' = Prunable /\ maps'[unit'] = g
    BY <1>2, <1>5, <2>3 DEF Prunable
  <2>11. EditsStand'
    BY <1>1, <1>2, <1>5, <2>5, <2>7, <2>8, <2>9, <2>10 DEF EditsStand
  <2> QED BY <2>1, <2>2, <2>11 DEF TInv
<1> QED BY <1>4, <1>5 DEF InlineScan

(* The end of the rounds changes no function.                              *)
LEMMA InlineStableTypes ==
  ASSUME TInv, InlineStable
  PROVE  TInv'
<1>1. phase = "inline" /\ edits' = {} /\ changed' = TRUE
  BY DEF InlineStable
<1>2. /\ prog' = prog /\ maps' = maps /\ files' = files /\ load' = load /\ start' = start /\ gen' = gen
      /\ internal' = internal /\ exported' = exported
  BY DEF InlineStable, context
<1>3. unit' \in 1..Len(prog.units) /\ phase' \in {"inline", "dead"}
  <2>1. NextUnit("dead")
    BY DEF InlineStable
  <2> QED BY <1>1, <2>1, UnitNext
<1>4. Formed'
  BY <1>1, <1>2, <1>3, FormedKept DEF TInv, Formed
<1>5. Homed'
  BY <1>1, <1>2, <1>3 DEF TInv, Homed, Prunable
<1> QED BY <1>1, <1>4, <1>5, NoEdits DEF TInv

(* A pass that is skipped changes no function.                             *)
LEMMA NothingToPruneTypes ==
  ASSUME TInv, NothingToPrune
  PROVE  TInv'
<1>1. edits' = {} /\ Prunable = {} /\ phase' \in {"dead", "rename", "build"}
  BY DEF NothingToPrune, AfterPasses
<1>2. /\ prog' = prog /\ maps' = maps /\ files' = files /\ load' = load /\ start' = start /\ gen' = gen
      /\ internal' = internal /\ exported' = exported /\ unit' = unit /\ changed' = changed
  BY DEF NothingToPrune, context
<1>3. Formed'
  BY <1>1, <1>2, FormedKept DEF TInv, Formed
<1>4. Homed'
  BY <1>1, <1>2 DEF Homed, Prunable
<1> QED BY <1>1, <1>3, <1>4, NoEdits DEF TInv

(* A dead function is dropped from its unit and from the context.          *)
LEMMA EliminateDeadTypes ==
  ASSUME TInv, EliminateDead
  PROVE  TInv'
<1>1. phase = "dead" /\ edits' = {}
  BY EditsWhen DEF EliminateDead
<1>2. PICK g, D : g = maps[unit] /\ D = Dead(maps[unit])
  OBVIOUS
<1>3. maps' = [maps EXCEPT ![unit] = Without(g, D)] /\ Forget(D)
  BY <1>2 DEF EliminateDead
<1>4. PICK h : h = Without(g, D)
  OBVIOUS
<1>5. PICK v : v = maps'
  OBVIOUS
<1>6. IsUnits(maps, Len(prog.units)) /\ unit \in 1..Len(prog.units)
  BY DEF TInv, Formed
<1>7. IsPack(g)
  BY <1>2, <1>6 DEF IsUnits
<1>8. IsPack(h) /\ DOMAIN h = DOMAIN g \ D
  <2>1. h = Without(g, Dead(g)) /\ {} \cap Prunable = {}
    BY <1>2, <1>4
  <2>2. IsPack(h) /\ DOMAIN h = DOMAIN g \ Dead(g)
    BY <1>7, <2>1, DeadWithin
  <2> QED BY <1>2, <2>2
<1>9. v = [maps EXCEPT ![unit] = h]
  BY <1>3, <1>4, <1>5
<1>10. IsUnits(v, Len(prog.units))
  BY <1>6, <1>8, <1>9, UnitChanged
<1>11. Homes(maps) \ D \subseteq Homes(v)
  <2>1. DOMAIN maps[unit] \ D \subseteq DOMAIN h
    BY <1>2, <1>8
  <2> QED BY <1>6, <1>8, <1>9, <2>1, HomesChanged
<1>12. unit' \in 1..Len(prog.units) /\ phase' \in {"dead", AfterPasses}
  <2>1. NextUnit(AfterPasses)
    BY DEF EliminateDead
  <2> QED BY <1>1, <2>1, UnitNext
<1>13. /\ prog' = prog /\ files' = files /\ load' = load /\ start' = start /\ gen' = gen
       /\ changed' = changed /\ internal' = internal \ D /\ exported' = exported \ D
  BY <1>3 DEF EliminateDead, Forget
<1>14. phase' \in {"dead", "rename", "build"}
  BY <1>12 DEF AfterPasses
<1>15. Formed'
  BY <1>5, <1>10, <1>12, <1>13, <1>14, FormedKept DEF TInv, Formed
<1>16. Homed'
  BY <1>1, <1>5, <1>11, <1>13 DEF TInv, Homed, Prunable
<1> QED BY <1>1, <1>15, <1>16, NoEdits DEF TInv

(* What is known of the edit e, which is made next, in g.                  *)
EditAt(e, g) ==
  /\ e \in edits /\ g = maps[unit] /\ IsPack(g) /\ Solo(g, e)
  /\ e.kind \in {"standalone", "tail"} /\ e.callee \in Prunable /\ e.callee # start

(* h is g with that edit made.                                             *)
MadeAt(e, g, h) ==
  \E k \in 1..Len(g[e.at]) :
    e.callee \in NamesIn(g[e.at][k]) /\ h = Edited(g, e, k)

(* InlineEdit makes an edit, or finds that it cannot.                      *)
LEMMA EditMade ==
  ASSUME TInv, InlineEdit
  PROVE  \E e, g :
           /\ EditAt(e, g) /\ edits' = edits \ {e}
           /\ \/ UNCHANGED <<maps, internal, exported, changed>>
              \/ /\ changed' = TRUE /\ Forget({e.callee})
                 /\ \E h : MadeAt(e, g, h) /\ maps' = [maps EXCEPT ![unit] = h]
<1>1. PICK e \in edits :
        LET g == maps[unit]
            spots == {k \in DOMAIN g[e.at] : e.callee \in NamesIn(g[e.at][k])}
        IN /\ edits' = edits \ {e}
           /\ IF {e.callee, e.at} \subseteq DOMAIN g /\ spots # {}
              THEN /\ \E k \in spots :
                        /\ \A j \in spots : k <= j
                        /\ maps' = [maps EXCEPT ![unit] =
                             Without([g EXCEPT ![e.at] =
                                        Replaced(@, k, Inlined(g[e.callee], e.kind))], {e.callee})]
                   /\ Forget({e.callee})
                   /\ changed' = TRUE
              ELSE UNCHANGED <<maps, internal, exported, changed>>
  BY DEF InlineEdit
<1>2. PICK g : g = maps[unit]
  OBVIOUS
<1>3. IsPack(g)
  BY <1>2 DEF TInv, Formed, IsUnits
<1>4. Solo(g, e) /\ e.callee \in Prunable /\ e.callee # start
  BY <1>2 DEF TInv, EditsStand
<1>5. e.kind \in {"standalone", "tail"}
  BY DEF TInv, EditsStand
<1>6. EditAt(e, g)
  BY <1>2, <1>3, <1>4, <1>5 DEF EditAt
<1>7. PICK spots : spots = {k \in DOMAIN g[e.at] : e.callee \in NamesIn(g[e.at][k])}
  OBVIOUS
<1>8. CASE {e.callee, e.at} \subseteq DOMAIN g /\ spots # {}
  <2>1. PICK k \in spots : maps' = [maps EXCEPT ![unit] = Edited(g, e, k)]
    BY <1>1, <1>2, <1>7, <1>8 DEF Edited
  <2>2. edits' = edits \ {e} /\ Forget({e.callee}) /\ changed' = TRUE
    BY <1>1, <1>2, <1>7, <1>8
  <2>3. k \in 1..Len(g[e.at]) /\ e.callee \in NamesIn(g[e.at][k])
    BY <1>3, <1>7, <1>8 DEF IsPack
  <2>4. MadeAt(e, g, Edited(g, e, k))
    BY <2>3 DEF MadeAt
  <2> QED BY <1>6, <2>1, <2>2, <2>4
<1>9. CASE ~({e.callee, e.at} \subseteq DOMAIN g /\ spots # {})
  <2>1. edits' = edits \ {e} /\ UNCHANGED <<maps, internal, exported, changed>>
    BY <1>1, <1>2, <1>7, <1>9
  <2> QED BY <1>6, <2>1
<1> QED BY <1>8, <1>9

(* An edit drops its callee from the unit and from the context, and leaves *)
(* the other edits their calls.                                            *)
LEMMA InlineEditTypes ==
  ASSUME TInv, InlineEdit
  PROVE  TInv'
<1>1. PICK e, g :
        /\ EditAt(e, g) /\ edits' = edits \ {e}
        /\ \/ UNCHANGED <<maps, internal, exported, changed>>
           \/ /\ changed' = TRUE /\ Forget({e.callee})
              /\ \E h : MadeAt(e, g, h) /\ maps' = [maps EXCEPT ![unit] = h]
  BY EditMade
<1>2. /\ e \in edits /\ g = maps[unit] /\ IsPack(g) /\ Solo(g, e)
      /\ e.kind \in {"standalone", "tail"} /\ e.callee \in Prunable /\ e.callee # start
  BY <1>1 DEF EditAt
<1>3. /\ prog' = prog /\ files' = files /\ load' = load /\ start' = start /\ gen' = gen
      /\ unit' = unit /\ phase' = phase /\ phase = "inline"
  BY DEF InlineEdit
<1>4. IsUnits(maps, Len(prog.units)) /\ unit \in 1..Len(prog.units)
  BY DEF TInv, Formed
<1>5. /\ edits' \subseteq edits /\ e \notin edits'
      /\ edits' \subseteq [callee : Names, at : Names, kind : {"standalone", "tail"}]
      /\ \A d, c \in edits' : d # c => Apart(d, c)
  BY <1>1 DEF TInv, EditsStand
<1>6. \A d \in edits' : /\ Solo(g, d) /\ d.callee \in Prunable /\ d.callee # start
                        /\ Apart(d, e)
  BY <1>2, <1>5 DEF TInv, EditsStand
<1>7. CASE UNCHANGED <<maps, internal, exported, changed>>
  <2>1. Formed'
    BY <1>3, <1>4, <1>7, FormedKept DEF TInv, Formed
  <2>2. Homed'
    BY <1>3, <1>7 DEF TInv, Homed, Prunable
  <2>3. Prunable' = Prunable /\ maps'[unit'] = g
    BY <1>2, <1>3, <1>7 DEF Prunable
  <2>4. EditsStand'
    BY <1>3, <1>5, <1>6, <2>3 DEF EditsStand
  <2> QED BY <2>1, <2>2, <2>4 DEF TInv
<1>8. CASE /\ changed' = TRUE /\ Forget({e.callee})
           /\ \E h : MadeAt(e, g, h) /\ maps' = [maps EXCEPT ![unit] = h]
  <2>1. PICK h : MadeAt(e, g, h) /\ maps' = [maps EXCEPT ![unit] = h]
    BY <1>8
  <2>2. PICK k \in 1..Len(g[e.at]) : e.callee \in NamesIn(g[e.at][k]) /\ h = Edited(g, e, k)
    BY <2>1 DEF MadeAt
  <2>3. IsEdited(g, e, k, h)
    BY <1>2, <2>2, EditedShape
  <2>4. IsPack(h) /\ DOMAIN h = DOMAIN g \ {e.callee}
    BY <2>3 DEF IsEdited
  <2>5. PICK v : v = maps'
    OBVIOUS
  <2>6. v = [maps EXCEPT ![unit] = h]
    BY <2>1, <2>5
  <2>7. IsUnits(v, Len(prog.units)) /\ Differs(maps, Len(prog.units), unit, h, v)
    BY <1>4, <2>4, <2>6, UnitChanged
  <2>8. Homes(maps) \ {e.callee} \subseteq Homes(v)
    <3>1. PICK D : D = {e.callee}
      OBVIOUS
    <3>2. DOMAIN maps[unit] \ D \subseteq DOMAIN h
      BY <1>2, <2>4, <3>1
    <3>3. IsPack(h)
      BY <2>4
    <3>4. Homes(maps) \ D \subseteq Homes(v)
      BY <1>4, <2>6, <3>2, <3>3, HomesChanged
    <3> QED BY <3>1, <3>4
  <2>9. internal' = internal \ {e.callee} /\ exported' = exported \ {e.callee}
    BY <1>8 DEF Forget
  <2>10. Prunable' = Prunable \ {e.callee}
    BY <2>9 DEF Prunable
  <2>11. Formed'
    BY <1>3, <1>4, <1>8, <2>5, <2>7, <2>9, FormedKept DEF TInv, Formed
  <2>12. Prunable \subseteq Homes(maps)
    BY <1>3 DEF TInv, Homed
  <2>13. Homed'
    BY <2>5, <2>8, <2>10, <2>12 DEF Homed
  <2>14. ASSUME NEW d \in edits' PROVE Solo(h, d)
    <3>1. Solo(g, d) /\ Apart(d, e)
      BY <1>6
    <3> QED BY <1>2, <2>2, <3>1, EditedSolo
  <2>15. maps'[unit'] = h
    BY <1>3, <2>5, <2>7 DEF Differs
  <2>16. \A d \in edits' : d.callee \in Prunable' /\ d.callee # start'
    BY <1>3, <1>6, <2>10 DEF Apart
  <2>17. EditsStand'
    BY <1>3, <1>5, <2>14, <2>15, <2>16 DEF EditsStand
  <2> QED BY <2>11, <2>13, <2>17 DEF TInv
<1> QED BY <1>1, <1>7, <1>8

(* What a step of Rename does.                                             *)
LEMMA RenameDone ==
  ASSUME TInv, Rename
  PROVE  /\ gen' \in 1..(Len(Generated) + 1)
         /\ \E nm : /\ NewNames(nm) /\ DOMAIN nm = internal /\ start' = NewName(start, nm)
                    /\ maps' = [m \in DOMAIN maps |-> Renamed(maps[m], nm)]
<1>1. PICK I \in SUBSET (gen..Len(Generated)) :
        /\ \E nm \in Namings(I) :
             /\ maps' = [m \in DOMAIN maps |-> Renamed(maps[m], nm)]
             /\ start' = NewStart(nm)
        /\ gen' = Max({gen - 1} \cup I) + 1
  BY DEF Rename
<1>2. gen \in 1..(Len(Generated) + 1)
  BY DEF TInv, Formed
<1>3. gen' \in 1..(Len(Generated) + 1)
  BY <1>1, <1>2, NextName
<1>4. PICK nm \in Namings(I) :
        /\ maps' = [m \in DOMAIN maps |-> Renamed(maps[m], nm)]
        /\ start' = NewStart(nm)
  BY <1>1
<1>5. nm \in [internal -> {Generated[i] : i \in I}]
  BY DEF Namings
<1>6. \A i \in I : Generated[i] \in Names
  BY <1>2, NamesAssumption
<1>7. NewNames(nm)
  BY <1>5, <1>6 DEF NewNames
<1>8. start' = NewName(start, nm)
  BY <1>4, <1>5 DEF NewStart, NewName
<1> QED BY <1>3, <1>4, <1>5, <1>7, <1>8

(* New names are names.                                                    *)
LEMMA RenameTypes ==
  ASSUME TInv, Rename
  PROVE  TInv'
<1>1. PICK nm : /\ NewNames(nm) /\ DOMAIN nm = internal /\ start' = NewName(start, nm)
                /\ maps' = [m \in DOMAIN maps |-> Renamed(maps[m], nm)]
  BY RenameDone
<1>2. PICK v : v = maps'
  OBVIOUS
<1>3. IsUnits(maps, Len(prog.units)) /\ start \in Names \cup {NoName}
  BY DEF TInv, Formed
<1>4. v = [m \in DOMAIN maps |-> Renamed(maps[m], nm)]
  BY <1>1, <1>2
<1>5. IsUnits(v, Len(prog.units))
  BY <1>1, <1>3, <1>4, RenamedUnits
<1>6. start' \in Names \cup {NoName}
  BY <1>1, <1>3 DEF NewName, NewNames
<1>7. phase = "rename" /\ phase' = "build" /\ edits' = {}
  BY EditsWhen DEF Rename
<1>8. /\ prog' = prog /\ files' = files /\ load' = load /\ changed' = changed /\ unit' = unit
      /\ internal' = internal /\ exported' = exported
  BY DEF Rename
<1>9. gen' \in 1..(Len(Generated) + 1)
  BY RenameDone
<1>10. Formed'
  BY <1>2, <1>5, <1>6, <1>7, <1>8, <1>9, FormedKept DEF TInv, Formed
<1>11. Homed'
  BY <1>7 DEF Homed
<1> QED BY <1>7, <1>10, <1>11, NoEdits DEF TInv

(* A line that mentions f alone, or nothing.                               *)
LEMMA ScheduleShape ==
  ASSUME NEW f \in Names
  PROVE  Schedule(f) \in Seq(Line) /\ Mentions(Schedule(f)) \subseteq {f}
<1>1. PICK l : l = [on |-> <<>>, cmd |-> "sched", f |-> f]
  OBVIOUS
<1>2. l \in Line
  <2>1. <<>> \in Seq(Clause)
    OBVIOUS
  <2> QED BY <1>1, <2>1 DEF Line, Mentioning
<1>3. PICK b : b = Schedule(f)
  OBVIOUS
<1>4. b = <<l>>
  BY <1>1, <1>3 DEF Schedule
<1>5. b \in Seq(Line) /\ Len(b) = 1 /\ b[1] = l
  BY <1>2, <1>4
<1>6. ASSUME NEW x \in NamesIn(l) PROVE x = f
  <2>1. l.on = <<>> /\ Len(l.on) = 0 /\ l.f = f
    BY <1>1
  <2>2. \A j \in 1..Len(l.on) : FALSE
    BY <2>1
  <2> QED BY <1>2, <2>1, <2>2, NamesOf
<1>7. ASSUME NEW x \in Mentions(b) PROVE x = f
  <2>1. PICK k \in 1..Len(b) : x \in NamesIn(b[k])
    BY <1>5, <1>7, MentionsOf
  <2>2. b[k] = l
    BY <1>5
  <2> QED BY <1>6, <2>1, <2>2
<1> QED BY <1>3, <1>5, <1>7

(* Two texts, one behind the other.                                        *)
LEMMA BothMention ==
  ASSUME NEW b \in Seq(Line), NEW c \in Seq(Line), NEW X, Mentions(b) \subseteq X, Mentions(c) \subseteq X
  PROVE  b \o c \in Seq(Line) /\ Mentions(b \o c) \subseteq X
<1>1. PICK d : d = b \o c
  OBVIOUS
<1>2. /\ d \in Seq(Line) /\ Len(d) = Len(b) + Len(c)
      /\ \A i \in 1..Len(b) : d[i] = b[i]
      /\ \A i \in 1..Len(c) : d[Len(b) + i] = c[i]
  BY <1>1, ConcatShape
<1>3. Len(b) \in Nat /\ Len(c) \in Nat
  OBVIOUS
<1>4. ASSUME NEW x \in Mentions(d) PROVE x \in X
  <2>1. PICK k \in 1..Len(d) : x \in NamesIn(d[k])
    BY <1>2, <1>4, MentionsOf
  <2>2. CASE k <= Len(b)
    <3>1. k \in 1..Len(b) /\ d[k] = b[k]
      BY <1>2, <1>3, <2>2
    <3> QED BY <2>1, <3>1, MentionsOf
  <2>3. CASE ~(k <= Len(b))
    <3>1. PICK i : i = k - Len(b)
      OBVIOUS
    <3>2. i \in 1..Len(c) /\ k = Len(b) + i
      BY <1>2, <1>3, <2>3, <3>1
    <3>3. d[k] = c[i]
      BY <1>2, <3>2
    <3> QED BY <2>1, <3>2, <3>3, MentionsOf
  <2> QED BY <2>2, <2>3
<1> QED BY <1>1, <1>2, <1>4

(* The function that loads mentions the VM's, the one with static data if  *)
(* there is any, and _start.                                               *)
LEMMA OnLoadShape ==
  ASSUME NEW data \in Names, start \in Names \cup {NoName}
  PROVE  /\ OnLoad(data) \in Seq(Line)
         /\ Mentions(OnLoad(data)) \subseteq
              {InitVm} \cup (IF prog.statics THEN {data} ELSE {}) \cup ({start} \ {NoName})
<1>1. PICK X : X = {InitVm} \cup (IF prog.statics THEN {data} ELSE {}) \cup ({start} \ {NoName})
  OBVIOUS
<1>2. PICK e : e = <<>> /\ e \in Seq(Line) /\ Len(e) = 0
  <2>1. <<>> \in Seq(Line) /\ Len(<<>>) = 0
    OBVIOUS
  <2> QED BY <2>1, Zenon
<1>3. Mentions(e) \subseteq X
  <2> SUFFICES ASSUME NEW x \in Mentions(e) PROVE FALSE
    OBVIOUS
  <2>1. PICK k \in 1..Len(e) : x \in NamesIn(e[k])
    BY <1>2, MentionsOf
  <2> QED BY <1>2, <2>1
<1>4. PICK a : a = Schedule(InitVm)
  OBVIOUS
<1>5. a \in Seq(Line) /\ Mentions(a) \subseteq X
  <2>1. InitVm \in Names
    BY StdlibAssumption DEF IsPack
  <2> QED BY <1>1, <1>4, <2>1, ScheduleShape
<1>6. PICK b : b = IF prog.statics THEN Schedule(data) ELSE <<>>
  OBVIOUS
<1>7. b \in Seq(Line) /\ Mentions(b) \subseteq X
  <2>1. CASE prog.statics
    BY <1>1, <1>6, <2>1, ScheduleShape
  <2>2. CASE ~prog.statics
    <3>1. b = e
      BY <1>2, <1>6, <2>2
    <3> QED BY <1>2, <1>3, <3>1
  <2> QED BY <2>1, <2>2
<1>8. PICK c : c = IF start = NoName THEN <<>> ELSE Schedule(start)
  OBVIOUS
<1>9. c \in Seq(Line) /\ Mentions(c) \subseteq X
  <2>1. CASE start = NoName
    <3>1. c = e
      BY <1>2, <1>8, <2>1
    <3> QED BY <1>2, <1>3, <3>1
  <2>2. CASE start # NoName
    BY <1>1, <1>8, <2>2, ScheduleShape
  <2> QED BY <2>1, <2>2
<1>10. PICK d : d = a \o b
  OBVIOUS
<1>11. d \in Seq(Line) /\ Mentions(d) \subseteq X
  BY <1>5, <1>7, <1>10, BothMention
<1>12. d \o c \in Seq(Line) /\ Mentions(d \o c) \subseteq X
  BY <1>9, <1>11, BothMention
<1>13. OnLoad(data) = d \o c
  BY <1>4, <1>6, <1>8, <1>10 DEF OnLoad
<1> QED BY <1>1, <1>12, <1>13

(* The function that loads static data mentions nothing.                   *)
LEMMA LoaderShape ==
  /\ <<[on |-> <<>>, cmd |-> "do", f |-> StaticData]>> \in Seq(Line)
  /\ Mentions(<<[on |-> <<>>, cmd |-> "do", f |-> StaticData]>>) = {}
<1>1. PICK l : l = [on |-> <<>>, cmd |-> "do", f |-> StaticData]
  OBVIOUS
<1>2. l \in Line
  <2>1. <<>> \in Seq(Clause)
    OBVIOUS
  <2> QED BY <1>1, <2>1, NamesAssumption DEF Line
<1>3. PICK b : b = <<l>>
  OBVIOUS
<1>4. b \in Seq(Line) /\ Len(b) = 1 /\ b[1] = l
  BY <1>2, <1>3
<1>5. ASSUME NEW x \in Mentions(b) PROVE FALSE
  <2>1. PICK k \in 1..Len(b) : x \in NamesIn(b[k])
    BY <1>4, <1>5, MentionsOf
  <2>2. x \in NamesIn(l)
    BY <1>4, <2>1
  <2>3. l.on = <<>> /\ Len(l.on) = 0 /\ l.cmd \notin Mentioning
    BY <1>1 DEF Mentioning
  <2>4. \A j \in 1..Len(l.on) : FALSE
    BY <2>3
  <2> QED BY <1>2, <2>2, <2>3, <2>4, NamesOf
<1> QED BY <1>1, <1>3, <1>4, <1>5

(* What a step of Build does: the units' functions, and above them at most *)
(* two that mention each other, the VM's and _start.                       *)
IsBuilt(fs, w) ==
  /\ IsPack(fs)
  /\ DOMAIN w \subseteq DOMAIN fs
  /\ \A f \in DOMAIN fs : \/ Mentions(fs[f]) \subseteq {InitVm} \cup DOMAIN fs \cup ({start} \ {NoName})
                          \/ f \in DOMAIN w /\ fs[f] = w[f]

(* The files of the build directory.                                       *)
LEMMA BuildDone ==
  ASSUME TInv, Build, NamesLeft
  PROVE  /\ gen' \in 1..(Len(Generated) + 1) /\ load' \in Names
         /\ IsBuilt(files', Written(maps))
<1>1. gen \in Nat /\ 1 <= gen /\ gen < Len(Generated) /\ Len(Generated) \in Nat
  BY NamesAssumption DEF TInv, Formed, Build, NamesLeft
<1>2. gen \in 1..Len(Generated) /\ gen + 1 \in 1..Len(Generated)
  BY <1>1
<1>3. PICK a, data : a = Generated[gen] /\ data = Generated[gen + 1]
  OBVIOUS
<1>4. a \in Names /\ data \in Names
  BY <1>2, <1>3, NamesAssumption
<1>5. gen' = gen + (IF prog.statics THEN 2 ELSE 1) /\ load' = a
  BY <1>3 DEF Build
<1>6. gen' \in 1..(Len(Generated) + 1)
  BY <1>1, <1>5
<1>7. PICK w : w = Written(maps)
  OBVIOUS
<1>8. IsPack(w)
  BY <1>7, WrittenWithin DEF TInv, Formed
<1>9. PICK t : t = <<[on |-> <<>>, cmd |-> "do", f |-> StaticData]>>
  OBVIOUS
<1>10. t \in Seq(Line) /\ Mentions(t) = {}
  BY <1>9, LoaderShape
<1>11. PICK l : l = IF prog.statics THEN File(data, t) ELSE NoFiles
  OBVIOUS
<1>12. /\ IsPack(l) /\ DOMAIN l = (IF prog.statics THEN {data} ELSE {})
       /\ \A f \in DOMAIN l : Mentions(l[f]) = {}
  <2>1. CASE prog.statics
    <3>1. l = File(data, t)
      BY <1>11, <2>1
    <3>2. IsPack(l) /\ DOMAIN l = {data} /\ l[data] = t
      BY <1>4, <1>10, <3>1, FileShape
    <3> QED BY <1>10, <2>1, <3>2
  <2>2. CASE ~prog.statics
    <3>1. DOMAIN l = {}
      BY <1>11, <2>2 DEF NoFiles
    <3> QED BY <2>2, <3>1 DEF IsPack
  <2> QED BY <2>1, <2>2
<1>13. PICK b : b = OnLoad(data)
  OBVIOUS
<1>14. /\ b \in Seq(Line)
       /\ Mentions(b) \subseteq {InitVm} \cup (IF prog.statics THEN {data} ELSE {}) \cup ({start} \ {NoName})
  BY <1>4, <1>13, OnLoadShape DEF TInv, Formed
<1>15. PICK o : o = File(a, b)
  OBVIOUS
<1>16. IsPack(o) /\ DOMAIN o = {a} /\ o[a] = b
  BY <1>4, <1>14, <1>15, FileShape
<1>17. PICK r : r = Over(o, l)
  OBVIOUS
<1>18. /\ DOMAIN r = {a} \cup DOMAIN l /\ IsPack(r)
       /\ r[a] = b
       /\ \A f \in DOMAIN l : f # a => r[f] = l[f]
  <2>1. IsPack(r)
    BY <1>12, <1>16, <1>17, OverShape
  <2> QED BY <1>16, <1>17, <2>1 DEF Over
<1>19. PICK fs : fs = files'
  OBVIOUS
<1>20. fs = Over(r, w)
  BY <1>3, <1>7, <1>9, <1>11, <1>13, <1>15, <1>17, <1>19 DEF Build
<1>21. /\ DOMAIN fs = DOMAIN r \cup DOMAIN w /\ IsPack(fs)
       /\ \A f \in DOMAIN r : fs[f] = r[f]
       /\ \A f \in DOMAIN w : f \notin DOMAIN r => fs[f] = w[f]
  <2>1. IsPack(fs)
    BY <1>8, <1>18, <1>20, OverShape
  <2> QED BY <1>20, <2>1 DEF Over
<1>22. ASSUME NEW f \in DOMAIN fs
       PROVE  \/ Mentions(fs[f]) \subseteq {InitVm} \cup DOMAIN fs \cup ({start} \ {NoName})
              \/ f \in DOMAIN w /\ fs[f] = w[f]
  <2>1. CASE f = a
    BY <1>12, <1>14, <1>18, <1>21, <2>1
  <2>2. CASE f # a /\ f \in DOMAIN l
    BY <1>12, <1>18, <1>21, <2>2
  <2>3. CASE f # a /\ f \notin DOMAIN l
    BY <1>18, <1>21, <2>3
  <2> QED BY <2>1, <2>2, <2>3
<1>23. IsBuilt(fs, w)
  BY <1>21, <1>22 DEF IsBuilt
<1> QED BY <1>4, <1>5, <1>6, <1>7, <1>19, <1>23

(* What is written is a pack.                                              *)
LEMMA BuildTypes ==
  ASSUME TInv, Build, NamesLeft
  PROVE  TInv'
<1>1. gen' \in 1..(Len(Generated) + 1) /\ load' \in Names /\ IsPack(files')
  <2>1. IsBuilt(files', Written(maps))
    BY BuildDone
  <2> QED BY <2>1, BuildDone DEF IsBuilt
<1>2. phase = "build" /\ phase' = "link" /\ edits' = {}
  BY EditsWhen DEF Build
<1>3. /\ prog' = prog /\ maps' = maps /\ start' = start /\ unit' = unit /\ changed' = changed
      /\ internal' = internal /\ exported' = exported
  BY DEF Build, context
<1>4. Formed'
  BY <1>1, <1>2, <1>3 DEF TInv, Formed
<1>5. Homed'
  BY <1>2 DEF Homed
<1> QED BY <1>2, <1>4, <1>5, NoEdits DEF TInv

(* The library functions that are linked are functions of the library that *)
(* nothing else has replaced.                                              *)
LEMMA LinkedShape ==
  /\ DOMAIN LibraryLeft = DOMAIN Stdlib \ DOMAIN files
  /\ \A f \in DOMAIN LibraryLeft : LibraryLeft[f] = Stdlib[f]
  /\ LinkedFunctions \subseteq DOMAIN LibraryLeft
<1>1. /\ DOMAIN LibraryLeft = DOMAIN Stdlib \ DOMAIN files
      /\ \A f \in DOMAIN LibraryLeft : LibraryLeft[f] = Stdlib[f]
  BY DEF LibraryLeft
<1>2. LinkedFunctions \subseteq DOMAIN LibraryLeft
  BY ReachClosed DEF LinkedFunctions
<1> QED BY <1>1, <1>2

(* What is linked is a pack.                                               *)
LEMMA LinkTypes ==
  ASSUME TInv, Link
  PROVE  TInv'
<1>1. LinkedFunctions \subseteq DOMAIN Stdlib
  BY LinkedShape
<1>2. PICK own : own = Over(prog.extra, files)
  OBVIOUS
<1>3. IsPack(prog.extra) /\ IsPack(files)
  BY ProgramShape DEF TInv, Formed
<1>4. IsPack(own)
  BY <1>2, <1>3, OverShape
<1>5. PICK fs : fs = files'
  OBVIOUS
<1>6. /\ DOMAIN fs = DOMAIN own \cup LinkedFunctions
      /\ \A f \in DOMAIN fs : fs[f] = IF f \in DOMAIN own THEN own[f] ELSE Stdlib[f]
  BY <1>2, <1>5 DEF Link
<1>7. ASSUME NEW f \in DOMAIN fs PROVE f \in Names /\ fs[f] \in Seq(Line)
  <2>1. CASE f \in DOMAIN own
    BY <1>4, <1>6, <2>1 DEF IsPack
  <2>2. CASE f \notin DOMAIN own
    BY <1>1, <1>6, <2>2, StdlibAssumption DEF IsPack
  <2> QED BY <2>1, <2>2
<1>8. IsPack(files')
  BY <1>5, <1>7 DEF IsPack
<1>9. phase = "link" /\ phase' = "done" /\ edits' = {}
  BY EditsWhen DEF Link
<1>10. /\ prog' = prog /\ maps' = maps /\ start' = start /\ unit' = unit /\ changed' = changed
       /\ internal' = internal /\ exported' = exported /\ gen' = gen /\ load' = load
  BY DEF Link, context
<1>11. Formed'
  BY <1>8, <1>9, <1>10 DEF TInv, Formed
<1>12. Homed'
  BY <1>9 DEF Homed
<1> QED BY <1>9, <1>11, <1>12, NoEdits DEF TInv

(* Every step keeps it.                                                    *)
LEMMA StepTypes ==
  ASSUME TInv, NamesLeft, [Next]_vars
  PROVE  TInv'
<1>1. CASE Next
  BY <1>1, SimplifyLinesTypes, GroupExecutesTypes, InlineScanTypes, InlineEditTypes, InlineStableTypes,
     NothingToPruneTypes, EliminateDeadTypes, RenameTypes, BuildTypes, LinkTypes DEF Next
<1>2. CASE UNCHANGED vars
  <2>1. /\ prog' = prog /\ maps' = maps /\ files' = files /\ load' = load /\ start' = start /\ gen' = gen
        /\ internal' = internal /\ exported' = exported /\ unit' = unit /\ changed' = changed
        /\ phase' = phase /\ edits' = edits
    BY <1>2 DEF vars, context
  <2> QED BY <2>1 DEF TInv, Formed, Homed, EditsStand, Prunable
<1> QED BY <1>1, <1>2

(* For every program and library, as long as the generator has names: the  *)
(* functions, the context and the edits stay what they should be, and a    *)
(* name that may go is a function of some unit.                            *)
THEOREM TypeCorrect == Spec /\ []NamesLeft => []TypeOK
<1>1. Init => TInv
  BY Initially
<1>2. TInv /\ NamesLeft /\ [Next]_vars => TInv'
  BY StepTypes
<1>3. TInv => TypeOK
  BY TInvTypes
<1> QED BY <1>1, <1>2, <1>3, PTL DEF Spec

-----------------------------------------------------------------------------
(***************************************************************************)
(* What is mentioned is there.                                             *)
(***************************************************************************)
(* What can be mentioned in every unit, and is never dropped.              *)
Outside == DOMAIN prog.extra \cup DOMAIN Stdlib \cup Api

(* Each unit mentions what it has itself and what is never dropped; that,  *)
(* and _start, is still there.                                             *)
UnitsResolve ==
  /\ \A m \in 1..Len(prog.units) : Within(maps[m], Outside)
  /\ Api \subseteq Homes(maps)
  /\ start \in Homes(maps) \cup {NoName}

(* The same of what is written, and in the end all of it is there.         *)
Resolving ==
  /\ phase \notin {"link", "done"} => UnitsResolve
  /\ phase = "link" => Within(files, Outside) /\ Api \subseteq DOMAIN files
  /\ phase = "done" => Complete(files)

(* Api functions are those of the units that are not their own.            *)
LEMMA ApiIs == Api = Homes(prog.units) \ Own(prog)
<1>1. PICK U : U = UNION {DOMAIN prog.units[m] : m \in DOMAIN prog.units}
  OBVIOUS
<1>2. Api = U \ (prog.internal \cup prog.exported)
  BY <1>1 DEF Api
<1>3. Homes(prog.units) = U
  BY <1>1 DEF Homes
<1> QED BY <1>2, <1>3 DEF Own

(* Nothing that may go is what every unit can mention.                     *)
LEMMA OwnOutside ==
  ASSUME TInv, Enclosed(prog)
  PROVE  Outside \cap Prunable = {} /\ Api \cap Prunable = {}
<1>1. Prunable \subseteq Own(prog)
  BY DEF TInv, Formed, Prunable, Own
<1>2. Api \cap Own(prog) = {}
  BY ApiIs
<1>3. Outside \cap Own(prog) = {}
  BY <1>2 DEF Outside, Enclosed
<1> QED BY <1>1, <1>2, <1>3

(* These are about the program alone.                                      *)
LEMMA OutsideStays ==
  ASSUME prog' = prog
  PROVE  Outside' = Outside /\ Api' = Api /\ Compiled' = Compiled
BY DEF Outside, Api, Compiled

(* In the compiled program each function has its own text.                 *)
LEMMA CompiledShape ==
  ASSUME TInv, Enclosed(prog)
  PROVE  /\ DOMAIN Compiled = DOMAIN prog.extra \cup Homes(prog.units) \cup DOMAIN Stdlib
         /\ \A f \in DOMAIN prog.extra : Compiled[f] = prog.extra[f]
         /\ \A m \in 1..Len(prog.units) : \A f \in DOMAIN prog.units[m] : Compiled[f] = prog.units[m][f]
         /\ \A f \in DOMAIN Stdlib :
              f \notin DOMAIN prog.extra \cup Homes(prog.units) => Compiled[f] = Stdlib[f]
<1>1. PICK p, n : p = prog /\ n = Len(prog.units)
  OBVIOUS
<1>2. /\ p \in Programs /\ IsUnits(p.units, n)
      /\ \A i, j \in 1..n : i # j => DOMAIN p.units[i] \cap DOMAIN p.units[j] = {}
  <2>1. p \in Programs
    BY <1>1 DEF TInv, Formed
  <2> QED BY <1>1, <2>1, ProgramShape
<1>3. DOMAIN p.units = 1..n
  BY <1>2, UnitsLen
<1>4. PICK w : w = Written(p.units)
  OBVIOUS
<1>5. DOMAIN w = Homes(p.units) /\ \A f \in Homes(p.units) : \E m \in 1..n : f \in DOMAIN p.units[m] /\ w[f] = p.units[m][f]
  BY <1>2, <1>4, WrittenShape
<1>6. ASSUME NEW m \in 1..n, NEW f \in DOMAIN p.units[m] PROVE f \in DOMAIN w /\ w[f] = p.units[m][f]
  <2>1. f \in Homes(p.units)
    BY <1>3 DEF Homes
  <2>2. PICK k \in 1..n : f \in DOMAIN p.units[k] /\ w[f] = p.units[k][f]
    BY <1>5, <2>1
  <2>3. k = m
    BY <1>2, <2>2
  <2> QED BY <1>5, <2>1, <2>2, <2>3
<1>7. PICK r : r = Over(w, Stdlib)
  OBVIOUS
<1>8. /\ DOMAIN r = DOMAIN w \cup DOMAIN Stdlib
      /\ \A f \in DOMAIN w : r[f] = w[f]
      /\ \A f \in DOMAIN Stdlib : f \notin DOMAIN w => r[f] = Stdlib[f]
  BY <1>7 DEF Over
<1>9. PICK c : c = Compiled
  OBVIOUS
<1>10. c = Over(p.extra, r)
  BY <1>1, <1>4, <1>7, <1>9 DEF Compiled
<1>11. /\ DOMAIN c = DOMAIN p.extra \cup DOMAIN r
       /\ \A f \in DOMAIN p.extra : c[f] = p.extra[f]
       /\ \A f \in DOMAIN r : f \notin DOMAIN p.extra => c[f] = r[f]
  BY <1>10 DEF Over
<1>12. \A m \in 1..n : \A f \in DOMAIN p.units[m] : f \notin DOMAIN p.extra
  BY <1>1, <1>3 DEF Enclosed
<1>13. \A m \in 1..n : \A f \in DOMAIN p.units[m] : c[f] = p.units[m][f]
  BY <1>6, <1>8, <1>11, <1>12
<1>14. DOMAIN c = DOMAIN p.extra \cup Homes(p.units) \cup DOMAIN Stdlib
  BY <1>5, <1>8, <1>11
<1>15. \A f \in DOMAIN Stdlib : f \notin DOMAIN p.extra \cup Homes(p.units) => c[f] = Stdlib[f]
  BY <1>5, <1>8, <1>11
<1> QED BY <1>1, <1>9, <1>11, <1>13, <1>14, <1>15

(* A function of the program that is neither internal nor exported is api. *)
LEMMA OwnOrApi ==
  ASSUME NEW f \in Homes(prog.units)
  PROVE  f \in Own(prog) \/ f \in Api
BY ApiIs

(* All of it holds of the compiled program.                                *)
LEMMA InitiallyResolving ==
  ASSUME Init, Enclosed(prog), Complete(Compiled)
  PROVE  Resolving
<1>1. TInv /\ maps = prog.units /\ start = prog.start /\ prog \in Programs
  BY Initially DEF Init
<1>2. PICK n : n = Len(prog.units)
  OBVIOUS
<1>3. DOMAIN maps = 1..n /\ prog.start \in Homes(prog.units) \cup {NoName}
  <2>1. IsUnits(prog.units, n) /\ prog.start \in Homes(prog.units) \cup {NoName}
    BY <1>1, <1>2, ProgramShape
  <2> QED BY <1>1, <2>1, UnitsLen
<1>4. ASSUME NEW m \in 1..n, NEW f \in DOMAIN maps[m], NEW x \in Mentions(maps[m][f])
      PROVE  x \in DOMAIN maps[m] \cup Outside
  <2>1. Compiled[f] = maps[m][f] /\ f \in DOMAIN Compiled
    <3>1. f \in Homes(prog.units)
      BY <1>1, <1>3 DEF Homes
    <3> QED BY <1>1, <1>2, <3>1, CompiledShape
  <2>2. x \in DOMAIN Compiled
    BY <1>4, <2>1 DEF Complete
  <2>3. x \in DOMAIN prog.extra \/ x \in Homes(prog.units) \/ x \in DOMAIN Stdlib
    BY <1>1, <2>2, CompiledShape
  <2>4. CASE x \in Homes(prog.units)
    <3>1. CASE x \in Own(prog)
      BY <1>1, <1>3, <1>4, <3>1 DEF Enclosed
    <3>2. CASE x \in Api
      BY <3>2 DEF Outside
    <3> QED BY <2>4, <3>1, <3>2, OwnOrApi
  <2> QED BY <2>3, <2>4 DEF Outside
<1>5. \A m \in 1..n : Within(maps[m], Outside)
  BY <1>4 DEF Within
<1>6. Api \subseteq Homes(maps)
  BY <1>1 DEF Api, Homes
<1>7. phase \notin {"link", "done"}
  BY DEF Init, AfterPasses
<1>8. UnitsResolve
  BY <1>1, <1>2, <1>3, <1>5, <1>6 DEF UnitsResolve
<1> QED BY <1>7, <1>8 DEF Resolving

(* A step before the link that drops at most names that may go.            *)
LEMMA ResolvingKept ==
  ASSUME prog' = prog, phase' \notin {"link", "done"},
         \A m \in 1..Len(prog.units) : Within(maps'[m], Outside),
         Api \subseteq Homes(maps'), start' \in Homes(maps') \cup {NoName}
  PROVE  Resolving'
<1>1. Outside' = Outside /\ Api' = Api
  BY OutsideStays
<1>2. UnitsResolve'
  BY <1>1 DEF UnitsResolve
<1> QED BY <1>2 DEF Resolving

(* What holds before one.                                                  *)
LEMMA ResolvingBefore ==
  ASSUME TInv, Resolving, phase \notin {"link", "done"}
  PROVE  /\ IsUnits(maps, Len(prog.units)) /\ unit \in 1..Len(prog.units)
         /\ \A m \in 1..Len(prog.units) : Within(maps[m], Outside)
         /\ Api \subseteq Homes(maps) /\ start \in Homes(maps) \cup {NoName}
BY DEF TInv, Formed, Resolving, UnitsResolve

(* A simplified line mentions no more than it did.                         *)
LEMMA SimplifyLinesResolves ==
  ASSUME TInv, Resolving, SimplifyLines
  PROVE  Resolving'
<1>1. phase = "lines" /\ phase' = "group" /\ prog' = prog /\ start' = start
  BY DEF SimplifyLines, context
<1>2. PICK v : v = maps'
  OBVIOUS
<1>3. v = [m \in DOMAIN maps |-> [f \in DOMAIN maps[m] |-> Simplified(maps[m][f])]]
  BY <1>2 DEF SimplifyLines
<1>4. /\ IsUnits(maps, Len(prog.units))
      /\ \A m \in 1..Len(prog.units) : Within(maps[m], Outside)
      /\ Api \subseteq Homes(maps) /\ start \in Homes(maps) \cup {NoName}
  BY <1>1, ResolvingBefore
<1>5. Homes(v) = Homes(maps)
  BY <1>3, <1>4, SimplifiedUnits
<1>6. \A m \in 1..Len(prog.units) : Within(v[m], Outside)
  BY <1>3, <1>4, SimplifiedUnits
<1> QED BY <1>1, <1>2, <1>4, <1>5, <1>6, ResolvingKept

(* Where a group was its helper is called, which mentions the rest.        *)
LEMMA GroupExecutesResolves ==
  ASSUME TInv, Resolving, GroupExecutes
  PROVE  Resolving'
<1>1. phase = "group" /\ prog' = prog /\ start' = start /\ phase' \in {"group", "inline"}
  BY DEF GroupExecutes, context, NextUnit
<1>2. PICK g : g = maps[unit]
  OBVIOUS
<1>3. PICK nm \in HelperNumbers(g) : maps' = [maps EXCEPT ![unit] = WithHelpers(g, nm)]
  BY <1>2 DEF GroupExecutes
<1>4. PICK h : h = WithHelpers(g, nm)
  OBVIOUS
<1>5. PICK v : v = maps'
  OBVIOUS
<1>6. /\ IsUnits(maps, Len(prog.units)) /\ unit \in 1..Len(prog.units)
      /\ \A m \in 1..Len(prog.units) : Within(maps[m], Outside)
      /\ Api \subseteq Homes(maps) /\ start \in Homes(maps) \cup {NoName}
  BY <1>1, ResolvingBefore
<1>7. IsPack(g) /\ Within(g, Outside) /\ gen \in 1..(Len(Generated) + 1)
  BY <1>2, <1>6 DEF IsUnits, TInv, Formed
<1>8. IsPack(h) /\ DOMAIN g \subseteq DOMAIN h /\ Within(h, Outside)
  BY <1>4, <1>7, GroupedWithin
<1>9. v = [maps EXCEPT ![unit] = h]
  BY <1>3, <1>4, <1>5
<1>10. Homes(maps) \ {} \subseteq Homes(v)
  <2>1. DOMAIN maps[unit] \ {} \subseteq DOMAIN h
    BY <1>2, <1>8
  <2> QED BY <1>6, <1>8, <1>9, <2>1, HomesChanged
<1>11. \A m \in 1..Len(prog.units) : Within(v[m], Outside)
  BY <1>6, <1>8, <1>9, OneWithin
<1> QED BY <1>1, <1>5, <1>6, <1>10, <1>11, ResolvingKept

(* An edit drops the only mention of its callee, and what the callee       *)
(* mentioned is still there.                                               *)
LEMMA InlineEditResolves ==
  ASSUME TInv, Resolving, InlineEdit, Enclosed(prog)
  PROVE  Resolving'
<1>1. phase = "inline" /\ prog' = prog /\ start' = start /\ phase' = "inline"
  BY DEF InlineEdit
<1>2. /\ IsUnits(maps, Len(prog.units)) /\ unit \in 1..Len(prog.units)
      /\ \A m \in 1..Len(prog.units) : Within(maps[m], Outside)
      /\ Api \subseteq Homes(maps) /\ start \in Homes(maps) \cup {NoName}
  BY <1>1, ResolvingBefore
<1>3. PICK e, g :
        /\ EditAt(e, g)
        /\ \/ UNCHANGED <<maps, internal, exported, changed>>
           \/ \E h : MadeAt(e, g, h) /\ maps' = [maps EXCEPT ![unit] = h]
  BY EditMade
<1>4. /\ g = maps[unit] /\ IsPack(g) /\ Solo(g, e)
      /\ e.kind \in {"standalone", "tail"} /\ e.callee \in Prunable /\ e.callee # start
  BY <1>3 DEF EditAt
<1>5. CASE UNCHANGED <<maps, internal, exported, changed>>
  <2>1. maps' = maps
    BY <1>5
  <2> QED BY <1>1, <1>2, <2>1, ResolvingKept
<1>6. CASE \E h : MadeAt(e, g, h) /\ maps' = [maps EXCEPT ![unit] = h]
  <2>1. PICK h : MadeAt(e, g, h) /\ maps' = [maps EXCEPT ![unit] = h]
    BY <1>6
  <2>2. PICK k \in 1..Len(g[e.at]) : e.callee \in NamesIn(g[e.at][k]) /\ h = Edited(g, e, k)
    BY <2>1 DEF MadeAt
  <2>3. IsEdited(g, e, k, h)
    BY <1>4, <2>2, EditedShape
  <2>4. IsPack(h) /\ DOMAIN h = DOMAIN g \ {e.callee}
    BY <2>3 DEF IsEdited
  <2>5. e.callee \notin Outside /\ e.callee \notin Api
    BY <1>4, OwnOutside
  <2>6. Within(g, Outside)
    BY <1>2, <1>4
  <2>7. Within(h, Outside)
    BY <1>4, <2>2, <2>5, <2>6, EditedWithin
  <2>8. PICK v : v = maps'
    OBVIOUS
  <2>9. v = [maps EXCEPT ![unit] = h]
    BY <2>1, <2>8
  <2>10. PICK D : D = {e.callee}
    OBVIOUS
  <2>11. IsPack(h) /\ DOMAIN maps[unit] \ D \subseteq DOMAIN h
    BY <1>4, <2>4, <2>10
  <2>12. Homes(maps) \ D \subseteq Homes(v)
    BY <1>2, <2>9, <2>11, HomesChanged
  <2>13. Api \subseteq Homes(v) /\ start \in Homes(v) \cup {NoName}
    BY <1>2, <1>4, <2>5, <2>10, <2>12
  <2>14. \A m \in 1..Len(prog.units) : Within(v[m], Outside)
    BY <1>2, <2>7, <2>9, <2>11, OneWithin
  <2> QED BY <1>1, <2>8, <2>13, <2>14, ResolvingKept
<1> QED BY <1>3, <1>5, <1>6

(* Nothing that stays mentions a dead function.                            *)
LEMMA EliminateDeadResolves ==
  ASSUME TInv, Resolving, EliminateDead, Enclosed(prog)
  PROVE  Resolving'
<1>1. phase = "dead" /\ prog' = prog /\ start' = start /\ phase' \in {"dead", "rename", "build"}
  BY DEF EliminateDead, NextUnit, AfterPasses
<1>2. PICK g, D : g = maps[unit] /\ D = Dead(maps[unit])
  OBVIOUS
<1>3. maps' = [maps EXCEPT ![unit] = Without(g, D)]
  BY <1>2 DEF EliminateDead
<1>4. PICK h : h = Without(g, D)
  OBVIOUS
<1>5. PICK v : v = maps'
  OBVIOUS
<1>6. /\ IsUnits(maps, Len(prog.units)) /\ unit \in 1..Len(prog.units)
      /\ \A m \in 1..Len(prog.units) : Within(maps[m], Outside)
      /\ Api \subseteq Homes(maps) /\ start \in Homes(maps) \cup {NoName}
  BY <1>1, ResolvingBefore
<1>7. IsPack(g) /\ Within(g, Outside)
  BY <1>2, <1>6 DEF IsUnits
<1>8. Outside \cap Prunable = {} /\ Api \cap Prunable = {}
  BY OwnOutside
<1>9. IsPack(h) /\ DOMAIN h = DOMAIN g \ D /\ D \subseteq Prunable /\ start \notin D /\ Within(h, Outside)
  <2>1. h = Without(g, Dead(g))
    BY <1>2, <1>4
  <2>2. /\ IsPack(h) /\ DOMAIN h = DOMAIN g \ Dead(g)
        /\ Dead(g) \subseteq Prunable /\ start \notin Dead(g) /\ Within(h, Outside)
    BY <1>7, <1>8, <2>1, DeadWithin
  <2> QED BY <1>2, <2>2
<1>10. v = [maps EXCEPT ![unit] = h]
  BY <1>3, <1>4, <1>5
<1>11. Homes(maps) \ D \subseteq Homes(v)
  <2>1. DOMAIN maps[unit] \ D \subseteq DOMAIN h
    BY <1>2, <1>9
  <2>2. IsUnits(maps, Len(prog.units)) /\ unit \in 1..Len(prog.units) /\ IsPack(h)
    BY <1>6, <1>9
  <2> QED BY <1>10, <2>1, <2>2, HomesChanged
<1>12. Api \subseteq Homes(v) /\ start \in Homes(v) \cup {NoName}
  BY <1>6, <1>8, <1>9, <1>11
<1>13. \A m \in 1..Len(prog.units) : Within(v[m], Outside)
  BY <1>6, <1>9, <1>10, OneWithin
<1> QED BY <1>1, <1>5, <1>12, <1>13, ResolvingKept

(* Every mention of an internal function of the unit gets the new name.    *)
LEMMA RenameResolves ==
  ASSUME TInv, Resolving, Rename, Enclosed(prog)
  PROVE  Resolving'
<1>1. phase = "rename" /\ prog' = prog /\ phase' = "build"
  BY DEF Rename
<1>2. PICK nm : /\ NewNames(nm) /\ DOMAIN nm = internal /\ start' = NewName(start, nm)
                /\ maps' = [m \in DOMAIN maps |-> Renamed(maps[m], nm)]
  BY RenameDone
<1>3. PICK v : v = maps'
  OBVIOUS
<1>4. v = [m \in DOMAIN maps |-> Renamed(maps[m], nm)]
  BY <1>2, <1>3
<1>5. /\ IsUnits(maps, Len(prog.units))
      /\ \A m \in 1..Len(prog.units) : Within(maps[m], Outside)
      /\ Api \subseteq Homes(maps) /\ start \in Homes(maps) \cup {NoName}
  BY <1>1, ResolvingBefore
<1>6. \A m \in 1..Len(prog.units) : Within(v[m], Outside)
  BY <1>2, <1>4, <1>5, RenamedUnits
<1>7. \A f \in Homes(maps) : NewName(f, nm) \in Homes(v)
  BY <1>2, <1>4, <1>5, RenamedUnits
<1>8. internal \subseteq Prunable /\ Api \cap Prunable = {}
  BY OwnOutside DEF Prunable
<1>9. ASSUME NEW f \in Api PROVE f \in Homes(v)
  <2>1. f \notin DOMAIN nm
    BY <1>2, <1>8
  <2>2. NewName(f, nm) = f
    BY <2>1 DEF NewName
  <2> QED BY <1>5, <1>7, <2>2
<1>10. start' \in Homes(v) \cup {NoName}
  <2>1. CASE start \in Homes(maps)
    BY <1>2, <1>7, <2>1
  <2>2. CASE start = NoName /\ start \notin Homes(maps)
    <3>1. internal \subseteq Homes(maps)
      BY <1>1, <1>8 DEF TInv, Homed
    <3>2. start \notin DOMAIN nm
      BY <1>2, <2>2, <3>1
    <3> QED BY <1>2, <2>2, <3>2 DEF NewName
  <2> QED BY <1>5, <2>1, <2>2
<1> QED BY <1>1, <1>3, <1>6, <1>9, <1>10, ResolvingKept

(* The functions that load mention what is written or in the library.      *)
LEMMA BuildResolves ==
  ASSUME TInv, Resolving, Build, NamesLeft
  PROVE  Resolving'
<1>1. phase = "build" /\ phase' = "link" /\ prog' = prog
  BY DEF Build
<1>2. /\ IsUnits(maps, Len(prog.units))
      /\ \A m \in 1..Len(prog.units) : Within(maps[m], Outside)
      /\ Api \subseteq Homes(maps) /\ start \in Homes(maps) \cup {NoName}
  BY <1>1, ResolvingBefore
<1>3. PICK w, fs : w = Written(maps) /\ fs = files'
  OBVIOUS
<1>4. DOMAIN w = Homes(maps)
  BY <1>2, <1>3, WrittenShape
<1>5. Within(w, Outside)
  BY <1>2, <1>3, WrittenWithin
<1>6. IsBuilt(fs, w)
  BY <1>3, BuildDone
<1>7. /\ DOMAIN w \subseteq DOMAIN fs
      /\ \A f \in DOMAIN fs : \/ Mentions(fs[f]) \subseteq {InitVm} \cup DOMAIN fs \cup ({start} \ {NoName})
                              \/ f \in DOMAIN w /\ fs[f] = w[f]
  BY <1>6 DEF IsBuilt
<1>8. InitVm \in Outside
  BY StdlibAssumption DEF Outside
<1>9. ASSUME NEW f \in DOMAIN fs PROVE Mentions(fs[f]) \subseteq DOMAIN fs \cup Outside
  <2>1. CASE Mentions(fs[f]) \subseteq {InitVm} \cup DOMAIN fs \cup ({start} \ {NoName})
    BY <1>2, <1>4, <1>7, <1>8, <2>1
  <2>2. CASE f \in DOMAIN w /\ fs[f] = w[f]
    BY <1>5, <1>7, <2>2 DEF Within
  <2> QED BY <1>7, <2>1, <2>2
<1>10. Within(fs, Outside)
  BY <1>9 DEF Within
<1>11. Api \subseteq DOMAIN fs
  BY <1>2, <1>4, <1>7
<1>12. Outside' = Outside /\ Api' = Api
  BY <1>1, OutsideStays
<1> QED BY <1>1, <1>3, <1>10, <1>11, <1>12 DEF Resolving

(* What of the library is linked: what some text outside of it mentions,   *)
(* and all that leads to.                                                  *)
LEMMA LinkedClosed ==
  ASSUME NEW x \in DOMAIN Stdlib, x \notin DOMAIN files,
         \/ \E f \in DOMAIN files : x \in Mentions(files[f])
         \/ \E f \in DOMAIN prog.extra : x \in Mentions(prog.extra[f])
         \/ \E f \in LinkedFunctions : x \in Mentions(Stdlib[f])
  PROVE  x \in LinkedFunctions
<1>1. PICK g, R : g = LibraryLeft /\ R = UNION ({Mentions(files[f]) : f \in DOMAIN files}
                                   \cup {Mentions(prog.extra[f]) : f \in DOMAIN prog.extra})
  OBVIOUS
<1>2. x \in DOMAIN g /\ \A f \in LinkedFunctions : f \in DOMAIN g /\ g[f] = Stdlib[f]
  BY <1>1, LinkedShape
<1>3. CASE prog.level = 0
  <2>1. LinkedFunctions = DOMAIN g
    BY <1>1, <1>3 DEF LinkedFunctions
  <2> QED BY <1>2, <2>1
<1>4. CASE prog.level # 0
  <2>1. LinkedFunctions = Reach(g, R)
    BY <1>1, <1>4 DEF LinkedFunctions
  <2>2. /\ R \cap DOMAIN g \subseteq Reach(g, R)
        /\ \A h \in Reach(g, R) : Mentions(g[h]) \cap DOMAIN g \subseteq Reach(g, R)
    BY ReachClosed
  <2>3. CASE \E f \in LinkedFunctions : x \in Mentions(Stdlib[f])
    BY <1>2, <2>1, <2>2, <2>3
  <2>4. CASE (\E f \in DOMAIN files : x \in Mentions(files[f])) \/ (\E f \in DOMAIN prog.extra : x \in Mentions(prog.extra[f]))
    <3>1. x \in R
      BY <1>1, <2>4
    <3> QED BY <1>2, <2>1, <2>2, <3>1
  <2> QED BY <2>3, <2>4
<1> QED BY <1>3, <1>4

(* What is written, linked or given mentions nothing that was left out.    *)
LEMMA LinkResolves ==
  ASSUME TInv, Resolving, Link, Enclosed(prog), Complete(Compiled)
  PROVE  Resolving'
<1>1. phase = "link" /\ phase' = "done" /\ Within(files, Outside) /\ Api \subseteq DOMAIN files
  BY DEF Link, Resolving
<1>2. PICK x, own : x = prog.extra /\ own = Over(x, files)
  OBVIOUS
<1>3. /\ DOMAIN own = DOMAIN x \cup DOMAIN files
      /\ \A f \in DOMAIN x : own[f] = x[f]
      /\ \A f \in DOMAIN files : f \notin DOMAIN x => own[f] = files[f]
  BY <1>2 DEF Over
<1>4. PICK fs : fs = files'
  OBVIOUS
<1>5. /\ DOMAIN fs = DOMAIN own \cup LinkedFunctions
      /\ \A f \in DOMAIN fs : fs[f] = IF f \in DOMAIN own THEN own[f] ELSE Stdlib[f]
  BY <1>2, <1>4 DEF Link
<1>6. DOMAIN fs = DOMAIN x \cup DOMAIN files \cup LinkedFunctions
  BY <1>3, <1>5
<1>7. /\ \A f \in DOMAIN x : fs[f] = x[f]
      /\ \A f \in DOMAIN files : f \notin DOMAIN x => fs[f] = files[f]
      /\ \A f \in LinkedFunctions :
           f \notin DOMAIN x /\ f \notin DOMAIN files => fs[f] = Stdlib[f]
  BY <1>3, <1>5
<1>8. \A f \in LinkedFunctions : f \in DOMAIN Stdlib /\ f \notin DOMAIN files
  BY LinkedShape
<1>9. \A f \in DOMAIN x : Compiled[f] = x[f]
  BY <1>2, CompiledShape
<1>10. ASSUME NEW f \in LinkedFunctions, f \notin DOMAIN x PROVE Compiled[f] = Stdlib[f]
  <2>1. f \notin Homes(prog.units)
    BY <1>1, <1>8, OwnOrApi DEF Enclosed
  <2> QED BY <1>2, <1>8, <1>10, <2>1, CompiledShape
<1>11. DOMAIN Compiled = DOMAIN x \cup Homes(prog.units) \cup DOMAIN Stdlib
  BY <1>2, CompiledShape
<1>12. ASSUME NEW y \in DOMAIN Compiled, y \notin Own(prog) PROVE y \in Outside
  BY <1>2, <1>11, <1>12, OwnOrApi DEF Outside
<1>13. ASSUME NEW y \in Outside,
              \/ y \notin DOMAIN Stdlib
              \/ y \in LinkedFunctions \cup DOMAIN files
       PROVE  y \in DOMAIN fs
  BY <1>1, <1>2, <1>6, <1>7, <1>13 DEF Outside
<1>14. ASSUME NEW f \in DOMAIN fs, NEW y \in Mentions(fs[f]) PROVE y \in DOMAIN fs
  <2>1. CASE f \in DOMAIN x
    <3>1. y \in Mentions(x[f]) /\ y \in DOMAIN Compiled
      BY <1>7, <1>9, <1>11, <1>14, <2>1 DEF Complete
    <3>2. y \notin Own(prog)
      BY <1>2, <2>1, <3>1 DEF Enclosed
    <3>3. y \in Outside
      BY <1>12, <3>1, <3>2
    <3>4. y \in DOMAIN Stdlib /\ y \notin DOMAIN files => y \in LinkedFunctions
      BY <1>2, <2>1, <3>1, LinkedClosed
    <3> QED BY <1>13, <3>3, <3>4
  <2>2. CASE f \notin DOMAIN x /\ f \in DOMAIN files
    <3>1. y \in Mentions(files[f])
      BY <1>6, <1>7, <1>14, <2>2
    <3>2. y \in DOMAIN files \cup Outside
      BY <1>1, <2>2, <3>1 DEF Within
    <3>3. y \in DOMAIN Stdlib /\ y \notin DOMAIN files => y \in LinkedFunctions
      BY <2>2, <3>1, LinkedClosed
    <3>4. CASE y \in DOMAIN files
      BY <1>6, <1>7, <3>4
    <3> QED BY <1>13, <3>2, <3>3, <3>4
  <2>3. CASE f \notin DOMAIN x /\ f \notin DOMAIN files
    <3>1. f \in LinkedFunctions
      BY <1>6, <1>7, <2>3
    <3>2. y \in Mentions(Stdlib[f]) /\ Compiled[f] = Stdlib[f]
      BY <1>6, <1>7, <1>10, <1>14, <2>3, <3>1
    <3>3. y \in DOMAIN Compiled /\ y \notin Own(prog)
      BY <1>8, <1>11, <3>1, <3>2 DEF Complete, Enclosed
    <3>4. y \in Outside
      BY <1>12, <3>3
    <3>5. y \in DOMAIN Stdlib /\ y \notin DOMAIN files => y \in LinkedFunctions
      BY <3>1, <3>2, LinkedClosed
    <3> QED BY <1>13, <3>4, <3>5
  <2> QED BY <2>1, <2>2, <2>3
<1>15. Complete(fs)
  BY <1>14 DEF Complete
<1> QED BY <1>1, <1>4, <1>15 DEF Resolving, Complete

(* The steps that leave the functions and _start alone.                    *)
LEMMA OthersResolve ==
  ASSUME TInv, Resolving, prog' = prog, maps' = maps, start' = start,
         phase \notin {"link", "done"}, phase' \notin {"link", "done"}
  PROVE  Resolving'
<1>1. /\ \A m \in 1..Len(prog.units) : Within(maps[m], Outside)
      /\ Api \subseteq Homes(maps) /\ start \in Homes(maps) \cup {NoName}
  BY ResolvingBefore
<1> QED BY <1>1, ResolvingKept

(* Every step keeps it.                                                    *)
LEMMA StepResolves ==
  ASSUME TInv, Resolving, NamesLeft, Enclosed(prog), Complete(Compiled), [Next]_vars
  PROVE  Resolving'
<1>1. CASE InlineScan \/ InlineStable \/ NothingToPrune
  <2>1. prog' = prog /\ maps' = maps /\ start' = start
    BY <1>1 DEF InlineScan, InlineStable, NothingToPrune, context
  <2>2. phase \notin {"link", "done"} /\ phase' \notin {"link", "done"}
    BY <1>1 DEF InlineScan, InlineStable, NothingToPrune, NextUnit, AfterPasses
  <2> QED BY <2>1, <2>2, OthersResolve
<1>2. CASE Next /\ ~(InlineScan \/ InlineStable \/ NothingToPrune)
  BY <1>2, SimplifyLinesResolves, GroupExecutesResolves, InlineEditResolves, EliminateDeadResolves,
     RenameResolves, BuildResolves, LinkResolves DEF Next
<1>3. CASE UNCHANGED vars
  <2>1. prog' = prog /\ maps' = maps /\ files' = files /\ start' = start /\ phase' = phase
    BY <1>3 DEF vars, context
  <2>2. Outside' = Outside /\ Api' = Api
    BY <2>1, OutsideStays
  <2> QED BY <2>1, <2>2 DEF Resolving, UnitsResolve, Complete
<1> QED BY <1>1, <1>2, <1>3

(* All that is mentioned is there at each stage, if it was at first.       *)
RInv == Complete(Compiled) => Resolving

(* If each internal or exported function is mentioned in its own unit only *)
(* then, for every such program and library, all that the data pack        *)
(* mentions is in it, provided all that the compiled program and the       *)
(* library mention was: no pass drops or renames a function that something *)
(* still calls, and the link leaves out of the library what nothing calls. *)
THEOREM NothingMissing ==
  ASSUME \A p \in Programs : Enclosed(p)
  PROVE  Spec /\ []NamesLeft => []Resolves
<1>1. Init => TInv /\ RInv
  <2> SUFFICES ASSUME Init PROVE TInv /\ RInv
    OBVIOUS
  <2>1. prog \in Programs
    BY DEF Init
  <2>2. Enclosed(prog)
    BY <2>1
  <2> QED BY <2>2, Initially, InitiallyResolving DEF RInv
<1>2. TInv /\ RInv /\ NamesLeft /\ [Next]_vars => TInv' /\ RInv'
  <2> SUFFICES ASSUME TInv, RInv, NamesLeft, [Next]_vars PROVE TInv' /\ RInv'
    OBVIOUS
  <2>1. TInv'
    BY StepTypes
  <2>2. Enclosed(prog)
    BY DEF TInv, Formed
  <2>3. prog' = prog
    BY DEF Next, vars, SimplifyLines, GroupExecutes, InlineScan, InlineEdit, InlineStable, NothingToPrune,
       EliminateDead, Rename, Build, Link
  <2>4. Compiled' = Compiled
    BY <2>3, OutsideStays
  <2>5. Complete(Compiled)' => Complete(Compiled)
    BY <2>4 DEF Complete
  <2>6. Complete(Compiled) => Resolving'
    BY <2>2, StepResolves DEF RInv
  <2> QED BY <2>1, <2>5, <2>6 DEF RInv
<1>3. TInv /\ RInv => Resolves
  BY DEF RInv, Resolving, Resolves
<1> QED BY <1>1, <1>2, <1>3, PTL DEF Spec
=============================================================================
