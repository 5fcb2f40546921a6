----------------------------- MODULE BoxPattern -----------------------------
(***************************************************************************)
(* Regular expressions as trees, how they are written, and what they match *)
(* by POSIX. An expression is a sequence of alternatives, each of these a  *)
(* sequence of pieces; a piece repeats an atom. And the scripts of sed that *)
(* are made with them.                                                     *)
(***************************************************************************)
EXTENDS Integers, Sequences, SequencesExt, FiniteSets

Many == 100
Piece(a, how, min, max) == [a |-> a, how |-> how, min |-> min, max |-> max]
Once(a) == Piece(a, <<>>, 1, 1)

-----------------------------------------------------------------------------
(* Writing.                                                                *)

Bare == {"(", ")", "|", "+", "?", "{", "}"}
\* An operator of the extended syntax, and of the basic one.
Operator(extended, x) == IF extended \/ x = "*" THEN <<x>> ELSE <<"\\", x>>
RECURSIVE Written(_, _)
AtomText(extended, a) ==
    CASE a.k = "text" -> a.text
      [] a.k = "group" -> Operator(extended, "(") \o Written(extended, a.r) \o Operator(extended, ")")
HowText(extended, how) ==
    IF how = <<>> THEN <<>>
    ELSE IF how[1] = "{" THEN Operator(extended, "{") \o SubSeq(how, 2, Len(how) - 1) \o Operator(extended, "}")
    ELSE Operator(extended, how[1])
PieceText(extended, p) == AtomText(extended, p.a) \o HowText(extended, p.how)
BranchText(extended, b) == FlattenSeq([i \in DOMAIN b |-> PieceText(extended, b[i])])
Written(extended, r) ==
    BranchText(extended, r[1]) \o FlattenSeq([i \in 1..(Len(r) - 1) |-> Operator(extended, "|") \o BranchText(extended, r[i + 1])])

-----------------------------------------------------------------------------
(* Matching. x has the place that is reached and the spans of the groups.  *)
(* e: the text, whether ^ and $ hold at its ends and at those of its lines *)
(* and whether case is told apart; an atom that takes a character has the  *)
(* set of those that it takes, or (but) of those that it does not take.    *)

Takes(e, a, x) == (x \in a.set \/ (e.fold /\ \E y \in a.set : e.low[x] = e.low[y])) # a.but /\ ~(a.but /\ e.lines /\ x = "\n")
RECURSIVE Reached(_, _, _)
Holds(e, a, i) ==
    CASE a.at = "bol" -> IF i = 1 THEN e.bol ELSE e.lines /\ e.text[i - 1] = "\n"
      [] a.at = "eol" -> IF i = Len(e.text) + 1 THEN e.eol ELSE e.lines /\ e.text[i] = "\n"
      [] a.at = "wbeg" -> i <= Len(e.text) /\ e.text[i] \in e.word /\ (i = 1 \/ e.text[i - 1] \notin e.word)
      [] a.at = "wend" -> i > 1 /\ e.text[i - 1] \in e.word /\ (i > Len(e.text) \/ e.text[i] \notin e.word)
Copies(e, a, x) == IF x.g[a.n] = <<>> THEN {} ELSE {SubSeq(e.text, x.g[a.n][1], x.g[a.n][2] - 1)}
AtomReached(e, a, x) ==
    CASE a.k = "group" -> {[y EXCEPT !.g[a.n] = <<x.to, y.to>>] : y \in Reached(e, a.r, x)}
      [] a.k = "text" /\ a.does = "take" -> IF x.to <= Len(e.text) /\ Takes(e, a, e.text[x.to]) THEN {[x EXCEPT !.to = @ + 1]} ELSE {}
      [] a.k = "text" /\ a.does = "hold" -> IF Holds(e, a, x.to) THEN {x} ELSE {}
      [] a.k = "text" /\ a.does = "copy" ->
            {[x EXCEPT !.to = @ + Len(c)] : c \in {c \in Copies(e, a, x) : x.to + Len(c) <= Len(e.text) + 1 /\ SubSeq(e.text, x.to, x.to + Len(c) - 1) = c}}
RECURSIVE Rounds(_, _, _, _)
Rounds(e, p, n, xs) ==
    LET next == UNION {{[y |-> y, on |-> y.to > x.to \/ n < p.min] : y \in AtomReached(e, p.a, x)} : x \in xs}
        on   == {z.y : z \in {z \in next : z.on}}
        last == {z.y : z \in {z \in next : ~z.on}}
    IN  (IF n >= p.min THEN xs ELSE {}) \cup (IF n >= p.max THEN {} ELSE (IF n + 1 >= p.min THEN last ELSE {}) \cup IF on = {} THEN {} ELSE Rounds(e, p, n + 1, on))
RECURSIVE BranchReached(_, _, _)
BranchReached(e, b, xs) == IF b = <<>> \/ xs = {} THEN xs ELSE BranchReached(e, Tail(b), Rounds(e, b[1], 0, xs) \cup {})
Reached(e, r, x) == UNION {BranchReached(e, r[i], {x}) : i \in DOMAIN r}

RECURSIVE HowMany(_)
Inner(r) == FoldLeft(LAMBDA n, b : n + FoldLeft(LAMBDA m, p : m + HowMany(p.a), 0, b), 0, r)
HowMany(a) == IF a.k = "group" THEN 1 + Inner(a.r) ELSE 0
From(e, r, i) == Reached(e, r, [to |-> i, g |-> [n \in 1..Inner(r) |-> <<>>]])

-----------------------------------------------------------------------------
(* What must be told: the leftmost match and the longest of those, with    *)
(* groups that go with it.                                                 *)

Told(r, m, found) ==
    /\ m.res = "match"
    /\ \E i \in DOMAIN found :
          /\ found[i] # {} /\ \A j \in 1..(i - 1) : found[j] = {}
          /\ m.spans[1][1] = i
          /\ \E x \in found[i] : x.to = m.spans[1][2] /\ x.g = Tail(m.spans) /\ (Len(r) = 1 => \A y \in found[i] : y.to <= x.to)
AsPosix(r, m, found) == IF \A i \in DOMAIN found : found[i] = {} THEN m.res = "none" ELSE Told(r, m, found)

\* What is not compared. The longest of the alternatives of a whole expression
\* is lost when no other is left to try. The rounds of a group with bounds are
\* not counted anew when a match is tried another way. A newline behind .* is taken
\* to be there though it is repeated, or though the . is a real one. And a group that
\* repeats what is repeated takes too many steps.
Pieces(r) == UNION {ToSet(b) : b \in ToSet(r)}
Bounded(p) == p.a.k = "group" /\ p.max > 1 /\ p.how # <<>> /\ p.how[1] = "{"
IsText(p) == p.a.k = "text"
DotStar(b, i) == i > 1 /\ IsText(b[i - 1]) /\ b[i - 1].how = <<"*">> /\ Last(b[i - 1].a.text) = "."
NoNewline(b, i) == IsText(b[i]) /\ b[i].a.text = <<"\n">> /\ DotStar(b, i) /\ (b[i].how # <<>> \/ Len(b[i - 1].a.text) > 1)
Doubtful(e, r) == (\E p \in Pieces(r) : Bounded(p)) \/ (e.lines /\ \E b \in ToSet(r) : \E i \in DOMAIN b : NoNewline(b, i))
Nested(r) == \E p \in Pieces(r) : p.a.k = "group" /\ p.max > 1 /\ \E q \in Pieces(p.a.r) : q.max > 1 \/ Len(p.a.r) > 1
GivenUp(e, r, m) == m.res \in {"", "overflow"} /\ (Nested(r) \/ Len(e.text) > e.most)
FindsAsPosix(e, r, m) ==
    \/ Doubtful(e, r) \/ GivenUp(e, r, m)
    \/ AsPosix(r, m, [i \in 1..(Len(e.text) + 1) |-> From(e, r, i)])

-----------------------------------------------------------------------------
(* How a command of sed is written, and how a script is handed over: all   *)
(* its lines in one argument, one argument for each command, a file of     *)
(* lines, or one line.                                                     *)

Quoted(extended, r) == <<"/">> \o (IF r = <<>> THEN <<>> ELSE Written(extended, r)) \o <<"/">>
AddrText(extended, a) == IF a.k = "re" THEN Quoted(extended, a.r) ELSE a.text
SelText(extended, c) ==
    (IF c.sel = <<>> THEN <<>> ELSE AddrText(extended, c.sel[1])) \o (IF Len(c.sel) < 2 THEN <<>> ELSE <<",">> \o AddrText(extended, c.sel[2]))
    \o IF c.neg THEN <<"!">> ELSE <<>>
Flag(yes, x) == IF yes THEN <<x>> ELSE <<>>
ArgText(extended, c) ==
    CASE c.fn = "s" ->
            Quoted(extended, c.r) \o FlattenSeq([i \in DOMAIN c.rep |-> c.rep[i].text]) \o <<"/">> \o Flag(c.nth = 0, "g")
            \o (IF c.nth > 1 THEN <<ToString(c.nth), " ">> ELSE <<>>) \o Flag(c.p, "p")
      [] c.fn \in {"a", "i", "c"} -> <<"\\", "\n">> \o c.text
      [] c.fn \in {"r", "w"}      -> <<" ">> \o c.text
      [] c.fn \in {"b", "t", "T", ":"} -> c.text
      [] c.fn = "y" -> <<"/">> \o c.from \o <<"/">> \o c.text \o <<"/">>
      [] OTHER      -> <<>>
CommandText(extended, c) == SelText(extended, c) \o <<c.fn>> \o ArgText(extended, c)
Between(ts, x) == FlattenSeq([i \in DOMAIN ts |-> IF i = 1 THEN ts[i] ELSE <<x>> \o ts[i]])
LinesOf(t) == FoldLeft(LAMBDA ls, x : IF x = "\n" THEN Append(ls, <<>>) ELSE [ls EXCEPT ![Len(ls)] = Append(@, x)], <<<<>>>>, t)
Whole(t) == IF Last(LinesOf(t)) = <<>> THEN Front(LinesOf(t)) ELSE LinesOf(t)
Scripts(how, ts) ==
    [e |-> CASE how = "block" -> <<Between(ts, "\n")>> [] how = "each" -> ts [] how = "semi" -> <<Between(ts, ";")>> [] how = "file" -> <<>>,
     f |-> IF how = "file" THEN <<LinesOf(Between(ts, "\n"))>> ELSE <<>>]

-----------------------------------------------------------------------------
(* What a script does by POSIX. z has the script, the lines and how they   *)
(* are searched; q is what has been reached.                               *)

Best(z, r, text, i) ==
    LET found == From([z.e EXCEPT !.text = text], r, i)
    IN  IF found = {} THEN <<>> ELSE <<CHOOSE x \in found : \A y \in found : y.to <= x.to>>
InLine(z, r, text) == \E i \in 1..(Len(text) + 1) : Best(z, r, text, i) # <<>>

RepText(rep, text, i, x) ==
    FlattenSeq([n \in DOMAIN rep |->
        CASE rep[n].k = "char" -> <<rep[n].x>>
          [] rep[n].k = "all"  -> SubSeq(text, i, x.to - 1)
          [] rep[n].k = "group" -> IF x.g[rep[n].n] = <<>> THEN <<>> ELSE SubSeq(text, x.g[rep[n].n][1], x.g[rep[n].n][2] - 1)])
\* From place i on, where n matches were found and the last one ended at last.
RECURSIVE Made(_, _, _, _, _, _, _)
Kept(text, i) == IF i <= Len(text) THEN <<text[i]>> ELSE <<>>
MadeAt(z, c, r, text, i, n, last, x) ==
    LET new == IF c.nth \in {0, n + 1} THEN RepText(c.rep, text, i, x) ELSE SubSeq(text, i, x.to - 1)
    IN  IF x.to > i THEN new \o Made(z, c, r, text, x.to, n + 1, x.to)
        ELSE IF i = last THEN Kept(text, i) \o Made(z, c, r, text, i + 1, n, last)
        ELSE new \o Kept(text, i) \o Made(z, c, r, text, i + 1, n + 1, i)
MadeBy(z, c, r, text, i, n, last, best) ==
    IF best = <<>> THEN Kept(text, i) \o Made(z, c, r, text, i + 1, n, last) ELSE MadeAt(z, c, r, text, i, n, last, best[1])
Made(z, c, r, text, i, n, last) == IF i > Len(text) + 1 THEN <<>> ELSE MadeBy(z, c, r, text, i, n, last, Best(z, r, text, i))
RECURSIVE HowOften(_, _, _, _, _)
HowOftenAt(z, r, text, i, last, best) ==
    IF best = <<>> \/ (best[1].to = i /\ i = last) THEN HowOften(z, r, text, i + 1, last)
    ELSE 1 + HowOften(z, r, text, IF best[1].to = i THEN i + 1 ELSE best[1].to, best[1].to)
HowOften(z, r, text, i, last) == IF i > Len(text) + 1 THEN 0 ELSE HowOftenAt(z, r, text, i, last, Best(z, r, text, i))
Hits(z, c, r, text) == HowOften(z, r, text, 1, 0) >= (IF c.nth = 0 THEN 1 ELSE c.nth)

AddrHolds(z, q, a) ==
    CASE a.k = "line" -> q.n = a.n [] a.k = "last" -> q.n = Len(z.lines) [] a.k = "re" -> InLine(z, a.r, q.ps)
OneLineOnly(z, q, a) == a.k # "re" /\ (IF a.k = "line" THEN a.n <= q.n ELSE q.n = Len(z.lines))
\* Whether the command is selected, and whether its range is still open then.
Choice(z, q, c, open) ==
    CASE c.sel = <<>>     -> [yes |-> TRUE, open |-> FALSE]
      [] Len(c.sel) = 1   -> [yes |-> AddrHolds(z, q, c.sel[1]), open |-> FALSE]
      [] Len(c.sel) = 2 /\ open  -> [yes |-> TRUE, open |-> ~(OneLineOnly(z, q, c.sel[2]) \/ AddrHolds(z, q, c.sel[2]))]
      [] Len(c.sel) = 2 /\ ~open -> LET yes == AddrHolds(z, q, c.sel[1]) IN [yes |-> yes, open |-> yes /\ ~OneLineOnly(z, q, c.sel[2])]

Puts(q, line) == [q EXCEPT !.out = Append(@, line)]
Flushed(q)    == [q EXCEPT !.out = @ \o q.queue, !.queue = <<>>]
Shown(z, q)   == IF z.quiet THEN q ELSE Puts(q, q.ps)
NoMore(z, q)  == q.n = Len(z.lines)
Read(z, q, ps) == [Flushed(q) EXCEPT !.ps = ps, !.n = @ + 1, !.sub = FALSE]
Cycle(z, q)   == IF NoMore(z, q) THEN [q EXCEPT !.over = TRUE] ELSE [Read(z, q, z.lines[q.n + 1]) EXCEPT !.pc = 1]
Ends(z, q)    == Cycle(z, Flushed(Shown(z, q)))
Stops(q)      == [Flushed(q) EXCEPT !.over = TRUE]
Goes(q)       == [q EXCEPT !.pc = @ + 1]
BlockEnd(z, i) ==
    LET Depth(j) == Cardinality({k \in i..j : z.cmds[k].fn = "{"}) - Cardinality({k \in i..j : z.cmds[k].fn = "}"})
    IN  CHOOSE j \in i..Len(z.cmds) : Depth(j) = 0 /\ \A k \in i..(j - 1) : Depth(k) > 0
Jump(z, q, label) ==
    IF label = <<>> THEN Ends(z, q) ELSE [q EXCEPT !.pc = CHOOSE i \in DOMAIN z.cmds : z.cmds[i].fn = ":" /\ z.cmds[i].text = label]
FirstNewline(t) == IF \E i \in DOMAIN t : t[i] = "\n" THEN CHOOSE i \in DOMAIN t : t[i] = "\n" /\ \A j \in 1..(i - 1) : t[j] # "\n" ELSE 0
SubstWith(z, q, c, r) ==
    IF ~Hits(z, c, r, q.ps) THEN Goes(q)
    ELSE LET new == [q EXCEPT !.ps = Made(z, c, r, q.ps, 1, 0, 0), !.sub = TRUE] IN Goes(IF c.p THEN Puts(new, new.ps) ELSE new)
Mapped(c, x) == IF \E i \in DOMAIN c.from : c.from[i] = x THEN c.text[CHOOSE i \in DOMAIN c.from : c.from[i] = x] ELSE x
Obeyed(z, q, c, open) ==
    CASE c.fn = "="  -> Goes(Puts(q, <<ToString(q.n)>>))
      [] c.fn = "p"  -> Goes(Puts(q, q.ps))
      [] c.fn = "P"  -> Goes(Puts(q, SubSeq(q.ps, 1, IF FirstNewline(q.ps) = 0 THEN Len(q.ps) ELSE FirstNewline(q.ps) - 1)))
      [] c.fn = "d" \/ (c.fn = "D" /\ FirstNewline(q.ps) = 0) -> Cycle(z, Flushed(q))
      [] c.fn = "D" /\ FirstNewline(q.ps) # 0 -> [Flushed(q) EXCEPT !.ps = SubSeq(q.ps, FirstNewline(q.ps) + 1, Len(q.ps)), !.pc = 1, !.doubt = @ \/ q.queue # <<>>]
      [] c.fn = "a"  -> Goes([q EXCEPT !.queue = Append(@, c.text)])
      [] c.fn = "i"  -> Goes(Puts(q, c.text))
      [] c.fn = "c"  -> Cycle(z, Flushed(IF open THEN q ELSE Puts(q, c.text)))
      [] c.fn = "r"  -> Goes(IF c.text \in DOMAIN z.fs THEN [q EXCEPT !.queue = @ \o Whole(z.fs[c.text])] ELSE q)
      [] c.fn = "w"  -> Goes([q EXCEPT !.files[c.text] = @ \o Append(q.ps, "\n")])
      [] c.fn = "n"  -> IF NoMore(z, q) THEN [Stops(Shown(z, q)) EXCEPT !.doubt = ~z.quiet] ELSE Goes(Read(z, Shown(z, q), z.lines[q.n + 1]))
      [] c.fn = "N"  -> IF NoMore(z, q) THEN Stops(q) ELSE Goes(Read(z, q, q.ps \o <<"\n">> \o z.lines[q.n + 1]))
      [] c.fn = "q"  -> Stops(Shown(z, q))
      [] c.fn = "b"  -> Jump(z, q, c.text)
      [] c.fn = "t"  -> IF q.sub THEN Jump(z, [q EXCEPT !.sub = FALSE], c.text) ELSE Goes(q)
      [] c.fn = "T"  -> IF q.sub THEN Goes(q) ELSE Jump(z, q, c.text)
      [] c.fn = "y"  -> Goes([q EXCEPT !.ps = [i \in DOMAIN @ |-> Mapped(c, @[i])]])
      [] c.fn = "g"  -> Goes([q EXCEPT !.ps = q.hold])
      [] c.fn = "G"  -> Goes([q EXCEPT !.ps = @ \o <<"\n">> \o q.hold])
      [] c.fn = "h"  -> Goes([q EXCEPT !.hold = q.ps])
      [] c.fn = "H"  -> Goes([q EXCEPT !.hold = @ \o <<"\n">> \o q.ps])
      [] c.fn = "x"  -> Goes([q EXCEPT !.ps = q.hold, !.hold = q.ps])
      [] c.fn = "s"  -> SubstWith(z, q, c, IF c.r = <<>> THEN c.sel[1].r ELSE c.r)
      [] c.fn \in {"{", "}", ":"} -> Goes(q)
Chosen(z, q, c, x) ==
    LET p == [q EXCEPT !.open[q.pc] = x.open]
    IN  IF x.yes # c.neg THEN Obeyed(z, p, c, x.open) ELSE IF c.fn = "{" THEN [p EXCEPT !.pc = BlockEnd(z, q.pc) + 1] ELSE Goes(p)
StreamStep(z, q) ==
    IF q.pc > Len(z.cmds) THEN Ends(z, q) ELSE Chosen(z, q, z.cmds[q.pc], Choice(z, q, z.cmds[q.pc], q.open[q.pc]))
RECURSIVE StreamSteps(_, _, _)
StreamSteps(z, q, k) == IF q.over THEN q ELSE IF k = 0 THEN StreamStep(z, q) ELSE StreamSteps(z, StreamSteps(z, q, k - 1), k - 1)
WrittenTo(z) == [t \in {z.cmds[i].text : i \in {i \in DOMAIN z.cmds : z.cmds[i].fn = "w"}} |-> <<>>]
Streamed(z) ==
    StreamSteps(z, Cycle(z, [ps |-> <<>>, hold |-> <<>>, n |-> 0, out |-> <<>>, queue |-> <<>>, open |-> [i \in DOMAIN z.cmds |-> FALSE],
                             sub |-> FALSE, pc |-> 1, files |-> WrittenTo(z), over |-> FALSE, doubt |-> FALSE]), 7)

-----------------------------------------------------------------------------
(* What sed must have told.                                                *)

Ended(ls) == FlattenSeq([i \in DOMAIN ls |-> Append(ls[i], "\n")])
Uses(z, fns) == \E i \in DOMAIN z.cmds : z.cmds[i].fn \in fns
Unfinished(texts) == \E i \in DOMAIN texts : texts[i] # <<>> /\ Last(texts[i]) # "\n"
Looks(r)  == \E p \in Pieces(r) : p.a.k = "text" /\ p.a.does = "hold"
InVain(z, r) == Best(z, r, <<>>, 1) # <<>>

\* What is not compared: a script that goes on and on; n on the last line, which tells it twice; D when text is
\* queued, which stays there; blocks in blocks that are not entered; an
\* expression that matches nothing or looks behind itself, when another match
\* than the first is meant; what is told in another way than lines are, behind one
\* that is not ended; an empty one that is not ended; two w that share a file.
SedDoubt(z, q, texts) ==
    \/ q.doubt \/ ~q.over
    \/ \E i, j \in DOMAIN z.cmds : i < j /\ z.cmds[i].fn = "{" /\ z.cmds[j].fn = "{" /\ j < BlockEnd(z, i)
    \/ \E i \in DOMAIN z.cmds : z.cmds[i].fn = "s" /\ z.cmds[i].nth # 1 /\ (z.cmds[i].r = <<>> \/ Looks(z.cmds[i].r) \/ InVain(z, z.cmds[i].r))
    \/ Uses(z, {"=", "a", "r"}) /\ (Uses(z, {"c"}) \/ Unfinished(texts))
    \/ Unfinished(texts) /\ Contains(q.out, <<>>)
    \/ \E i, j \in DOMAIN z.cmds : i # j /\ z.cmds[i].fn = "w" /\ z.cmds[j].fn = "w" /\ z.cmds[i].text = z.cmds[j].text
\* The newline at the end may be missing where that of the input is, or where the
\* text of c came last.
OpenEnd(z, texts) == Uses(z, {"c"}) \/ Unfinished(texts)
Says(z, texts, due, out) == out = due \/ (due # <<>> /\ OpenEnd(z, texts) /\ out = Front(due))
SedTells(z, texts, out, q) ==
    \/ SedDoubt(z, q, texts)
    \/ out.gone = "" /\ Says(z, texts, Ended(q.out), out.out) /\ \A name \in DOMAIN q.files : Says(z, texts, q.files[name], out.fs[name])
TellsStream(z, texts, out) == SedTells(z, texts, out, Streamed([z EXCEPT !.lines = FlattenSeq([i \in DOMAIN texts |-> Whole(texts[i])])]))
=============================================================================
