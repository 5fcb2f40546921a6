------------------------------ MODULE BoxPatch ------------------------------
(***************************************************************************)
(* patch (editors/patch.c): a sequence of tokens as BoxDiff prints it is   *)
(* applied to the files, a function from paths to texts.                   *)
(***************************************************************************)
EXTENDS BoxNumbers

MaxLine == 20       \* the largest number of a line

\* xmalloc_fgets(): the next line with its end, <<>> at the end of the file.
LineAt(text, p) ==
    IF p > Len(text) THEN <<>>
    ELSE LET ends == {q \in p..Len(text) : text[q] = "\n"}
         IN  IF ends = {} THEN SubSeq(text, p, Len(text)) ELSE SubSeq(text, p, CHOOSE q \in ends : \A r \in ends : q <= r)

IsNum(t)  == \E n \in 0..MaxLine : ToString(n) = t
Value(t)  == CHOOSE n \in 0..MaxLine : ToString(n) = t

\* The three forms of a hunk's head that sscanf() is asked for.  The first line of
\* each side, <<>> for any other line.
hunk(l) ==
    LET Shape(s) == Len(l) >= Len(s) /\ \A i \in DOMAIN s : IF s[i] = "n" THEN IsNum(l[i]) ELSE l[i] = s[i]
    IN  CASE Shape(<<"@@ -", "n", ",", "n", " +", "n", ",", "n">>) -> <<Value(l[2]), Value(l[6])>>
          [] Shape(<<"@@ -", "n", ",", "n", " +", "n">>) -> <<Value(l[2]), Value(l[6])>>
          [] Shape(<<"@@ -", "n", " +", "n", ",", "n">>) -> <<Value(l[2]), Value(l[4])>>
          [] OTHER -> <<>>

\* extract_filename(): the name up to the tab, without so many directories, all of
\* them for -1.
extract_filename(l, level) ==
    LET stop  == {i \in DOMAIN l : l[i] \in {"\t", "\n"}}
        name  == SubSeq(l, 2, (CHOOSE i \in stop : \A j \in stop : i <= j) - 1)
        names == SelectSeq(name, LAMBDA c : c # "/")
    IN  SubSeq(names, 1 + (IF level = -1 \/ level > Len(names) - 1 THEN Len(names) - 1 ELSE level), Len(names))

-----------------------------------------------------------------------------
(* The state: p is the place in the patch and line its current line (<<>>  *)
(* at the end), src the place in the old text, out the new text.           *)

Next(s) ==
    LET l == LineAt(s.patch, s.p) IN [s EXCEPT !.line = l, !.p = @ + Len(l)]
Stop(s, status) == [s EXCEPT !.dead = TRUE, !.status = status]
Starts(s, t) == s.line # <<>> /\ s.line[1] = t

\* The first character of a line: that of the names of the next file also counts.
Minus(s) == Starts(s, "-") \/ Starts(s, "--- ")
Plus(s)  == Starts(s, "+") \/ Starts(s, "+++ ")

\* copy_lines(), at most n of them
RECURSIVE copy_lines(_, _)
copy_lines(s, n) ==
    LET l == LineAt(s.old, s.src)
    IN  IF n = 0 \/ ~s.has \/ l = <<>> THEN s
        ELSE copy_lines([s EXCEPT !.src = @ + Len(l), !.out = @ \o l, !.copied = @ + 1], n - 1)

\* The lines of a hunk.  A line that does not match the old text ends the reading
\* of the whole patch.
RECURSIVE HunkLines(_)
Written(s) == [s EXCEPT !.out = @ \o Tail(s.line), !.dest = @ + 1]
Matched(s) ==
    LET l == LineAt(s.old, s.src)
        t == [s EXCEPT !.src = @ + Len(l), !.cur = @ + 1]
    IN  CASE ~s.has -> s
          [] s.has /\ l = <<>> -> [s EXCEPT !.bad = TRUE]
          [] s.has /\ l # <<>> -> IF l # Tail(s.line) THEN [t EXCEPT !.bad = TRUE, !.line = <<>>] ELSE t
HunkLine(s) == IF s.bad THEN s ELSE HunkLines(Next(IF Starts(s, " ") THEN Written(s) ELSE s))
HunkLines(s) ==
    CASE Minus(s) \/ Starts(s, " ") -> HunkLine(Matched(s))
      [] Plus(s) -> HunkLines(Next(Written(s)))
      [] OTHER -> s

\* The hunks of one file.
RECURSIVE Hunks(_)
HunkEnd(s) == Hunks([s EXCEPT !.bad = FALSE, !.failed = @ \/ s.bad])
HunkFrom(s, h) ==
    LET t == copy_lines([s EXCEPT !.copied = 0], h[1] - s.cur)
    IN  CASE h[1] = 0 \/ h[2] = 0 -> HunkEnd(HunkLines(Next(s)))
          [] h[1] # 0 /\ h[2] # 0 ->
                IF h[1] < s.cur \/ t.copied # h[1] - s.cur THEN Stop(copy_lines(s, 1000), 1)
                ELSE HunkEnd(HunkLines(Next([t EXCEPT !.cur = h[1], !.dest = @ + t.copied, !.trailing = TRUE])))
Hunks(s) ==
    IF s.line = <<>> \/ hunk(s.line) = <<>> THEN s ELSE HunkFrom([s EXCEPT !.beg = hunk(s.line)[2]], hunk(s.line))

-----------------------------------------------------------------------------
Gone(fs, p) == [q \in DOMAIN fs \ {p} |-> fs[q]]
Backup(p)   == Front(p) \o <<Last(p), ".orig">>

\* The end of a file: the rest is copied, the backup removed if nothing failed, and
\* the new file too if it is empty.
CleanUp(s, old, new, existed) ==
    LET t     == IF s.trailing /\ ~s.dead THEN copy_lines(s, 1000) ELSE s
        fs    == (new :> t.out) @@ t.fs
        clean == IF existed THEN Gone(fs, Backup(new)) ELSE fs
        empty == t.dest = 0 \/ t.beg = 0
        left  == IF old # new THEN Gone(Gone(clean, new), old) ELSE Gone(clean, new)
    IN  CASE t.dead -> [t EXCEPT !.fs = fs]
          [] ~t.dead /\ t.failed -> [t EXCEPT !.fs = fs, !.status = IF @ = 0 THEN 1 ELSE @]
          [] ~t.dead /\ ~t.failed /\ ~empty -> [t EXCEPT !.fs = clean]
          [] ~t.dead /\ ~t.failed /\ empty ->
                IF old # new /\ old \notin DOMAIN clean THEN Stop([t EXCEPT !.fs = left], 1) ELSE [t EXCEPT !.fs = left]

\* The old text is the backup if the names are the same; there is none if the new
\* file did not exist.
Begin(s, old, new) ==
    LET existed == new \in DOMAIN s.fs
        fs == IF existed THEN (Backup(new) :> s.fs[new]) @@ (new :> <<>>) @@ s.fs ELSE (new :> <<>>) @@ s.fs
        has == existed /\ old \in DOMAIN fs
    IN  [s EXCEPT !.fs = fs, !.has = has, !.old = IF ~has THEN <<>> ELSE IF old = new THEN fs[Backup(new)] ELSE fs[old],
                  !.src = 1, !.cur = 1, !.out = <<>>, !.dest = 0, !.trailing = FALSE, !.failed = FALSE, !.bad = FALSE]
OneFile(s, old, new) == CleanUp(Hunks(Next(Begin(s, old, new))), old, new, new \in DOMAIN s.fs)

\* Everything up to the next "--- " is skipped; a patch that ends there, or after
\* it, is read beyond its end.
RECURSIVE SkipLines(_)
SkipLines(s) == IF s.line = <<>> \/ Starts(s, "--- ") THEN s ELSE SkipLines(Next(s))
RECURSIVE Files(_, _)
Second(s, old, level) ==
    CASE s.line = <<>> -> Stop(s, 3)
      [] s.line # <<>> /\ ~Starts(s, "+++ ") -> Files([s EXCEPT !.status = 2], level)
      [] Starts(s, "+++ ") -> Files(OneFile(s, old, extract_filename(s.line, level)), level)
First(s, level) ==
    IF s.line = <<>> THEN Stop(s, 3) ELSE Second(Next(s), extract_filename(s.line, level), level)
Files(s, level) == IF s.dead \/ s.line = <<>> THEN s ELSE First(SkipLines(s), level)

\* The status 3 stands for a crash.
patch_main(fs, patch, level) ==
    Files(Next([fs |-> fs, patch |-> patch, p |-> 1, line |-> <<>>, status |-> 0, dead |-> FALSE, has |-> FALSE, old |-> <<>>,
                src |-> 1, cur |-> 1, out |-> <<>>, dest |-> 0, beg |-> 1, copied |-> 0, trailing |-> FALSE, failed |-> FALSE,
                bad |-> FALSE]), level)
=============================================================================
