--------------------------- MODULE ShellExpansion ---------------------------
(***************************************************************************)
(* The expansion of words (box/shell/ash.c, expand.c): argstr copies the   *)
(* text that the parser left, with its control characters, and replaces    *)
(* what they mark; ifsbreakup splits the result where the recorded regions *)
(* allow it, expandmeta replaces patterns by the names of files.           *)
(*                                                                         *)
(* e is the shell: dest the string being built (expdest), regs the regions *)
(* (ifsfirst), bq the commands still to be substituted (argbackq), vars    *)
(* the variables, params and special the parameters, uflag and fflag the   *)
(* options, dirs the names in each directory.  A position in a text is     *)
(* counted from 1, an offset in dest from 0.  Flags are sets; "full" is    *)
(* EXP_FULL, and so on.                                                    *)
(***************************************************************************)
EXTENDS ShellArith, Fnmatch

CONSTANT CommandOutput(_)     \* external: what a command writes

Loc(e)      == Len(e.dest)
Add(e, cs)  == [e EXCEPT !.dest = @ \o cs]
Fails(e, m) == [e EXCEPT !.err = m]
Quotes(flag) == flag \cap {"full", "case"} # {}
TextAt(t, i) == IF i \in DOMAIN t THEN t[i] ELSE "nul"

\* The first position from i on whose character is in the set, or past the end.
FirstIn(t, i, set) ==
    CHOOSE j \in i..(Len(t) + 1) :
        /\ j = Len(t) + 1 \/ t[j] \in set
        /\ \A k \in i..(j - 1) : t[k] \notin set

\* A C string ends at the first NUL.
CString(t) == SubSeq(t, 1, FirstIn(t, 1, {"nul"}) - 1)

IfsOf(e) == IF IsSet(e, <<"I", "F", "S">>) THEN lookupvar(e, <<"I", "F", "S">>) ELSE <<" ", "\t", "\n">>
IfsFirst(e) == IF IfsOf(e) = <<>> THEN <<>> ELSE <<Head(IfsOf(e))>>
defifs   == {" ", "\t", "\n", "nul"}

-----------------------------------------------------------------------------
(* Escapes and regions.                                                    *)

\* esclen is odd: the character at p is escaped.
IsEscaped(t, p) ==
    LET run == {n \in 0..(p - 1) : \A i \in (p - n)..(p - 1) : t[i] = "ctlesc"}
    IN  (CHOOSE n \in run : \A k \in run : k <= n) % 2 = 1

\* _rmescapes; flag is a subset of {"glob", "quoted"}.
_rmescapes(str, flag) ==
    LET glob  == "glob" \in flag
        first == FirstIn(str, 1, {"ctlesc", "ctlquotemark"})
        step(w, c) ==
            IF w.esc THEN [w EXCEPT !.out = @ \o (IF w.notesc /\ w.inq /\ c # "/" THEN <<"\\", c>> ELSE <<c>>),
                                    !.esc = FALSE, !.notesc = glob]
            ELSE CASE c = "ctlquotemark" -> [w EXCEPT !.inq = ~@ \/ "quoted" \notin flag, !.notesc = glob]
                   [] c = "ctlesc" -> [w EXCEPT !.esc = TRUE]
                   [] OTHER -> [w EXCEPT !.out = Append(@, c), !.notesc = glob /\ c # "\\"]
    IN  FoldLeft(step, [out |-> SubSeq(str, 1, first - 1), esc |-> FALSE, notesc |-> glob,
                        inq |-> "quoted" \notin flag],
                 SubSeq(str, first, Len(str))).out

rmescapes(str) == _rmescapes(str, {})
preglob(pattern, quoted) == _rmescapes(pattern, IF quoted THEN {"glob", "quoted"} ELSE {"glob"})

PMatch(pattern, string) == fnmatch(pattern, string, {})

memtodest(e, cs, syntax, quotes) ==
    LET esc(c) == IF quotes /\ SIT(c, syntax) \in {"CCTL", "CBACK"} THEN <<"ctlesc", c>> ELSE <<c>>
    IN  Add(e, FoldLeft(LAMBDA t, c : t \o esc(c), <<>>, cs))

recordregion(e, b, end, nulonly) ==
    [e EXCEPT !.regs = Append(@, [b |-> b, e |-> end, nulonly |-> nulonly])]

removerecordregions(e, endoff) ==
    LET r    == e.regs
        kept == {n \in 1..Len(r) : \A i \in 2..n : r[i].b < endoff}
        n    == CHOOSE k \in kept : \A j \in kept : j <= k
        cut(k) == IF r[k].e > endoff THEN [r[k] EXCEPT !.e = endoff] ELSE r[k]
    IN  [e EXCEPT !.regs =
            CASE r = <<>> -> r
              [] r # <<>> /\ r[1].e > endoff -> IF r[1].b > endoff THEN <<>> ELSE <<cut(1)>>
              [] OTHER -> Append(SubSeq(r, 1, n - 1), cut(n))]

\* exptilde: only the user's own home, as on Windows.  p: where to go on.
exptilde(e, t, startp, at, flag) ==
    LET end  == FirstIn(t, at + 1, {"ctlesc", "ctlquotemark", "/", "ctlendvar"}
                                   \cup (IF "vartilde" \in flag THEN {":"} ELSE {}))
        home == IF IsSet(e, <<"H", "O", "M", "E">>) THEN lookupvar(e, <<"H", "O", "M", "E">>) ELSE <<>>
        put  == memtodest(e, home, "Sq", Quotes(flag))
    IN  IF TextAt(t, end) \in {"ctlesc", "ctlquotemark"} \/ end # at + 1 \/ home = <<>>
        THEN [e |-> e, p |-> startp]
        ELSE [e |-> recordregion(put, Loc(e), Loc(put), FALSE), p |-> end]

\* expbackq: the newlines that are eaten may have been there before.
expbackq(e, quoted, quotes) ==
    LET put   == memtodest(e, CommandOutput(Head(e.bq)), IF quoted THEN "Dq" ELSE "Base", quotes)
        ends  == {n \in 0..Loc(put) : \A i \in (n + 1)..Loc(put) : put.dest[i] = "\n"}
        n     == CHOOSE k \in ends : \A j \in ends : k <= j
        eaten == [put EXCEPT !.dest = SubSeq(@, 1, n), !.bq = Tail(@)]
    IN  IF quoted THEN eaten ELSE recordregion(eaten, Loc(e), n, FALSE)

\* The routines call one another through Expand, the one operator by which
\* words within words recur.
RECURSIVE Expand(_, _)
argstr(e, t, p, flag, list)  == Expand("argstr", <<e, t, p, flag, list>>)
evalvar(e, t, p, flag, list) == Expand("evalvar", <<e, t, p, flag, list>>)
varvalue(e, name, sub, quoted, flag, list) == Expand("varvalue", <<e, name, sub, quoted, flag, list>>)
Trimmed(value, pattern, sub, quotes) == Expand("trim", <<value, pattern, sub, quotes>>)
pmatch(pattern, string)      == Expand("pmatch", <<pattern, string>>)
expari(e, quotes)            == Expand("expari", <<e, quotes>>)
expandarg(e, word, flag, list) == Expand("expandarg", <<e, word, flag, list>>)
expandhere(e, doc)           == Expand("expandhere", <<e, doc>>)
casematch(e, pattern, val)   == Expand("casematch", <<e, pattern, val>>)

\* expari: back to the last start of arithmetic that is not escaped.
AriDone(e, p, r) ==
    LET done == [removerecordregions(r.e, p - 1) EXCEPT !.dest = SubSeq(@, 1, p - 1) \o NumText(r.val)]
    IN  IF r.err # 0 THEN Fails(r.e, "arithmetic")
        ELSE IF e.dest[p + 1] = "\"" THEN done
        ELSE recordregion(done, p - 1, Loc(done), FALSE)

ExpAri(e, quotes) ==
    LET starts == {i \in 1..Loc(e) : e.dest[i] = "ctlari" /\ ~IsEscaped(e.dest, i)}
        p      == CHOOSE i \in starts : \A j \in starts : j <= i
        text   == SubSeq(e.dest, p + 2, Loc(e) - 1)
    IN  AriDone(e, p, dash_arith(e, IF quotes THEN rmescapes(text) ELSE text))

-----------------------------------------------------------------------------
(* Parameters.                                                             *)

\* var_str_list: the assignments before the word, up to the first other word.
Assigned(list, name) ==
    LET eq(i)  == endofname(list[i]) + 1
        until  == FirstIn([i \in DOMAIN list |-> isassignment(list[i])], 1, {FALSE}) - 1
        hits   == {i \in 1..until : SubSeq(list[i], 1, eq(i) - 1) = name}
        last   == CHOOSE i \in hits : \A j \in hits : j <= i
    IN  IF hits = {} THEN Unset ELSE SubSeq(list[last], eq(last) + 1, Len(list[last]))

\* varvalue: the value is put, its length returned, -1 for none.
VarValue(e, name, sub, quoted, flag, list) ==
    LET syntax == IF quoted THEN "Dq" ELSE "Base"
        put    == sub \notin {"plus", "length"}
        text(cs)  == [e |-> IF put THEN memtodest(e, cs, syntax, Quotes(flag)) ELSE e, len |-> Len(cs)]
        plain(cs) == [e |-> IF put THEN Add(e, cs) ELSE e, len |-> Len(cs)]
        none   == [e |-> e, len |-> -1]
        fields == name = <<"@">> /\ quoted /\ "full" \in flag
        sep    == IF fields THEN <<"nul">> ELSE IfsFirst(e)
        sepq   == ~fields /\ Quotes(flag) /\ sep # <<>> /\ SIT(sep[1], syntax) \in {"CCTL", "CBACK"}
        next(w, i) ==
            [e   |-> IF ~put THEN w.e
                     ELSE Add(memtodest(w.e, e.params[i], syntax, Quotes(flag)),
                              IF i = Len(e.params) THEN <<>> ELSE IF sepq THEN <<"ctlesc">> \o sep ELSE sep),
             len |-> w.len + Len(e.params[i]) + (IF i < Len(e.params) THEN Len(sep) ELSE 0)]
        num    == strtol(name, 1).val
        before == Assigned(list, name)
    IN  CASE name \in DOMAIN e.special -> IF e.special[name] = Unset THEN none ELSE plain(e.special[name])
          [] name = <<"#">> -> plain(NumText(Len(e.params)))
          [] name \in {<<"@">>, <<"*">>} -> FoldLeft(next, [e |-> e, len |-> 0], [i \in DOMAIN e.params |-> i])
          [] name[1] \in Digits -> IF num > Len(e.params) THEN none
                                   ELSE text(IF num = 0 THEN e.arg0 ELSE e.params[num])
          [] OTHER -> IF before # Unset THEN text(before)
                      ELSE IF IsSet(e, name) THEN text(lookupvar(e, name)) ELSE none

\* scanleft and scanright: what is left of a value, which is escaped, when the
\* shortest or longest head or tail that matches is taken away.
ScanTrimmed(value, pattern, sub, quotes) ==
    LET plain == IF quotes THEN rmescapes(value) ELSE value
        all   == Len(plain)
        starts == SetToSortSeq({i \in 1..Len(value) : ~quotes \/ ~IsEscaped(value, i)}, LAMBDA a, b : a < b)
        loc(i) == IF i = all THEN Len(value) + 1 ELSE starts[i + 1]
        zero  == sub \in {"trimleft", "trimleftmax"}
        hits  == {i \in 0..all : pmatch(pattern, IF zero THEN SubSeq(plain, 1, i) ELSE SubSeq(plain, i + 1, all))}
        least == CHOOSE i \in hits : \A j \in hits : i <= j
        most  == CHOOSE i \in hits : \A j \in hits : j <= i
        at    == loc(IF sub \in {"trimrightmax", "trimleft"} THEN least ELSE most)
    IN  IF hits = {} THEN value
        ELSE IF zero THEN SubSeq(value, at, Len(value)) ELSE SubSeq(value, 1, at - 1)

\* The end of evalvar: to the end of the alternative, past its backquotes if
\* they were not expanded.
RECURSIVE SkipWord(_, _, _, _)
SkipWord(e, t, p, nesting) ==
    LET c == t[p]
    IN  CASE c = "ctlesc" -> SkipWord(e, t, p + 2, nesting)
          [] c \in {"ctlbackq", "ctlbackqq"} -> SkipWord([e EXCEPT !.bq = Tail(@)], t, p + 1, nesting)
          [] c = "ctlvar" -> SkipWord(e, t, p + 2, IF t[p + 1] = "normal" THEN nesting ELSE nesting + 1)
          [] c = "ctlendvar" -> IF nesting = 1 THEN [e |-> e, p |-> p + 1] ELSE SkipWord(e, t, p + 1, nesting - 1)
          [] OTHER -> SkipWord(e, t, p + 1, nesting)

\* subevalvar: the word after the operator, behind what is there already.
Word(e, t, p, flag, list) ==
    LET x == argstr(e, t, p, flag, list)
    IN  [e |-> [x EXCEPT !.dest = SubSeq(@, 1, Loc(e)), !.bq = e.bq], text |-> SubSeq(x.dest, Loc(e) + 1, Loc(x))]

\* evalvar
EvalVar(e, t, p, flag, list) ==
    LET sub    == t[p]
        colon  == t[p + 1] = "colon"
        quoted == t[p + 2] = "quoted"
        eq     == FirstIn(t, p + 3, {"="})
        name   == SubSeq(t, p + 3, eq - 1)
        var    == varvalue(e, name, sub, quoted, flag, list)
        len    == IF colon THEN var.len - 1 ELSE var.len
        has    == IF sub = "plus" THEN -1 - len ELSE len
        easy   == ~quoted \/ (name = <<"@">> /\ e.params # <<>>)
        record(x)  == recordregion(x, Loc(e), Loc(x), quoted)
        easily(x)  == IF easy THEN record(x) ELSE x
        end(x) == IF x.err # "none" THEN [e |-> x, p |-> p]
                  ELSE IF sub = "normal" THEN [e |-> x, p |-> eq + 1]
                  ELSE LET k == SkipWord(x, t, eq + 1, 1)
                       IN  IF sub \in {"assign", "question"} \/ has >= 0 THEN k ELSE [k EXCEPT !.e.bq = x.bq]
        plain  == Word(var.e, t, eq + 1, {}, list)
        set    == setvar([plain.e EXCEPT !.dest = e.dest], name, CString(SubSeq(var.e.dest, Loc(e) + 1, Loc(var.e)) \o plain.text))
        again  == varvalue(removerecordregions(set, Loc(e)), name, sub, quoted, flag, list)
        pat    == Word(Add(var.e, <<"nul">>), t, eq + 1, {"case"}, list)
        value  == SubSeq(var.e.dest, Loc(e) + 1, Loc(var.e))
        trim   == [pat.e EXCEPT !.dest = e.dest \o Trimmed(value, preglob(pat.text, quoted), sub, Quotes(flag))]
    IN  CASE sub \in {"minus", "plus"} ->
               end(IF has >= 0 THEN easily(var.e)
                   ELSE argstr(var.e, t, eq + 1, flag \cup {"tilde", IF quoted THEN "qword" ELSE "word"}, list))
          [] sub \in {"assign", "question"} ->
               end(IF has >= 0 THEN easily(var.e)
                   ELSE IF plain.e.err # "none" THEN plain.e
                   ELSE IF sub = "question" THEN Fails(plain.e, "unset")
                   ELSE easily(again.e))
          [] OTHER ->
               end(IF has < 0 /\ e.uflag THEN Fails(var.e, "unset")
                   ELSE IF sub = "length" THEN record(Add(var.e, NumText(IF has > 0 THEN has ELSE 0)))
                   ELSE IF sub = "normal" THEN easily(var.e)
                   ELSE IF has < 0 THEN var.e
                   ELSE IF pat.e.err # "none" THEN pat.e
                   ELSE record(removerecordregions(trim, Loc(e))))

-----------------------------------------------------------------------------
(* argstr.  w is its state: the text t from position p on; n characters    *)
(* from there are copied whatever they are; start is where the region of   *)
(* text that can be split begins.                                          *)

Reject(flag) ==
    {"nul", "ctlquotemark", "ctlendvar", "ctlesc", "ctlvar", "ctlbackq", "ctlbackqq", "ctlendari"}
    \cup (IF "vartilde" \in flag THEN {":"} ELSE {})
    \cup (IF "vartilde" \in flag /\ "vartilde2" \notin flag THEN {"="} ELSE {})

Start(w) == [w EXCEPT !.n = 0, !.start = Loc(w.e)]

TildeAt(w) ==
    LET at == IF TextAt(w.t, w.p) = "ctlesc" /\ "qword" \in w.flag THEN w.p + 1 ELSE w.p
        x  == exptilde(w.e, w.t, w.p, at, w.flag)
    IN  Start(IF TextAt(w.t, at) = "~" THEN [w EXCEPT !.e = x.e, !.p = x.p] ELSE w)

\* Mutant: a quoted character does not move the start of what can be split.
AddQuoteInRegion(w) == IF Quotes(w.flag) THEN [w EXCEPT !.p = @ - 1, !.n = @ + 1] ELSE w

AddQuote(w) == IF Quotes(w.flag) THEN [w EXCEPT !.p = @ - 1, !.n = @ + 1, !.start = @ + 1] ELSE w

\* "$@" alone between quotes.
LoneParams(t, p) ==
    /\ p + 5 <= Len(t)
    /\ SubSeq(t, p, p + 5) = <<"ctlvar", "normal", "plain", "quoted", "@", "=">>
    /\ TextAt(t, p + 6) = "ctlquotemark"
       \/ (TextAt(t, p + 6) = "ctlendvar" /\ TextAt(t, p + 7) = "ctlquotemark")

RECURSIVE Run(_)
Run(w) ==
    LET stop == FirstIn(w.t, w.p + w.n, Reject(w.flag))
        c    == TextAt(w.t, stop)
        to   == IF c \in {"=", ":", "ctlendari"} THEN stop ELSE stop - 1
        put  == Add(w.e, SubSeq(w.t, w.p, to))
        e    == IF "word" \in w.flag /\ ~w.inq /\ to >= w.p /\ Loc(put) > w.start
                THEN recordregion(put, w.start, Loc(put), FALSE) ELSE put
        v    == [w EXCEPT !.e = e, !.p = stop + 1, !.n = 0, !.start = IF to >= w.p THEN Loc(put) ELSE @]
        tilde(u) == IF TextAt(u.t, u.p) = "~" THEN TildeAt(u) ELSE u
        var(list) == evalvar(v.e, v.t, v.p + (IF c = "ctlvar" THEN 0 ELSE 1), v.flag, list)
        lone == c = "ctlquotemark" /\ ~w.inq /\ LoneParams(w.t, stop + 1)
        with(x, p) == Run(Start([v EXCEPT !.e = x, !.p = p]))
        past(x, n) == with(x.e, x.p + n)
    IN  IF w.e.err # "none" THEN w.e
        ELSE CASE c \in {"nul", "ctlendvar"} -> v.e
               [] c = "=" -> Run(tilde([v EXCEPT !.flag = @ \cup {"vartilde2"}]))
               [] c = ":" -> Run(tilde(v))
               [] lone -> past(var(<<>>), 1)
               [] c = "ctlquotemark" /\ ~lone -> Run(AddQuote([v EXCEPT !.inq = ~@]))
               [] c = "ctlesc" -> Run(AddQuote([v EXCEPT !.start = @ + 1, !.n = 1]))
               [] c = "ctlvar" -> past(var(w.list), 0)
               [] c \in {"ctlbackq", "ctlbackqq"} -> with(expbackq(v.e, c = "ctlbackqq", Quotes(w.flag)), v.p)
               [] c = "ctlendari" -> with(expari(v.e, Quotes(w.flag)), v.p)

ArgStr(e, t, p, flag, list) ==
    LET w == [e |-> e, t |-> t, p |-> p, n |-> 0, start |-> Loc(e), inq |-> FALSE,
              flag |-> flag \ {"tilde"}, list |-> list]
    IN  Run(IF "tilde" \in flag THEN TildeAt(w) ELSE w)

-----------------------------------------------------------------------------
(* ifsbreakup.  b is its state: p is where it looks, start where the       *)
(* current field begins, out the fields; positions count from 1.           *)

\* After a delimiter: white space, and one other delimiter after white space.
RECURSIVE AfterDelimiter(_, _, _, _, _)
AfterDelimiter(string, end, ifs, p, ifsspc) ==
    LET c    == IF TextAt(string, p) = "ctlesc" THEN TextAt(string, p + 1) ELSE TextAt(string, p)
        past == IF TextAt(string, p) = "ctlesc" THEN p + 2 ELSE p + 1
    IN  IF p > end \/ c \notin ifs \/ (c \notin defifs /\ ~ifsspc) THEN p
        ELSE AfterDelimiter(string, end, ifs, past, ifsspc /\ c \in defifs)

RECURSIVE BreakRegion(_, _, _, _)
BreakRegion(string, reg, ifs, b) ==
    LET q    == b.p
        at   == IF string[q] = "ctlesc" THEN q + 1 ELSE q
        c    == string[at]
        space == c \in defifs /\ ~reg.nulonly
        next == IF reg.nulonly THEN at + 1 ELSE AfterDelimiter(string, reg.e, ifs, at + 1, space)
    IN  IF q > reg.e THEN b
        ELSE IF c \notin ifs THEN BreakRegion(string, reg, ifs, [b EXCEPT !.p = at + 1])
        ELSE IF q = b.start /\ space THEN BreakRegion(string, reg, ifs, [b EXCEPT !.p = at + 1, !.start = at + 1])
        ELSE BreakRegion(string, reg, ifs, [p |-> next, start |-> next, out |-> Append(b.out, SubSeq(string, b.start, q - 1))])

ifsbreakup(e) ==
    LET real    == {IfsOf(e)[i] : i \in DOMAIN IfsOf(e)} \cup {"nul"}
        region(b, reg) == BreakRegion(e.dest, reg, IF reg.nulonly THEN {"nul"} ELSE real, [b EXCEPT !.p = reg.b + 1])
        b       == FoldLeft(region, [p |-> 1, start |-> 1, out |-> <<>>], e.regs)
        rest    == CString(SubSeq(e.dest, b.start, Loc(e)))
        nulonly == e.regs # <<>> /\ e.regs[Len(e.regs)].nulonly
        all     == IF rest = <<>> /\ ~nulonly THEN b.out ELSE Append(b.out, rest)
    IN  [i \in DOMAIN all |-> CString(all[i])]

-----------------------------------------------------------------------------
(* File names.                                                             *)

\* Does the [ before q have an end?
RECURSIVE BracketEnds(_, _)
BracketEnds(name, q0) ==
    LET q == IF TextAt(name, q0) = "\\" THEN q0 + 1 ELSE q0
    IN  /\ TextAt(name, q) \notin {"/", "nul"}
        /\ TextAt(name, q + 1) = "]" \/ BracketEnds(name, q + 1)

\* The first part with a wildcard: [meta, start, end].
RECURSIVE FirstMeta(_, _, _, _)
FirstMeta(name, p, start, meta) ==
    LET c == TextAt(name, p)
        bracket == BracketEnds(name, IF TextAt(name, p + 1) = "!" THEN p + 2 ELSE p + 1)
    IN  CASE c = "nul" \/ (c = "/" /\ meta) -> [meta |-> meta, start |-> start, end |-> p]
          [] c = "/" /\ ~meta -> FirstMeta(name, p + 1, p + 1, FALSE)
          [] c = "\\" -> FirstMeta(name, p + 2, start, meta)
          [] OTHER -> FirstMeta(name, p + 1, start, meta \/ c \in {"*", "?"} \/ (c = "[" /\ bracket))

\* Backslashes removed.
Plain(name) ==
    FoldLeft(LAMBDA w, c : IF c = "\\" /\ ~w.esc THEN [w EXCEPT !.esc = TRUE]
                           ELSE [out |-> Append(w.out, c), esc |-> FALSE],
             [out |-> <<>>, esc |-> FALSE], name).out

\* opendir and lstat of a path.
DirName(path) == IF path = <<>> THEN <<".">> ELSE IF path = <<"/">> THEN path ELSE SubSeq(path, 1, Len(path) - 1)
Exists(e, path) ==
    LET slash == {i \in 0..Len(path) : i = 0 \/ path[i] = "/"}
        last  == CHOOSE i \in slash : \A j \in slash : j <= i
        dir   == DirName(SubSeq(path, 1, last))
    IN  path # <<>> /\ dir \in DOMAIN e.dirs
        /\ (last = Len(path) \/ SubSeq(path, last + 1, Len(path)) \in e.dirs[dir])

\* expmeta: the names that match, dir is what comes before.
RECURSIVE expmeta(_, _, _)
expmeta(e, dir, name) ==
    LET m     == FirstMeta(name, 1, 1, FALSE)
        path  == dir \o Plain(name)
        in    == dir \o Plain(SubSeq(name, 1, m.start - 1))
        part  == SubSeq(name, m.start, m.end - 1)
        rest  == SubSeq(name, m.end + 1, Len(name))
        dot   == TextAt(part, IF part[1] = "\\" THEN 2 ELSE 1) = "."
        found == {n \in e.dirs[DirName(in)] : (n[1] # "." \/ dot) /\ pmatch(part, n)}
    IN  IF ~m.meta THEN IF dir = <<>> \/ Exists(e, path) THEN {path} ELSE {}
        ELSE IF DirName(in) \notin DOMAIN e.dirs THEN {}
        ELSE IF m.end > Len(name) THEN {in \o n : n \in found}
        ELSE UNION {expmeta(e, in \o n \o <<"/">>, rest) : n \in found}

\* strcmp
Before(a, b) ==
    \E i \in 1..(Len(b)) :
        /\ i <= Len(a) + 1 /\ SubSeq(a, 1, i - 1) = SubSeq(b, 1, i - 1)
        /\ i = Len(a) + 1 \/ Code(a[i]) < Code(b[i])

\* expandmeta, with expsort
expandmeta(e, list) ==
    LET found(text) == expmeta(e, <<>>, preglob(text, FALSE))
        names(text) == IF e.fflag \/ FirstIn(text, 1, {"*", "?", "["}) > Len(text) \/ found(text) = {}
                       THEN <<rmescapes(text)>>
                       ELSE SetToSortSeq(found(text), Before)
    IN  FoldLeft(LAMBDA out, text : out \o names(text), <<>>, list)

-----------------------------------------------------------------------------
(* Words.                                                                  *)

NewString(e, word) == [e EXCEPT !.dest = <<>>, !.regs = <<>>, !.bq = word.bq]

\* expandarg: the shell afterwards and the arguments.
ExpandArg(e, word, flag, list) ==
    LET x == argstr(NewString(e, word), word.text, 1, flag, list)
    IN  [e |-> x, args |-> CASE x.err # "none" -> <<>>
                             [] x.err = "none" /\ "full" \in flag -> expandmeta(x, ifsbreakup(x))
                             [] OTHER -> <<IF "redir" \in flag THEN rmescapes(CString(x.dest)) ELSE CString(x.dest)>>]

\* expandhere
ExpandHere(e, doc) == argstr(NewString(e, doc), doc.text, 1, {}, <<>>)

\* casematch
CaseMatch(e, pattern, val) ==
    LET x == argstr(NewString(e, pattern), pattern.text, 1, {"tilde", "case"}, <<>>)
    IN  [e |-> x, match |-> x.err = "none" /\ pmatch(preglob(x.dest, FALSE), val)]

Expand(routine, x) ==
    CASE routine = "argstr"     -> ArgStr(x[1], x[2], x[3], x[4], x[5])
      [] routine = "evalvar"    -> EvalVar(x[1], x[2], x[3], x[4], x[5])
      [] routine = "varvalue"   -> VarValue(x[1], x[2], x[3], x[4], x[5], x[6])
      [] routine = "trim"       -> ScanTrimmed(x[1], x[2], x[3], x[4])
      [] routine = "pmatch"     -> PMatch(x[1], x[2])
      [] routine = "expari"     -> ExpAri(x[1], x[2])
      [] routine = "expandarg"  -> ExpandArg(x[1], x[2], x[3], x[4])
      [] routine = "expandhere" -> ExpandHere(x[1], x[2])
      [] routine = "casematch"  -> CaseMatch(x[1], x[2], x[3])
=============================================================================
