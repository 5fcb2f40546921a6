----------------------------- MODULE ShellPosix -----------------------------
(***************************************************************************)
(* What commands, words, patterns and arithmetic of the shell are, from    *)
(* the shell command language of POSIX and from C: the reference for       *)
(* ShellParser, ShellExpansion and ShellArith.  A word is a sequence of    *)
(* pieces, a command and an arithmetic expression are trees; all of them   *)
(* can be written as source text.                                          *)
(*                                                                         *)
(* The expansion of a word is a sequence of items: a character, whether it *)
(* is quoted, and whether it comes from an expansion.  The item "brk" is   *)
(* the end of a field ("$@"), "qm" a pair of quotes.                       *)
(***************************************************************************)
EXTENDS ShellParser, ShellExpansion

CONSTANT WordTexts     \* pairs of a word as it is written and as it is parsed

Item(c, q, x) == [c |-> c, q |-> q, x |-> x]
Items(cs, q, x) == [i \in DOMAIN cs |-> Item(cs[i], q, x)]
NoValue == <<Item("unset", FALSE, FALSE)>>
Qm == <<Item("qm", TRUE, FALSE)>>

CharsOf(items) == LET real == SelectSeq(items, LAMBDA it : it.c # "qm") IN [i \in DOMAIN real |-> real[i].c]

-----------------------------------------------------------------------------
(* Pieces as they are written: [k: "lit"/"sq", cs], [k: "esc", c],         *)
(* [k: "dq", ps], [k: "var", name, op, ps], [k: "cmd"], [k: "ari", cs].    *)

RECURSIVE Source(_)
Source(ps) ==
    LET name(i) == i < Len(ps) /\ ps[i + 1].k = "lit" /\ is_in_name(Head(ps[i + 1].cs))
        one(p, i) ==
          CASE p.k = "lit" -> p.cs
            [] p.k = "sq"  -> <<"'">> \o p.cs \o <<"'">>
            [] p.k = "esc" -> <<"\\", p.c>>
            [] p.k = "dq"  -> <<"\"">> \o Source(p.ps) \o <<"\"">>
            [] p.k = "cmd" -> <<"$", "(", "a", ")">>
            [] p.k = "ari" -> <<"$", "(", "(">> \o p.cs \o <<")", ")">>
            [] p.k = "var" -> CASE p.op = "" -> IF name(i) THEN <<"$", "{">> \o p.name \o <<"}">> ELSE <<"$">> \o p.name
                                [] p.op = "len" -> <<"$", "{", "#">> \o p.name \o <<"}">>
                                [] OTHER -> <<"$", "{">> \o p.name \o Chars(p.op) \o Source(p.ps) \o <<"}">>
    IN  FoldLeft(LAMBDA s, i : s \o one(ps[i], i), <<>>, [i \in DOMAIN ps |-> i])

-----------------------------------------------------------------------------
(* Patterns: items, in which only what is not quoted is special.           *)

Special(it, c) == it.c = c /\ ~it.q

\* The end of the bracket expression that begins at the first item, or 0.
BracketEnd(p) ==
    LET from == IF Len(p) > 1 /\ (Special(p[2], "!") \/ Special(p[2], "^")) THEN 3 ELSE 2
        ends == {i \in (from + 1)..Len(p) : Special(p[i], "]")}
    IN  IF ends = {} THEN 0 ELSE CHOOSE i \in ends : \A j \in ends : i <= j

InSet(p, from, to, c) ==
    \E i \in from..to :
        \/ p[i].c = c
        \/ /\ i + 2 <= to /\ Special(p[i + 1], "-")
           /\ Code(p[i].c) <= Code(c) /\ Code(c) <= Code(p[i + 2].c)

RECURSIVE RefMatch(_, _)
RefMatch(p, s) ==
    LET end == BracketEnd(p)
        not == Special(p[2], "!") \/ Special(p[2], "^")
    IN  IF p = <<>> THEN s = <<>>
        ELSE IF p[1].c = "qm" THEN RefMatch(Tail(p), s)
        ELSE IF Special(p[1], "*") THEN \E i \in 0..Len(s) : RefMatch(Tail(p), SubSeq(s, i + 1, Len(s)))
        ELSE IF s = <<>> THEN FALSE
        ELSE IF Special(p[1], "?") THEN RefMatch(Tail(p), Tail(s))
        ELSE IF Special(p[1], "[") /\ end # 0
        THEN InSet(p, IF not THEN 3 ELSE 2, end - 1, s[1]) # not /\ RefMatch(SubSeq(p, end + 1, Len(p)), Tail(s))
        ELSE p[1].c = s[1] /\ RefMatch(Tail(p), Tail(s))

-----------------------------------------------------------------------------
(* Expansion.  e is the shell as in ShellExpansion; its strings are unused.*)

Stripped(cs) ==
    LET ends == {n \in 0..Len(cs) : \A i \in (n + 1)..Len(cs) : cs[i] = "\n"}
    IN  SubSeq(cs, 1, CHOOSE n \in ends : \A k \in ends : n <= k)

\* The value of a parameter, as items.
ParamItems(e, name, q, fields) ==
    LET sep == IF name = <<"@">> /\ q /\ fields THEN <<Item("brk", q, TRUE)>>
               ELSE Items(IfsFirst(e), q, TRUE)
        join(t, i) == t \o (IF i = 1 THEN <<>> ELSE sep) \o Items(e.params[i], q, TRUE)
    IN  CASE name \in {<<"@">>, <<"*">>} -> FoldLeft(join, <<>>, [i \in DOMAIN e.params |-> i])
          [] name = <<"#">> -> Items(NumText(Len(e.params)), q, TRUE)
          [] name[1] \in Digits -> IF DigitVal(name[1]) \in DOMAIN e.params
                                   THEN Items(e.params[DigitVal(name[1])], q, TRUE) ELSE NoValue
          [] OTHER -> IF IsSet(e, name) THEN Items(lookupvar(e, name), q, TRUE) ELSE NoValue

\* What is left of a value when a pattern is trimmed.
RefTrim(value, pattern, op) ==
    LET all  == Len(value)
        cs   == CharsOf(value)
        head == op \in {"#", "##"}
        hits == {i \in 0..all : RefMatch(pattern, IF head THEN SubSeq(cs, 1, i) ELSE SubSeq(cs, i + 1, all))}
        at   == IF op \in {"#", "%%"} THEN CHOOSE i \in hits : \A j \in hits : i <= j
                ELSE CHOOSE i \in hits : \A j \in hits : i >= j
    IN  IF hits = {} THEN value ELSE IF head THEN SubSeq(value, at + 1, all) ELSE SubSeq(value, 1, at)

\* q: between double quotes; x: in the word of an expansion, which is split;
\* fields: "$@" makes fields.
RECURSIVE Ref(_, _, _, _, _)
RefAri(r, q) ==
    IF r.err # 0 THEN [e |-> r.e, items |-> <<>>, err |-> "arithmetic"]
    ELSE [e |-> r.e, items |-> Items(NumText(r.val), q, TRUE), err |-> "none"]

RefVar(e, p, q, fields) ==
    LET val   == ParamItems(e, p.name, q, fields)
        none  == val = NoValue \/ (p.op \in {":-", ":+", ":=", ":?"} /\ val = <<>>)
        word  == Ref(e, p.ps, q, TRUE, fields)
        plain == Ref(e, p.ps, FALSE, FALSE, FALSE)
        set   == setvar(plain.e, p.name, CharsOf(plain.items))
        just(items) == [e |-> e, items |-> items, err |-> "none"]
        error == [e |-> e, items |-> <<>>, err |-> "unset"]
        value == IF val = NoValue THEN <<>> ELSE val
    IN  CASE p.op = "" -> IF val = NoValue /\ e.uflag THEN error ELSE just(value)
          [] p.op = "len" -> IF val = NoValue /\ e.uflag THEN error ELSE just(Items(NumText(Len(value)), q, TRUE))
          [] p.op \in {"-", ":-"} -> IF none THEN word ELSE just(value)
          [] p.op \in {"+", ":+"} -> IF none THEN just(<<>>) ELSE word
          [] p.op \in {"=", ":="} -> IF ~none THEN just(value)
                                     ELSE [e |-> set, items |-> Items(CharsOf(plain.items), q, TRUE), err |-> plain.err]
          [] p.op \in {"?", ":?"} -> IF none THEN error ELSE just(value)
          [] OTHER -> IF val = NoValue THEN IF e.uflag THEN error ELSE just(<<>>)
                      ELSE [e |-> plain.e, items |-> RefTrim(value, plain.items, p.op), err |-> plain.err]

Ref(e, ps, q, x, fields) ==
    LET one(en, p) ==
          LET in == Ref(en, p.ps, TRUE, x, fields)
              ok(items) == [e |-> en, items |-> items, err |-> "none"]
          IN  CASE p.k = "lit" -> ok(Items(p.cs, q, x /\ ~q))
                [] p.k = "esc" -> ok(Items(<<p.c>>, TRUE, FALSE))
                [] p.k = "sq"  -> ok(Qm \o Items(p.cs, TRUE, FALSE))
                [] p.k = "dq"  -> [in EXCEPT !.items = IF Len(p.ps) = 1 /\ p.ps[1].k = "var" /\ p.ps[1].name = <<"@">> /\ fields
                                                          /\ p.ps[1].op = "" /\ en.params = <<>>
                                                       THEN @ ELSE Qm \o @]
                [] p.k = "var" -> RefVar(en, p, q, fields)
                [] p.k = "cmd" -> ok(Items(Stripped(CommandOutput(p)), q, TRUE))
                [] p.k = "ari" -> RefAri(dash_arith(en, p.cs), q)
        next(w, p) == IF w.err # "none" THEN w ELSE [one(w.e, p) EXCEPT !.items = w.items \o @]
    IN  FoldLeft(next, [e |-> e, items |-> <<>>, err |-> "none"], ps)

\* A tilde at the beginning.
TildeExpanded(e, ps) ==
    LET p == ps[1]
        alone == ps # <<>> /\ p.k = "lit" /\ p.cs # <<>> /\ p.cs[1] = "~"
                 /\ (IF Len(p.cs) > 1 THEN p.cs[2] = "/" ELSE Len(ps) = 1)
        home == lookupvar(e, <<"H", "O", "M", "E">>)
    IN  IF alone /\ IsSet(e, <<"H", "O", "M", "E">>) /\ home # <<>>
        THEN [home |-> Items(home, TRUE, FALSE), ps |-> <<[p EXCEPT !.cs = Tail(@)]>> \o Tail(ps)]
        ELSE [home |-> <<>>, ps |-> ps]

RefWord(e, ps, fields) ==
    LET t == TildeExpanded(e, ps)
    IN  [Ref(e, t.ps, FALSE, FALSE, fields) EXCEPT !.items = t.home \o @]

-----------------------------------------------------------------------------
(* Field splitting.  Blanks of IFS around a delimiter belong to it, blanks *)
(* alone are one delimiter, at the ends they are none.                     *)

Fields(e, items) ==
    LET ifs == {IfsOf(e)[i] : i \in DOMAIN IfsOf(e)}
        delimits(it) == it.x /\ ~it.q /\ it.c \in ifs
        step(w, it) ==
            CASE it.c = "brk" -> [out |-> Append(w.out, w.cur), cur |-> <<>>, has |-> TRUE, ws |-> FALSE]
              [] it.c # "brk" /\ ~delimits(it) -> [w EXCEPT !.cur = Append(@, it), !.has = TRUE, !.ws = FALSE]
              [] OTHER ->
                 IF it.c \in {" ", "\t", "\n"}
                 THEN IF w.has THEN [out |-> Append(w.out, w.cur), cur |-> <<>>, has |-> FALSE, ws |-> TRUE] ELSE w
                 ELSE IF w.ws THEN [w EXCEPT !.ws = FALSE]
                 ELSE [out |-> Append(w.out, w.cur), cur |-> <<>>, has |-> FALSE, ws |-> FALSE]
        end == FoldLeft(step, [out |-> <<>>, cur |-> <<>>, has |-> FALSE, ws |-> FALSE], items)
    IN  IF end.has THEN Append(end.out, end.cur) ELSE end.out

-----------------------------------------------------------------------------
(* File names: a path matches part by part; a leading period must be       *)
(* matched by a period.                                                    *)

\* Items between slashes.
Parts(items) ==
    FoldLeft(LAMBDA ps, it : IF it.c = "/" THEN Append(ps, <<>>)
                             ELSE [ps EXCEPT ![Len(ps)] = Append(@, it)],
             <<<<>>>>, items)

IsPattern(part) ==
    \E i \in DOMAIN part : \/ Special(part[i], "*") \/ Special(part[i], "?")
                           \/ Special(part[i], "[") /\ BracketEnd(SubSeq(part, i, Len(part))) # 0

\* The files, as sequences of names.
Files(e) ==
    UNION {{IF d = <<".">> THEN <<n>> ELSE <<d, n>> : n \in e.dirs[d]} : d \in DOMAIN e.dirs}

PartMatches(part, name) ==
    LET p == SelectSeq(part, LAMBDA it : it.c # "qm")
    IN  (name[1] = "." => p # <<>> /\ p[1].c = ".") /\ RefMatch(p, name)

FileMatches(parts, file) ==
    /\ Len(file) = Len(parts)
    /\ \A i \in DOMAIN parts : PartMatches(parts[i], file[i])

PathOf(file) == IF Len(file) = 1 THEN file[1] ELSE file[1] \o <<"/">> \o file[2]

\* The arguments that one field becomes.
Globbed(e, field) ==
    LET parts == Parts(field)
        hits  == {PathOf(f) : f \in {g \in Files(e) : FileMatches(parts, g)}}
    IN  IF ~e.fflag /\ hits # {} /\ \E i \in DOMAIN parts : IsPattern(parts[i])
        THEN SetToSortSeq(hits, Before) ELSE <<CharsOf(field)>>

RefArgs(e, ps) ==
    LET args(r) == [r EXCEPT !.items = FoldLeft(LAMBDA out, f : out \o Globbed(e, f), <<>>, Fields(r.e, @))]
    IN  args(RefWord(e, ps, TRUE))

-----------------------------------------------------------------------------
(* Arithmetic: trees [op, l, r] (and [op, c, l, r] for a condition), names *)
(* [op: "var", name] and numbers [op: "num", n], as C evaluates them.      *)

CPrec(t) ==
    CASE t.op \in {"num", "var"} -> 18
      [] t.op \in {"++x", "--x", "x++", "x--"} -> 17
      [] t.op \in {"neg", "not", "com"} -> 16
      [] t.op = "**" -> 15   [] t.op \in {"*", "/", "%"} -> 14   [] t.op \in {"+", "-"} -> 13
      [] t.op \in {"<<", ">>"} -> 12   [] t.op \in {"<", ">", "<=", ">="} -> 11
      [] t.op \in {"==", "!="} -> 10   [] t.op = "&" -> 9   [] t.op = "^" -> 8   [] t.op = "|" -> 7
      [] t.op = "&&" -> 6   [] t.op = "||" -> 5   [] t.op = "?" -> 4   [] t.op = "," -> 1
      [] OTHER -> 2

\* Written with the parentheses it needs; x and y: the names, spelt out.
RECURSIVE Spelt(_)
Spelt(t) ==
    LET sub(u, least) == IF CPrec(u) >= least THEN Spelt(u) ELSE <<"(">> \o Spelt(u) \o <<")">>
        p == CPrec(t)
        right == t.op = "**" \/ p = 2
    IN  CASE t.op = "num" -> NumText(t.n)
          [] t.op = "var" -> t.name
          [] t.op \in {"++x", "--x"} -> Chars(SubSeq(t.op, 1, 2)) \o t.l.name
          [] t.op \in {"x++", "x--"} -> t.l.name \o Chars(SubSeq(t.op, 2, 3))
          [] t.op \in {"neg", "not", "com"} ->
               (CASE t.op = "neg" -> <<"-">> [] t.op = "not" -> <<"!">> [] OTHER -> <<"~">>)
               \o <<" ">> \o sub(t.l, 16)
          [] t.op = "?" -> sub(t.c, 5) \o <<"?">> \o sub(t.l, 5) \o <<":">> \o sub(t.r, 4)
          [] OTHER -> sub(t.l, IF right THEN p + 1 ELSE p) \o <<" ">> \o Chars(t.op) \o <<" ">> \o sub(t.r, IF right THEN p ELSE p + 1)

Value(e, val, err) == [e |-> e, val |-> val, err |-> err]

RECURSIVE CEval(_, _)
CBinary(op, a, b) ==
    LET shift == b \in 0..(Width - 1)
        power[n \in 0..b] == IF n = 0 THEN 1 ELSE Wrap(a * power[n - 1])
    IN  CASE op = "+" -> Wrap(a + b) [] op = "-" -> Wrap(a - b) [] op = "*" -> Wrap(a * b)
          [] op = "/" -> IF b = 0 THEN 0 ELSE Wrap(Quot(a, b))
          [] op = "%" -> IF b = 0 THEN 0 ELSE Rem(a, b)
          [] op = "**" -> IF b < 0 THEN 0 ELSE power[b]
          [] op = "<<" -> IF shift THEN Wrap(a * 2 ^ b) ELSE 0
          [] op = ">>" -> IF shift THEN a \div 2 ^ b ELSE 0
          [] op = "<"  -> Truth(a < b) [] op = ">" -> Truth(a > b) [] op = "<=" -> Truth(a <= b)
          [] op = ">=" -> Truth(a >= b) [] op = "==" -> Truth(a = b) [] op = "!=" -> Truth(a # b)
          [] op = "&"  -> Wrap(Unsigned(a) & Unsigned(b)) [] op = "|" -> Wrap(Unsigned(a) | Unsigned(b))
          [] op = "^"  -> Wrap(Unsigned(a) ^^ Unsigned(b))
          [] op = "&&" -> Truth(a # 0 /\ b # 0) [] op = "||" -> Truth(a # 0 \/ b # 0)
          [] op \in {",", "="} -> b

CBad(op, a, b) ==
    \/ op \in {"/", "%"} /\ (b = 0 \/ (b = -1 /\ a = -LongMax - 1))
    \/ op = "**" /\ b < 0
    \/ op \in {"<<", ">>"} /\ b \notin 0..(Width - 1)

AssignOps == [op \in {"=", "+=", "-=", "*=", "/=", "%=", "<<=", ">>=", "&=", "|=", "^="} |->
    SubSeq(op, 1, Len(op) - 1)]

CEval(e, t) ==
    LET l == CEval(e, t.l)
        r == CEval(l.e, t.r)
        c == CEval(e, t.c)
        by == IF t.op \in {"++x", "x++"} THEN 1 ELSE -1
        op == IF t.op \in DOMAIN AssignOps /\ t.op # "=" THEN AssignOps[t.op] ELSE t.op
        value == IF t.op = "=" THEN r.val ELSE CBinary(op, l.val, r.val)
    IN  CASE t.op = "num" -> Value(e, t.n, FALSE)
          [] t.op = "var" -> Value(e, e.cvars[t.name], FALSE)
          [] t.op = "neg" -> Value(l.e, Wrap(-l.val), l.err)
          [] t.op = "not" -> Value(l.e, Truth(l.val = 0), l.err)
          [] t.op = "com" -> Value(l.e, Wrap(-l.val - 1), l.err)
          [] t.op \in {"++x", "--x", "x++", "x--"} ->
               Value([e EXCEPT !.cvars[t.l.name] = Wrap(@ + by)],
                     IF t.op \in {"++x", "--x"} THEN Wrap(l.val + by) ELSE l.val, FALSE)
          [] t.op = "?" -> IF c.err THEN c ELSE IF c.val # 0 THEN CEval(c.e, t.l) ELSE CEval(c.e, t.r)
          [] OTHER ->
               LET bad == l.err \/ r.err \/ CBad(op, l.val, r.val)
               IN  IF t.op \in DOMAIN AssignOps /\ ~bad
                   THEN Value([r.e EXCEPT !.cvars[t.l.name] = value], value, FALSE)
                   ELSE Value(r.e, value, bad)

\* The variables that an expression changes, and that it looks at.
Assigning == DOMAIN AssignOps \cup {"++x", "--x", "x++", "x--"}
RECURSIVE Below(_)
Below(t) == {t} \cup UNION {Below(t[f]) : f \in DOMAIN t \cap {"c", "l", "r"}}
Changes(t) == {u.l.name : u \in {v \in Below(t) : v.op \in Assigning}}
Looks(t)   == {u.name : u \in {v \in Below(t) : v.op = "var"}}
Risky(t)   == \E u \in Below(t) : u.op \in {"/", "%", "**", "<<", ">>"} \cup Assigning

\* C gives the expression a meaning: nothing is changed and used without a
\* sequence point between.  What the shell evaluates though C would not (a
\* condition's other branch) changes nothing and cannot fail.
Meaningful(t) ==
    \A u \in Below(t) :
        CASE u.op = "?" -> ~Risky(u.l) /\ ~Risky(u.r)
          [] u.op \in {"&&", "||"} -> ~Risky(u.r)
          [] u.op \in DOMAIN AssignOps -> u.l.name \notin Changes(u.r)
          [] u.op = "," \/ DOMAIN u \cap {"l", "r"} # {"l", "r"} -> TRUE
          [] OTHER -> Changes(u.l) \cap Looks(u.r) = {} /\ Changes(u.r) \cap Looks(u.l) = {}

-----------------------------------------------------------------------------
(* The inverse of the shell's parser, from the grammar of the shell: the   *)
(* text of a tree, in two styles.  Style "nl" ends commands with newlines  *)
(* and leaves out what it can, style "semi" uses semicolons and puts it.   *)
(*                                                                         *)
(* A here-document stands in the tree as its body.  w is the text written  *)
(* so far and the here-documents whose bodies follow the next newline.     *)

Letters1(string) == [i \in 1..Len(string) |-> SubSeq(string, i, i)]

Write(w, string) == [w EXCEPT !.src = @ \o Letters1(string)]

Mark == <<"E">>

\* The bodies of the documents, each with the line that ends it.
Newline(w) ==
    [w EXCEPT !.src = FoldLeft(LAMBDA t, body : t \o body \o Mark \o <<"\n">>, @ \o <<"\n">>, w.pend),
              !.pend = <<>>]

IsBack(n) == n.type = "backgnd" \/ (n.type = "pipe" /\ n.backgnd)
SourceOf(word) == (CHOOSE p \in WordTexts : p.word = word).src

\* What is written, by the one operator through which trees recur.
RECURSIVE Written(_, _, _)
WriteList(w, n)      == Written("list", w, n)
WriteCommand(w, n)   == Written("command", w, n)
WriteRedirect(w, r)  == Written("redirect", w, r)
WriteWord(w, word)   == Written("word", w, word)
Closed(w, n)         == Written("closed", w, n)

\* A list and what separates it from what follows.
Lasts(n) == IF n.type = "semi" THEN n.ch2 ELSE n
ClosedList(w, n) ==
    LET v == WriteList(w, n)
    IN  IF v.nl THEN Newline(v) ELSE Write(v, IF IsBack(Lasts(n)) THEN " " ELSE "; ")

OneWord(w, word) ==
    IF word.bq = <<>> \/ \E p \in WordTexts : p.word = word
    THEN [w EXCEPT !.src = @ \o SourceOf(word) \o <<" ">>]
    ELSE Write(WriteList(Write(w, "$("), word.bq[1]), ") ")

WriteWords(w, words) == FoldLeft(WriteWord, w, words)

Operator1 == [x \in {"to", "append", "clobber", "from", "fromto", "tofd", "fromfd", "here", "xhere"} |->
    CASE x = "to" -> ">" [] x = "append" -> ">>" [] x = "clobber" -> ">|" [] x = "from" -> "<"
      [] x = "fromto" -> "<>" [] x = "tofd" -> ">&" [] x = "fromfd" -> "<&" [] OTHER -> "<<"]

OneRedirect(w, r) ==
    LET default == IF r.type \in {"to", "append", "clobber", "tofd"} THEN <<"1">> ELSE <<"0">>
        v == Write(IF w.nl /\ r.fd = default THEN w ELSE [w EXCEPT !.src = @ \o r.fd], Operator1[r.type])
    IN  CASE r.type = "xhere" -> [Write(v, "E ") EXCEPT !.pend = Append(@, SourceOf(r.doc))]
          [] r.type = "here" -> [Write(v, IF w.nl THEN "'E' " ELSE "\\E ") EXCEPT !.pend = Append(@, SourceOf(r.doc))]
          [] "dupfd" \in DOMAIN r -> [v EXCEPT !.src = @ \o r.dupfd \o <<" ">>]
          [] OTHER -> WriteWord(v, r.word)

WriteRedirects(w, redirs) == FoldLeft(WriteRedirect, w, redirs)

Braces(w, n) == Write(Closed(Write(w, "{ "), n), "} ")

RECURSIVE WriteIf(_, _, _)
WriteIf(w, n, keyword) ==
    LET test == Closed(Write(w, keyword), n.test)
        part == Closed(Write(test, "then "), n.ifpart)
    IN  IF n.elsepart = NULL THEN Write(part, "fi ")
        ELSE IF n.elsepart.type = "if" /\ w.nl THEN WriteIf(part, n.elsepart, "elif ")
        ELSE Write(Closed(Write(part, "else "), n.elsepart), "fi ")

WriteCases(w, cases) ==
    LET pattern(v, i, c) == WriteWord(IF i = 1 THEN IF w.nl THEN v ELSE Write(v, "(") ELSE Write(v, "| "), c.pattern[i])
        head(v, c) == Write(FoldLeft(LAMBDA u, i : pattern(u, i, c), v, [i \in DOMAIN c.pattern |-> i]), ") ")
        body(v, c) == IF c.body = NULL THEN v ELSE IF w.nl THEN Closed(v, c.body) ELSE WriteList(v, c.body)
        one(v, i)  == LET u == body(head(v, cases[i]), cases[i])
                      IN  IF w.nl /\ i = Len(cases) THEN u ELSE Write(u, ";; ")
    IN  FoldLeft(one, w, [i \in DOMAIN cases |-> i])

Simple(n) == n.type \in {"cmd", "if", "while", "until", "for", "case", "subshell", "redir", "defun"}

OneCommand(w, n) ==
    CASE n.type = "cmd" -> WriteRedirects(WriteWords(WriteWords(w, n.assign), n.args), n.redirect)
      [] n.type = "if" -> WriteIf(w, n, "if ")
      [] n.type \in {"while", "until"} ->
           Write(Closed(Write(Closed(Write(w, IF n.type = "while" THEN "while " ELSE "until "), n.ch1), "do "), n.ch2), "done ")
      [] n.type = "for" ->
           LET v == [Write(w, "for ") EXCEPT !.src = @ \o n.var \o <<" ">>]
               u == IF n.args = <<dolatstr>> THEN IF w.nl THEN v ELSE Write(v, "; ")
                    ELSE LET a == WriteWords(Write(v, "in "), n.args) IN IF w.nl /\ a.pend = <<>> THEN Newline(a) ELSE Write(a, "; ")
           IN  Write(Closed(Write(u, "do "), n.body), "done ")
      [] n.type = "case" ->
           LET v == Write(WriteWord(Write(w, "case "), n.expr), "in ")
           IN  Write(WriteCases(IF w.nl THEN Newline(v) ELSE v, n.cases), "esac ")
      [] n.type = "subshell" -> WriteRedirects(Write(WriteList(Write(w, "( "), n.n), ") "), n.redirect)
      [] n.type = "redir" ->
           WriteRedirects(IF Simple(n.n) /\ n.n.type \notin {"cmd", "redir", "defun"} THEN WriteCommand(w, n.n) ELSE Braces(w, n.n), n.redirect)
      [] n.type = "defun" -> WriteCommand(Write([w EXCEPT !.src = @ \o n.name], " () "), n.body)
      [] OTHER -> Braces(w, n)

\* ! and |
WritePipe(w, n) ==
    LET cmds == n.cmds
    IN  IF n.type = "pipe" /\ ~n.backgnd
        THEN FoldLeft(LAMBDA v, i : WriteCommand(Write(v, "| "), cmds[i]), WriteCommand(w, cmds[1]),
                      [i \in 1..(Len(cmds) - 1) |-> i + 1])
        ELSE WriteCommand(w, n)
WriteNot(w, n) == IF n.type = "not" THEN WritePipe(Write(w, "! "), n.com) ELSE WritePipe(w, n)

RECURSIVE WriteAndOr(_, _)
WriteAndOr(w, n) ==
    LET v == Write(WriteAndOr(w, n.ch1), IF n.type = "and" THEN "&& " ELSE "|| ")
    IN  IF n.type \in {"and", "or"} THEN WriteNot(IF w.nl THEN Newline(v) ELSE v, n.ch2)
        ELSE WriteNot(w, n)

WriteItem(w, n) ==
    CASE n.type = "pipe" /\ n.backgnd -> Write(WritePipe(w, [n EXCEPT !.backgnd = FALSE]), "&")
      [] n.type = "backgnd" /\ n.redirect # <<>> ->
           Write(WriteCommand(w, [n EXCEPT !.type = "redir"]), "&")
      [] n.type = "backgnd" /\ n.redirect = <<>> -> Write(WriteAndOr(w, n.n), "&")
      [] OTHER -> WriteAndOr(w, n)

SomeItems(w, n) == IF n.type = "semi" THEN WriteItem(Closed(w, n.ch1), n.ch2) ELSE WriteItem(w, n)

Written(what, w, n) ==
    CASE what = "list"     -> SomeItems(w, n)
      [] what = "command"  -> OneCommand(w, n)
      [] what = "redirect" -> OneRedirect(w, n)
      [] what = "word"     -> OneWord(w, n)
      [] what = "closed"   -> ClosedList(w, n)

\* A script of one command.
Script(n, style) ==
    LET w == [src |-> <<>>, pend |-> <<>>, nl |-> style = "nl"]
    IN  Newline(IF w.nl /\ n.type = "semi" THEN Braces(w, n) ELSE WriteList(w, n)).src

-----------------------------------------------------------------------------
(* A parsed tree with the bodies of its documents in it.                   *)

RECURSIVE Bodies(_, _)
Bodies(n, docs) ==
    LET in(x) == Bodies(x, docs)
        redirs(rs) == [i \in DOMAIN rs |-> IF rs[i].type \in {"here", "xhere"} THEN [rs[i] EXCEPT !.doc = docs[rs[i].doc]] ELSE rs[i]]
        words(ws) == [i \in DOMAIN ws |-> [ws[i] EXCEPT !.bq = [j \in DOMAIN @ |-> in(@[j])]]]
    IN  CASE n.type = "cmd" -> [n EXCEPT !.args = words(@), !.assign = words(@), !.redirect = redirs(@)]
          [] n.type \in {"semi", "and", "or", "while", "until"} -> [n EXCEPT !.ch1 = in(@), !.ch2 = in(@)]
          [] n.type = "pipe" -> [n EXCEPT !.cmds = [i \in DOMAIN @ |-> in(@[i])]]
          [] n.type = "not" -> [n EXCEPT !.com = in(@)]
          [] n.type \in {"backgnd", "redir", "subshell"} -> [n EXCEPT !.n = in(@), !.redirect = redirs(@)]
          [] n.type = "if" -> [n EXCEPT !.test = in(@), !.ifpart = in(@), !.elsepart = in(@)]
          [] n.type \in {"for", "defun"} -> [n EXCEPT !.body = in(@)]
          [] n.type = "case" -> [n EXCEPT !.cases = [i \in DOMAIN @ |-> [@[i] EXCEPT !.body = in(@)]]]
          [] OTHER -> n
=============================================================================
