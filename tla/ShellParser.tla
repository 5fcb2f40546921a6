----------------------------- MODULE ShellParser ----------------------------
(***************************************************************************)
(* The parser of the shell (box/shell/ash.c, parser.c): readtoken1 reads a *)
(* word, a redirection or a here-document, xxreadtoken a token, readtoken  *)
(* finds the keywords, and list, andor, pipeline, parse_command and        *)
(* simplecmd build the tree.                                               *)
(*                                                                         *)
(* s is the state of the parser: src and pos are its input (the stack of   *)
(* inputs is in ShellInput), back tokpushback, last lasttoken, kwd         *)
(* checkkwd, word wordtext with quoteflag and backquotelist, redir         *)
(* redirnode, doc heredoc, docs heredoclist, node what a routine returns.  *)
(* A here-document is a number in the tree and a body in the table bodies. *)
(* After an error every token is the end of the file.                      *)
(***************************************************************************)
EXTENDS ShellSyntax, SequencesExt

NULL == [type |-> "null"]
NEOF == [type |-> "eof"]
NoWord == [text |-> <<>>, quoted |-> FALSE, bq |-> <<>>]

ParserOf(src) ==
    [src |-> src, pos |-> 1, back |-> FALSE, last |-> "nl", kwd |-> {}, word |-> NoWord,
     redir |-> NULL, doc |-> 0, docs |-> <<>>, bodies |-> <<>>, pbq |-> FALSE,
     node |-> NULL, err |-> "none"]

Raise(s, msg) == IF s.err # "none" THEN s ELSE [s EXCEPT !.err = msg, !.node = NULL]

CharAt(s, i) == IF i \in DOMAIN s.src THEN s.src[i] ELSE EOF

-----------------------------------------------------------------------------
(* readtoken1.  r is its state: s the parser, c the character being looked *)
(* at, out the text so far; mark is the end of the here-document that is   *)
(* being read, <<>> for a word.                                            *)

Get(r)     == [r EXCEPT !.c = CharAt(r.s, r.s.pos), !.s.pos = @ + 1]
Unget(r)   == [r EXCEPT !.s.pos = @ - 1]
Put(r, cs) == [r EXCEPT !.out = @ \o cs]
Done(r)    == [r EXCEPT !.done = TRUE]
Fail(r, msg) == [r EXCEPT !.s = Raise(@, msg), !.done = TRUE]

\* checkend: is this the line that ends the here-document?  pfgets reads the
\* line, pushstring puts it back.
CheckEnd(r) ==
    LET skips == {n \in 0..Len(r.s.src) : \A i \in 0..(n - 1) : CharAt(r.s, r.s.pos - 1 + i) = "\t"}
        tabs  == IF r.strip THEN CHOOSE n \in skips : \A k \in skips : k <= n ELSE 0
        at    == r.s.pos - 1 + tabs
        len   == Len(r.mark)
        found == /\ \A i \in 1..len : CharAt(r.s, at + i - 1) = r.mark[i]
                 /\ CharAt(r.s, at + len) = "\n"
    IN  IF r.mark = <<>> THEN r
        ELSE IF found THEN [r EXCEPT !.c = EOF, !.s.pos = at + len + 1]
        ELSE [r EXCEPT !.c = CharAt(r.s, at), !.s.pos = at + 1]

\* CBACK; r.c is the character after the backslash.
Backslash(r) ==
    LET kept == /\ r.dblquote /\ r.c \notin {"\\", BQ, "$"}
                /\ r.c # "\"" \/ r.mark # <<>>
    IN  IF r.c = EOF THEN Unget(Put(r, <<"ctlesc", "\\">>))
        ELSE IF r.c = "\n" THEN r
        ELSE [Put(r, (IF kept THEN <<"ctlesc", "\\">> ELSE <<>>)
                     \o (IF SIT(r.c, "Sq") = "CCTL" THEN <<"ctlesc">> ELSE <<>>)
                     \o <<r.c>>) EXCEPT !.quotef = TRUE]

QuoteMark(r) == IF r.mark = <<>> THEN Put(r, <<"ctlquotemark">>) ELSE r

EndQuote(r) ==
    IF r.mark # <<>> /\ r.arinest = 0 /\ r.varnest = 0 THEN Put(r, <<r.c>>)
    ELSE LET q == [r EXCEPT !.quotef = TRUE]
         IN  QuoteMark(IF r.dqvarnest = 0 THEN [q EXCEPT !.syntax = "Base", !.dblquote = FALSE] ELSE q)

EndVar(r) ==
    IF r.varnest = 0 THEN Put(r, <<r.c>>)
    ELSE [Put(r, <<"ctlendvar">>) EXCEPT !.varnest = @ - 1, !.dqvarnest = IF @ > 0 THEN @ - 1 ELSE 0]

\* CRP: a ')' in arithmetic; two of them end it.
CloseParen(r) ==
    IF r.parenlevel > 0 THEN [Put(r, <<")">>) EXCEPT !.parenlevel = @ - 1]
    ELSE IF CharAt(r.s, r.s.pos) # ")" THEN Put(r, <<")">>)
    ELSE LET q == [r EXCEPT !.s.pos = @ + 1, !.arinest = @ - 1]
         IN  IF q.arinest > 0 THEN Put(q, <<")">>)
             ELSE [Put(q, <<"ctlendari">>) EXCEPT !.syntax = r.prevsyntax,
                                                  !.dblquote = r.prevsyntax = "Dq"]

\* parsearith: arithmetic within arithmetic is only a parenthesis.
ParseArith(r) ==
    IF r.arinest > 0 THEN [Put(r, <<"(">>) EXCEPT !.arinest = @ + 1]
    ELSE [Put(r, <<"ctlari", IF r.dblquote THEN "\"" ELSE " ">>)
             EXCEPT !.arinest = 1, !.prevsyntax = r.syntax, !.syntax = "Ari"]

\* How far a name, a number or a special parameter reaches from position i.
NameEnd(s, i) ==
    LET reach(Is(_)) == CHOOSE j \in i..(Len(s.src) + 1) :
                           /\ \A k \in i..(j - 1) : Is(CharAt(s, k))
                           /\ ~Is(CharAt(s, j))
        digit(c) == c \in Digits
    IN  IF is_name(CharAt(s, i)) THEN reach(is_in_name)
        ELSE IF CharAt(s, i) \in Digits THEN reach(digit)
        ELSE IF is_special(CharAt(s, i)) THEN i + 1
        ELSE i

Operators == [c \in {"}", "-", "+", "?", "="} |->
    CASE c = "}" -> "normal" [] c = "-" -> "minus" [] c = "+" -> "plus"
      [] c = "?" -> "question" [] OTHER -> "assign"]

\* The operator at position i of a ${}: [subtype, nul, the position after it].
Operator(s, i) ==
    LET c  == CharAt(s, i)
        d  == CharAt(s, i + 1)
        op(sub, nul, next) == [sub |-> sub, nul |-> nul, next |-> next]
    IN  CASE c = ":" /\ d \in DOMAIN Operators -> op(Operators[d], "colon", i + 2)
          [] c \in DOMAIN Operators -> op(Operators[c], "plain", i + 1)
          [] c = "%" -> IF d = "%" THEN op("trimrightmax", "plain", i + 2) ELSE op("trimright", "plain", i + 1)
          [] c = "#" -> IF d = "#" THEN op("trimleftmax", "plain", i + 2) ELSE op("trimleft", "plain", i + 1)
          [] OTHER -> op("bad", "plain", i)

\* parsesub for a name; braces: `${' has been read.
Variable(r, braces) ==
    LET i      == IF braces THEN r.s.pos ELSE r.s.pos - 1
        length == braces /\ CharAt(r.s, i) = "#" /\ CharAt(r.s, i + 1) # "}"
        from   == IF length THEN i + 1 ELSE i
        to     == NameEnd(r.s, from)
        op     == IF length THEN [sub |-> "length", nul |-> "plain", next |-> to]
                  ELSE IF braces THEN Operator(r.s, to)
                  ELSE [sub |-> "normal", nul |-> "plain", next |-> to]
        quoted == r.dblquote \/ r.arinest > 0
    IN  IF to = from \/ op.sub = "bad" THEN Fail(r, "Bad substitution")
        ELSE LET q == [Put(r, <<"ctlvar", op.sub, op.nul, IF quoted THEN "quoted" ELSE "open">>
                              \o SubSeq(r.s.src, from, to - 1) \o <<"=">>) EXCEPT !.s.pos = op.next]
             IN  IF op.sub = "normal" THEN q
                 ELSE [q EXCEPT !.varnest = @ + 1, !.dqvarnest = IF quoted THEN @ + 1 ELSE @]

\* The routines call one another through Enter, the one operator by which the
\* grammar recurs.
RECURSIVE Enter(_, _)
list(s, nlflag)  == Enter("list", <<s, nlflag>>)
andor(s)         == Enter("andor", s)
parse_command(s) == Enter("parse_command", s)
parsefname(s)    == Enter("parsefname", s)
readtoken(s)     == Enter("readtoken", s)
parseheredoc(s)  == Enter("parseheredoc", s)
xxreadtoken(s)   == Enter("xxreadtoken", s)
readtoken1(s, c, syntax, mark, strip) == Enter("readtoken1", <<s, c, syntax, mark, strip>>)
Switch(r)        == Enter("switch", r)

\* The text between backquotes, from position i: what \ quotes in it is put
\* into another sequence than the rest.  [text, next], next 0 at the end of
\* the input.
RECURSIVE OldText(_, _, _)
OldText(s, i, dblquote) ==
    LET c == CharAt(s, i)
        d == CharAt(s, i + 1)
        then(cs, next) == LET t == OldText(s, next, dblquote) IN [t EXCEPT !.text = cs \o @]
    IN  IF c = EOF \/ (c = "\\" /\ d = EOF) THEN [text |-> <<>>, next |-> 0]
        ELSE IF c = BQ THEN [text |-> <<>>, next |-> i + 1]
        ELSE IF c # "\\" THEN then(<<c>>, i + 1)
        ELSE IF d = "\n" THEN then(<<>>, i + 2)
        ELSE then(IF d \in {"\\", BQ, "$"} \/ (dblquote /\ d = "\"") THEN <<d>> ELSE <<"\\", d>>, i + 2)

\* parsebackq: t is the parser after the commands were read.  What it knows of
\* here-documents and keywords is not what it was before.
Substituted(r, t) ==
    [Put(r, <<IF r.arinest > 0 \/ r.dblquote THEN "ctlbackqq" ELSE "ctlbackq">>)
        EXCEPT !.s = [t EXCEPT !.pbq = r.s.pbq], !.bq = Append(@, t.node),
               !.done = t.err # "none"]

ParseBackqNew(r) ==
    LET t == list([r.s EXCEPT !.pbq = FALSE], 2)
        u == readtoken(t)
    IN  Substituted(r, IF u.last = ")" THEN [u EXCEPT !.node = t.node]
                       ELSE Raise(u, "expecting )"))

ParseBackqOld(r) ==
    LET inner == OldText(r.s, r.s.pos, r.dblquote)
        t == list([r.s EXCEPT !.pbq = TRUE, !.src = inner.text, !.pos = 1], 2)
    IN  IF inner.next = 0 THEN Fail(r, "EOF in backquote substitution")
        ELSE Substituted(r, [t EXCEPT !.src = r.s.src, !.pos = inner.next, !.back = FALSE])

\* parsesub: a $ has been read.
ParseSub(r) ==
    LET q == Get(r)
    IN  IF q.c \notin {"(", "{"} /\ ~is_name(q.c) /\ ~is_special(q.c)
        THEN Unget(Put(q, <<"$">>))
        ELSE IF q.c = "(" /\ CharAt(q.s, q.s.pos) = "(" THEN ParseArith([q EXCEPT !.s.pos = @ + 1])
        ELSE IF q.c = "(" THEN ParseBackqNew(q)
        ELSE Variable(q, q.c = "{")

\* The switch of readtoken1.
SwitchOn(r) ==
    LET class == SIT(r.c, r.syntax)
    IN  CASE class = "CNL"       -> IF r.syntax = "Base" THEN Done(r) ELSE CheckEnd(Get(Put(r, <<r.c>>)))
          [] class = "CWORD"     -> Get(Put(r, <<r.c>>))
          [] class = "CCTL"      -> Get(Put(r, IF r.mark = <<>> \/ r.dblquote THEN <<"ctlesc", r.c>>
                                               ELSE <<r.c>>))
          [] class = "CBACK"     -> Get(Backslash(Get(r)))
          [] class = "CSQUOTE"   -> Get(QuoteMark([r EXCEPT !.syntax = "Sq"]))
          [] class = "CDQUOTE"   -> Get(QuoteMark([r EXCEPT !.syntax = "Dq", !.dblquote = TRUE]))
          [] class = "CENDQUOTE" -> Get(EndQuote(r))
          [] class = "CVAR"      -> Get(ParseSub(r))
          [] class = "CENDVAR"   -> Get(EndVar(r))
          [] class = "CLP"       -> Get([Put(r, <<"(">>) EXCEPT !.parenlevel = @ + 1])
          [] class = "CRP"       -> Get(CloseParen(r))
          [] class = "CBQUOTE"   -> Get(ParseBackqOld(r))
          [] class = "CENDFILE"  -> Done(r)
          [] class = "CSPCL"     -> IF r.varnest = 0 THEN Done(r) ELSE Get(Put(r, <<r.c>>))

RECURSIVE Lex(_)
Lex(r) == IF r.done THEN r ELSE Lex(Switch(r))

\* parseredir: out is the descriptor, the operator begins with r.c.
ParseRedir(r) ==
    LET d    == CharAt(r.s, r.s.pos)
        e    == CharAt(r.s, r.s.pos + 1)
        op(type, n) == [type |-> type, n |-> n]
        kind == IF r.c = ">"
                THEN CASE d = ">" -> op("append", 1) [] d = "|" -> op("clobber", 1)
                       [] d = "&" -> op("tofd", 1) [] OTHER -> op("to", 0)
                ELSE CASE d = "<" -> IF e = "-" THEN op("here", 2) ELSE op("here", 1)
                       [] d = "&" -> op("fromfd", 1) [] d = ">" -> op("fromto", 1)
                       [] OTHER -> op("from", 0)
        fd   == IF r.out = <<>> THEN IF r.c = ">" THEN <<"1">> ELSE <<"0">> ELSE r.out
        s    == [r.s EXCEPT !.pos = @ + kind.n, !.last = "redir"]
    IN  IF kind.type = "here"
        THEN [s EXCEPT !.redir = [type |-> "here", fd |-> fd, doc |-> Len(s.bodies) + 1],
                       !.bodies = Append(@, NoWord),
                       !.doc = [id |-> Len(s.bodies) + 1, mark |-> <<>>, strip |-> kind.n = 2, quoted |-> TRUE]]
        ELSE [s EXCEPT !.redir = [type |-> kind.type, fd |-> fd, word |-> NoWord]]

ReadToken1(s, c, syntax, mark, strip) ==
    LET start == [s |-> s, c |-> c, out |-> <<>>, syntax |-> syntax, dblquote |-> syntax = "Dq",
                  mark |-> mark, strip |-> strip, quotef |-> FALSE, bq |-> <<>>, prevsyntax |-> "Base",
                  varnest |-> 0, arinest |-> 0, parenlevel |-> 0, dqvarnest |-> 0, done |-> FALSE]
        r     == Lex(CheckEnd(start))
        word  == [text |-> r.out, quoted |-> r.quotef, bq |-> r.bq]
        isfd  == r.out = <<>> \/ (Len(r.out) = 1 /\ r.out[1] \in Digits)
    IN  IF r.s.err # "none" THEN [r.s EXCEPT !.last = EOF]
        ELSE IF r.syntax = "Ari" THEN [Raise(r.s, "Missing '))'") EXCEPT !.last = EOF]
        ELSE IF r.syntax # "Base" /\ ~r.s.pbq /\ mark = <<>>
             THEN [Raise(r.s, "Unterminated quoted string") EXCEPT !.last = EOF]
        ELSE IF r.varnest # 0 THEN [Raise(r.s, "Missing '}'") EXCEPT !.last = EOF]
        ELSE IF mark = <<>> /\ r.c \in {"<", ">"} /\ ~r.quotef /\ isfd THEN ParseRedir(r)
        ELSE [r.s EXCEPT !.pos = IF mark = <<>> THEN @ - 1 ELSE @, !.word = word, !.last = "word"]

-----------------------------------------------------------------------------
(* Tokens.                                                                 *)

Keywords ==
    {<<"!">>, <<"c", "a", "s", "e">>, <<"d", "o">>, <<"d", "o", "n", "e">>, <<"e", "l", "i", "f">>,
     <<"e", "l", "s", "e">>, <<"e", "s", "a", "c">>, <<"f", "i">>, <<"f", "o", "r">>, <<"i", "f">>,
     <<"i", "n">>, <<"t", "h", "e", "n">>, <<"u", "n", "t", "i", "l">>, <<"w", "h", "i", "l", "e">>,
     <<"{">>, <<"}">>}

\* findkwd: a keyword is a token named by its letters.
Joined(text) == FoldLeft(LAMBDA a, c : a \o c, "", text)

\* tokname_array: the tokens that end a list.
EndsList == {EOF, ")", ";;", "do", "done", "elif", "else", "esac", "fi", "then", "}"}

\* xxreadtoken
XxReadToken(s) ==
    LET c == CharAt(s, s.pos)
        d == CharAt(s, s.pos + 1)
        token(t, n) == [s EXCEPT !.last = t, !.pos = @ + n]
        eol == CHOOSE i \in s.pos..(Len(s.src) + 1) :
                  /\ CharAt(s, i) \in {"\n", EOF}
                  /\ \A k \in s.pos..(i - 1) : CharAt(s, k) # "\n"
    IN  CASE s.err # "none" -> [s EXCEPT !.last = EOF]
          [] s.err = "none" /\ s.back -> [s EXCEPT !.back = FALSE]
          [] OTHER ->
             CASE c \in {" ", "\t"} -> xxreadtoken([s EXCEPT !.pos = @ + 1])
               [] c = "#" -> xxreadtoken([s EXCEPT !.pos = eol])
               [] c = "\\" /\ d = "\n" -> xxreadtoken([s EXCEPT !.pos = @ + 2])
               [] c \in {"&", "|", ";"} -> IF d = c THEN token(CASE c = "&" -> "&&" [] c = "|" -> "||" [] OTHER -> ";;", 2)
                                           ELSE token(c, 1)
               [] c = "\n" -> token("nl", 1)
               [] c \in {"(", ")", EOF} -> token(c, 1)
               [] OTHER -> readtoken1([s EXCEPT !.pos = @ + 1], c, "Base", <<>>, FALSE)

\* parseheredoc: the documents that were begun, in their order.
RECURSIVE ReadDocs(_, _)
ReadDocs(s, docs) ==
    IF docs = <<>> THEN s
    ELSE LET here == Head(docs)
             t == readtoken1([s EXCEPT !.pos = @ + 1], CharAt(s, s.pos),
                             IF here.quoted THEN "Sq" ELSE "Dq", here.mark, here.strip)
         IN  ReadDocs([t EXCEPT !.bodies[here.id] = t.word], Tail(docs))

\* Mutant: the document that was begun last is read first.
HeredocsLastFirst(s) == ReadDocs([s EXCEPT !.docs = <<>>], Reverse(s.docs))

Heredocs(s) == ReadDocs([s EXCEPT !.docs = <<>>], s.docs)

RECURSIVE EatNewlines(_)
EatNewlines(s) == IF s.last = "nl" THEN EatNewlines(xxreadtoken(parseheredoc(s))) ELSE s

\* readtoken; checkkwd is looked at again after the here-documents were read.
ReadToken(s) ==
    LET t == xxreadtoken(s)
        u == IF "nl" \in t.kwd THEN EatNewlines(t) ELSE t
        v == [u EXCEPT !.kwd = {}]
    IN  IF u.last = "word" /\ ~u.word.quoted /\ "kwd" \in u.kwd /\ u.word.text \in Keywords
        THEN [v EXCEPT !.last = Joined(u.word.text)] ELSE v

PushBack(s) == [s EXCEPT !.back = TRUE]
Kwd(s, set) == [s EXCEPT !.kwd = set]

\* A token that must come next.
Expect(s, token) == LET t == readtoken(s) IN IF t.last = token THEN t ELSE Raise(t, "unexpected")

\* peektoken: the next token, which may end a list, stays the next.
Peek(s) == PushBack(readtoken(s))

-----------------------------------------------------------------------------
(* The grammar.                                                            *)

Binary(type, n1, n2) == [type |-> type, ch1 |-> n1, ch2 |-> n2]

\* What & makes of a command.
Background(n) ==
    CASE n.type = "pipe"  -> [n EXCEPT !.backgnd = TRUE]
      [] n.type = "redir" -> [n EXCEPT !.type = "backgnd"]
      [] OTHER -> [type |-> "backgnd", n |-> n, redirect |-> <<>>]

\* pipeline
RECURSIVE PipeTail(_, _)
PipeTail(s, cmds) ==
    LET t == readtoken(s)
        u == parse_command(Kwd(t, {"nl", "kwd"}))
    IN  IF t.last = "|" THEN PipeTail(u, Append(cmds, u.node))
        ELSE [PushBack(t) EXCEPT !.node = IF Len(cmds) = 1 THEN cmds[1]
                                          ELSE [type |-> "pipe", cmds |-> cmds, backgnd |-> FALSE]]

pipeline(s) ==
    LET t == readtoken(s)
        u == parse_command(IF t.last = "!" THEN Kwd(t, {"kwd"}) ELSE PushBack(t))
        v == PipeTail(u, <<u.node>>)
    IN  IF t.last = "!" THEN [v EXCEPT !.node = [type |-> "not", com |-> v.node]] ELSE v

\* andor
RECURSIVE AndOrTail(_)
AndOrTail(s) ==
    LET t == readtoken(s)
        u == pipeline(Kwd(t, {"nl", "kwd"}))
        type == IF t.last = "&&" THEN "and" ELSE "or"
    IN  IF t.last \in {"&&", "||"} THEN AndOrTail([u EXCEPT !.node = Binary(type, s.node, u.node)])
        ELSE [PushBack(t) EXCEPT !.node = s.node]

AndOr(s) == AndOrTail(pipeline(s))

\* list; nlflag 1: one line, 2: may be empty.
RECURSIVE ListTail(_, _, _)
ListTail(s, nlflag, n1) ==
    LET a    == andor(s)
        t    == readtoken(a)
        n2   == IF t.last = "&" THEN Background(a.node) ELSE a.node
        n    == IF n1 = NULL THEN n2 ELSE Binary("semi", n1, n2)
        u    == IF t.last \in {"&", ";"} THEN readtoken(t) ELSE t
        v    == Kwd(IF u.last = "nl" THEN parseheredoc(u) ELSE PushBack(u), {"nl", "kwd"})
        p    == Peek(v)
        with(x) == [x EXCEPT !.node = n]
    IN  CASE t.last \in {"&", ";", "nl"} ->
                IF u.last = "nl" /\ nlflag = 1 THEN with(parseheredoc(u))
                ELSE IF p.last \in EndsList THEN with(p)
                ELSE ListTail(p, nlflag, n)
          [] t.last = EOF -> with(IF t.docs # <<>> THEN parseheredoc(t) ELSE [t EXCEPT !.pos = @ - 1])
          [] OTHER -> IF nlflag = 1 THEN Raise(t, "unexpected") ELSE with(PushBack(t))

List(s, nlflag) ==
    LET t == Kwd(s, {"nl", "kwd"})
        p == Peek(t)
    IN  IF nlflag # 2 THEN ListTail(t, nlflag, NULL)
        ELSE IF p.last \in EndsList THEN [p EXCEPT !.node = NULL]
        ELSE ListTail(p, nlflag, NULL)

\* parsefname: the word after a redirection; s.node is the redirection then.
ParseFname(s) ==
    LET n == s.redir
        t == readtoken(s)
        w == t.word
        digit == Len(w.text) = 1 /\ w.text[1] \in Digits
        mark  == SelectSeq(w.text, LAMBDA c : c \notin {"ctlesc", "ctlquotemark"})
        here  == [s.doc EXCEPT !.mark = mark, !.quoted = w.quoted]
    IN  IF t.last # "word" THEN Raise(t, "unexpected")
        ELSE IF n.type = "here"
        THEN IF ~noexpand(w.text) \/ w.text = <<>> THEN Raise(t, "Illegal eof marker for << redirection")
             ELSE [t EXCEPT !.docs = Append(@, here),
                            !.node = [n EXCEPT !.type = IF w.quoted THEN "here" ELSE "xhere"]]
        ELSE IF n.type \in {"tofd", "fromfd"} /\ (digit \/ w.text = <<"-">>)
        THEN [t EXCEPT !.node = [type |-> n.type, fd |-> n.fd, dupfd |-> w.text]]
        ELSE [t EXCEPT !.node = [n EXCEPT !.word = w]]

\* find_builtin and IS_BUILTIN_SPECIAL: names no function can have.
SpecialBuiltins ==
    {<<"b", "r", "e", "a", "k">>, <<"c", "o", "n", "t", "i", "n", "u", "e">>, <<"e", "v", "a", "l">>,
     <<"e", "x", "e", "c">>, <<"e", "x", "i", "t">>, <<"e", "x", "p", "o", "r", "t">>,
     <<"r", "e", "a", "d", "o", "n", "l", "y">>, <<"r", "e", "t", "u", "r", "n">>, <<"s", "e", "t">>,
     <<"s", "h", "i", "f", "t">>, <<"s", "o", "u", "r", "c", "e">>, <<"t", "i", "m", "e", "s">>,
     <<"t", "r", "a", "p">>, <<"u", "n", "s", "e", "t">>}

\* simplecmd; assigns: words of the form name=value are still assignments.
RECURSIVE CommandTail(_, _, _, _, _)
CommandTail(s, assigns, vars, args, redirs) ==
    LET t == readtoken(Kwd(s, {}))
        f == parsefname(t)
        p == readtoken(t)
        body == parse_command(Kwd(p, {"nl", "kwd"}))
    IN  CASE t.last = "word" ->
               IF assigns /\ isassignment(t.word.text)
               THEN CommandTail(t, TRUE, Append(vars, t.word), args, redirs)
               ELSE CommandTail(t, FALSE, vars, Append(args, t.word), redirs)
          [] t.last = "redir" -> CommandTail(f, assigns, vars, args, Append(redirs, f.node))
          [] t.last = "(" /\ Len(args) = 1 /\ vars = <<>> /\ redirs = <<>> ->
               IF p.last # ")" THEN Raise(p, "unexpected")
               ELSE IF ~goodname(args[1].text) \/ args[1].text \in SpecialBuiltins
               THEN Raise(p, "Bad function name")
               ELSE [body EXCEPT !.node = [type |-> "defun", name |-> args[1].text, body |-> body.node]]
          [] OTHER -> [PushBack(t) EXCEPT !.node = [type |-> "cmd", assign |-> vars, args |-> args,
                                                    redirect |-> redirs]]

simplecmd(s) == CommandTail(s, TRUE, <<>>, <<>>, <<>>)

\* A list, then the token that must follow it.
Block(s, token) == LET t == list(s, 0) IN [Expect(t, token) EXCEPT !.node = t.node]

\* The redirections after a compound command.
RECURSIVE Redirections(_, _)
Redirections(s, redirs) ==
    LET t == readtoken(s)
        f == parsefname(t)
    IN  IF t.last = "redir" THEN Redirections(f, Append(redirs, f.node))
        ELSE [PushBack(t) EXCEPT !.node = redirs]

Redirected(s) ==
    LET n == s.node
        t == Redirections(Kwd(s, {"kwd"}), <<>>)
    IN  [t EXCEPT !.node = IF t.node = <<>> THEN n
                           ELSE IF n.type = "subshell" THEN [n EXCEPT !.redirect = t.node]
                           ELSE [type |-> "redir", n |-> n, redirect |-> t.node]]

\* if: `if' or `elif' has been read.
RECURSIVE IfPart(_)
IfPart(s) ==
    LET test == Block(s, "then")
        part == list(test, 0)
        t    == readtoken(part)
        rest == CASE t.last = "elif" -> IfPart(t)
                  [] t.last = "else" -> list(t, 0)
                  [] OTHER -> [PushBack(t) EXCEPT !.node = NULL]
    IN  [rest EXCEPT !.node = [type |-> "if", test |-> test.node, ifpart |-> part.node,
                               elsepart |-> rest.node]]

Loop(s, type) ==
    LET test == Block(s, "do")
        body == Block(test, "done")
    IN  [body EXCEPT !.node = Binary(type, test.node, body.node)]

\* for; Words: the words after `in'.
RECURSIVE Words(_, _)
Words(s, args) ==
    LET t == readtoken(s)
    IN  IF t.last = "word" THEN Words(t, Append(args, t.word)) ELSE [t EXCEPT !.node = args]

dolatstr == [text |-> <<"ctlvar", "normal", "plain", "quoted", "@", "=">>, quoted |-> FALSE, bq |-> <<>>]

For(s) ==
    LET v    == readtoken(s)
        i    == readtoken(Kwd(v, {"kwd"}))
        in   == Words(i, <<>>)
        args == IF i.last = "in" THEN in
                ELSE [IF i.last \in {"nl", ";"} THEN i ELSE PushBack(i) EXCEPT !.node = <<dolatstr>>]
        do   == Expect(Kwd(args, {"nl", "kwd"}), "do")
        body == Block(do, "done")
    IN  IF v.last # "word" \/ v.word.quoted \/ ~goodname(v.word.text) THEN Raise(v, "Bad for loop variable")
        ELSE IF i.last = "in" /\ in.last \notin {"nl", ";"} THEN Raise(in, "unexpected")
        ELSE [body EXCEPT !.node = [type |-> "for", var |-> v.word.text, args |-> args.node,
                                    body |-> body.node]]

\* case; what is read as a pattern need not be a word.
RECURSIVE Patterns(_, _), Cases(_, _), SkipNewlines(_)
Patterns(s, pats) ==
    LET t == readtoken(s)
        more == Append(pats, s.word)
    IN  IF t.last = "|" THEN Patterns(readtoken(t), more) ELSE [t EXCEPT !.node = more]

Cases(s, cases) ==
    LET t    == readtoken(Kwd(s, {"nl", "kwd"}))
        pats == Patterns(IF t.last = "(" THEN readtoken(t) ELSE t, <<>>)
        body == list(pats, 2)
        more == Append(cases, [pattern |-> pats.node, body |-> body.node])
        e    == readtoken(Kwd(body, {"nl", "kwd"}))
    IN  CASE t.last = "esac" \/ t.err # "none" -> [t EXCEPT !.node = cases]
          [] OTHER -> IF pats.last # ")" THEN Raise(pats, "unexpected")
                      ELSE IF e.last = "esac" THEN [e EXCEPT !.node = more]
                      ELSE IF e.last = ";;" THEN Cases(e, more)
                      ELSE Raise(e, "unexpected")

SkipNewlines(s) == LET t == readtoken(Kwd(s, {"kwd"})) IN IF t.last = "nl" THEN SkipNewlines(t) ELSE t

Case(s) ==
    LET w  == Expect(s, "word")
        in == SkipNewlines(w)
        cs == Cases(in, <<>>)
    IN  IF in.last # "in" THEN Raise(in, "unexpected")
        ELSE [cs EXCEPT !.node = [type |-> "case", expr |-> w.word, cases |-> cs.node]]

Subshell(s) ==
    LET t == Block(s, ")") IN [t EXCEPT !.node = [type |-> "subshell", n |-> t.node, redirect |-> <<>>]]

ParseCommand(s) ==
    LET t == readtoken(s)
    IN  CASE t.last = "if"    -> Redirected(LET u == IfPart(t) IN [Expect(u, "fi") EXCEPT !.node = u.node])
          [] t.last = "while" -> Redirected(Loop(t, "while"))
          [] t.last = "until" -> Redirected(Loop(t, "until"))
          [] t.last = "for"   -> Redirected(For(t))
          [] t.last = "case"  -> Redirected(Case(t))
          [] t.last = "("     -> Redirected(Subshell(t))
          [] t.last = "{"     -> Redirected(Block(t, "}"))
          [] t.last \in {"word", "redir"} -> simplecmd(PushBack(t))
          [] OTHER -> Raise(t, "unexpected")

Enter(routine, s) ==
    CASE routine = "list"          -> List(s[1], s[2])
      [] routine = "andor"         -> AndOr(s)
      [] routine = "parse_command" -> ParseCommand(s)
      [] routine = "parsefname"    -> ParseFname(s)
      [] routine = "readtoken"     -> ReadToken(s)
      [] routine = "parseheredoc"  -> Heredocs(s)
      [] routine = "xxreadtoken"   -> XxReadToken(s)
      [] routine = "readtoken1"    -> ReadToken1(s[1], s[2], s[3], s[4], s[5])
      [] routine = "switch"        -> SwitchOn(s)

\* parsecmd: a line, NULL for an empty one, NEOF at the end.
parsecmd(s) ==
    LET line(t) == IF t.last = EOF THEN [t EXCEPT !.node = NEOF]
                   ELSE IF t.last = "nl" THEN [t EXCEPT !.node = NULL]
                   ELSE list(PushBack(t), 1)
    IN  line(readtoken([s EXCEPT !.back = FALSE]))

\* All the commands of a script (cmdloop, evalstring), with their documents.
RECURSIVE Commands(_, _)
AfterCommand(t, nodes) ==
    IF t.err # "none" \/ t.node = NEOF THEN [nodes |-> nodes, docs |-> t.bodies, err |-> t.err]
    ELSE Commands(t, IF t.node = NULL THEN nodes ELSE Append(nodes, t.node))

Commands(s, nodes) == AfterCommand(parsecmd(s), nodes)

Parse(src) == Commands(ParserOf(src), <<>>)
=============================================================================
