------------------------------- MODULE BoxSed -------------------------------
(***************************************************************************)
(* editors/sed.c: a script is read into commands, and these are done on    *)
(* one line after the other, which is read one line ahead. A text is a     *)
(* sequence of characters; <<>> stands for a null pointer and <<x>> for    *)
(* one to x. Expressions are those of compat/regex.c; a buffer is used     *)
(* again as it was compiled.                                               *)
(***************************************************************************)
EXTENDS CompatRegex

Spaces == {" ", "\n"}
semicolon_whitespace == Spaces \cup {";"}
C(t, i) == IF i \in DOMAIN t THEN t[i] ELSE "NUL"
\* The first place from i on with a character that is not, or that is, in set.
Past(t, i, set) == CHOOSE j \in i..(Len(t) + 1) : C(t, j) \notin set /\ \A k \in i..(j - 1) : t[k] \in set
UpTo(t, i, set) == CHOOSE j \in i..(Len(t) + 1) : C(t, j) \in set \cup {"NUL"} /\ \A k \in i..(j - 1) : t[k] \notin set
RestFrom(t, i) == SubSeq(t, i, Len(t))
Numeral(t) == FoldLeft(LAMBDA n, x : 10 * n + CharCode(x) - CharCode("0"), 0, t)

\* "\from" becomes to, or with from = "any" every "\x" becomes x.
Unescape(r, x, from, to) ==
    IF ~r.esc THEN IF x = "\\" THEN [r EXCEPT !.esc = TRUE] ELSE [r EXCEPT !.t = Append(@, x)]
    ELSE [esc |-> FALSE, t |-> r.t \o (IF from = "any" THEN <<x>> ELSE IF x = from THEN <<to>> ELSE <<"\\", x>>)]
parse_escapes(t, from, to) == FoldLeft(LAMBDA r, x : Unescape(r, x, from, to), [esc |-> FALSE, t |-> <<>>], t).t
copy_parsing_escapes(t) == parse_escapes(parse_escapes(t, "n", "\n"), "t", "\t")

\* The next delimiter that is neither escaped nor, where sets are looked at, in a
\* set that begins at b; 0 when there is none.
RECURSIVE DelimFrom(_, _, _, _, _, _)
SetGoesOn(t, i, b) == t[i] # "]" \/ b = i - 1 \/ (b = i - 2 /\ t[i - 1] = "^")
DelimFrom(t, i, delim, sets, mode, b) ==
    CASE i > Len(t) -> 0
      [] i <= Len(t) /\ mode = "set" -> DelimFrom(t, i + 1, delim, sets, IF SetGoesOn(t, i, b) THEN "set" ELSE "plain", b)
      [] i <= Len(t) /\ mode = "escaped" -> DelimFrom(t, i + 1, delim, sets, "plain", b)
      [] i <= Len(t) /\ mode = "plain" ->
            IF t[i] = "\\" THEN DelimFrom(t, i + 1, delim, sets, "escaped", b)
            ELSE IF sets /\ t[i] = "[" THEN DelimFrom(t, i + 1, delim, sets, "set", i)
            ELSE IF t[i] = delim THEN i ELSE DelimFrom(t, i + 1, delim, sets, "plain", b)
index_of_next_unescaped_regexp_delim(t, i, delim, sets) == DelimFrom(t, i, delim, sets, "plain", 0)

-----------------------------------------------------------------------------
(* Parsing. s has the commands so far and the line that is not finished; a *)
(* cursor k has the script line t, the place i in it, the command c and    *)
(* what went wrong: "die", or "beyond" when the end of the line is passed. *)

NewCmd == [cmd |-> "", beg |-> 0, end |-> 0, begre |-> <<>>, endre |-> <<>>, subre |-> <<>>, string |-> <<>>, which |-> 1,
           invert |-> FALSE, p |-> FALSE, w |-> FALSE]
Die(k)    == [k EXCEPT !.err = "die"]
Ok(k)     == k.err = "none"
Here(k)   == C(k.t, k.i)
To(k, i)  == [k EXCEPT !.i = i]
skip_whitespace(k) == To(k, Past(k.t, k.i, Spaces))
OneAddress(k) == k.c.end = 0 /\ k.c.endre = <<>>

\* An address: where it ends, a line (-1 for $) or an expression.
AddressRe(k, re, next) == [i |-> next + 1, line |-> 0, re |-> <<re>>, ok |-> re.err = "none"]
ReAddress(k, from, next) ==
    IF next = 0 THEN [i |-> k.i, line |-> 0, re |-> <<>>, ok |-> FALSE]
    ELSE AddressRe(k, regcomp(copy_parsing_escapes(SubSeq(k.t, from, next - 1)), k.flags \cup {"NEWLINE"}), next)
get_address(k) ==
    LET x     == Here(k)
        from  == IF x = "\\" THEN k.i + 2 ELSE k.i + 1
        delim == IF x = "\\" THEN C(k.t, k.i + 1) ELSE "/"
        past  == Past(k.t, k.i, Digits)
    IN  CASE x \in Digits -> [i |-> past, line |-> Numeral(SubSeq(k.t, k.i, past - 1)), re |-> <<>>, ok |-> TRUE]
          [] x = "$" -> [i |-> k.i + 1, line |-> -1, re |-> <<>>, ok |-> TRUE]
          [] x \in {"/", "\\"} -> ReAddress(k, from, index_of_next_unescaped_regexp_delim(k.t, from, delim, TRUE))
          [] OTHER -> [i |-> k.i, line |-> 0, re |-> <<>>, ok |-> TRUE]

\* Two parts and the three delimiters around them; i is the place of the third.
Parts(k, one, two) ==
    IF Here(k) = "NUL" \/ one = 0 \/ two = 0 THEN [ok |-> FALSE]
    ELSE [ok |-> TRUE, i |-> two, match |-> copy_parsing_escapes(SubSeq(k.t, k.i + 1, one - 1)), replace |-> copy_parsing_escapes(SubSeq(k.t, one + 1, two - 1))]
parse_regex_delim(k) ==
    LET one == index_of_next_unescaped_regexp_delim(k.t, k.i + 1, Here(k), TRUE)
    IN  Parts(k, one, IF one = 0 THEN 0 ELSE index_of_next_unescaped_regexp_delim(k.t, one + 1, Here(k), FALSE))

\* A name up to the end of the line; where lines were joined the backslash is put
\* somewhere.
parse_file_cmd(k) ==
    LET start == Past(k.t, k.i, Spaces)
        idx   == UpTo(k.t, start, {"\n"})
        name  == SubSeq(k.t, start, IF idx + 1 > Len(k.t) THEN Len(k.t) ELSE idx + 1)
        glued == IF idx - k.i + 1 \in DOMAIN name THEN [name EXCEPT ![idx - k.i + 1] = "\\"] ELSE name
    IN  IF idx = start THEN Die(k)
        ELSE [k EXCEPT !.i = idx, !.c.string = <<IF C(k.t, idx) = "\n" THEN glued ELSE SubSeq(k.t, start, idx - 1)>>]

\* The flags of s. A number takes the character behind it along, w the end.
RECURSIVE SubstFlags(_, _, _)
SubstFlag(k, x, front) ==
    CASE x \in Digits /\ ~front -> [k EXCEPT !.c.which = Numeral(SubSeq(k.t, k.i, Past(k.t, k.i, Digits) - 1)), !.i = Past(k.t, k.i, Digits) + 1]
      [] (x \in Digits /\ front) \/ x \in Spaces -> To(k, k.i + 1)
      [] x = "g" -> [k EXCEPT !.c.which = IF front THEN @ ELSE 0, !.i = @ + 1]
      [] x = "p" -> [k EXCEPT !.c.p = TRUE, !.i = @ + 1]
      [] x = "I" -> [k EXCEPT !.icase = TRUE, !.i = @ + 1]
      [] x = "w" -> [k EXCEPT !.err = "beyond"]
      [] OTHER -> Die(k)
SubstFlags(k, match, front) ==
    CASE k.i > Len(k.t) + 1 -> [k EXCEPT !.err = "beyond"]
      [] k.i <= Len(k.t) + 1 /\ (~Ok(k) \/ Here(k) \in {"NUL", ";", "}"}) -> k
      [] k.i <= Len(k.t) + 1 /\ Ok(k) /\ Here(k) = "#" -> To(k, Len(k.t) + 1)
      [] OTHER -> SubstFlags(SubstFlag(k, Here(k), front), match, front)
WithSubRe(k, re) == IF re.err # "none" THEN Die(k) ELSE [k EXCEPT !.c.subre = <<re>>]
SubstCompiled(k, match) ==
    IF ~Ok(k) \/ match = <<>> THEN k ELSE WithSubRe(k, regcomp(match, k.flags \cup {x \in {"ICASE"} : k.icase}))
SubstParts(k, x) ==
    IF ~x.ok THEN Die(k)
    ELSE SubstCompiled(SubstFlags([k EXCEPT !.i = x.i + 1, !.c.string = <<x.replace>>], x.match, x.match # <<>> /\ x.match[1] = "^"), x.match)
parse_subst_cmd(k) == SubstParts([k EXCEPT !.icase = FALSE], parse_regex_delim(k))

\* a, i and c take the rest of the line.
RECURSIVE TextFrom(_, _)
TextFrom(t, i) == IF C(t, i) \in {"\n", "\\"} THEN i + 1 ELSE IF C(t, i) \in Spaces THEN TextFrom(t, i + 1) ELSE i
EditText(k) ==
    [k EXCEPT !.c.string = <<parse_escapes(RestFrom(k.t, TextFrom(k.t, k.i)), "any", "")>>, !.i = Len(k.t) + 1]
Label(k) ==
    LET to == UpTo(k.t, k.i, semicolon_whitespace) IN IF to = k.i THEN k ELSE [k EXCEPT !.c.string = <<SubSeq(k.t, k.i, to - 1)>>, !.i = to]
\* Pairs of characters, as many as the shorter part has.
Pairs(match, replace) ==
    [j \in 1..(IF Len(match) < Len(replace) THEN Len(match) ELSE Len(replace)) |-> <<match[j], replace[j]>>]
Transliteration(k, x) ==
    IF ~x.ok THEN Die(k)
    ELSE [k EXCEPT !.i = x.i + 1, !.c.string = <<Pairs(parse_escapes(x.match, Here(k), Here(k)), parse_escapes(x.replace, Here(k), Here(k)))>>]

parse_cmd_args(k) ==
    CASE k.c.cmd = "s" -> parse_subst_cmd(k)
      [] k.c.cmd \in {"a", "i", "c"} -> IF ~OneAddress(k) /\ k.c.cmd # "c" THEN Die(k) ELSE EditText(k)
      [] k.c.cmd \in {"r", "w"} ->
            IF ~OneAddress(k) THEN Die(k) ELSE parse_file_cmd([k EXCEPT !.c.w = k.c.cmd = "w"])
      [] k.c.cmd \in {":", "b", "t", "T"} -> Label(skip_whitespace(k))
      [] k.c.cmd = "y" -> Transliteration(k, parse_regex_delim(k))
      [] k.c.cmd \in {"d", "D", "g", "G", "h", "H", "l", "n", "N", "p", "P", "q", "x", "=", "{", "}"} -> k
      [] OTHER -> Die(k)

\* [addr][,addr][!]cmd
CommandAt(k) == IF Here(k) = "NUL" THEN Die(k) ELSE parse_cmd_args([k EXCEPT !.c.cmd = Here(k), !.i = @ + 1])
Inverted(k) == IF Here(k) = "!" THEN skip_whitespace([k EXCEPT !.c.invert = TRUE, !.i = @ + 1]) ELSE k
SecondAddress(k, a) ==
    IF ~a.ok \/ a.i = k.i THEN Die(k) ELSE [k EXCEPT !.i = a.i, !.c.end = a.line, !.c.endre = a.re]
MaybeSecond(k) == IF Here(k) = "," THEN SecondAddress(To(k, k.i + 1), get_address(To(k, k.i + 1))) ELSE k
FirstAddress(k, a) ==
    IF ~a.ok THEN Die(k) ELSE MaybeSecond([k EXCEPT !.i = a.i, !.c.beg = a.line, !.c.begre = a.re])
ThenCommand(k) == IF Ok(k) THEN CommandAt(Inverted(skip_whitespace(k))) ELSE k
OneCommand(k) == ThenCommand(FirstAddress(k, get_address(k)))

RECURSIVE Commands(_, _)
Added(s, k) ==
    IF ~Ok(k) THEN [s EXCEPT !.err = k.err]
    ELSE [s EXCEPT !.cmds = Append(@, k.c), !.opened = IF k.c.w THEN @ \cup {k.c.string[1]} ELSE @]
Comment(s, k) == IF C(k.t, k.i + 1) = "n" THEN [s EXCEPT !.be_quiet = TRUE] ELSE s
MoreCommands(s, k) == IF s.err # "none" THEN s ELSE Commands(s, k)
ThenMore(s, k, comment) == MoreCommands(IF comment THEN Comment(s, k) ELSE Added(s, k), IF comment THEN To(k, UpTo(k.t, k.i, {"\n"})) ELSE k)
AtCommand(s, k) ==
    IF Here(k) = "NUL" THEN s
    ELSE ThenMore(s, IF Here(k) = "#" THEN k ELSE OneCommand([k EXCEPT !.c = NewCmd]), Here(k) = "#")
Commands(s, k) == AtCommand(s, To(k, Past(k.t, k.i, semicolon_whitespace)))

\* A line that ends with a backslash waits for the next.
Whole(s, t) ==
    IF t # <<>> /\ Last(t) = "\\" THEN [s EXCEPT !.add_cmd_line = <<Front(t)>>]
    ELSE Commands([s EXCEPT !.add_cmd_line = <<>>], [t |-> t, i |-> 1, c |-> NewCmd, err |-> "none", flags |-> s.regex_type, icase |-> FALSE])
add_cmd(s, t) ==
    IF s.err # "none" THEN s ELSE Whole(s, IF s.add_cmd_line = <<>> THEN t ELSE s.add_cmd_line[1] \o <<"\n">> \o t)

\* The lines of an argument; an escaped newline loses its backslash.
Slashes(t) == Len(t) - (CHOOSE j \in 0..Len(t) : (j = 0 \/ t[j] # "\\") /\ \A i \in (j + 1)..Len(t) : t[i] = "\\")
Cut(ls, x) ==
    IF x # "\n" THEN [ls EXCEPT ![Len(ls)] = Append(@, x)]
    ELSE IF Slashes(Last(ls)) % 2 = 1 THEN [ls EXCEPT ![Len(ls)] = Append(Front(@), x)] ELSE Append(ls, <<>>)
add_cmd_block(t) == FoldLeft(Cut, <<<<>>>>, t)

-----------------------------------------------------------------------------
(* Output: lpc is the last character put, gc what ended the line that was  *)
(* read: a newline, a NUL, the NUL that ends a file, or nothing.           *)

Puts(o, s, gc) ==
    LET gap == o.lpc \notin {"\n", "NUL"}
        lpc == IF s # <<>> THEN "x" ELSE IF gap THEN "\n" ELSE o.lpc
        t   == o.t \o (IF gap THEN <<"\n">> ELSE <<>>) \o s
    IN  CASE gc = "last NUL" -> [t |-> Append(t, "NUL"), lpc |-> "x"]
          [] gc = "none" -> [t |-> t, lpc |-> lpc]
          [] gc \in {"\n", "NUL"} -> [t |-> Append(t, gc), lpc |-> gc]
sed_puts(r, s, gc) == [r EXCEPT !.o = Puts(@, s, gc)]
Printf(r, t) == [r EXCEPT !.o.t = @ \o t]
flush_append(r) == [Printf(r, FlattenSeq([i \in DOMAIN r.queue |-> Append(r.queue[i], "\n")])) EXCEPT !.queue = <<>>]

\* The next line of the files that are left.
GotFrom(r, t, others, n) ==
    [r EXCEPT !.next = <<SubSeq(t, 1, n - 1)>>, !.input = <<RestFrom(t, n + 1)>> \o others,
              !.ngc = IF n > Len(t) THEN "none" ELSE IF t[n] = "\n" THEN "\n" ELSE IF n = Len(t) THEN "last NUL" ELSE "NUL"]
GotNext(r) ==
    LET more == {i \in DOMAIN r.input : r.input[i] # <<>>}
        i    == CHOOSE i \in more : \A j \in more : i <= j
    IN  IF more = {} THEN [r EXCEPT !.next = <<>>, !.ngc = "none", !.input = <<>>]
        ELSE GotFrom(r, r.input[i], RestFrom(r.input, i + 1), UpTo(r.input[i], 1, {"\n"}))
get_next_line(r) == GotNext(flush_append(r))

-----------------------------------------------------------------------------
(* Substitution. x is the rest of the line and what has been made of it; m *)
(* is the match in the rest.                                               *)

Piece(line, m, n) == IF n + 1 \in DOMAIN m.spans /\ m.spans[n + 1] # <<>> THEN SubSeq(line, m.spans[n + 1][1], m.spans[n + 1][2] - 1) ELSE <<>>
Replaced(r, x, line, m) ==
    IF r.esc THEN [esc |-> FALSE, t |-> r.t \o (IF x \in Digits THEN Piece(line, m, CharCode(x) - CharCode("0")) ELSE <<x>>)]
    ELSE IF x = "\\" THEN [r EXCEPT !.esc = TRUE]
    ELSE [r EXCEPT !.t = @ \o (IF x = "&" THEN Piece(line, m, 0) ELSE <<x>>)]
do_subst_w_backrefs(line, replace, m) == FoldLeft(LAMBDA r, x : Replaced(r, x, line, m), [esc |-> FALSE, t |-> <<>>], replace).t

RECURSIVE SubstRounds(_, _, _)
Passed(x, n, out) == [x EXCEPT !.out = @ \o out, !.old = RestFrom(@, n)]
SubstNext(c, re, x) == IF x.over \/ x.old = <<>> THEN x ELSE SubstRounds(c, re, x)
\* One more match m: passed over when it is empty and not the first, left as it is
\* when another is meant, replaced otherwise.
SubstRound(c, x, m) ==
    LET so    == m.spans[1][1]
        eo    == m.spans[1][2]
        count == x.count + 1
        empty == so = 1 /\ eo = 1 /\ x.count > 0
    IN  CASE empty -> Passed(x, 2, <<x.old[1]>>)
          [] ~empty /\ c.which \notin {0, count} -> [Passed(x, eo, SubSeq(x.old, 1, eo - 1)) EXCEPT !.count = count]
          [] OTHER -> [Passed(x, eo, SubSeq(x.old, 1, so - 1) \o do_subst_w_backrefs(x.old, c.string[1], m))
                       EXCEPT !.count = count, !.altered = TRUE, !.over = c.which # 0]
SubstFound(c, re, x, m) == IF m.res # "match" THEN x ELSE SubstNext(c, re, SubstRound(c, x, m))
SubstRounds(c, re, x) == SubstFound(c, re, x, regexec(re, x.old, {}))
Substituted(c, re, line) == SubstRounds(c, re, [old |-> line, out |-> <<>>, count |-> 0, altered |-> FALSE, over |-> FALSE])

-----------------------------------------------------------------------------
(* The commands. r is the run: pc is the next command, 0 to begin with the *)
(* next line, and one behind the last to end with this one.                *)

Dies(r) == [r EXCEPT !.over = TRUE, !.gone = "died"]
Proceed(r) == [r EXCEPT !.pc = @ + 1]
discard_commands(r) == [r EXCEPT !.pc = Len(r.cmds) + 1]
discard_line(r) == [flush_append(r) EXCEPT !.pc = 0]
Found(re, t) == regexec(re, t, {}).res = "match"

beg_match(r, c) == c.begre # <<>> /\ Found(c.begre[1], r.ps)
NoRange(c) == c.beg = 0 /\ c.end = 0 /\ c.begre = <<>> /\ c.endre = <<>>
RangeEnds(r, c, old) ==
    \/ IF c.end # 0 THEN IF c.end = -1 THEN r.next = <<>> ELSE c.end <= r.linenum ELSE c.endre = <<>>
    \/ c.endre # <<>> /\ old /\ Found(c.endre[1], r.ps)
\* Does this command match this line; x has the run and the answer.
Selected(r, c, old) ==
    LET known   == old \/ NoRange(c) \/ (c.beg > 0 /\ c.beg = r.linenum)
        begins  == ~known /\ beg_match(r, c)
        matched == known \/ begins \/ (c.beg = -1 /\ r.next = <<>>)
    IN  [r |-> [r EXCEPT !.in_match[r.pc] = matched /\ ~RangeEnds(r, c, old), !.previous = IF begins THEN c.begre ELSE @],
         yes |-> matched # c.invert]

BlockEnds(r) == {i \in r.pc..Len(r.cmds) : r.cmds[i].cmd = "}"}
SkipBlock(r) ==
    IF BlockEnds(r) = {} THEN Dies(r) ELSE [r EXCEPT !.pc = 1 + CHOOSE i \in BlockEnds(r) : \A j \in BlockEnds(r) : i <= j]
branch_to(r, label) ==
    LET labels == {i \in DOMAIN r.cmds : r.cmds[i].cmd = ":" /\ r.cmds[i].string = label}
    IN  IF labels = {} THEN Dies(r) ELSE [r EXCEPT !.pc = 1 + CHOOSE i \in labels : \A j \in labels : i <= j]
Branch(r, c) == IF c.string = <<>> THEN discard_commands(r) ELSE branch_to(r, c.string)

\* The pattern space up to its first newline and behind it.
HasNewline(r) == \E i \in DOMAIN r.ps : r.ps[i] = "\n"
Above(r) == SubSeq(r.ps, 1, UpTo(r.ps, 1, {"\n"}) - 1)
Below(r) == RestFrom(r.ps, UpTo(r.ps, 1, {"\n"}) + 1)

Write(r, gc) == [r EXCEPT !.w[r.pc] = Puts(@, r.ps, gc)]
SubstPrint(r, c) == IF c.p THEN sed_puts(r, r.ps, r.gc) ELSE r
SubstDone(r, c, x) ==
    IF ~x.altered THEN r ELSE SubstPrint([r EXCEPT !.ps = x.out \o x.old, !.substituted = TRUE], c)
do_subst_command(r, c) ==
    LET re == IF c.subre = <<>> THEN r.previous ELSE c.subre
    IN  IF re = <<>> THEN Dies(r) ELSE Proceed(SubstDone([r EXCEPT !.previous = re], c, Substituted(c, re[1], r.ps)))

Lines(t) == LET ls == FoldLeft(LAMBDA l, x : IF x = "\n" THEN Append(l, <<>>) ELSE [l EXCEPT ![Len(l)] = Append(@, x)], <<<<>>>>, t)
            IN  IF Last(ls) = <<>> THEN Front(ls) ELSE ls
ReadFile(r, name) == IF name \in DOMAIN r.fs THEN [r EXCEPT !.queue = @ \o Lines(r.fs[name])] ELSE r
NextLine(r) == get_next_line([r EXCEPT !.gc = r.ngc, !.linenum = @ + 1])
PrintUnlessQuiet(r) == IF r.be_quiet THEN r ELSE sed_puts(r, r.ps, r.gc)
Quit(r) == discard_commands([r EXCEPT !.next = <<>>])
NextOrQuit(r) ==
    IF r.next = <<>> THEN Quit(r) ELSE Proceed(NextLine([r EXCEPT !.ps = r.next[1], !.substituted = FALSE]))
Held(r) == IF r.hold = <<>> THEN <<>> ELSE r.hold[1]
Translated(t, pairs) ==
    [i \in DOMAIN t |-> LET js == {j \in DOMAIN pairs : pairs[j][1] = t[i]}
                        IN  IF js = {} THEN t[i] ELSE pairs[CHOOSE j \in js : \A k \in js : j <= k][2]]
Tells(r, c) ==
    CASE c.cmd = "=" -> Proceed(Printf(r, <<ToString(r.linenum), "\n">>))
      [] c.cmd = "P" /\ HasNewline(r) -> Proceed(sed_puts(r, Above(r), "\n"))
      [] c.cmd = "p" \/ (c.cmd = "P" /\ ~HasNewline(r)) -> Proceed(sed_puts(r, r.ps, "\n"))
      [] c.cmd = "D" /\ HasNewline(r) -> [r EXCEPT !.ps = Below(r), !.pc = 1]
      [] c.cmd = "d" \/ (c.cmd = "D" /\ ~HasNewline(r)) -> discard_line(r)
      [] c.cmd = "s" -> do_subst_command(r, c)
Adds(r, c) ==
    CASE c.cmd = "a" -> Proceed([r EXCEPT !.queue = Append(@, c.string[1])])
      [] c.cmd = "i" -> Proceed(sed_puts(r, c.string[1], "\n"))
      [] c.cmd = "c" -> discard_line(IF r.in_match[r.pc] THEN r ELSE sed_puts(r, c.string[1], "none"))
      [] c.cmd = "r" -> Proceed(ReadFile(r, c.string[1]))
      [] c.cmd = "w" -> Proceed(Write(r, r.gc))
Turns(r, c) ==
    CASE c.cmd = "n" -> NextOrQuit(PrintUnlessQuiet(r))
      [] c.cmd = "q" -> Quit(r)
      [] c.cmd = "N" ->
            IF r.next = <<>> THEN discard_line(r) ELSE Proceed(NextLine([r EXCEPT !.ps = @ \o <<"\n">> \o r.next[1]]))
      [] c.cmd = "t" -> IF r.substituted THEN Branch([r EXCEPT !.substituted = FALSE], c) ELSE Proceed(r)
      [] c.cmd = "T" -> IF r.substituted THEN Proceed(r) ELSE Branch(r, c)
      [] c.cmd = "b" -> Branch(r, c)
Changes(r, c) ==
    CASE c.cmd = "y" -> Proceed([r EXCEPT !.ps = Translated(@, c.string[1])])
      [] c.cmd = "g" -> Proceed([r EXCEPT !.ps = Held(r)])
      [] c.cmd = "G" -> Proceed([r EXCEPT !.ps = @ \o <<"\n">> \o Held(r), !.gc = "\n"])
      [] c.cmd = "h" -> Proceed([r EXCEPT !.hold = <<r.ps>>])
      [] c.cmd = "H" -> Proceed([r EXCEPT !.hold = <<Held(r) \o <<"\n">> \o r.ps>>])
      [] c.cmd = "x" -> Proceed([r EXCEPT !.ps = Held(r), !.hold = <<r.ps>>, !.gc = "\n"])
Does(r, c) ==
    CASE c.cmd \in {"=", "P", "p", "D", "d", "s"}      -> Tells(r, c)
      [] c.cmd \in {"a", "i", "c", "r", "w"}           -> Adds(r, c)
      [] c.cmd \in {"n", "q", "N", "t", "T", "b"}      -> Turns(r, c)
      [] c.cmd \in {"y", "g", "G", "h", "H", "x"}      -> Changes(r, c)
      [] c.cmd \in {":", "}", "l"}                     -> Proceed(r)
Applied(x, c) ==
    CASE c.cmd = "{" -> IF x.yes THEN Proceed(x.r) ELSE SkipBlock(x.r)
      [] c.cmd # "{" /\ x.yes -> Does([x.r EXCEPT !.previous = IF c.begre # <<>> THEN c.begre ELSE @], c)
      [] OTHER -> Proceed(x.r)

again(r) ==
    IF r.next = <<>> THEN [r EXCEPT !.over = TRUE]
    ELSE [NextLine([r EXCEPT !.substituted = FALSE, !.ps = r.next[1]]) EXCEPT !.pc = 1]
SedStep(r) ==
    CASE r.over -> r
      [] ~r.over /\ r.pc = 0 -> again(r)
      [] ~r.over /\ r.pc = Len(r.cmds) + 1 -> discard_line(PrintUnlessQuiet(r))
      [] OTHER -> Applied(Selected(r, r.cmds[r.pc], r.in_match[r.pc]), r.cmds[r.pc])
\* As many as 2^k steps; a script that goes on is given up.
RECURSIVE SedSteps(_, _)
SedSteps(r, k) == IF r.over THEN r ELSE IF k = 0 THEN SedStep(r) ELSE SedSteps(SedSteps(r, k - 1), k - 1)
process_files(r) ==
    SedSteps(get_next_line([r EXCEPT !.linenum = 0, !.o.lpc = "\n", !.pc = 0, !.over = FALSE]), 7)

-----------------------------------------------------------------------------
(* sed_main(): j has the scripts (e), the lines of their files (f), the    *)
(* options, the arguments and the files. The system call number fault      *)
(* fails, and before the one number kill the process is killed.            *)

Script(j) ==
    LET s0 == [cmds |-> <<>>, add_cmd_line |-> <<>>, be_quiet |-> j.quiet, err |-> "none", opened |-> {},
               regex_type |-> IF j.extended THEN {"EXTENDED"} ELSE {}]
    IN  FoldLeft(add_cmd, s0, FlattenSeq([i \in DOMAIN j.e |-> add_cmd_block(j.e[i])]) \o FlattenSeq(j.f) \o <<<<>>>>)
Started(j, s) ==
    [cmds |-> s.cmds, be_quiet |-> s.be_quiet, in_match |-> [i \in DOMAIN s.cmds |-> FALSE], previous |-> <<>>, hold |-> <<>>, queue |-> <<>>,
     ps |-> <<>>, next |-> <<>>, gc |-> "none", ngc |-> "none", input |-> <<>>, linenum |-> 0, substituted |-> FALSE, pc |-> 0, over |-> FALSE,
     o |-> [t |-> <<>>, lpc |-> "\n"], w |-> [i \in {i \in DOMAIN s.cmds : s.cmds[i].w} |-> [t |-> <<>>, lpc |-> "\n"]],
     fs |-> [n \in s.opened |-> <<>>] @@ j.fs, calls |-> 0, gone |-> "", warned |-> FALSE, ready |-> FALSE, j |-> j]

\* The next system call; each is passed over once the process is gone.
Called(r)   == [r EXCEPT !.calls = @ + 1, !.gone = IF @ = "" /\ r.calls + 1 = r.j.kill THEN "killed" ELSE @]
Faulty(r)   == r.calls = r.j.fault
Going(r)    == r.gone = ""
outname(name) == name \o <<"XXXXXX">>
Unlink(r, name) == [r EXCEPT !.fs = [n \in DOMAIN @ \ {name} |-> @[n]]]
cleanup_outname(r, name) == IF r.gone = "died" THEN Unlink(r, outname(name)) ELSE r

\* What there is to be done before process_files() is called, and after it: name is
\* a file, - or, at last, nothing for the files that have not been read yet.
MadeTemp(r, name) ==
    CASE ~Going(r) -> r
      [] Going(r) /\ Faulty(r) -> Dies(r)
      [] OTHER -> [r EXCEPT !.fs = (outname(name) :> <<>>) @@ @, !.o.t = <<>>, !.input = Append(@, r.fs[name]), !.ready = TRUE]
Opened(r, name) ==
    CASE ~Going(r) -> r
      [] Going(r) /\ (Faulty(r) \/ name \notin DOMAIN r.fs) -> [r EXCEPT !.warned = TRUE]
      [] OTHER -> IF r.j.inplace THEN MadeTemp(Called(r), name) ELSE [r EXCEPT !.input = Append(@, r.fs[name])]
Before(r, name) ==
    CASE ~Going(r) -> r
      [] Going(r) /\ name = <<>> -> [r EXCEPT !.ready = r.input # <<>>]
      [] Going(r) /\ name = <<"-">> /\ ~r.j.inplace -> [r EXCEPT !.input = Append(@, r.j.stdin), !.j.stdin = <<>>, !.ready = TRUE]
      [] OTHER -> Opened(Called(r), name)
Renamed(r, name) ==
    CASE ~Going(r) -> r
      [] Going(r) /\ Faulty(r) -> Dies(r)
      [] OTHER -> Unlink([r EXCEPT !.fs[name] = r.fs[outname(name)]], outname(name))
\* What was put is written when the file is closed; that it fails is not noticed.
Written(r, name) == IF ~Going(r) \/ Faulty(r) THEN r ELSE [r EXCEPT !.fs[outname(name)] = r.o.t]
Afterwards(r, name) == IF r.j.inplace /\ name # <<>> /\ Going(r) THEN Renamed(Called(Written(Called(r), name)), name) ELSE r
Processed(r, name) == IF r.ready THEN Afterwards(process_files([r EXCEPT !.ready = FALSE]), name) ELSE r
Argument(r, name) == cleanup_outname(Processed(Before(r, name), name), name)
Arguments(r) ==
    IF r.j.args = <<>> /\ r.j.inplace THEN Dies(r) ELSE FoldLeft(Argument, r, IF r.j.args = <<>> THEN <<<<"-">>>> ELSE Append(r.j.args, <<>>))
Exits(r) ==
    [err |-> "none", status |-> IF r.warned \/ r.gone = "died" THEN 1 ELSE 0, out |-> IF r.j.inplace THEN <<>> ELSE r.o.t, gone |-> IF r.over THEN r.gone ELSE "goes on",
     fs |-> [n \in {r.cmds[i].string[1] : i \in DOMAIN r.w} |-> r.w[CHOOSE i \in DOMAIN r.w : r.cmds[i].string[1] = n].t] @@ r.fs]
Ran(j, s) ==
    IF s.err # "none" THEN [err |-> s.err, status |-> 1, out |-> <<>>, gone |-> "", fs |-> [n \in s.opened |-> <<>>] @@ j.fs]
    ELSE Exits(Arguments(Started(j, s)))
sed_main(j) == Ran(j, Script(j))
=============================================================================
