---------------------------- MODULE CompatRegex -----------------------------
(***************************************************************************)
(* compat/regex.c, which stands for the regcomp() and regexec() of the     *)
(* system on Windows: a pattern is compiled into a buffer of commands, and *)
(* these are run over the text with a stack of places to fail back to.     *)
(* A command may change the buffer it is in.                               *)
(***************************************************************************)
EXTENDS Integers, Sequences, SequencesExt, TLC

CONSTANTS
    CharCode(_),         \* the code of a character
    Alphabet,            \* the characters there are
    Lower(_),            \* tolower()
    WordChars,           \* letters, digits and _
    ClassOf,             \* the names of the classes (texts), and their characters
    MAX_REGNUM,          \* the groups the buffer has numbers for
    MAX_BUF_SIZE,        \* the cells it may grow to
    RE_DUP_MAX,
    INIT_FAILURE_ALLOC,
    re_max_failures

\* re_opcode_t
op == [no_op |-> 0, exactn |-> 1, anychar |-> 2, charset |-> 3, charset_not |-> 4, start_memory |-> 5, stop_memory |-> 6,
       duplicate |-> 7, begline |-> 8, endline |-> 9, begbuf |-> 10, endbuf |-> 11, jump |-> 12, jump_past_alt |-> 13,
       on_failure_jump |-> 14, on_failure_keep_string_jump |-> 15, pop_failure_jump |-> 16, maybe_pop_jump |-> 17,
       dummy_failure_jump |-> 18, push_dummy_failure |-> 19, succeed_n |-> 20, jump_n |-> 21, set_number_at |-> 22,
       wordchar |-> 23, notwordchar |-> 24, wordbeg |-> 25, wordend |-> 26, wordbound |-> 27, notwordbound |-> 28]

\* The bits of the two syntaxes; those that are in neither are left out.
Common == {"CHAR_CLASSES", "DOT_NEWLINE", "DOT_NOT_NULL", "INTERVALS", "NO_EMPTY_RANGES"}
RE_SYNTAX_POSIX_BASIC == Common \cup {"BK_PLUS_QM"}
RE_SYNTAX_POSIX_EXTENDED ==
    Common \cup {"CONTEXT_INDEP_ANCHORS", "CONTEXT_INDEP_OPS", "NO_BK_BRACES", "NO_BK_PARENS", "NO_BK_VBAR", "UNMATCHED_RIGHT_PAREN_ORD"}

-----------------------------------------------------------------------------
(* The buffer: a number takes two bytes, the lower first.                  *)

Number(n) == <<n % 256, (n \div 256) % 256>>
ByteAt(buf, i) == IF i \in DOMAIN buf THEN buf[i] ELSE -1
Extract(buf, i) == ByteAt(buf, i) + 256 * (IF ByteAt(buf, i + 1) >= 128 THEN ByteAt(buf, i + 1) - 256 ELSE ByteAt(buf, i + 1))

Store(buf, loc, bytes)  == SubSeq(buf, 1, loc - 1) \o bytes \o SubSeq(buf, loc + Len(bytes), Len(buf))
Insert(buf, loc, bytes) == SubSeq(buf, 1, loc - 1) \o bytes \o SubSeq(buf, loc, Len(buf))
Jump(o, loc, to)        == <<o>> \o Number(to - loc - 3)
Jump2(o, loc, to, n)    == Jump(o, loc, to) \o Number(n)

-----------------------------------------------------------------------------
(* regex_compile(). The pattern ends with a NUL; p is the next character,  *)
(* B the next byte; 0 stands for a null pointer.                           *)

B(c)     == Len(c.buf) + 1
Ch(c, i) == IF i \in DOMAIN c.pat THEN c.pat[i] ELSE "NUL"
AtEnd(c) == c.p > Len(c.pat)
TRANSLATE(c, x) == IF c.translate THEN Lower(x) ELSE x
Err(c, e) == [c EXCEPT !.err = e]
Has(c, bit) == bit \in c.syntax
Push(c, bytes) == [c EXCEPT !.buf = @ \o bytes]

\* The next character begins something that takes only the one before it.
BeforeOperator(c) ==
    \/ Ch(c, c.p) \in {"*", "^"}
    \/ IF Has(c, "BK_PLUS_QM") THEN Ch(c, c.p) = "\\" /\ Ch(c, c.p + 1) \in {"+", "?"} ELSE Ch(c, c.p) \in {"+", "?"}
    \/ Has(c, "INTERVALS") /\ IF Has(c, "NO_BK_BRACES") THEN Ch(c, c.p) = "{" ELSE Ch(c, c.p) = "\\" /\ Ch(c, c.p + 1) = "{"
NewExact(c) ==
    c.pending = 0 \/ c.pending + c.buf[c.pending] + 1 # B(c) \/ c.buf[c.pending] = 255 \/ BeforeOperator(c)
InExact(c, x) == [c EXCEPT !.buf = Append([@ EXCEPT ![c.pending] = @ + 1], CharCode(x))]
normal_char(c, x) ==
    InExact(IF NewExact(c) THEN [c EXCEPT !.laststart = B(c), !.pending = B(c) + 1, !.buf = @ \o <<op.exactn, 0>>] ELSE c, x)

\* *, + and ?; several of them are one.
RECURSIVE Collapsed(_, _)
Collapsed(c, ops) ==
    LET x == Ch(c, c.p)
        y == Ch(c, c.p + 1)
    IN  IF x = "*" \/ (~Has(c, "BK_PLUS_QM") /\ x \in {"+", "?"}) THEN Collapsed([c EXCEPT !.p = @ + 1], ops \cup {x})
        ELSE IF Has(c, "BK_PLUS_QM") /\ x = "\\" /\ y = "NUL" THEN [c |-> Err(c, "EESCAPE"), ops |-> ops]
        ELSE IF Has(c, "BK_PLUS_QM") /\ x = "\\" /\ y \in {"+", "?"} THEN Collapsed([c EXCEPT !.p = @ + 2], ops \cup {y})
        ELSE [c |-> c, ops |-> ops]

\* .* and a newline that . does not match: the dot fails nowhere else.
DotStarNewline(c, ops) ==
    Ch(c, c.p - 2) = "." /\ ops # {"+"} /\ Ch(c, c.p) = "\n" /\ ~Has(c, "DOT_NEWLINE")
Looped(c, keep) ==
    Push(c, IF keep THEN Jump(op.jump, B(c), c.laststart) ELSE Jump(op.maybe_pop_jump, B(c), c.laststart - 3))
OnFailure(c, keep) ==
    [c EXCEPT !.pending = 0,
              !.buf = Insert(@, c.laststart, Jump(IF keep THEN op.on_failure_keep_string_jump ELSE op.on_failure_jump, c.laststart, B(c) + 3))]
AtLeastOnce(c) == [c EXCEPT !.buf = Insert(@, c.laststart, Jump(op.dummy_failure_jump, c.laststart, c.laststart + 6))]
Repeated(c, ops) ==
    LET keep == DotStarNewline(c, ops) /\ ops # {"?"}
        loop == OnFailure(IF ops # {"?"} THEN Looped(c, keep) ELSE c, keep)
    IN  IF c.err # "none" \/ c.laststart = 0 THEN c ELSE IF ops = {"+"} THEN AtLeastOnce(loop) ELSE loop
handle_plus(c, x) ==
    IF c.laststart = 0 /\ ~Has(c, "CONTEXT_INDEP_OPS") THEN normal_char(c, x)
    ELSE LET r == Collapsed(c, {x}) IN Repeated(r.c, r.ops)

\* Sets in brackets; first is the place of their first character.
SetBits(c, xs) == [c EXCEPT !.set = @ \cup {CharCode(x) : x \in xs}]
compile_range(c) ==
    LET range == {x \in Alphabet : CharCode(x) \in CharCode(c.pat[c.p - 2])..CharCode(c.pat[c.p])}
    IN  IF AtEnd(c) \/ CharCode(c.pat[c.p - 2]) > CharCode(c.pat[c.p]) THEN Err(c, "ERANGE")
        ELSE SetBits([c EXCEPT !.p = @ + 1], {TRANSLATE(c, x) : x \in range})

\* [: has been read: a class, or two characters of the set.
ClassEnd(c) ==
    LET ends == {i \in c.p..Len(c.pat) : i = c.p + 6 \/ Ch(c, i) \in {":", "]"} \/ i = Len(c.pat)} IN CHOOSE i \in ends : \A j \in ends : i <= j
class(c) ==
    LET e    == ClassEnd(c)
        name == [i \in 1..(e - c.p) |-> TRANSLATE(c, Ch(c, c.p + i - 1))]
    IN  IF AtEnd(c) THEN Err(c, "EBRACK")
        ELSE IF Ch(c, e) # ":" \/ Ch(c, e + 1) # "]" THEN [SetBits(c, {"[", ":"}) EXCEPT !.had = FALSE]
        ELSE IF name \notin DOMAIN ClassOf THEN Err(c, "ECTYPE")
        ELSE IF e + 2 > Len(c.pat) THEN Err(c, "EBRACK")
        ELSE [SetBits(c, ClassOf[name]) EXCEPT !.had = TRUE, !.p = e + 2]

After(c, text) == c.p - 1 > Len(text) /\ SubSeq(c.pat, c.p - 1 - Len(text), c.p - 2) = text
Hyphen(c, x) == x = "-" /\ Ch(c, c.p) # "]"
InBrackets(c, x) ==
    IF c.had /\ Hyphen(c, x) THEN Err(c, "ERANGE")
    ELSE IF Hyphen(c, x) /\ ~After(c, <<"[">>) /\ ~After(c, <<"[", "^">>) THEN compile_range(c)
    ELSE IF Ch(c, c.p) = "-" /\ Ch(c, c.p + 1) # "]" THEN compile_range([c EXCEPT !.p = @ + 1])
    ELSE IF Has(c, "CHAR_CLASSES") /\ x = "[" /\ Ch(c, c.p) = ":" THEN class([c EXCEPT !.p = @ + 1])
    ELSE [SetBits(c, {x}) EXCEPT !.had = FALSE]
RECURSIVE Members(_, _)
Members(c, first) ==
    IF c.err # "none" THEN c
    ELSE IF AtEnd(c) THEN Err(c, "EBRACK")
    ELSE IF Ch(c, c.p) = "]" /\ c.p # first THEN [c EXCEPT !.p = @ + 1]
    ELSE Members(InBrackets([c EXCEPT !.p = @ + 1], TRANSLATE(c, Ch(c, c.p))), first)

BitsOf(set, i) == FoldLeft(LAMBDA n, k : IF 8 * i + k \in set THEN n + 2^k ELSE n, 0, <<0, 1, 2, 3, 4, 5, 6, 7>>)
MapBytes(set) == IF set = {} THEN 0 ELSE ((CHOOSE x \in set : \A y \in set : y <= x) \div 8) + 1
Bitmap(set) == <<MapBytes(set)>> \o [i \in 1..MapBytes(set) |-> BitsOf(set, i - 1)]
Bracketed(c, code) == IF c.err # "none" THEN c ELSE Push(c, <<code>> \o Bitmap(c.set))
bracket(c) ==
    LET not == Ch(c, c.p) = "^"
        d   == [c EXCEPT !.laststart = B(c), !.p = IF not THEN @ + 1 ELSE @, !.had = FALSE,
                         !.set = IF not /\ Has(c, "HAT_LISTS_NOT_NEWLINE") THEN {CharCode("\n")} ELSE {}]
    IN  IF AtEnd(c) THEN Err(c, "EBRACK")
        ELSE IF B(c) + 34 > MAX_BUF_SIZE + 1 THEN Err(c, "ESIZE")
        ELSE Bracketed(Members(d, d.p), IF not THEN op.charset_not ELSE op.charset)

-----------------------------------------------------------------------------
(* Groups, alternatives and intervals.                                     *)

handle_open(c) ==
    LET n == c.re_nsub + 1
        d == IF n <= MAX_REGNUM THEN Push(c, <<op.start_memory, n, 0>>) ELSE c
        e == [begalt |-> c.begalt, fixup |-> c.fixup, laststart |-> B(c), inner |-> B(c) + 2, regnum |-> n]
    IN  [d EXCEPT !.re_nsub = n, !.stack = Append(@, e), !.fixup = 0, !.laststart = 0, !.begalt = B(d), !.pending = 0]

\* The last alternative ends: the jump behind the one before it gets its address.
AltEnds(c) ==
    IF c.fixup = 0 THEN c
    ELSE [c EXCEPT !.buf = Store(Append(@, op.push_dummy_failure), c.fixup, Jump(op.jump_past_alt, c.fixup, B(c)))]
Closed(c, e) ==
    LET d     == [c EXCEPT !.stack = Front(@), !.begalt = e.begalt, !.fixup = e.fixup, !.laststart = e.laststart, !.pending = 0]
        inner == c.re_nsub - e.regnum
    IN  IF e.regnum <= MAX_REGNUM THEN [d EXCEPT !.buf = [@ EXCEPT ![e.inner] = inner] \o <<op.stop_memory, e.regnum, inner>>] ELSE d
handle_close(c) ==
    IF c.stack # <<>> THEN Closed(AltEnds(c), Last(c.stack))
    ELSE IF Has(c, "UNMATCHED_RIGHT_PAREN_ORD") THEN normal_char(AltEnds(c), ")") ELSE Err(c, "ERPAREN")

Alternative(c) == [c EXCEPT !.fixup = B(c), !.buf = @ \o <<0, 0, 0>>, !.laststart = 0, !.begalt = B(c) + 3]
handle_alt(c) ==
    LET d == [c EXCEPT !.buf = Insert(@, c.begalt, Jump(op.on_failure_jump, c.begalt, B(c) + 6)), !.pending = 0]
    IN  Alternative(IF d.fixup = 0 THEN d ELSE [d EXCEPT !.buf = Store(@, d.fixup, Jump(op.jump_past_alt, d.fixup, B(d)))])

\* GET_UNSIGNED_NUMBER: the number, -1 when there is none, what is read behind
\* it, and where that ends. The last character of a pattern is read twice.
Digits == {"0", "1", "2", "3", "4", "5", "6", "7", "8", "9"}
GET_UNSIGNED_NUMBER(c, from, x) ==
    LET stops == {i \in from..Len(c.pat) : Ch(c, i) \notin Digits}
        stop  == IF stops = {} THEN Len(c.pat) + 1 ELSE CHOOSE i \in stops : \A j \in stops : i <= j
        num   == FoldLeft(LAMBDA n, y : 10 * n + CharCode(y) - CharCode("0"), 0, SubSeq(c.pat, from, stop - 1))
    IN  IF from > Len(c.pat) THEN [num |-> -1, x |-> x, p |-> from]
        ELSE [num |-> IF stop = from THEN -1 ELSE num, x |-> Ch(c, IF stops = {} THEN Len(c.pat) ELSE stop),
              p |-> IF stops = {} THEN stop ELSE stop + 1]

Interval(c, lower, upper) ==
    LET many  == IF upper > 1 THEN 5 ELSE 0
        succ  == [c EXCEPT !.buf = Insert(@, c.laststart, Jump2(op.succeed_n, c.laststart, B(c) + 5 + many, lower))]
        set   == [succ EXCEPT !.buf = Insert(@, c.laststart, <<op.set_number_at>> \o Number(5) \o Number(lower))]
        loop  == Push(set, Jump2(op.jump_n, B(set), c.laststart + 5, upper - 1))
        again == [loop EXCEPT !.buf = Insert(@, c.laststart, <<op.set_number_at>> \o Number(B(loop) - c.laststart) \o Number(upper - 1))]
    IN  IF upper = 0 THEN [c EXCEPT !.buf = Insert(@, c.laststart, Jump(op.jump, c.laststart, B(c) + 3))]
        ELSE IF upper > 1 THEN again ELSE set
unfetch_interval(c, from) == normal_char([c EXCEPT !.p = from + 1], "{")
Wrong(c, from, e) == IF Has(c, "NO_BK_BRACES") THEN unfetch_interval(c, from) ELSE Err(c, e)
WithBounds(c, from, lower, upper, x, p) ==
    LET close == IF Has(c, "NO_BK_BRACES") THEN [x |-> x, p |-> p] ELSE [x |-> Ch(c, p), p |-> p + 1]
        d     == [c EXCEPT !.p = close.p, !.pending = 0]
    IN  CASE lower < 0 \/ upper > RE_DUP_MAX \/ lower > upper -> Wrong(c, from, "BADBR")
          [] OTHER ->
                IF ~Has(c, "NO_BK_BRACES") /\ x # "\\" THEN Err(c, "EBRACE")
                ELSE IF ~Has(c, "NO_BK_BRACES") /\ p > Len(c.pat) THEN Err(c, "EEND")
                ELSE IF close.x # "}" THEN Wrong(c, from, "BADBR")
                ELSE IF c.laststart # 0 THEN Interval(d, lower, upper)
                ELSE IF Has(c, "CONTEXT_INDEP_OPS") THEN Interval([d EXCEPT !.laststart = B(c)], lower, upper)
                ELSE unfetch_interval(c, from)
handle_interval(c) ==
    LET lower == GET_UNSIGNED_NUMBER(c, c.p, "{")
        upper == GET_UNSIGNED_NUMBER(c, lower.p, ",")
    IN  IF AtEnd(c) THEN Wrong(c, c.p - 1, "EBRACE")
        ELSE IF lower.x # "," THEN WithBounds(c, c.p - 1, lower.num, lower.num, lower.x, lower.p)
        ELSE WithBounds(c, c.p - 1, lower.num, IF upper.num < 0 THEN RE_DUP_MAX ELSE upper.num, upper.x, upper.p)

-----------------------------------------------------------------------------
(* The characters of a pattern.                                            *)

at_begline_loc_p(c) ==
    \/ Ch(c, c.p - 2) = "(" /\ (Has(c, "NO_BK_PARENS") \/ Ch(c, c.p - 3) = "\\")
    \/ Ch(c, c.p - 2) = "|" /\ (Has(c, "NO_BK_VBAR") \/ Ch(c, c.p - 3) = "\\")
at_endline_loc_p(c) ==
    \/ IF Has(c, "NO_BK_PARENS") THEN Ch(c, c.p) = ")" ELSE Ch(c, c.p) = "\\" /\ Ch(c, c.p + 1) = ")"
    \/ IF Has(c, "NO_BK_VBAR") THEN Ch(c, c.p) = "|" ELSE Ch(c, c.p) = "\\" /\ Ch(c, c.p + 1) = "|"

group_in_compile_stack(c, n) == \E i \in DOMAIN c.stack : c.stack[i].regnum = n
duplicate(c, n) ==
    IF n > c.re_nsub THEN Err(c, "ESUBREG")
    ELSE IF group_in_compile_stack(c, n) THEN normal_char(c, Ch(c, c.p - 1))
    ELSE Push([c EXCEPT !.laststart = B(c)], <<op.duplicate, n>>)

\* \ and the character x.
WordOps == ("<" :> op.wordbeg) @@ (">" :> op.wordend) @@ ("b" :> op.wordbound) @@ ("B" :> op.notwordbound)
           @@ ("'" :> op.endbuf) @@ ("backquote" :> op.begbuf)
EscapedOps(c) ==
    {x \in {"(", ")"} : ~Has(c, "NO_BK_PARENS")} \cup {x \in {"|"} : ~Has(c, "NO_BK_VBAR")}
    \cup {x \in {"{"} : ~Has(c, "NO_BK_BRACES")} \cup {x \in {"+", "?"} : Has(c, "BK_PLUS_QM")}
EscapedOp(c, x) ==
    CASE x = "(" -> handle_open(c)
      [] x = ")" -> handle_close(c)
      [] x = "|" -> handle_alt(c)
      [] x \in {"+", "?"} -> handle_plus(c, x)
      [] x = "{" -> IF c.p = 3 /\ AtEnd(c) THEN normal_char(c, x) ELSE handle_interval(c)
Escaped(c, x) ==
    CASE x \in EscapedOps(c) -> EscapedOp(c, x)
      [] x \in {"w", "W"} -> Push([c EXCEPT !.laststart = B(c)], <<IF x = "w" THEN op.wordchar ELSE op.notwordchar>>)
      [] x \in DOMAIN WordOps -> Push(c, <<WordOps[x]>>)
      [] x \in Digits \ {"0"} -> duplicate(c, CharCode(x) - CharCode("0"))
      [] OTHER -> normal_char(c, TRANSLATE(c, x))

\* x has been fetched.
Compiled(c, x) ==
    CASE x = "^" /\ (c.p = 2 \/ Has(c, "CONTEXT_INDEP_ANCHORS") \/ at_begline_loc_p(c)) -> Push(c, <<op.begline>>)
      [] x = "$" /\ (AtEnd(c) \/ Has(c, "CONTEXT_INDEP_ANCHORS") \/ at_endline_loc_p(c)) -> Push(c, <<op.endline>>)
      [] x = "*" \/ (x \in {"+", "?"} /\ ~Has(c, "BK_PLUS_QM")) -> handle_plus(c, x)
      [] x = "." -> Push([c EXCEPT !.laststart = B(c)], <<op.anychar>>)
      [] x = "[" -> bracket(c)
      [] x = "(" /\ Has(c, "NO_BK_PARENS") -> handle_open(c)
      [] x = ")" /\ Has(c, "NO_BK_PARENS") -> handle_close(c)
      [] x = "|" /\ Has(c, "NO_BK_VBAR") -> handle_alt(c)
      [] x = "{" /\ Has(c, "NO_BK_BRACES") -> handle_interval(c)
      [] x = "\\" -> IF AtEnd(c) THEN Err(c, "EESCAPE") ELSE Escaped([c EXCEPT !.p = @ + 1], Ch(c, c.p))
      [] OTHER -> normal_char(c, x)

RECURSIVE Rest(_)
Grown(c) == IF Len(c.buf) > MAX_BUF_SIZE THEN Err(c, "ESIZE") ELSE c
Rest(c) ==
    IF c.err # "none" \/ AtEnd(c) THEN c
    ELSE Rest(Grown(Compiled([c EXCEPT !.p = @ + 1], TRANSLATE(c, Ch(c, c.p)))))
Finished(c) ==
    IF c.err # "none" THEN c
    ELSE IF c.stack # <<>> THEN Err(c, "EPAREN")
    ELSE IF c.fixup = 0 THEN c ELSE [c EXCEPT !.buf = Store(@, c.fixup, Jump(op.jump_past_alt, c.fixup, B(c)))]
regex_compile(pattern, syntax, translate) ==
    Finished(Rest([pat |-> pattern, syntax |-> syntax, translate |-> translate, p |-> 1, buf |-> <<>>, begalt |-> 1, laststart |-> 0,
                   pending |-> 0, fixup |-> 0, re_nsub |-> 0, stack |-> <<>>, err |-> "none", set |-> {}, had |-> FALSE]))

\* The pattern buffer, or the error.
Ready(c, lines) ==
    [buf |-> c.buf, re_nsub |-> c.re_nsub, syntax |-> c.syntax, translate |-> c.translate, newline_anchor |-> lines,
     err |-> IF c.err = "ERPAREN" THEN "EPAREN" ELSE c.err]
Syntax(cflags) ==
    ((IF "EXTENDED" \in cflags THEN RE_SYNTAX_POSIX_EXTENDED ELSE RE_SYNTAX_POSIX_BASIC) \ {x \in {"DOT_NEWLINE"} : "NEWLINE" \in cflags})
    \cup {x \in {"HAT_LISTS_NOT_NEWLINE"} : "NEWLINE" \in cflags}
regcomp(pattern, cflags) == Ready(regex_compile(pattern, Syntax(cflags), "ICASE" \in cflags), "NEWLINE" \in cflags)

-----------------------------------------------------------------------------
(* Whether a group can match nothing: a walk through the commands from p   *)
(* on that notes for every group within (null) what it finds; the answer   *)
(* is in ok. 3 stands for not yet known.                                   *)

UNSET == 3
Harmless == {op.no_op, op.begline, op.endline, op.begbuf, op.endbuf, op.wordbeg, op.wordend, op.wordbound, op.notwordbound}
Known(g, n, yes) == IF g.info[n].null = UNSET THEN [g EXCEPT !.info[n].null = IF yes THEN 1 ELSE 0] ELSE g
Never(g) == [g EXCEPT !.ok = FALSE]
RECURSIVE match_null_string_p(_, _, _)
alt_match_null_string_p(g, end) == match_null_string_p("alt", g, end)
group_match_null_string_p(g, end) == match_null_string_p("group", g, end)
\* The alternatives of a group, the last of which has no on_failure_jump; n is
\* the length of the one that p is at.
LastAlt(g, alt, end, n) ==
    IF alt.ok THEN match_null_string_p("group", [g EXCEPT !.p = @ + n, !.info = alt.info], end) ELSE Never(alt)
NextAlt(g, end) ==
    LET n == Extract(g.buf, g.p + 1)
    IN  IF ByteAt(g.buf, g.p) = op.on_failure_jump /\ ByteAt(g.buf, g.p + n) = op.jump_past_alt
        THEN match_null_string_p("alts", [g EXCEPT !.p = @ + 3], end)
        ELSE LastAlt(g, alt_match_null_string_p(g, g.p + Extract(g.buf, g.p - 2)), end, Extract(g.buf, g.p - 2))
AltDone(g, alt, end, n) == IF alt.ok THEN NextAlt([g EXCEPT !.p = @ + n, !.info = alt.info], end) ELSE Never(alt)
Alts(g, end, n) ==
    IF ByteAt(g.buf, g.p + n - 3) = op.jump_past_alt THEN AltDone(g, alt_match_null_string_p(g, g.p + n - 3), end, n)
    ELSE LastAlt(g, alt_match_null_string_p(g, g.p + n), end, n)
AfterGroup(what, g, n, end) ==
    IF g.ok THEN match_null_string_p(what, Known(g, n, TRUE), end) ELSE Known(g, n, FALSE)
common_op_match_null_string_p(what, g, end) ==
    LET o == g.buf[g.p]
        n == Extract(g.buf, g.p + 1)
        From(p) == match_null_string_p(what, [g EXCEPT !.p = p], end)
    IN  CASE o \in Harmless -> From(g.p + 1)
          [] o = op.start_memory -> AfterGroup(what, group_match_null_string_p([g EXCEPT !.p = @ + 3], end), g.buf[g.p + 1], end)
          [] o = op.jump /\ n >= 0 -> From(g.p + 3 + n)
          [] o = op.succeed_n /\ Extract(g.buf, g.p + 3) = 0 -> From(g.p + 3 + n)
          [] o = op.duplicate /\ g.info[g.buf[g.p + 1]].null # 0 -> From(g.p + 1)
          [] OTHER -> Never(g)
match_null_string_p(what, g, end) ==
    LET n == Extract(g.buf, g.p + 1)
    IN  CASE what = "alts" -> Alts(g, end, Extract(g.buf, g.p - 2))
          [] what # "alts" /\ g.p >= end -> [g EXCEPT !.ok = what = "alt"]
          [] what = "group" /\ g.p < end /\ g.buf[g.p] = op.stop_memory -> [g EXCEPT !.ok = TRUE, !.p = @ + 2]
          [] what # "alts" /\ g.p < end /\ g.buf[g.p] = op.on_failure_jump ->
                IF what = "group" /\ n >= 0 THEN match_null_string_p("alts", [g EXCEPT !.p = @ + 3], end)
                ELSE match_null_string_p(what, [g EXCEPT !.p = @ + 3 + (IF what = "alt" THEN n ELSE 0)], end)
          [] OTHER -> common_op_match_null_string_p(what, g, end)

-----------------------------------------------------------------------------
(* re_match_2(). e is what does not change: the text as TRANSLATE has it,  *)
(* the syntax and the flags. A place in the text is 1 at its front, Unset  *)
(* for a register that has none.                                           *)

Unset   == -1
NO_HIGHEST_ACTIVE_REG == 256
NO_LOWEST_ACTIVE_REG  == 257
End(e)  == Len(e.text) + 1
Pend(m) == Len(m.buf) + 1
At(e, d) == IF d < End(e) THEN e.text[d] ELSE CharCode("NUL")

Go(m, p)   == [m EXCEPT !.p = p]
fail(m)    == [m EXCEPT !.failing = TRUE]
Stop(m, r) == [m EXCEPT !.res = r]
Passes(m, yes, p) == IF yes THEN Go(m, p) ELSE fail(m)
SET_REGS_MATCHED(m) ==
    [m EXCEPT !.info = [n \in DOMAIN @ |-> IF n \in m.low..m.high THEN [@[n] EXCEPT !.matched = TRUE, !.ever = TRUE] ELSE @[n]]]
Eats(e, m, yes, p) == IF m.d < End(e) /\ yes THEN [SET_REGS_MATCHED(m) EXCEPT !.d = @ + 1, !.p = p] ELSE fail(m)

\* The stack grows by doubling, up to about re_max_failures failure points.
RECURSIVE Doubled(_, _, _)
Doubled(size, need, limit) == IF size >= need THEN size ELSE IF size > limit THEN 0 ELSE Doubled(2 * size, need, limit)
Items(low, high) == (high - low + 1) * 3 + 4
MAX_FAILURE_ITEMS(m) == Len(m.info) * 3 + 4
PUSH_FAILURE_POINT(m, pat, str) ==
    LET size  == Doubled(m.size, m.avail + Items(m.low, m.high), re_max_failures * MAX_FAILURE_ITEMS(m))
        point == [pat |-> pat, str |-> str, low |-> m.low, high |-> m.high,
                  regs |-> [n \in m.low..m.high |-> [start |-> m.start[n], end |-> m.end[n], info |-> m.info[n]]]]
    IN  IF size = 0 \/ m.high < m.low - 1 THEN Stop(m, "overflow")
        ELSE [m EXCEPT !.size = size, !.avail = @ + Items(m.low, m.high), !.stack = <<point>> \o @]
Dropped(m) == [m EXCEPT !.stack = Tail(@), !.avail = @ - Items(m.stack[1].low, m.stack[1].high)]
POP_FAILURE_POINT(m, f) ==
    [Dropped(m) EXCEPT !.d = IF f.str # 0 THEN f.str ELSE @, !.p = f.pat, !.low = f.low, !.high = f.high,
                       !.start = [n \in DOMAIN @ |-> IF n \in f.low..f.high THEN f.regs[n].start ELSE @[n]],
                       !.end   = [n \in DOMAIN @ |-> IF n \in f.low..f.high THEN f.regs[n].end ELSE @[n]],
                       !.info  = [n \in DOMAIN @ |-> IF n \in f.low..f.high THEN f.regs[n].info ELSE @[n]]]

\* A dummy, or a jump back to the front of its own loop, is passed over.
BackToLoop(m) ==
    LET o    == ByteAt(m.buf, m.p)
        to   == m.p + 3 + Extract(m.buf, m.p + 1)
    IN  \/ o = op.jump_n /\ ByteAt(m.buf, to) = op.succeed_n
        \/ o \in {op.maybe_pop_jump, op.pop_failure_jump, op.jump} /\ ByteAt(m.buf, to) = op.on_failure_jump
Restored(m) == IF m.p = 0 \/ (m.p < Pend(m) /\ BackToLoop(m)) THEN m ELSE [m EXCEPT !.failing = FALSE]
Accepted(m) == Stop(m, "match")
BestRegs(m) == Accepted([m EXCEPT !.d = m.best.d, !.start = m.best.start, !.end = m.best.end])
Backtrack(m) ==
    IF m.stack # <<>> THEN Restored(POP_FAILURE_POINT(m, m.stack[1]))
    ELSE IF m.best.set THEN BestRegs(m) ELSE Stop(m, "none")

EndOfPattern(e, m) ==
    IF m.d = End(e) THEN Accepted(m)
    ELSE IF m.stack # <<>>
         THEN fail(IF ~m.best.set \/ m.d > m.best.d THEN [m EXCEPT !.best = [set |-> TRUE, d |-> m.d, start |-> m.start, end |-> m.end]] ELSE m)
    ELSE IF m.best.set THEN BestRegs(m) ELSE Accepted(m)

-----------------------------------------------------------------------------
(* The commands. p is the place of the one that is done.                   *)

\* A character that differs has been passed all the same.
exactn(e, m) ==
    LET n   == m.buf[m.p + 1]
        bad == {k \in 1..n : m.d + k - 1 >= End(e) \/ At(e, m.d + k - 1) # m.buf[m.p + 1 + k]}
        k   == CHOOSE k \in bad : \A j \in bad : k <= j
    IN  IF bad = {} THEN [SET_REGS_MATCHED(m) EXCEPT !.d = @ + n, !.p = @ + 2 + n]
        ELSE fail([m EXCEPT !.d = IF @ + k - 1 >= End(e) THEN End(e) ELSE @ + k])
InMap(m, p, c) == c < 8 * m.buf[p] /\ (m.buf[p + 1 + (c \div 8)] \div 2^(c % 8)) % 2 = 1
anychar(e, m) ==
    Eats(e, m, ~(At(e, m.d) = CharCode("\n") /\ "DOT_NEWLINE" \notin e.syntax) /\ At(e, m.d) # CharCode("NUL"), m.p + 1)
charset(e, m) ==
    Eats(e, m, InMap(m, m.p + 1, At(e, m.d)) # (m.buf[m.p] = op.charset_not), m.p + 2 + m.buf[m.p + 1])

WithNull(m, n) ==
    IF m.info[n].null # UNSET THEN m
    ELSE LET g == group_match_null_string_p([buf |-> m.buf, info |-> m.info, p |-> m.p + 3, ok |-> FALSE], Pend(m))
         IN  [m EXCEPT !.info = [g.info EXCEPT ![n].null = IF g.ok THEN 1 ELSE 0]]
Older(m, n, reg) == IF m.info[n].null # 0 /\ reg[n] = Unset THEN m.d ELSE reg[n]
start_memory(m) ==
    LET n == m.buf[m.p + 1]
        k == WithNull(m, n)
    IN  [k EXCEPT !.old[n][1] = Older(k, n, k.start), !.start[n] = k.d, !.info[n].active = TRUE, !.info[n].matched = FALSE,
                  !.high = n, !.low = IF @ = NO_LOWEST_ACTIVE_REG THEN n ELSE @, !.p = @ + 3]

NoneActive(m) == [m EXCEPT !.low = NO_LOWEST_ACTIVE_REG, !.high = NO_HIGHEST_ACTIVE_REG]
Inactive(m, n) ==
    LET k      == [m EXCEPT !.old[n][2] = Older(m, n, m.end), !.end[n] = m.d, !.info[n].active = FALSE]
        active == {r \in 1..(n - 1) : k.info[r].active}
    IN  IF m.low = m.high \/ active = {} THEN NoneActive(k) ELSE [k EXCEPT !.high = CHOOSE r \in active : \A s \in active : s <= r]
\* The loop, if any, that the group which ends here is the whole of.
LoopOf(m, n) ==
    LET o  == ByteAt(m.buf, m.p + 3)
        k  == Extract(m.buf, m.p + 4)
        to == m.p + (IF o = op.jump_n THEN 8 ELSE 6) + k
    IN  IF /\ o \in {op.jump_n, op.pop_failure_jump, op.maybe_pop_jump, op.jump, op.dummy_failure_jump} /\ k < 0
           /\ ByteAt(m.buf, to) = op.on_failure_jump /\ ByteAt(m.buf, to + 3) = op.start_memory /\ ByteAt(m.buf, to + 4) = n
        THEN to ELSE 0
\* The registers of the group and of those within, but for the last of them.
OldRegs(m, n, inner) ==
    LET Kept(r) == r \in n..(n + inner - 1)
        start   == [r \in DOMAIN m.start |-> IF Kept(r) THEN m.old[r][1] ELSE m.start[r]]
    IN  IF ~m.info[n].ever THEN m
        ELSE [m EXCEPT !.info[n].ever = FALSE, !.start = start,
                       !.end = [r \in DOMAIN @ |-> IF Kept(r) /\ m.old[r][2] >= start[r] THEN m.old[r][2] ELSE @[r]]]
LeaveLoop(m, loop) == fail(PUSH_FAILURE_POINT(m, loop + 3 + Extract(m.buf, loop + 1), m.d))
stop_memory(m) ==
    LET n    == m.buf[m.p + 1]
        k    == Inactive(m, n)
        idle == ~k.info[n].matched \/ ByteAt(m.buf, m.p - 2) = op.start_memory
    IN  IF idle /\ m.p + 3 < Pend(m) /\ LoopOf(m, n) # 0 THEN LeaveLoop(OldRegs(k, n, m.buf[m.p + 2]), LoopOf(m, n))
        ELSE Go(k, m.p + 3)

\* A text that ends within the copy has been passed.
dup(e, m) ==
    LET n    == m.buf[m.p + 1]
        copy == SubSeq(e.text, m.start[n], m.end[n] - 1)
        here == SubSeq(e.text, m.d, IF m.d + Len(copy) > End(e) THEN End(e) - 1 ELSE m.d + Len(copy) - 1)
    IN  IF m.start[n] = Unset \/ m.end[n] = Unset THEN fail(m)
        ELSE IF here = copy THEN [m EXCEPT !.d = @ + Len(copy), !.p = @ + 2]
        ELSE fail([m EXCEPT !.d = IF IsPrefix(here, copy) THEN End(e) ELSE @])

AT_STRINGS_BEG(e, d) == d = 1 \/ e.text = <<>>
AT_STRINGS_END(e, d) == d = End(e)
WORDCHAR_P(e, d) == At(e, d) \in {CharCode(x) : x \in WordChars}
AT_WORD_BOUNDARY(e, d) == AT_STRINGS_BEG(e, d) \/ AT_STRINGS_END(e, d) \/ WORDCHAR_P(e, d - 1) # WORDCHAR_P(e, d)
Anchored(e, o, d) ==
    CASE o = op.begline -> IF AT_STRINGS_BEG(e, d) THEN ~e.not_bol ELSE At(e, d - 1) = CharCode("\n") /\ e.newline_anchor
      [] o = op.endline -> IF AT_STRINGS_END(e, d) THEN ~e.not_eol ELSE At(e, d) = CharCode("\n") /\ e.newline_anchor
      [] o = op.begbuf -> AT_STRINGS_BEG(e, d)
      [] o = op.endbuf -> AT_STRINGS_END(e, d)
      [] o = op.wordbound -> AT_WORD_BOUNDARY(e, d)
      [] o = op.notwordbound -> ~AT_WORD_BOUNDARY(e, d)
      [] o = op.wordbeg -> WORDCHAR_P(e, d) /\ (AT_STRINGS_BEG(e, d) \/ ~WORDCHAR_P(e, d - 1))
      [] o = op.wordend -> ~AT_STRINGS_BEG(e, d) /\ WORDCHAR_P(e, d - 1) /\ (~WORDCHAR_P(e, d) \/ AT_STRINGS_END(e, d))

\* A loop may forget how to go on with fewer rounds when what follows it begins
\* with a character that its body cannot begin with.
AfterGroups(m, p) ==
    LET other == {i \in 0..Len(m.buf) : p + 3 * i + 2 >= Pend(m) \/ ByteAt(m.buf, p + 3 * i) \notin {op.stop_memory, op.start_memory}}
    IN  p + 3 * (CHOOSE i \in other : \A j \in other : i <= j)
NeverBack(e, m, next, body) ==
    LET o == ByteAt(m.buf, next)
        c == IF o = op.endline THEN CharCode("\n") ELSE ByteAt(m.buf, next + 2)
    IN  \/ next = Pend(m)
        \/ /\ o = op.exactn \/ (e.newline_anchor /\ o = op.endline)
           /\ CASE ByteAt(m.buf, body) = op.exactn -> ByteAt(m.buf, body + 2) # c
                [] ByteAt(m.buf, body) \in {op.charset, op.charset_not} ->
                      (c < (m.buf[body + 1] * 8) % 256 /\ InMap(m, body + 1, c)) = (m.buf[body] = op.charset_not)
                [] OTHER -> FALSE
Jumped(m) == Go(m, m.p + 3 + Extract(m.buf, m.p + 1))
PopJump(m) == IF m.stack = <<>> THEN Stop(m, "crash") ELSE Jumped(Dropped(m))
maybe_pop(e, m) ==
    IF NeverBack(e, m, AfterGroups(m, m.p + 3), m.p + 6 + Extract(m.buf, m.p + 1))
    THEN PopJump([m EXCEPT !.buf[m.p] = op.pop_failure_jump])
    ELSE Jumped([m EXCEPT !.buf[m.p] = op.jump])

Target(m) == m.p + 3 + Extract(m.buf, m.p + 1)
AfterNoOps(m, p) ==
    LET other == {i \in p..Pend(m) : ByteAt(m.buf, i) # op.no_op} IN CHOOSE i \in other : \A j \in other : i <= j
\* What is saved includes the group that is repeated, and those within.
on_failure(m) ==
    LET p == AfterNoOps(m, m.p + 3)
        k == IF ByteAt(m.buf, p) = op.start_memory
             THEN [m EXCEPT !.high = m.buf[p + 1] + m.buf[p + 2], !.low = IF @ = NO_LOWEST_ACTIVE_REG THEN m.buf[p + 1] ELSE @]
             ELSE m
    IN  Go(PUSH_FAILURE_POINT(k, Target(m), m.d), m.p + 3)

\* The numbers that succeed_n and jump_n count in the buffer.
Count(m) == Extract(m.buf, m.p + 3)
CountDown(m) == [m EXCEPT !.buf = Store(@, m.p + 3, Number(Count(m) - 1))]
succeed(m) == IF Count(m) > 0 THEN Go(CountDown(m), m.p + 5) ELSE IF Count(m) = 0 THEN on_failure(m) ELSE Go(m, m.p + 1)
jump_n(m) == IF Count(m) # 0 THEN Jumped(CountDown(m)) ELSE Go(m, m.p + 5)
set_number_at(m) == Go([m EXCEPT !.buf = Store(@, Target(m), Number(Count(m)))], m.p + 5)

Command(e, m) ==
    LET o == m.buf[m.p]
    IN  CASE o = op.no_op -> Go(m, m.p + 1)
          [] o = op.exactn -> exactn(e, m)
          [] o = op.anychar -> anychar(e, m)
          [] o \in {op.charset, op.charset_not} -> charset(e, m)
          [] o = op.start_memory -> start_memory(m)
          [] o = op.stop_memory -> stop_memory(m)
          [] o = op.duplicate -> dup(e, m)
          [] o \in {op.begline, op.endline, op.begbuf, op.endbuf, op.wordbound, op.notwordbound, op.wordbeg, op.wordend} ->
                Passes(m, Anchored(e, o, m.d), m.p + 1)
          [] o = op.on_failure_keep_string_jump -> Go(PUSH_FAILURE_POINT(m, Target(m), 0), m.p + 3)
          [] o = op.on_failure_jump -> on_failure(m)
          [] o = op.maybe_pop_jump -> maybe_pop(e, m)
          [] o = op.pop_failure_jump -> PopJump(m)
          [] o \in {op.jump, op.jump_past_alt} -> Jumped(m)
          [] o = op.dummy_failure_jump -> Go(PUSH_FAILURE_POINT(m, 0, 0), Target(m))
          [] o = op.push_dummy_failure -> Go(PUSH_FAILURE_POINT(m, 0, 0), m.p + 1)
          [] o = op.succeed_n -> succeed(m)
          [] o = op.jump_n -> jump_n(m)
          [] o = op.set_number_at -> set_number_at(m)
          [] o \in {op.wordchar, op.notwordchar} -> Eats(e, m, WORDCHAR_P(e, m.d) = (o = op.wordchar), m.p + 1)

Over(m) == m.res # ""
Step(e, m) ==
    IF Over(m) THEN m
    ELSE IF m.failing THEN Backtrack(m)
    ELSE IF m.p = Pend(m) THEN EndOfPattern(e, m) ELSE Command(e, m)
\* As many as 2^k steps.
RECURSIVE Steps(_, _, _)
Steps(e, m, k) == IF Over(m) THEN m ELSE IF k = 0 THEN Step(e, m) ELSE Steps(e, Steps(e, m, k - 1), k - 1)

\* A match at pos; one that does not come to an end is given up.
Registers(n, x) == [i \in 1..n |-> x]
re_match_2(e, re, buf, pos) ==
    LET n == re.re_nsub
    IN  Steps(e, [buf |-> buf, p |-> 1, d |-> pos, failing |-> FALSE, res |-> "", stack |-> <<>>, size |-> INIT_FAILURE_ALLOC, avail |-> 0,
                     low |-> NO_LOWEST_ACTIVE_REG, high |-> NO_HIGHEST_ACTIVE_REG, start |-> Registers(n, Unset),
                     end |-> Registers(n, Unset), old |-> Registers(n, <<Unset, Unset>>),
                     info |-> Registers(n, [null |-> UNSET, active |-> FALSE, matched |-> FALSE, ever |-> FALSE]),
                     best |-> [set |-> FALSE, d |-> 0, start |-> <<>>, end |-> <<>>]], 8)

\* From one place to the next. The buffer is left as the match has made it.
Spans(m, pos) ==
    <<<<pos, m.d>>>> \o [i \in DOMAIN m.start |-> IF m.start[i] = Unset \/ m.end[i] = Unset THEN <<>> ELSE <<m.start[i], m.end[i]>>]
RECURSIVE re_search(_, _, _, _)
Searched(e, re, m, pos) ==
    IF m.res = "none" /\ pos < End(e) /\ ~(re.buf # <<>> /\ re.buf[1] = op.begbuf /\ pos = 2) THEN re_search(e, re, m.buf, pos + 1)
    ELSE [res |-> m.res, buf |-> m.buf, spans |-> IF m.res = "match" THEN Spans(m, pos) ELSE <<>>]
re_search(e, re, buf, pos) == Searched(e, re, re_match_2(e, re, buf, pos), pos)

\* regexec(): the spans <<from, behind>> of the whole and of the groups, <<>> for
\* a group that has none. An error is told as if there were no match.
regexec(re, text, eflags) ==
    re_search([text |-> [i \in DOMAIN text |-> CharCode(TRANSLATE(re, text[i]))], syntax |-> re.syntax, newline_anchor |-> re.newline_anchor,
               not_bol |-> "NOTBOL" \in eflags, not_eol |-> "NOTEOL" \in eflags], re, re.buf, 1)

\* A buffer that is used on one text after the other, as sed, grep and find do.
RECURSIVE regexecs(_, _, _)
ToldThen(re, texts, eflags, m) == <<[res |-> m.res, spans |-> m.spans]>> \o regexecs([re EXCEPT !.buf = m.buf], Tail(texts), eflags)
regexecs(re, texts, eflags) == IF texts = <<>> THEN <<>> ELSE ToldThen(re, texts, eflags, regexec(re, texts[1], eflags))
=============================================================================
