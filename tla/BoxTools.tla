------------------------------ MODULE BoxTools ------------------------------
(***************************************************************************)
(* The tools of the box: each is put to work once on a job of its own, and *)
(* what comes out is compared with what it must be.                        *)
(***************************************************************************)
EXTENDS BoxNumbers, FiniteSets

CONSTANTS
    Hash(_), MinTries,  \* of diff
    StartFiles,         \* the files that cp, mv, rm, rmdir and mkdir meet
    TestJobs,           \* words for test, and trees of expressions
    ExprJobs,           \* expressions for expr
    FindJobs,           \* expressions and options for find
    FileJobs,           \* cp, mv, rm, rmdir and mkdir
    DiffJobs,           \* two texts or two directories, and options
    PatchJobs,          \* a difference to be made and the files it is applied to
    ZipJobs,            \* gzip and gunzip
    RegexJobs,          \* trees of expressions and texts for regexec()
    SedJobs             \* scripts of sed and the texts and files they are for
CONSTANTS               \* of test, expr and find: see there
    Stat(_), Lstat(_), Terminals, Euid, Egid, Groups, Regex(_, _),
    StatPath(_), LstatPath(_), Entries(_), Matches(_, _, _), ModeBits(_), Now, Day, Minute, Block
CONSTANTS               \* of gzip and gunzip: see there
    Byte, LITERALS, WSIZE, MAX_MATCH, TOO_FAR, max_chain_length, max_lazy_match, good_match, nice_match, HASH_SIZE, H_SHIFT,
    Xor(_, _), extra_lbits, extra_dbits, MAX_BITS, MAX_BL_BITS, bl_order, StaticLen(_), StaticDist, LIT_BUFSIZE, DIST_BUFSIZE,
    Tried, RepBits, CountBits, LenBits, Mix(_, _), cplens, cplext, cpdist, cpdext, border, LitBits, DistBits, Stale, OUTBUFSIZ
CONSTANTS               \* of regcomp() and regexec(): see there
    CharCode(_), Alphabet, Lower(_), WordChars, ClassOf, MAX_REGNUM, MAX_BUF_SIZE, RE_DUP_MAX, INIT_FAILURE_ALLOC, re_max_failures

\* The mode that mkdir passes on is all ones only where long is no longer than
\* int, as it is on Windows.
Kept  == INSTANCE BoxFiles WITH IntWidth <- LongWidth
Diff  == INSTANCE BoxDiff
Patch == INSTANCE BoxPatch
Gzip  == INSTANCE BoxZip
Sed == INSTANCE BoxSed
Pattern == INSTANCE BoxPattern
Test == INSTANCE BoxTest
Expr == INSTANCE BoxExpr
Find == INSTANCE BoxFind WITH Stat <- StatPath, Lstat <- LstatPath

VARIABLES
    job,           \* what is done
    out            \* what came out of it, Nothing at first

vars == <<job, out>>
Nothing == [kind |-> "nothing"]

-----------------------------------------------------------------------------
(* What POSIX says of test, expr and find: by the number of arguments or   *)
(* from a tree of the expression, never by reading one word after another. *)

Unspecified == "unspecified"

(* test.                                                                   *)

Truth(b) == IF b THEN "true" ELSE "false"
Opposite(t) == IF t \in {"true", "false"} THEN Truth(t = "false") ELSE t

RefUnary(op, x) ==
    LET st == Stat(x)
    IN  IF op = "-t" /\ Test!LongOf(x) = Test!NoNumber THEN "error"
        ELSE Truth(CASE op = "-z" -> x = "" [] op = "-n" -> x # ""
                     [] op = "-t" -> Test!LongOf(x)[1] \in Terminals
                     [] op \in {"-h", "-L"} -> Lstat(x).type = "lnk"
                     [] OTHER -> st # Test!NoFile /\
                          CASE op \in Test!FileAccess -> (Euid = 0 /\ (op # "-x" \/ "-x" \in UNION {st.mode[w] : w \in {"user", "group", "other"}}))
                                                    \/ op \in st.mode[IF st.uid = Euid THEN "user" ELSE IF st.gid \in Groups THEN "group" ELSE "other"]
                            [] op \in Test!FileType -> st.type = Test!TypeOf[op]
                            [] op \in Test!FileBit -> op \in st.mode["bits"]
                            [] op = "-e" -> TRUE [] op = "-s" -> st.size > 0
                            [] op = "-O" -> st.uid = Euid [] op = "-G" -> st.gid = Egid)

RefBinary(x, op, y) ==
    IF op \in Test!IntOps /\ Test!NoNumber \in {Test!LongOf(x), Test!LongOf(y)} THEN "error"
    ELSE Truth(CASE op \in Test!IntOps -> Test!CompareInts(op, Test!LongOf(x)[1], Test!LongOf(y)[1])
                 [] op \in Test!StrOps -> Test!CompareStrs(op, x, y)
                 [] op \in Test!FileOps -> Test!CompareFiles(op, Stat(x), Stat(y)))

\* By the number of arguments.  The code is known to differ where a word that
\* looks like an operator must be an operand because of that number: alone behind
\* two ! or in parentheses, and a ! in front of a binary operator.
Ref1(w) == Truth(w # "")
Inner1(w) == IF w \in Test!UnaryOps \cup {"!", "("} THEN Unspecified ELSE Ref1(w)
Ref2(a, One(_)) ==
    CASE a[1] = "!" -> Opposite(One(a[2]))
      [] a[1] \in Test!UnaryOps -> RefUnary(a[1], a[2])
      [] OTHER -> Unspecified
Ref3(a) ==
    CASE a[2] \in Test!BinaryOps /\ a[1] # "!" -> RefBinary(a[1], a[2], a[3])
      [] a[1] = "!" /\ a[2] \notin Test!BinaryOps \cup {"-a", "-o"} -> Opposite(Ref2(Tail(a), Inner1))
      [] a[1] = "(" /\ a[3] = ")" /\ a[2] \notin Test!BinaryOps \cup {"-a", "-o"} -> Inner1(a[2])
      [] OTHER -> Unspecified
Ref4(a) ==
    CASE a[1] = "!" -> Opposite(Ref3(Tail(a)))
      [] a[1] = "(" /\ a[4] = ")" -> Ref2(<<a[2], a[3]>>, Inner1)
      [] OTHER -> Unspecified
RefTest(a) ==
    CASE Len(a) = 0 -> "false" [] Len(a) = 1 -> Ref1(a[1]) [] Len(a) = 2 -> Ref2(a, Ref1)
      [] Len(a) = 3 -> Ref3(a) [] Len(a) = 4 -> Ref4(a) [] OTHER -> Unspecified

\* A truth and the statuses that tell it; an error is 2, and may be taken for
\* a success behind a leading ! only.
Tells(a, statuses, t) ==
    CASE t = "true" -> statuses = {0} [] t = "false" -> statuses = {1}
      [] t = "error" -> statuses = {2} \/ (statuses = {0, 2} /\ a[1] = "!")
      [] t = Unspecified -> TRUE

\* Any expression: the words it is written with, and what it says.
RECURSIVE TestWords(_), TestValue(_)
Bracket(t) == IF t.op \in {"and", "or"} THEN <<"(">> \o TestWords(t) \o <<")">> ELSE TestWords(t)
TestWords(t) ==
    CASE t.op \in {"one", "unary", "binary"} -> t.words
      [] t.op = "not" -> <<"!">> \o Bracket(t.l)
      [] t.op = "paren" -> <<"(">> \o TestWords(t.l) \o <<")">>
      [] t.op = "and" -> Bracket(t.l) \o <<"-a">> \o (IF t.r.op = "or" THEN Bracket(t.r) ELSE TestWords(t.r))
      [] t.op = "or" -> (IF t.l.op = "or" THEN Bracket(t.l) ELSE TestWords(t.l)) \o <<"-o">> \o TestWords(t.r)

Joined(op, l, r) ==
    IF "error" \in {l, r} THEN "error"
    ELSE Truth(IF op = "and" THEN l = "true" /\ r = "true" ELSE l = "true" \/ r = "true")
TestValue(t) ==
    CASE t.op = "one" -> Ref1(t.words[1]) [] t.op = "unary" -> RefUnary(t.words[1], t.words[2])
      [] t.op = "binary" -> RefBinary(t.words[1], t.words[2], t.words[3])
      [] t.op = "not" -> Opposite(TestValue(t.l)) [] t.op = "paren" -> TestValue(t.l)
      [] t.op \in {"and", "or"} -> Joined(t.op, TestValue(t.l), TestValue(t.r))

-----------------------------------------------------------------------------
(* expr.                                                                   *)

Level(t) ==
    CASE t.op = "|" -> 1 [] t.op = "&" -> 2 [] t.op \in {"<", "<=", "=", "==", "!=", ">=", ">"} -> 3
      [] t.op \in {"+", "-"} -> 4 [] t.op \in {"*", "/", "%"} -> 5 [] t.op = ":" -> 6 [] OTHER -> 7

RECURSIVE ExprWords(_), ExprValue(_)
Within(t, level) == IF Level(t) >= level THEN ExprWords(t) ELSE <<"(">> \o ExprWords(t) \o <<")">>
ExprWords(t) ==
    CASE t.op = "word" -> IF t.w \in {"(", ")"} \cup Expr!Keywords THEN <<"quote", t.w>> ELSE <<t.w>>
      [] Level(t) < 7 -> Within(t.l, Level(t)) \o <<t.op>> \o Within(t.r, Level(t) + 1)
      [] t.op \in Expr!Keywords -> <<t.op>> \o FlattenSeq([i \in DOMAIN t.args |-> Within(t.args[i], 7)])

Failed == <<"failed">>
Unsure == <<"unsure">>
Whole(s) == Number(s) # <<>>
Zero(s) == s = <<>> \/ (Whole(s) /\ Number(s)[1] = 0)

\* Where the code is known to differ: an empty right side of | is not made 0, 00
\* is not a zero, a difference may not fit an int, and a number is written anew
\* before it is compared with another text.
Doubtful(s) == Zero(s) /\ s \notin {<<>>, <<"0">>}
RefOr(l, r)  == IF Doubtful(l) \/ (Zero(l) /\ (r = <<>> \/ Doubtful(r))) THEN Unsure ELSE IF Zero(l) THEN r ELSE l
RefAnd(l, r) == IF Doubtful(l) \/ Doubtful(r) THEN Unsure ELSE IF Zero(l) \/ Zero(r) THEN <<"0">> ELSE l
RefOrder(op, less, equal) ==
    IF CASE op = "<" -> less [] op = "<=" -> less \/ equal [] op \in {"=", "=="} -> equal
         [] op = "!=" -> ~equal [] op = ">" -> ~less /\ ~equal [] op = ">=" -> ~less
    THEN <<"1">> ELSE <<"0">>
RefCompare(op, l, r) ==
    CASE Whole(l) /\ Whole(r) -> IF Fits(Number(l)[1] - Number(r)[1], IntWidth) THEN RefOrder(op, Number(l)[1] < Number(r)[1], Number(l)[1] = Number(r)[1])
                                  ELSE Unsure
      [] \E x \in {l, r} : Whole(x) /\ x # Decimal(Number(x)[1]) -> Unsure
      [] OTHER -> RefOrder(op, Before(l, r), l = r)

RefArith(op, l, r) ==
    CASE ~Whole(l) \/ ~Whole(r) -> Failed
      [] Whole(l) /\ Whole(r) ->
            LET a == Number(l)[1]
                b == Number(r)[1]
                q == CHOOSE n \in -128..128 : a = b * n + (a - b * n) /\ Expr!Abs(a - b * n) < Expr!Abs(b) /\ (a - b * n) * a >= 0
                v == CASE op = "+" -> a + b [] op = "-" -> a - b [] op = "*" -> a * b [] op = "/" -> q [] op = "%" -> a - b * q
            IN  IF op \in {"/", "%"} /\ b = 0 THEN Failed ELSE IF Fits(v, LongWidth) THEN Decimal(v) ELSE Unsure

RefMatch(s, pattern) ==
    LET m == Regex(pattern, s)
        group == \E i \in DOMAIN pattern : pattern[i] = "("
    IN  IF group THEN m.group ELSE IF m.end < 0 THEN <<"0">> ELSE Decimal(m.end)

RefKey(key, a) ==
    CASE key = "length" -> Decimal(Len(a[1]))
      [] key = "match" -> RefMatch(a[1], a[2])
      [] key = "index" -> Decimal(Expr!Index(a[1], a[2]))
      [] key = "substr" -> IF ~Whole(a[2]) \/ ~Whole(a[3]) THEN <<>>
                           ELSE LET from == Number(a[2])[1]
                                IN  IF from <= 0 THEN <<>> ELSE [i \in 1..Cardinality({j \in DOMAIN a[1] : from <= j /\ j < from + Number(a[3])[1]}) |-> a[1][from + i - 1]]

RefApply(op, vs) ==
    CASE Unsure \in ToSet(vs) -> Unsure [] Failed \in ToSet(vs) /\ Unsure \notin ToSet(vs) -> Failed
      [] ToSet(vs) \cap {Unsure, Failed} = {} ->
            CASE op = "|" -> RefOr(vs[1], vs[2]) [] op = "&" -> RefAnd(vs[1], vs[2])
              [] op \in {"<", "<=", "=", "==", "!=", ">=", ">"} -> RefCompare(op, vs[1], vs[2])
              [] op \in {"+", "-", "*", "/", "%"} -> RefArith(op, vs[1], vs[2])
              [] op = ":" -> RefMatch(vs[1], vs[2])
              [] op \in Expr!Keywords -> RefKey(op, vs)
ExprValue(t) ==
    CASE t.op = "word" -> Chars(t.w)
      [] Level(t) < 7 -> RefApply(t.op, <<ExprValue(t.l), ExprValue(t.r)>>)
      [] t.op \in Expr!Keywords -> RefApply(t.op, [i \in DOMAIN t.args |-> ExprValue(t.args[i])])

\* What must be written for a value, and the status that must come with it.
Shows(o, v) ==
    CASE v = Unsure -> TRUE
      [] v = Failed -> o.text = <<>> /\ o.status # 0
      [] v \notin {Unsure, Failed} -> o.text = v \o <<"\n">> /\ o.status = (IF Zero(v) THEN 1 ELSE 0)

-----------------------------------------------------------------------------
(* find.                                                                   *)

\* An action behind a ! stands in brackets: the code forgets the ! otherwise.
RECURSIVE FindWords(_)
Bracketed(t, ops) == IF t.op \in ops THEN <<"(">> \o FindWords(t) \o <<")">> ELSE FindWords(t)
FindWords(t) ==
    CASE t.op = "act" -> t.words
      [] t.op = "test" -> t.words
      [] t.op = "not" -> <<"!">> \o Bracketed(t.l, {"and", "or", "act"})
      [] t.op = "and" -> Bracketed(t.l, {"or"}) \o Bracketed(t.r, {"or", "and"})
      [] t.op = "or" -> FindWords(t.l) \o <<"-o">> \o Bracketed(t.r, {"or"})

RECURSIVE Prints(_), FindEval(_, _, _)
Prints(t) ==
    CASE t.op \in {"act", "test"} -> t.words[1] \in {"-print", "-print0"}
      [] t.op = "not" -> Prints(t.l) [] t.op \in {"and", "or"} -> Prints(t.l) \/ Prints(t.r)

\* The value, how often the name is written and whether the directory is left out.
Second(l, r) == [v |-> r.v, n |-> l.n + r.n, prune |-> l.prune \/ r.prune]
FindEval(t, path, st) ==
    CASE t.op = "act" -> [v |-> TRUE, n |-> IF t.words[1] = "-prune" THEN 0 ELSE 1, prune |-> t.words[1] = "-prune"]
      [] t.op = "test" -> [v |-> Find!Tested([f |-> t.words[1], arg |-> t.words[2]], path, st), n |-> 0, prune |-> FALSE]
      [] t.op = "not" -> [FindEval(t.l, path, st) EXCEPT !.v = ~@]
      [] t.op \in {"and", "or"} ->
            LET l == FindEval(t.l, path, st)
            IN  IF l.v = (t.op = "or") THEN l ELSE Second(l, FindEval(t.r, path, st))

\* All there is below a path, a directory before or behind what is in it.
RECURSIVE Listing(_, _, _)
StatOf(o, path) == IF o.follow THEN StatPath(path) ELSE LstatPath(path)
IsOpen(o, path) == StatOf(o, path).type = "d" /\ StatOf(o, path).readable
Listing(o, path, level) ==
    LET names == SelectSeq(Entries(path), LAMBDA n : n \notin {".", ".."})
        below == IF IsOpen(o, path) /\ level < o.max THEN FlattenSeq([i \in DOMAIN names |-> Listing(o, Append(path, names[i]), level + 1)]) ELSE <<>>
    IN  IF o.depth THEN Append(below, path) ELSE <<path>> \o below

OptionWords(o) ==
    (IF o.follow THEN <<"-follow">> ELSE <<>>) \o (IF o.depth THEN <<"-depth">> ELSE <<>>)
    \o (IF o.max < 100 THEN <<"-maxdepth", o.word>> ELSE <<>>)

Pruned(t, o, path) ==
    ~o.depth /\ \E n \in 1..(Len(path) - 1) :
        LET above == SubSeq(path, 1, n) IN FindEval(t, above, StatOf(o, above)).prune
Written(t, o, path) ==
    LET e == FindEval(t, path, StatOf(o, path))
    IN  IF StatOf(o, path).type = "none" \/ Pruned(t, o, path) THEN <<>>
        ELSE [i \in 1..(IF Prints(t) THEN e.n ELSE IF e.v THEN 1 ELSE 0) |-> path]

\* What find writes, and whether something could not be looked at.
FindRef(t, o) ==
    LET all  == Listing(o, <<o.start>>, 0)
        lost(p) == /\ ~Pruned(t, o, p)
                   /\ \/ StatOf(o, p).type = "none"
                      \/ StatOf(o, p).type = "d" /\ ~StatOf(o, p).readable /\ (o.depth \/ ~FindEval(t, p, StatOf(o, p)).prune)
    IN  [out |-> FlattenSeq([i \in DOMAIN all |-> Written(t, o, all[i])]), ok |-> ~\E i \in DOMAIN all : lost(all[i])]

\* Where the code is known to differ: with -depth a directory that cannot be
\* opened is not visited itself, and one at the last level is opened in vain.
Sealed(o) == {p \in ToSet(Listing(o, <<o.start>>, 0)) :
                StatOf(o, p).type = "d" /\ ~StatOf(o, p).readable /\ (o.depth \/ Len(p) > o.max)}
FindAnswers(t, o, r) ==
    LET ref     == FindRef(t, o)
        seen(s) == SelectSeq(s, LAMBDA p : ~o.depth \/ p \notin Sealed(o))
    IN  IF Sealed(o) = {} THEN r = ref ELSE seen(r.out) = seen(ref.out)

-----------------------------------------------------------------------------
(* What a unified difference says, and what diff and patch promise with it. *)

\* Lines with their ends.
RECURSIVE Cut(_)
Cut(t) ==
    LET ends == {q \in DOMAIN t : t[q] = "\n"}
        first == CHOOSE q \in ends : \A r \in ends : q <= r
    IN  IF t = <<>> THEN <<>> ELSE IF ends = {} THEN <<t>> ELSE <<SubSeq(t, 1, first)>> \o Cut(SubSeq(t, first + 1, Len(t)))
Glue(lines) == FoldLeft(LAMBDA s, l : s \o l, <<>>, lines)

\* The lines of a difference; one that the marker follows has no newline.
Marker(l) == l[1] = "\\ No newline at end of file"
Marked(lines) ==
    LET Unended(i) == i < Len(lines) /\ Marker(lines[i + 1])
        all == [i \in DOMAIN lines |-> IF Unended(i) THEN Front(lines[i]) ELSE lines[i]]
    IN  SelectSeq(all, LAMBDA l : ~Marker(l))

\* The two ranges in the head of a hunk: <<first, count>> each.
Range1(l, i) ==
    IF l[i + 1] = "," THEN <<Patch!Value(l[i]), Patch!Value(l[i + 2]), i + 3>> ELSE <<Patch!Value(l[i]), 1, i + 1>>
Ranges(l) == <<Range1(l, 2), Range1(l, Range1(l, 2)[3] + 1)>>

\* A hunk: its ranges and what it says of the old and of the new text.
Heads(lines) == {i \in DOMAIN lines : lines[i][1] = "@@ -"}
HunkAt(lines, i) ==
    LET stop == {j \in Heads(lines) : j > i}
        last == IF stop = {} THEN Len(lines) ELSE (CHOOSE j \in stop : \A k \in stop : j <= k) - 1
        body == SubSeq(lines, i + 1, last)
        Side(marks) == LET some == SelectSeq(body, LAMBDA l : l[1] \in marks) IN [k \in DOMAIN some |-> Tail(some[k])]
    IN  [range |-> Ranges(lines[i]), old |-> Side({" ", "-"}), new |-> Side({" ", "+"}),
         well |-> \A k \in DOMAIN body : body[k][1] \in {" ", "-", "+"}]
HunksOf(delta) ==
    LET lines == Marked(Cut(delta)) IN [k \in 1..Cardinality(Heads(lines)) |-> HunkAt(lines, SetToSortSeq(Heads(lines), <)[k])]

\* The new text, if the old one is what the hunks say.
Start(range) == IF range[2] = 0 THEN range[1] + 1 ELSE range[1]
Apply(text, hunks) ==
    LET lines == Cut(text)
        One(a, h) ==
            LET from == Start(h.range[1])
                to   == from + h.range[1][2] - 1
                new  == a.new \o SubSeq(lines, a.cur, from - 1)
            IN  IF ~a.ok \/ ~h.well \/ from < a.cur \/ to > Len(lines) THEN [a EXCEPT !.ok = FALSE]
                ELSE [ok  |-> /\ h.old = SubSeq(lines, from, to)
                              /\ Len(new) + 1 = Start(h.range[2]) /\ Len(h.new) = h.range[2][2],
                      cur |-> to + 1, new |-> new \o h.new]
        end == FoldLeft(One, [ok |-> TRUE, cur |-> 1, new |-> <<>>], hunks)
    IN  IF end.ok THEN <<Glue(end.new \o SubSeq(lines, end.cur, Len(lines)))>> ELSE <<>>

-----------------------------------------------------------------------------
(* diff: the difference leads from the one text to the other, and is as    *)
(* small as it can be; -b and -w find no difference in blanks.             *)

RECURSIVE Common(_, _)
Common(s, t) ==
    IF s = <<>> \/ t = <<>> THEN 0
    ELSE IF Last(s) = Last(t) THEN 1 + Common(Front(s), Front(t))
    ELSE Diff!Most(Common(Front(s), t), Common(s, Front(t)))
Ended(t) == t = <<>> \/ Last(t) = "\n"

\* Two lines that share a sum may be matched, and the match is undone later.
Confounded(t0, t1, flags) ==
    \E l, k \in {Diff!LinesOf(t0)[i] : i \in DOMAIN Diff!LinesOf(t0)} \cup {Diff!LinesOf(t1)[i] : i \in DOMAIN Diff!LinesOf(t1)} :
        l # k /\ Hash(Diff!Counted(l, flags)) = Hash(Diff!Counted(k, flags))

\* Blanks at the end do not count with -b, and others only as one.
Squeezed(l) ==
    FoldLeft(LAMBDA s, c : IF c = "\n" THEN Append(IF s # <<>> /\ Last(s) = " " THEN Front(s) ELSE s, c)
                           ELSE IF c \in {" ", "\t"} THEN (IF s # <<>> /\ Last(s) = " " THEN s ELSE Append(s, " "))
                           ELSE Append(s, c), <<>>, l)
Alike(t, flags) ==
    IF "w" \in flags THEN [i \in DOMAIN Cut(t) |-> SelectSeq(Cut(t)[i], LAMBDA c : c \notin {" ", "\t"})]
    ELSE [i \in DOMAIN Cut(t) |-> Squeezed(Cut(t)[i])]

\* check() loses its place in the second text when the first one ends in a line
\* without newline that does not match.
LosesPlace(t0, t1, flags) == ~Ended(t0) /\ Confounded(t0, t1, flags)

DiffTells(t0, t1, opt, r) ==
    LET hunks == HunksOf(r.out)
    IN  IF opt.flags \cap {"b", "w"} # {}
        THEN \/ ~Ended(t0) \/ ~Ended(t1)
             \/ (Alike(t0, opt.flags) = Alike(t1, opt.flags)) = (r.out = <<>>)
        ELSE \/ LosesPlace(t0, t1, opt.flags)
             \/ /\ (r.status = 0) = (t0 = t1) /\ (r.out = <<>>) = (t0 = t1)
                /\ Apply(t0, hunks) = <<t1>>
                /\ Ended(t0) /\ Ended(t1) /\ ~Confounded(t0, t1, opt.flags) =>
                      Len(SelectSeq(Cut(r.out), LAMBDA l : l[1] = "-")) = Len(Cut(t0)) - Common(Cut(t0), Cut(t1))

\* diff of directories: one report for each name, in the order of the names.  That
\* a name is only in one of them does not count as a difference.
Report(fs, d0, d1, n, opt) ==
    LET p0 == d0 \o n
        p1 == d1 \o n
        Line(w, p) == <<<<w>> \o Diff!Joined(p) \o <<"\n">>>>
        Two(w) == <<<<w, " ">> \o Diff!Joined(p0) \o <<" ">> \o Diff!Joined(p1) \o <<"\n">>>>
        here == n \in Diff!Listed(fs, d0, opt)
        there == n \in Diff!Listed(fs, d1, opt)
        dir0 == here /\ fs[p0].type = "d"
        dir1 == there /\ fs[p1].type = "d"
        text0 == IF here THEN fs[p0].text ELSE <<>>
        text1 == IF there THEN fs[p1].text ELSE <<>>
    IN  CASE ~(here /\ there) /\ "N" \notin opt.flags -> Line("Only in ", IF here THEN p0 ELSE p1)
          [] dir0 /\ (dir1 \/ ~there) /\ ("N" \in opt.flags \/ there) -> Line("Common ", p0)
          [] ~here /\ dir1 /\ "N" \in opt.flags -> Line("Common ", p0)
          [] here /\ there /\ dir0 /\ ~dir1 -> Two("MISMATCH1")
          [] here /\ there /\ ~dir0 /\ dir1 -> Two("MISMATCH2")
          [] OTHER -> IF text0 = text1 THEN <<>> ELSE <<<<"--- ">> \o Diff!Joined(p0) \o <<"\t", "time", "\n">>>>
DirTells(fs, d0, d1, opt, r) ==
    LET names == SetToSortSeq(Diff!Listed(fs, d0, opt) \cup Diff!Listed(fs, d1, opt), LAMBDA x, y : Before(Diff!Joined(x), Diff!Joined(y)))
        used == SelectSeq(names, LAMBDA n : opt.start = <<>> \/ ~Before(Diff!Joined(n), Diff!Joined(opt.start)))
        heads == SelectSeq(Cut(r.out), LAMBDA l : l[1] \in {"Only in ", "Common ", "MISMATCH1", "MISMATCH2", "--- "})
    IN  /\ heads = FoldLeft(LAMBDA s, n : s \o Report(fs, d0, d1, n, opt), <<>>, used)
        /\ (\E i \in DOMAIN heads : heads[i][1] = "--- ") => r.status = 1
        /\ r.status = 1 =>
              \/ \E i \in DOMAIN heads : heads[i][1] = "--- "
              \/ "N" \in opt.flags /\ \E q \in DOMAIN fs : fs[q].type = "f" /\ fs[q].text = <<>>

-----------------------------------------------------------------------------
(* patch: what was in a file is still there, or what the hunks make of it. *)

\* Hunks that patch does not take for hunks, or puts at another place.
Unreadable(delta) == \E i \in DOMAIN Cut(delta) : Cut(delta)[i][1] = "@@ -" /\ Patch!hunk(Cut(delta)[i]) = <<>>
Odd(delta, opt)   == opt.context = 0 \/ Unreadable(delta) \/ \E i \in DOMAIN Cut(delta) : Marker(Cut(delta)[i])

\* A file that should be made or emptied is taken for all there is.
Replaces(delta) == \E i \in DOMAIN Cut(delta) : Cut(delta)[i][1] = "@@ -" /\ 0 \in Range(Patch!hunk(Cut(delta)[i]))

\* The lines about directories; patch goes on behind them, beyond the end of the
\* patch if nothing else follows.
Talk(l) == l[1] \in {"Only in ", "Common ", "MISMATCH1", "MISMATCH2"}

Section(delta, name) ==
    LET lines == SelectSeq(Cut(delta), LAMBDA l : ~Talk(l))
        begin == {i \in DOMAIN lines : lines[i][1] = "--- "}
        mine  == {i \in begin : Patch!extract_filename(lines[i], 1) = name}
        from  == CHOOSE i \in mine : TRUE
        next  == {j \in begin : j > from}
    IN  IF mine = {} THEN <<>>
        ELSE Glue(SubSeq(lines, from, IF next = {} THEN Len(lines) ELSE (CHOOSE j \in next : \A k \in next : j <= k) - 1))

PatchKeeps(fs, base, opt, delta, end) ==
    LET Result(q) == IF Section(delta, q) = <<>> THEN <<base[q]>> ELSE Apply(base[q], HunksOf(Section(delta, q)))
        names == {i \in DOMAIN Cut(delta) : Cut(delta)[i][1] = "--- "}
    IN  \/ Odd(delta, opt) \/ (Replaces(delta) /\ \E q \in DOMAIN base : base[q] # fs[<<"a">> \o q].text)
        \/ /\ \A q \in DOMAIN base :
                 \/ q \in DOMAIN end.fs /\ end.fs[q] = base[q]
                 \/ Patch!Backup(q) \in DOMAIN end.fs /\ end.fs[Patch!Backup(q)] = base[q]
                 \/ Result(q) = <<<<>>>> /\ q \notin DOMAIN end.fs
                 \/ q \in DOMAIN end.fs /\ Result(q) = <<end.fs[q]>>
           /\ Cardinality(names) = 1 /\ ~(\E i \in DOMAIN Cut(delta) : Talk(Cut(delta)[i])) /\ (\A q \in DOMAIN base : Result(q) # <<>>) => end.status = 0
           /\ end.status = 0 => \A q \in DOMAIN base : Result(q) # <<>> /\ Patch!Backup(q) \notin DOMAIN end.fs

-----------------------------------------------------------------------------
\* Some sets of jobs for each kind.
Families == [test |-> TestJobs, expr |-> ExprJobs, find |-> FindJobs, files |-> FileJobs, diff |-> DiffJobs, patch |-> PatchJobs,
             zip |-> ZipJobs, regex |-> RegexJobs, sed |-> SedJobs]
Init ==
    /\ out = Nothing
    /\ \E kind \in DOMAIN Families : \E i \in DOMAIN Families[kind] : \E a \in Families[kind][i] : job = [kind |-> kind, a |-> a]

Begin(kind) == job.kind = kind /\ out = Nothing /\ UNCHANGED job
Done(kind)  == job.kind = kind /\ out # Nothing

Evaluate ==
    /\ Begin("test")
    /\ out' = [statuses |-> Test!test_main(job.a.name, IF job.a.tree THEN TestWords(job.a.t) ELSE job.a.words)]

Compute == Begin("expr") /\ out' = Expr!expr_main(ExprWords(job.a.t))

Search == Begin("find") /\ out' = Find!find_main(<<job.a.o.start>> \o OptionWords(job.a.o) \o FindWords(job.a.t))

FileJob == [fs |-> StartFiles] @@ job.a
ChangeFiles == Begin("files") /\ out' = Kept!RunFiles(FileJob)

\* Two texts a/f and b/f, or two trees a and b.
OldName == IF job.a.dirs THEN <<"a">> ELSE <<"a", "f">>
NewName == IF job.a.dirs THEN <<"b">> ELSE <<"b", "f">>
Text1(t) == [type |-> "f", text |-> t]
Compared ==
    IF job.a.dirs THEN job.a.old @@ job.a.new
    ELSE (OldName :> Text1(job.a.old)) @@ (NewName :> Text1(job.a.new))
Compare ==
    /\ Begin("diff")
    /\ out' = Diff!diff_main(Compared, OldName, NewName, job.a.opt)

\* The texts that patch finds: the old ones, or another.
OldTexts == [q \in {Tail(r) : r \in {r \in DOMAIN Compared : r[1] = "a" /\ Compared[r].type = "f"}} |-> Compared[<<"a">> \o q].text]
Base  == IF job.a.base = <<"old">> THEN OldTexts ELSE [q \in DOMAIN OldTexts |-> job.a.base]
PatchFiles ==
    /\ Begin("patch")
    /\ \E made \in {Diff!diff_main(Compared, OldName, NewName, job.a.opt).out} :
          out' = [made |-> made, end |-> Patch!patch_main(Base, made, 1)]

Pack == Begin("zip") /\ out' = Gzip!bbunpack(job.a.files, job.a)

\* The texts are searched one after the other with the same pattern buffer.
PatternText == IF job.a.wrong = "none" THEN Pattern!Written(job.a.extended, job.a.r) ELSE job.a.text
Cflags == job.a.cflags \cup (IF job.a.extended THEN {"EXTENDED"} ELSE {})
SearchTexts ==
    /\ Begin("regex")
    /\ \E re \in {Sed!regcomp(PatternText, Cflags)} :
          out' = [err |-> re.err, told |-> IF re.err = "none" THEN Sed!regexecs(re, job.a.texts, job.a.eflags) ELSE <<>>]

\* Either a list of commands, or a text that is no script.
SedScript == IF job.a.wrong = "none" THEN Pattern!Scripts(job.a.how, [i \in DOMAIN job.a.cmds |-> Pattern!CommandText(job.a.extended, job.a.cmds[i])])
             ELSE [e |-> <<job.a.text>>, f |-> <<>>]
EditStreams == Begin("sed") /\ out' = Sed!sed_main(SedScript @@ job.a)

Next == Evaluate \/ Compute \/ Search \/ ChangeFiles \/ Compare \/ PatchFiles \/ Pack \/ SearchTexts \/ EditStreams

Spec == Init /\ [][Next]_vars

-----------------------------------------------------------------------------
(* Properties.                                                             *)

SearchedText(text) ==
    [text |-> text, bol |-> "NOTBOL" \notin job.a.eflags, eol |-> "NOTEOL" \notin job.a.eflags, lines |-> "NEWLINE" \in job.a.cflags,
     fold |-> "ICASE" \in job.a.cflags, low |-> [x \in Alphabet |-> Lower(x)], word |-> WordChars, most |-> re_max_failures]

\* The texts that are read, the missing ones left out.
StreamOf == [cmds |-> job.a.cmds, quiet |-> job.a.quiet, fs |-> job.a.fs, lines |-> <<>>,
             e |-> [text |-> <<>>, bol |-> TRUE, eol |-> TRUE, lines |-> FALSE, fold |-> FALSE, low |-> [x \in Alphabet |-> x], word |-> WordChars, most |-> 0]]
Readable == SelectSeq(job.a.args, LAMBDA n : n \in DOMAIN job.a.fs)
StreamTexts == IF job.a.args = <<>> THEN <<job.a.stdin>> ELSE [i \in DOMAIN Readable |-> job.a.fs[Readable[i]]]
SedAnswers ==
    IF job.a.wrong # "none" THEN out.status = 1
    ELSE job.a.inplace \/ (/\ out.err = "none" /\ out.status = IF Len(Readable) = Len(job.a.args) THEN 0 ELSE 1
                           /\ Pattern!TellsStream(StreamOf, StreamTexts, out))

\* Every file has its old text or its new one, and no other is left behind; an
\* error of the third call for a file, the write, is not noticed and loses it.
Rewritten(name) == Pattern!TellsStream(StreamOf, <<job.a.fs[name]>>, [out EXCEPT !.out = out.fs[name], !.gone = ""])
SedKeeps ==
    job.a.inplace =>
        /\ out.gone # "killed" => DOMAIN out.fs = DOMAIN job.a.fs
        /\ \A name \in DOMAIN job.a.fs :
              \/ out.fs[name] = job.a.fs[name] /\ (out.status = 1 \/ out.gone # "" \/ ~Contains(job.a.args, name))
              \/ job.a.wrong = "none" /\ (Rewritten(name) \/ (job.a.fault % 4 = 3 /\ out.fs[name] = <<>>))

\* test, expr and find answer what POSIX says, whatever words their arguments
\* are made of: by the number of arguments, and by the tree of operators. regcomp
\* and regexec refuse what is no expression and find the leftmost and longest match
\* of one, however its pieces share the text, and on every later text again. sed
\* tells the lines that its script makes of those it reads, whatever ranges,
\* branches, held and queued texts do together.
AnswersAsPosix ==
    /\ Done("test") =>
          IF job.a.tree
          THEN Len(TestWords(job.a.t)) > 4 => Tells(TestWords(job.a.t), out.statuses, TestValue(job.a.t))
          ELSE IF job.a.name = "test" THEN Tells(job.a.words, out.statuses, RefTest(job.a.words))
          ELSE IF Last(job.a.words) # "]" THEN out.statuses = {2}
          ELSE Tells(job.a.words, out.statuses, RefTest(Front(job.a.words)))
    /\ Done("expr") => Shows(out, ExprValue(job.a.t))
    /\ Done("find") => FindAnswers(job.a.t, job.a.o, out)
    /\ Done("regex") =>
          /\ out.err = job.a.wrong
          /\ \A i \in DOMAIN out.told : Pattern!FindsAsPosix(SearchedText(job.a.texts[i]), job.a.r, out.told[i])
    /\ Done("sed") => SedAnswers

\* cp, mv, rm, rmdir and mkdir lose nothing they were not told to remove and
\* touch nothing they were not told to change, whichever system call fails and
\* wherever they are killed; status 0 means that all was done. sed -i leaves each file
\* as it was or as the script makes it.
FilesKept == (Done("files") => Kept!FilesKept(FileJob, out)) /\ (Done("sed") => SedKeeps)

\* A difference leads from the one text to the other and is as small as can be;
\* what patch makes of it is what the hunks say, or the old text is still there.
DeltasTell ==
    /\ Done("diff") =>
          IF job.a.dirs THEN DirTells(Compared, OldName, NewName, job.a.opt, out)
          ELSE DiffTells(job.a.old, job.a.new, job.a.opt, out)
    /\ Done("patch") => PatchKeeps(Compared, Base, job.a.opt, out.made, out.end)

\* gzip and gunzip remove a file only when the one they made stands for it, byte by
\* byte; what is damaged is refused, and no half of a file is left when they go on.
RestoresData == Done("zip") => Gzip!RestoresData(job.a.files, job.a, out)
=============================================================================
