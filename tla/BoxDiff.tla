------------------------------ MODULE BoxDiff -------------------------------
(***************************************************************************)
(* diff (editors/diff.c): two texts, or the files of two directories.      *)
(*                                                                         *)
(* A text is a sequence of characters.  What diff prints is a sequence of  *)
(* characters too, in which "@@ -", "--- " and the like, names and numbers *)
(* are one token each.                                                     *)
(***************************************************************************)
EXTENDS BoxNumbers, FiniteSets

CONSTANTS
    Hash(_),        \* the sum of a line, never 0; two lines may share it
    MinTries        \* 256, the least bound of the search in one class

Blank(c)     == c \in {" ", "\t"}
IsSpace(c)   == Blank(c) \/ c = "\n"
NoBlanks(s)  == SelectSeq(s, LAMBDA c : ~Blank(c))
Least(a, b)  == IF a < b THEN a ELSE b
Most(a, b)   == IF a > b THEN a ELSE b

\* The lines of a text without their ends; the last one is what follows the last
\* newline.
LinesOf(text) ==
    LET Step(l, c) == IF c = "\n" THEN [done |-> Append(l.done, l.cur), cur |-> <<>>] ELSE [l EXCEPT !.cur = Append(@, c)]
        end == FoldLeft(Step, [done |-> <<>>, cur |-> <<>>], text)
    IN  Append(end.done, end.cur)

\* readhash(), as often as prepare() calls it: blanks do not count with -b or -w,
\* and an unfinished last line in which nothing counts is none.
Counted(line, flags) == IF flags \cap {"b", "w"} = {} THEN line ELSE NoBlanks(line)
prepare(text, flags) ==
    LET lines == LinesOf(text)
        used  == IF Counted(Last(lines), flags) = <<>> THEN Front(lines) ELSE lines
    IN  [i \in DOMAIN used |-> Hash(Counted(used[i], flags))]

files_differ(t0, t1, empty) == empty \/ t0 # t1

-----------------------------------------------------------------------------
(* The common lines: the match vector J.                                   *)

\* prune(): the equal lines at the beginning and at the end.
Pref(v0, v1) ==
    LET n == Least(Len(v0), Len(v1))
    IN  CHOOSE k \in 0..n : (\A i \in 1..k : v0[i] = v1[i]) /\ (k = n \/ v0[k + 1] # v1[k + 1])
Suff(v0, v1, pref) ==
    LET n == Least(Len(v0), Len(v1)) - pref
        At(v, i) == v[Len(v) - i]
    IN  CHOOSE k \in 0..n : (\A i \in 0..(k - 1) : At(v0, i) = At(v1, i)) /\ (k = n \/ At(v0, k) # At(v1, k))

\* sort() and equiv(): member lists the lines of the second text by their sums,
\* the first of each class with a negative sign; class names the first member
\* that a line of the first text may match.
Sorted(v) == SortSeq([i \in DOMAIN v |-> i], LAMBDA x, y : v[x] < v[y] \/ (v[x] = v[y] /\ x < y))
Members(v, order) ==
    [j \in 1..(Len(v) + 1) |->
        IF j > Len(v) THEN -1 ELSE IF j > 1 /\ v[order[j]] = v[order[j - 1]] THEN order[j] ELSE -order[j]]
Classes(v0, v1, order) ==
    [i \in DOMAIN v0 |->
        LET same == {j \in DOMAIN v1 : v1[order[j]] = v0[i]}
        IN  IF same = {} THEN 0 ELSE CHOOSE j \in same : \A k \in same : j <= k]

RECURSIVE Newton(_, _)
Newton(n, y) ==
    LET x == (n \div y + y) \div 2 IN IF x - y > 1 \/ x - y < -1 THEN Newton(n, x) ELSE x
isqrt(n) == IF n = 0 THEN 0 ELSE Newton(n, 1)

\* The k-candidates: c[k + 1] is the place in the list of the one for length k.
newcand(st, x, y, pred) == Append(st.clist, [x |-> x, y |-> y, pred |-> pred])
Ahead(st, l) == st.clist[st.c[l + 1]].y

RECURSIVE Bisect(_, _, _, _)
Bisect(st, i, j, y) ==
    LET l == (i + j) \div 2
    IN  CASE l <= i -> l + 1
          [] l > i /\ Ahead(st, l) > y -> Bisect(st, i, l, y)
          [] l > i /\ Ahead(st, l) < y -> Bisect(st, l, j, y)
          [] l > i /\ Ahead(st, l) = y -> l
search(st, y) ==
    LET k == Len(st.c) - 1 IN IF Ahead(st, k) < y THEN k + 1 ELSE Bisect(st, 0, k + 1, y)

\* stone(): the members of one class, one after the other.
RECURSIVE Tries(_, _, _, _, _, _)
NextTry(st, i, b, j, try, bound) ==
    IF b[j + 1] > 0 /\ try.n < bound THEN Tries(st, i, b, j + 1, [try EXCEPT !.y = b[j + 1]], bound) ELSE st
Placed(st, i, b, j, try, bound, l) ==
    LET oldc == IF l # try.oldl + 1 THEN st.c[l] ELSE try.oldc
        list == newcand(st, i, try.y, oldc)
    IN  CASE l >= Len(st.c) -> [clist |-> list, c |-> Append(st.c, Len(list))]
          [] l < Len(st.c) /\ Ahead(st, l) <= try.y -> NextTry(st, i, b, j, [try EXCEPT !.oldc = oldc], bound)
          [] l < Len(st.c) /\ Ahead(st, l) > try.y ->
                NextTry([clist |-> list, c |-> [st.c EXCEPT ![l + 1] = Len(list)]], i, b, j,
                        [try EXCEPT !.oldc = st.c[l + 1], !.oldl = l, !.n = @ + 1], bound)
Tries(st, i, b, j, try, bound) ==
    IF try.y <= st.clist[try.oldc].y THEN NextTry(st, i, b, j, try, bound)
    ELSE Placed(st, i, b, j, try, bound, search(st, try.y))
stone(a, b) ==
    LET Line(st, i) ==
            IF a[i] = 0 THEN st
            ELSE Tries(st, i, b, a[i], [y |-> -b[a[i]], oldl |-> 0, oldc |-> st.c[1], n |-> 0], Most(MinTries, isqrt(Len(a))))
    IN  FoldLeft(Line, [clist |-> <<[x |-> 0, y |-> 0, pred |-> 1]>>, c |-> <<1>>], [i \in DOMAIN a |-> i])

\* unravel(): from the last candidate back to the first.
RECURSIVE Chain(_, _)
Chain(clist, p) == IF clist[p].y = 0 THEN {} ELSE {<<clist[p].x, clist[p].y>>} \cup Chain(clist, clist[p].pred)
unravel(n0, n1, pref, suff, pairs) ==
    [i \in 0..n0 |->
        IF i <= pref THEN i
        ELSE IF i > n0 - suff THEN i + n1 - n0
        ELSE IF \E q \in pairs : q[1] + pref = i THEN (CHOOSE q \in pairs : q[1] + pref = i)[2] + pref ELSE 0]

MatchBetween(v0, v1, pref, suff) ==
    LET s0 == SubSeq(v0, pref + 1, Len(v0) - suff)
        s1 == SubSeq(v1, pref + 1, Len(v1) - suff)
        order == Sorted(s1)
        end == stone(Classes(s0, s1, order), Members(s1, order))
    IN  unravel(Len(v0), Len(v1), pref, suff, Chain(end.clist, Last(end.c)))
Match(v0, v1) == LET pref == Pref(v0, v1) IN MatchBetween(v0, v1, pref, Suff(v0, v1, pref))

-----------------------------------------------------------------------------
(* check(): the texts are read again.  p0 and p1 are the places of the two *)
(* streams, c0 and c1 the characters counted so far, x0 and x1 the offsets *)
(* of the lines that come of it.                                           *)

At(text, p)   == IF p > Len(text) THEN "eof" ELSE text[p]
Past(text, p) == IF p > Len(text) THEN p ELSE p + 1
LineEnd(c)    == c \in {"\n", "eof"}

RECURSIVE Skipped(_, _, _)
Skipped(text, p, n) == IF LineEnd(At(text, p)) THEN <<Past(text, p), n>> ELSE Skipped(text, p + 1, n + 1)
skipline(text, p) == Skipped(text, p, 1)
Skip0(s) == LET k == skipline(s.t0, s.p0) IN [s EXCEPT !.p0 = k[1], !.c0 = @ + k[2]]
Skip1(s) == LET k == skipline(s.t1, s.p1) IN [s EXCEPT !.p1 = k[1], !.c1 = @ + k[2]]

\* The blanks that -b (in both texts) and -w (in either) pass over: the place of
\* the next other character and how many they are.
RECURSIVE Pass(_, _, _)
Pass(text, p, n) == IF Blank(At(text, p)) THEN Pass(text, p + 1, n + 1) ELSE <<p, n>>

\* The characters c and d have been read; s is after them.
DifferKeepsMatch(s, i, c, d) ==                 \* a slip: the lines remain matched
    LET a == IF ~LineEnd(c) THEN Skip0(s) ELSE s
    IN  IF d # "\n" /\ c # "eof" THEN Skip1(a) ELSE a
Differ(s, i, c, d) ==
    LET a == IF ~LineEnd(c) THEN Skip0(s) ELSE s
        b == IF d # "\n" /\ c # "eof" THEN Skip1(a) ELSE a
    IN  [b EXCEPT !.J[i] = 0]
RECURSIVE Compare(_, _)
Decide(s, i, c, d) == IF c # d THEN Differ(s, i, c, d) ELSE IF LineEnd(c) THEN s ELSE Compare(s, i)

\* Blanks have been passed over up to the places k0 and k1, and the next character
\* of each text is read from there.
AtPlaces(s, i, k0, k1) ==
    Decide([s EXCEPT !.p0 = Past(s.t0, k0[1]), !.c0 = @ + k0[2], !.p1 = Past(s.t1, k1[1]), !.c1 = @ + k1[2]], i, At(s.t0, k0[1]), At(s.t1, k1[1]))
Counting(s, i, c, d) ==
    LET t == [s EXCEPT !.p0 = Past(s.t0, @), !.c0 = @ + 1, !.p1 = Past(s.t1, @), !.c1 = @ + 1]
    IN  CASE "b" \in s.flags /\ IsSpace(c) /\ IsSpace(d) ->
                AtPlaces(t, i, IF c = "\n" THEN <<s.p0, 0>> ELSE Pass(s.t0, t.p0, 1),
                               IF d = "\n" THEN <<s.p1, 0>> ELSE Pass(s.t1, t.p1, 1))
          [] "w" \in s.flags /\ ~("b" \in s.flags /\ IsSpace(c) /\ IsSpace(d)) ->
                AtPlaces(t, i, Pass(s.t0, s.p0, 0), Pass(s.t1, s.p1, 0))
          [] OTHER -> Decide(t, i, c, d)
Compare(s, i) ==
    LET c == At(s.t0, s.p0)
        d == At(s.t1, s.p1)
    IN  IF s.flags \cap {"b", "w"} # {} /\ {c, d} = {"eof", "\n"}
        THEN [s EXCEPT !.p0 = Past(s.t0, @), !.p1 = Past(s.t1, @)]
        ELSE Counting(s, i, c, d)

RECURSIVE SkipTo(_, _)
SkipTo(s, j) ==
    IF s.j >= j THEN s
    ELSE LET t == Skip1(s) IN SkipTo([t EXCEPT !.x1 = Append(@, t.c1), !.j = @ + 1], j)
check(t0, t1, J, n1, flags) ==
    LET start == [t0 |-> t0, t1 |-> t1, flags |-> flags, J |-> J, j |-> 1, p0 |-> 1, p1 |-> 1, c0 |-> 0, c1 |-> 0,
                  x0 |-> <<>>, x1 |-> <<>>]
        Unmatched(s) == LET t == Skip0(s) IN [t EXCEPT !.x0 = Append(@, t.c0)]
        Matched(s, i) ==
            LET t == Compare(SkipTo(s, J[i]), i)
            IN  [t EXCEPT !.x0 = Append(@, t.c0), !.x1 = Append(@, t.c1), !.j = @ + 1]
        Line(s, i) == IF J[i] = 0 THEN Unmatched(s) ELSE Matched(s, i)
    IN  SkipTo(FoldLeft(Line, start, [i \in 1..(Cardinality(DOMAIN J) - 1) |-> i]), n1 + 1)

-----------------------------------------------------------------------------
(* output(): the changes and the hunks they are printed in.                *)

Num(n) == <<ToString(n)>>
uni_range(a, b) ==
    CASE a < b -> Num(a) \o <<",">> \o Num(b - a + 1) [] a = b -> Num(b) [] a > b -> Num(b) \o <<",", "0">>

\* The lines a to b, up to the end of the text.
fetch(text, x, a, b, ch) ==
    LET From(i) == IF i = 1 THEN 1 ELSE x[i - 1] + 1
        Line(o, i) ==
            CASE o.end -> o
              [] ~o.end /\ x[i] <= Len(text) -> [o EXCEPT !.out = @ \o <<ch>> \o SubSeq(text, From(i), x[i])]
              [] ~o.end /\ x[i] > Len(text) ->
                    [out |-> o.out \o <<ch>> \o SubSeq(text, From(i), Len(text)) \o <<"\n", "\\ No newline at end of file", "\n">>, end |-> TRUE]
    IN  FoldLeft(Line, [out |-> <<>>, end |-> FALSE], [k \in 1..Most(0, b - a + 1) |-> a + k - 1]).out

\* dump_unified_vec(): s has what check() found, vecs the changes of the hunk.
HunkLines(s, vecs, lowa, lowc, upd) ==
    LET Old(a, b, ch) == fetch(s.t0, s.x0, a, b, ch)
        New(a, b, ch) == fetch(s.t1, s.x1, a, b, ch)
        One(o, v) ==
            [out |-> o.out
                     \o (IF v.a <= v.b THEN Old(o.lowa, v.a - 1, " ") \o Old(v.a, v.b, "-") ELSE New(o.lowc, v.c - 1, " "))
                     \o (IF v.c <= v.d THEN New(v.c, v.d, "+") ELSE <<>>),
             lowa |-> v.b + 1, lowc |-> v.d + 1]
        end == FoldLeft(One, [out |-> <<>>, lowa |-> lowa, lowc |-> lowc], vecs)
    IN  end.out \o New(end.lowc, upd, " ")
dump_unified_vec(s, vecs, context) ==
    LET lowa == Most(1, vecs[1].a - context)
        upb  == Least(Len(s.x0), Last(vecs).b + context)
        lowc == Most(1, vecs[1].c - context)
        upd  == Least(Len(s.x1), Last(vecs).d + context)
    IN  IF vecs = <<>> THEN <<>>
        ELSE <<"@@ -">> \o uni_range(lowa, upb) \o <<" +">> \o uni_range(lowc, upd) \o <<" @@", "\n">>
             \o HunkLines(s, vecs, lowa, lowc, upd)

print_header(file1, file2) ==
    <<"--- ">> \o file1 \o <<"\t", "time", "\n">> \o <<"+++ ">> \o file2 \o <<"\t", "time", "\n">>

\* change(): a range of old lines becomes a range of new ones.  A change that is
\* far enough from the one before begins a hunk.
change(o, s, a, b, c, d, ctx) ==
    LET v == [a |-> a, b |-> b, c |-> c, d |-> d]
    IN  IF (a > b /\ c > d) \/ "q" \in s.flags THEN [o EXCEPT !.any = TRUE]
        ELSE IF ~o.any THEN [o EXCEPT !.any = TRUE, !.out = @ \o ctx.header, !.vecs = Append(@, v)]
        ELSE IF o.vecs # <<>> /\ a > Last(o.vecs).b + 2 * ctx.lines + 1 /\ c > Last(o.vecs).d + 2 * ctx.lines + 1
        THEN [o EXCEPT !.out = @ \o dump_unified_vec(s, o.vecs, ctx.lines), !.vecs = <<v>>]
        ELSE [o EXCEPT !.vecs = Append(@, v)]

RECURSIVE Same(_, _, _)
Same(J, i, m) == IF i <= m /\ J[i] = J[i - 1] + 1 THEN Same(J, i + 1, m) ELSE i
RECURSIVE Unmatched(_, _, _)
Unmatched(J, i, m) == IF i < m /\ J[i + 1] = 0 THEN Unmatched(J, i + 1, m) ELSE i
RECURSIVE Changes(_, _, _, _, _, _)
Change(o, s, J, i0, i1, m, ctx) ==
    LET j01 == J[i1 + 1] - 1
    IN  Changes(change(o, s, i0, i1, J[i0 - 1] + 1, j01, ctx), s, [J EXCEPT ![i1] = j01], i1 + 1, m, ctx)
ChangeFrom(o, s, J, i0, m, ctx) == Change(o, s, J, i0, Unmatched(J, i0 - 1, m), m, ctx)
Changes(o, s, J, i0, m, ctx) == IF i0 > m THEN o ELSE ChangeFrom(o, s, J, Same(J, i0, m), m, ctx)
LastHunk(s, ctx, r) ==
    IF r.any /\ "q" \notin s.flags /\ r.vecs # <<>> THEN [r EXCEPT !.out = @ \o dump_unified_vec(s, r.vecs, ctx.lines)] ELSE r
output(s, ctx) ==
    LET m == Len(s.x0)
        J == [i \in 0..(m + 1) |-> IF i = 0 THEN 0 ELSE IF i = m + 1 THEN Len(s.x1) + 1 ELSE s.J[i]]
        start == [out |-> <<>>, vecs |-> <<>>, any |-> FALSE]
    IN  LastHunk(s, ctx, IF m = 0 THEN change(start, s, 1, 0, 1, Len(s.x1), ctx) ELSE Changes(start, s, J, 1, m, ctx))

-----------------------------------------------------------------------------
(* Files and directories.  fs maps a path, a sequence of names, to a node. *)

Joined(path) == FoldLeft(LAMBDA s, n : IF s = <<>> THEN <<n>> ELSE s \o <<"/", n>>, <<>>, path)
Absent == [type |-> "none", text |-> <<>>]
stat(fs, path) == IF path \in DOMAIN fs THEN fs[path] ELSE Absent

\* diffreg(): what is printed, and whether the texts differ.
Compared(t0, t1, flags, ctx) ==
    LET v0 == prepare(t0, flags)
        v1 == prepare(t1, flags)
    IN  output(check(t0, t1, Match(v0, v1), Len(v1), flags), ctx)
Verdict(r) == [val |-> IF r.any THEN "DIFFER" ELSE "SAME", out |-> r.out, status |-> IF r.any THEN 1 ELSE 0]
diffreg(n0, n1, p0, p1, opt, empty) ==
    IF (n0.type = "d") # (n1.type = "d")
    THEN [val |-> IF n0.type = "d" THEN "MISMATCH1" ELSE "MISMATCH2", out |-> <<>>, status |-> 0]
    ELSE Verdict(IF files_differ(n0.text, n1.text, empty)
                 THEN Compared(n0.text, n1.text, opt.flags, [header |-> print_header(Joined(p0), Joined(p1)), lines |-> opt.context])
                 ELSE [out |-> <<>>, any |-> FALSE])

\* print_status() and print_only(): one line, whose wording is left out.
Tells(val, opt) == val \in {"MISMATCH1", "MISMATCH2", "SKIPPED1", "SKIPPED2"} \/ (val = "DIFFER" /\ "q" \in opt.flags) \/ (val = "SAME" /\ "s" \in opt.flags)
print_status(r, p0, p1, opt) ==
    [out |-> r.out \o (IF Tells(r.val, opt) THEN <<r.val, " ">> \o Joined(p0) \o <<" ">> \o Joined(p1) \o <<"\n">> ELSE <<>>),
     status |-> r.status]
print_only(path) == [out |-> <<"Only in ">> \o Joined(path) \o <<"\n">>, status |-> 0]

\* get_dir(): with -r the files at any depth, else the entries; sorted.
Listed(fs, dir, opt) ==
    {SubSeq(q, Len(dir) + 1, Len(q)) : q \in {q \in DOMAIN fs :
        /\ IsPrefix(dir, q) /\ q # dir
        /\ IF "r" \in opt.flags THEN fs[q].type # "d" ELSE Len(q) = Len(dir) + 1}}
get_dir(fs, dir, opt) ==
    LET all == SetToSortSeq(Listed(fs, dir, opt), LAMBDA x, y : Before(Joined(x), Joined(y)))
    IN  SelectSeq(all, LAMBDA x : opt.start = <<>> \/ ~Before(Joined(x), Joined(opt.start)))

\* do_diff(): a file that is missing counts as empty.
do_diff(fs, d0, d1, name, has0, has1, opt) ==
    LET n0 == IF has0 THEN stat(fs, d0 \o name) ELSE Absent
        n1 == IF has1 THEN stat(fs, d1 \o name) ELSE Absent
        t0 == IF n0.type = "none" THEN n1.type ELSE n0.type
        t1 == IF n1.type = "none" THEN n0.type ELSE n1.type
        As(n, type) == [type |-> type, text |-> IF n.type = "f" THEN n.text ELSE <<>>]
        val == CASE t0 \notin {"f", "d"} -> "SKIPPED1" [] t0 \in {"f", "d"} /\ t1 \notin {"f", "d"} -> "SKIPPED2" [] OTHER -> ""
    IN  CASE t0 = "d" /\ t1 = "d" -> [out |-> <<"Common ">> \o Joined(d0 \o name) \o <<"\n">>, status |-> 0]
          [] ~(t0 = "d" /\ t1 = "d") /\ val # "" -> print_status([val |-> val, out |-> <<>>, status |-> 0], d0 \o name, d1 \o name, opt)
          [] ~(t0 = "d" /\ t1 = "d") /\ val = "" ->
                print_status(diffreg(As(n0, t0), As(n1, t1), d0 \o name, d1 \o name, opt, n0.type = "none" \/ n1.type = "none"),
                             d0 \o name, d1 \o name, opt)

\* diffdir(): the two listings are merged.
RECURSIVE Merge(_, _, _, _, _, _)
Then(one, rest) == [out |-> one.out \o rest.out, status |-> Most(one.status, rest.status)]
Merge(fs, d0, d1, l0, l1, opt) ==
    LET less(l, k) == k = <<>> \/ (l # <<>> /\ ~Before(Joined(Head(k)), Joined(Head(l))))
        has0 == less(l0, l1)
        has1 == less(l1, l0)
        name == Head(IF has0 THEN l0 ELSE l1)
    IN  IF l0 = <<>> /\ l1 = <<>> THEN [out |-> <<>>, status |-> 0]
        ELSE Then(IF (has0 /\ has1) \/ "N" \in opt.flags THEN do_diff(fs, d0, d1, name, has0, has1, opt)
                  ELSE print_only((IF has0 THEN d0 ELSE d1) \o name),
                  Merge(fs, d0, d1, IF has0 THEN Tail(l0) ELSE l0, IF has1 THEN Tail(l1) ELSE l1, opt))
diffdir(fs, d0, d1, opt) == Merge(fs, d0, d1, get_dir(fs, d0, opt), get_dir(fs, d1, opt), opt)

\* A file that is compared with a directory is compared with its file there.
diff_main(fs, f1, f2, opt) ==
    LET p1 == IF stat(fs, f1).type = "d" /\ stat(fs, f2).type # "d" THEN f1 \o f2 ELSE f1
        p2 == IF stat(fs, f2).type = "d" /\ stat(fs, f1).type # "d" THEN f2 \o p1 ELSE f2
    IN  CASE stat(fs, p1) = Absent \/ stat(fs, p2) = Absent -> [out |-> <<>>, status |-> 1]
          [] stat(fs, f1).type = "d" /\ stat(fs, f2).type = "d" -> diffdir(fs, f1, f2, opt)
          [] OTHER -> IF stat(fs, p1).type # "f" \/ stat(fs, p2).type # "f" THEN [out |-> <<>>, status |-> 1]
                      ELSE print_status(diffreg(stat(fs, p1), stat(fs, p2), p1, p2, opt, FALSE), p1, p2, opt)
=============================================================================
