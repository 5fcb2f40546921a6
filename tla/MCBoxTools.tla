----------------------------- MODULE MCBoxTools -----------------------------
(* Jobs for the tools of the box, and the files they meet.                 *)
EXTENDS BoxTools, FiniteSets


Order == <<"\n", " ", "#", "(", ")", "*", "+", ",", "-", ".", "/", "0", "1", "2", "3", "4", "5", "6", "7", "8", "9", "<", "=", ">", "a", "b", "c", "e", "f", "g", "h", "l", "n", "t", "x", "z">>

-----------------------------------------------------------------------------
(* test: a file, a directory, a link to nothing, and nothing.              *)

Perm(u, g, o) == ("user" :> u) @@ ("group" :> g) @@ ("other" :> o) @@ ("bits" :> {"-k"})
SomeStat(n) ==
    CASE n = "a" -> [type |-> "reg", uid |-> 1, gid |-> 2, size |-> 0, mtime |-> 5, ino |-> 1, mode |-> Perm({"-r"}, {"-w"}, {"-x"})]
      [] n = "b" -> [type |-> "dir", uid |-> 2, gid |-> 1, size |-> 4, mtime |-> 7, ino |-> 2, mode |-> Perm({"-r"}, {"-w"}, {"-x"})]
      [] OTHER -> Test!NoFile
SomeLstat(n) == IF n = "c" THEN [SomeStat("a") EXCEPT !.type = "lnk", !.ino = 3] ELSE SomeStat(n)

WordsOf(set, n) == UNION {[1..k -> set] : k \in 0..n}
Operands == {"", "a", "b", "c", "1", " 2", "9", "99"}
ByWords(words) == [name : {"test"}, tree : {FALSE}, words : words]
Leaf == {[op |-> "one", words |-> <<w>>] : w \in {"a", ""}} \cup {[op |-> "unary", words |-> <<"-z", "">>]}
        \cup {[op |-> "binary", words |-> <<"1", o, "9">>] : o \in {"-lt", "="}}
One1(X) == {[op |-> o, l |-> x] : o \in {"not", "paren"}, x \in X}
Two1(X, Y) == {[op |-> o, l |-> x, r |-> y] : o \in {"and", "or"}, x \in X, y \in Y}
Deep == One1(Leaf) \cup Two1(Leaf, Leaf)
SomeTests ==
    <<ByWords([1..3 -> {"!", "(", ")", "-a", "-o", "=", "-n", "-eq", "a", "", "1"}]), ByWords([1..4 -> {"!", "(", ")", "-a", "=", "-z", "a"}]),
      ByWords(WordsOf({"!", "(", "-n", "=", "a", ""}, 2)), ByWords([1..5 -> {"!", "=", "-z", "a"}]),
      ByWords(Test!UnaryOps \X Operands), ByWords(Operands \X Test!BinaryOps \X Operands),
      [name : {"bracket"}, tree : {FALSE}, words : [1..3 -> {"!", "=", "a", "]"}]],
      [name : {"test"}, tree : {TRUE}, t : Two1(Deep, Leaf)], [name : {"test"}, tree : {TRUE}, t : Two1(Leaf, Deep) \cup One1(Deep)]>>

-----------------------------------------------------------------------------
(* expr.                                                                   *)

\* What the regcomp() and regexec() of the system promise expr, for expressions of
\* characters, ., sets, *, \( \), \1, ^ and $.
\* An expression as a sequence of items; a * belongs to the item before it.
Item(k, c) == [k |-> k, set |-> {c}, star |-> FALSE]
Escapes == [o \in {"(", ")"} |-> IF o = "(" THEN "open" ELSE "close"]
Starred(items, c) ==
    IF items = <<>> \/ Last(items).k \in {"bol", "open"} THEN Append(items, Item("one", c))
    ELSE [items EXCEPT ![Len(items)].star = TRUE]
Special(r, c, last) ==
    CASE c = "\\" -> [r EXCEPT !.esc = TRUE]
      [] c = "[" -> [r EXCEPT !.cls = <<"[">>]
      [] c = "*" -> [r EXCEPT !.items = Starred(@, c)]
      [] c = "^" /\ r.items = <<>> -> [r EXCEPT !.items = Append(@, Item("bol", c))]
      [] c = "$" /\ last -> [r EXCEPT !.items = Append(@, Item("eol", c))]
      [] c = "." -> [r EXCEPT !.items = Append(@, Item("any", c))]
      [] OTHER -> [r EXCEPT !.items = Append(@, Item("one", c))]
InSet(r, c) ==
    IF c = "]" /\ Len(r.cls) > 1
    THEN [r EXCEPT !.cls = <<>>, !.items = Append(@, [k |-> IF r.cls[2] = "^" THEN "none" ELSE "one", set |-> ToSet(Tail(r.cls)) \ {"^"}, star |-> FALSE])]
    ELSE [r EXCEPT !.cls = Append(@, c)]
Escaped(r, c) ==
    [r EXCEPT !.esc = FALSE, !.items = Append(@, IF c \in DOMAIN Escapes THEN Item(Escapes[c], c) ELSE IF c = "1" THEN Item("back", c) ELSE Item("one", c))]
Items(re) ==
    LET One(r, i) == IF r.cls # <<>> THEN InSet(r, re[i]) ELSE IF r.esc THEN Escaped(r, re[i]) ELSE Special(r, re[i], i = Len(re))
    IN  FoldLeft(One, [items |-> <<>>, esc |-> FALSE, cls |-> <<>>], [i \in DOMAIN re |-> i]).items

Takes(it, c) == it.k = "any" \/ (it.k = "one" /\ c \in it.set) \/ (it.k = "none" /\ c \notin it.set)

\* Where a match of the items from p on may end, and the groups it has.
RECURSIVE MatchFrom(_, _, _, _, _)
MatchFrom(items, s, p, groups, bol) ==
    IF items = <<>> THEN {[to |-> p, groups |-> groups]}
    ELSE LET it   == items[1]
             rest == Tail(items)
             one(q) == q <= Len(s) /\ Takes(it, s[q])
             open == {i \in DOMAIN groups : groups[i][2] = 0}
             ends == {q \in p..(Len(s) + 1) : \A r \in p..(q - 1) : Takes(it, s[r])}
             copy == IF groups = <<>> THEN <<>> ELSE SubSeq(s, groups[1][1], groups[1][2] - 1)
         IN  CASE it.k = "open" -> MatchFrom(rest, s, p, Append(groups, <<p, 0>>), bol)
               [] it.k = "close" -> MatchFrom(rest, s, p, [groups EXCEPT ![CHOOSE i \in open : \A j \in open : j <= i][2] = p], bol)
               [] it.k = "bol" -> IF p = 1 /\ bol THEN MatchFrom(rest, s, p, groups, bol) ELSE {}
               [] it.k = "eol" -> IF p = Len(s) + 1 THEN MatchFrom(rest, s, p, groups, bol) ELSE {}
               [] it.k = "back" -> IF SubSeq(s, p, p + Len(copy) - 1) = copy /\ p + Len(copy) <= Len(s) + 1
                                   THEN MatchFrom(rest, s, p + Len(copy), groups, bol) ELSE {}
               [] it.k \in {"any", "one", "none"} /\ it.star -> UNION {MatchFrom(rest, s, q, groups, bol) : q \in ends}
               [] it.k \in {"any", "one", "none"} /\ ~it.star -> IF one(p) THEN MatchFrom(rest, s, p + 1, groups, bol) ELSE {}

\* The longest, and of several the one whose groups end last.
Longer(x, y) ==
    \/ x.to > y.to
    \/ x.to = y.to /\ \A i \in DOMAIN x.groups : x.groups[i][2] >= y.groups[i][2] \/ \E j \in 1..(i - 1) : x.groups[j][2] > y.groups[j][2]
Best(ms) == CHOOSE x \in ms : \A y \in ms : Longer(x, y)

\* The match at the front of a text: <<>> or its spans <<from, behind>>, those of
\* the groups behind that of the whole.
MatchAt(items, s, p, bol) ==
    LET ms == MatchFrom(items, s, p, <<>>, bol)
    IN  IF ms = {} THEN <<>> ELSE <<<<p, Best(ms).to>>>> \o Best(ms).groups

SomeRegex(p, s) ==
    LET m == MatchAt(Items(p), s, 1, TRUE)
    IN  IF m = <<>> THEN Expr!NoMatch
        ELSE [end |-> m[1][2] - 1, group |-> IF Len(m) > 1 THEN SubSeq(s, m[2][1], m[2][2] - 1) ELSE <<>>]
ExprLeaf == {[op |-> "word", w |-> w] : w \in {"", "0", "1", "-7", "63", "+3", "ab", "(", "length", "a*"}}
Ops == {"|", "&", "<", "=", ">=", "+", "-", "*", "/", "%", ":"}
ExprUp(X, Y, ops) == [op : ops, l : X, r : Y]
FewWords == {[op |-> "word", w |-> w] : w \in {"0", "1", "-7"}}
FewUp == ExprUp(FewWords, FewWords, Ops \ {":"})
Of(set) == [t : set]
SomeExprs ==
    <<Of(ExprUp(ExprLeaf, ExprLeaf, Ops \cup {"<=", "!=", ">"})), Of([op : {"length"}, args : [1..1 -> ExprLeaf]]),
      Of([op : {"match", "index"}, args : ExprLeaf \X ExprLeaf]), Of([op : {"substr"}, args : ExprLeaf \X ExprLeaf \X FewWords]),
      Of(ExprUp(FewUp, FewWords, Ops)), Of(ExprUp(FewWords, FewUp, Ops))>>

-----------------------------------------------------------------------------
(* find: t has a, d (with a and d, which has b), a closed e and a link l to *)
(* d; x is another file.                                                   *)

Dir(readable) == [type |-> "d", readable |-> readable, mode |-> {}, mtime |-> 90, size |-> 0]
File(mtime, size) == [type |-> "f", readable |-> TRUE, mode |-> {"r"}, mtime |-> mtime, size |-> size]
TreeLstat(p) ==
    CASE p \in {<<"t">>, <<"t", "d">>, <<"t", "d", "d">>} -> Dir(TRUE)
      [] p = <<"t", "e">> -> Dir(FALSE)
      [] p = <<"t", "l">> -> [File(3, 0) EXCEPT !.type = "l"]
      [] p = <<"t", "a">> -> File(90, 10) [] p \in {<<"t", "d", "a">>, <<"t", "l", "a">>} -> File(50, 3)
      [] p = <<"t", "d", "d", "b">> -> File(80, 4) [] p = <<"x">> -> File(60, 3) [] OTHER -> Find!NoFile
TreeStat(p) == IF p = <<"t", "l">> THEN Dir(TRUE) ELSE TreeLstat(p)
TreeEntries(p) ==
    CASE p = <<"t">> -> <<".", "..", "a", "d", "e", "l">> [] p = <<"t", "d">> -> <<"a", ".", "d">>
      [] p = <<"t", "d", "d">> -> <<"b">> [] p = <<"t", "l">> -> <<"a">> [] OTHER -> <<>>
SameText(pattern, name, kind) == pattern = name
Bits(w) == {"r"}

FindTest(words) == [op |-> "test", words |-> words]
FindAct(word) == [op |-> "act", words |-> <<word>>]
FewTests == {FindTest(<<"-name", "a">>), FindTest(<<"-type", "d">>), FindAct("-print"), FindAct("-prune")}
AllTests == FewTests \cup {FindTest(<<"-name", "d">>), FindTest(<<"-mtime", "+1">>), FindTest(<<"-mmin", "-3">>), FindTest(<<"-size", "+3c">>),
                           FindTest(<<"-newer", "x">>), FindTest(<<"-perm", "-r">>)}
FindNot(X) == [op : {"not"}, l : X]
FindUp(X, Y) == [op : {"and", "or"}, l : X, r : Y]
FewUps == FindUp(FewTests, FewTests)
Walks(trees, follow) ==
    [t : trees, o : [follow : follow, depth : BOOLEAN, max : {100}, word : {""}, start : {"t"}] \cup [follow : {FALSE}, depth : BOOLEAN, max : {1}, word : {"1"}, start : {"t"}]]
SomeFinds ==
    <<Walks(AllTests, BOOLEAN), Walks(FindNot(AllTests), BOOLEAN), Walks(FindUp(AllTests, AllTests), BOOLEAN),
      Walks(FindNot(FewUps), {FALSE}), Walks(FindUp(FewUps, FewTests), {FALSE}), Walks(FindUp(FewTests, FewUps), {FALSE})>>

-----------------------------------------------------------------------------
(* Files on two devices, A and B: directories with a file, a link to a file *)
(* and one to a directory, an empty file, and names that are in both.       *)

Plain(data) == [type |-> "f", data |-> data]
Link(to) == [type |-> "l", to |-> to]
Folder == [type |-> "d", mode |-> {"u", "g", "o"}]
Files ==
    (<<"A">> :> Folder) @@ (<<"B">> :> Folder) @@ (<<"A", "d">> :> Folder) @@ (<<"A", "d", "e">> :> Plain(<<"1", "2">>))
    @@ (<<"A", "d", "l">> :> Link(<<"A", "f">>)) @@ (<<"A", "f">> :> Plain(<<"1">>)) @@ (<<"A", "m">> :> Link(<<"A", "d">>))
    @@ (<<"A", "x">> :> Plain(<<>>)) @@ (<<"B", "g">> :> Plain(<<"3">>)) @@ (<<"B", "h">> :> Folder)
    @@ (<<"B", "h", "f">> :> Plain(<<"4">>)) @@ (<<"B", "n">> :> Link(<<"A", "f">>))

Tool(tool, args, flags, modes, umasks, yes, k) ==
    LET Jobs(faults, kills) == [tool : {tool}, args : args, flags : flags, mode : modes, umask : umasks, yes : yes, fault : faults, kill : kills]
    IN  <<Jobs(0..k, {0}), Jobs({0}, 1..k)>>
Sources2 == {<<"A", "f">>, <<"A", "d">>, <<"A", "m">>, <<"A", "d", "l">>, <<"A", "none">>}
Targets2 == {<<"A", "f">>, <<"A", "d">>, <<"A", "x">>, <<"A", "new">>, <<"B">>, <<"B", "g">>, <<"B", "h">>, <<"B", "n">>, <<"B", "new">>, <<"B", "none", "x">>}
Pairs == {<<s, t>> : s \in Sources2, t \in Targets2} \cup {<<<<"A", "f">>, <<"A", "d">>, t>> : t \in {<<"B">>, <<"B", "h">>}}
SomeFileJobs ==
    Tool("mv", Pairs, {{}, {"i"}}, {{}}, {{"o"}}, {FALSE}, 12)
    \o Tool("mv", {<<<<"A", "d">>, <<"B">>>>, <<<<"A", "d">>, <<"B", "h">>>>}, {{}}, {{}}, {{"o"}}, {FALSE}, 24)
    \o Tool("cp", Pairs, {{"D"}, {"R"}, {"R", "i"}, {"D", "R"}, {"R", "s"}, {"D", "l"}}, {{}}, {{"o"}}, {TRUE}, 9)
    \o Tool("cp", {<<<<"A">>, <<"A", "d">>>>, <<<<"A">>, <<"B">>>>}, {{"R"}}, {{}}, {{"o"}}, {TRUE}, 24)
    \o Tool("rm", {<<<<"A", "d">>>>, <<<<"A", "m">>>>, <<<<"A", "none">>>>, <<<<"A", "f">>, <<"B">>>>, <<<<"B", "h", "f">>>>},
              {{}, {"R"}, {"R", "f"}, {"R", "i"}, {"i"}}, {{}}, {{"o"}}, BOOLEAN, 12)
    \o Tool("rmdir", {<<<<"B", "h">>>>, <<<<"A", "f">>>>, <<<<"A", "none">>>>}, {{}, {"p"}}, {{}}, {{"o"}}, {TRUE}, 3)
    \o Tool("mkdir", {<<<<"B", "h">>>>, <<<<"B", "new">>>>, <<<<"B", "new", "a", "b">>>>, <<<<"A", "m", "new">>>>, <<<<"A", "f", "new">>, <<"A", "new">>>>},
              {{}, {"R"}}, {Kept!NotGiven, {"u"}}, {{"o"}, {"u"}, {}}, {TRUE}, 7)

-----------------------------------------------------------------------------
(* Texts and directories that differ; lines whose sums collide.            *)

CharSum(c) == CASE c \in {"a", "c"} -> 1 [] c = "b" -> 2 [] OTHER -> 5
SomeHash(s) == FoldLeft(LAMBDA n, c : 7 * n + CharSum(c), 1, SelectSeq(s, LAMBDA c : c # "z"))
Texts(lines, n) ==
    LET ended == {Glue([i \in DOMAIN q |-> Append(q[i], "\n")]) : q \in WordsOf(lines, n)}
    IN  ended \cup {Front(t) : t \in ended \ {<<>>}}
FewZ == Texts({<<"a">>, <<"a", "z">>}, 2)
SomeZ == Texts({<<"a">>, <<"a", "z">>}, 3)
Ab2 == Texts({<<"a">>, <<"b">>}, 2)
Ab3 == Texts({<<"a">>, <<"b">>}, 3)
Ab4 == Texts({<<"a">>, <<"b">>}, 4)
Ab5 == Texts({<<"a">>, <<"b">>}, 5)
Abc == Texts({<<"a">>, <<"b">>, <<"c">>}, 2)
AbCa == Texts({<<"a">>, <<"b">>, <<"c", "a">>}, 2)
Blanks == {<<>>, <<"a">>, <<"a", " ">>, <<" ", "a">>, <<"a", " ", "a">>, <<"a", " ", " ", "a">>, <<"a", "a">>}
Blank1 == Texts(Blanks, 1)
Blank2 == Texts(Blanks, 2)
Opt(flags, context) == [flags |-> flags, context |-> context, start |-> <<>>]
TextFile(t) == [type |-> "f", text |-> t]
TextDir == [type |-> "d", text |-> <<>>]
OfTexts(old, new, opts) == [dirs : {FALSE}, old : old, new : new, opt : opts]

None == TextFile(<<"none">>)
Present(fs) == [q \in {q \in DOMAIN fs : fs[q] # None} |-> fs[q]]
TextA == <<"a", "\n">>
TextB == <<"b", "\n", "a", "\n">>
TreeOf(d) ==
    {Present((d :> TextDir) @@ ((d \o <<"f">>) :> v) @@ ((d \o <<"g">>) :> TextDir) @@ ((d \o <<"g", "f">>) :> w) @@ ((d \o <<"h">>) :> y)) :
        v \in {TextFile(TextA), TextFile(TextB), None}, w \in {TextFile(TextA), TextFile(TextB), None}, y \in {TextFile(<<>>), TextFile(TextB), None, TextDir}}
TreesA == TreeOf(<<"a">>)
TreesB == TreeOf(<<"b">>)
SomeDiffs ==
    <<OfTexts(SomeZ, FewZ, {Opt({}, 1), Opt({}, 3)}), OfTexts(Ab5, Ab3, {Opt({}, 1), Opt({}, 0)}), OfTexts(Abc, AbCa, {Opt({}, 1)}),
      OfTexts(Blank2, Blank1, {Opt({"b"}, 1), Opt({"w"}, 1)}),
      [dirs : {TRUE}, old : TreesA, new : TreesB, opt : [flags : {{}, {"r"}, {"r", "N"}}, context : {1}, start : {<<>>, <<"g">>}]]>>

On(bases, j) == [base : bases, dirs : {FALSE}, old : j.old, new : j.new, opt : j.opt]
SomePatches ==
    <<On({<<"old">>}, [old |-> Ab4, new |-> Ab3, opt |-> {Opt({}, 1), Opt({}, 2)}]),
      On(Ab3, [old |-> Ab2, new |-> Ab2, opt |-> {Opt({}, 1), Opt({}, 0)}]),
      [base : {<<"old">>}, dirs : {TRUE}, old : TreesA, new : TreesB, opt : {Opt({"r"}, 1), Opt({"r", "N"}, 1)}]>>

-----------------------------------------------------------------------------
(* gzip and gunzip: bytes of three bits, matches of at most five of them,  *)
(* codes of at most four bits.                                             *)

Bit(n, i) == (n \div 2^i) % 2
XorTable == [a \in 0..7, b \in 0..7 |-> Bit(Bit(a, 0) + Bit(b, 0), 0) + 2 * Bit(Bit(a, 1) + Bit(b, 1), 0) + 4 * Bit(Bit(a, 2) + Bit(b, 2), 0)]
SomeXor(a, b) == XorTable[a, b]
FewBits(n) == IF n \in {8, 9} THEN 3 ELSE 4
Mixed(c, b) == (c * 5 + b + 7) % 4096
ExtraL == (0 :> 0) @@ (1 :> 1) @@ (2 :> 0)
ExtraD == (0 :> 0) @@ (1 :> 0) @@ (2 :> 1) @@ (3 :> 1)
CopyLens == (0 :> 3) @@ (1 :> 4) @@ (2 :> 5) @@ (3 :> 0) @@ (4 :> 0)
CopyExt  == (0 :> 0) @@ (1 :> 1) @@ (2 :> 0) @@ (3 :> 99) @@ (4 :> 99)
CopyDist == (0 :> 1) @@ (1 :> 2) @@ (2 :> 3) @@ (3 :> 5)
BlOrder  == <<5, 6, 7, 0, 2, 1, 3, 4>>
Bits112  == <<1, 1, 2>>
Bits223  == <<2, 2, 3>>

Shuffled(seed, n, chars) ==
    FoldLeft(LAMBDA acc, i : [x |-> (acc.x * 171 + 11213) % 30269, t |-> Append(acc.t, chars[1 + ((acc.x \div 7) % Len(chars))])],
             [x |-> seed, t |-> <<>>], [i \in 1..n |-> i]).t
Alphabets == {<<0, 1>>, <<0, 1, 2>>, <<1, 1, 1, 2, 3>>, <<0, 1, 2, 3, 4, 5, 6, 7>>}
Periodic == {[i \in 1..n |-> i % k] : n \in {1, 20, 60}, k \in {1, 2, 3, 7}}
Shuffles(seeds, lens) == {Shuffled(997 * s + 13, n, a) : s \in seeds, n \in lens, a \in Alphabets}
LongTexts == Periodic \cup Shuffles({1, 2, 3}, {20, 35, 60})
FewTexts == Shuffles({5}, {7, 30}) \cup {<<>>}

Zfile(bytes) == [type |-> "f", data |-> <<bytes>>]
PathA == <<<<"a">>>>
PathB == <<<<"b">>>>
Gz(p) == <<Append(p[1], "gz")>>
Tgz(p) == <<Append(p[1], "tgz")>>
OneRun(tool, opts, args, files) ==
    [tool : {tool}, opt : opts, args : args, files : files, bad : {999}, fault : {0}, kill : {0}, chunk : {100}, beyond : {0}]
WithFaults(tool, opts, args, files, k) ==
    LET Jobs(bads, faults, kills) ==
            [tool : {tool}, opt : opts, args : args, files : files, bad : bads, fault : faults, kill : kills, chunk : {100}, beyond : {0}]
    IN  <<Jobs({3, 30}, {0}, {0}), Jobs({999}, 1..k, {0}), Jobs({999}, {0}, 1..k)>>

\* Files as gzip makes them: with the static code, with trees of its own, stored;
\* and blocks with trees of their own where another code would have been shorter.
Magic == <<31, 139, 8, 0, 0, 0, 0, 0, 2, 3>>
Small == Magic \o <<3, 2, 5, 1, 5, 3, 0, 3, 3, 0, 2, 7, 4, 0, 0, 1, 0, 0>>
Dynamic ==
    Magic \o <<3, 6, 5, 3, 3, 6, 4, 6, 1, 0, 6, 7, 6, 2, 3, 2, 7, 0, 0, 7, 4, 2, 3, 6, 5, 6, 1, 2, 5, 1, 5, 6, 0, 0, 4, 5, 2, 2, 3, 4, 0, 0>>
AsStored == Magic \o <<1, 5, 0, 2, 7, 1, 2, 3, 7, 6, 7, 5, 5, 2, 5, 0, 0, 0>>
OwnTrees ==
    {Magic \o <<5, 4, 4, 0, 0, 5, 4, 2, 6, 1, 0, 1, 5, 1, 0, 0, 1, 0, 0, 0>>, Magic \o <<5, 4, 4, 0, 4, 0, 4, 4, 2, 4, 1, 0, 0, 0, 0, 0, 0, 0>>,
     Magic \o <<5, 4, 4, 0, 0, 1, 6, 2, 7, 4, 0, 2, 3, 6, 4, 1, 0, 2, 0, 0, 0>>, Magic \o <<5, 4, 4, 0, 0, 1, 6, 2, 7, 4, 0, 2, 6, 4, 1, 0, 1, 3, 0, 0, 0>>,
     Magic \o <<5, 7, 7, 0, 4, 7, 5, 7, 1, 1, 3, 7, 0, 4, 1, 5, 1, 6, 6, 3, 6, 5, 0, 0, 2, 4, 6, 3, 5, 1, 0, 0>>}
Flipped(bytes, i, b) == [bytes EXCEPT ![i] = IF Bit(@, b) = 1 THEN @ - 2^b ELSE @ + 2^b]
Flips(bytes, lo, hi) == {Flipped(bytes, i, b) : i \in lo..hi, b \in 0..2}
Cuts(bytes) == {SubSeq(bytes, 1, n) : n \in 0..Len(bytes)}
\* Members behind each other, rubbish behind a member, optional fields.
TwoMembers == {Small \o AsStored, Small \o <<31>>, Small \o <<31, 139, 8, 0, 1>>, Small \o <<1, 2>>, AsStored \o Small \o <<0>>,
           <<31, 139, 7>> \o SubSeq(Small, 4, Len(Small)), <<31>>, <<30, 139>>}
Optional(f) ==
    <<31, 139, 8, f, 0, 0, 0, 0, 0, 3>> \o (IF Bit(f, 2) = 1 THEN <<1, 0, 5>> ELSE <<>>) \o (IF Bit(f, 3) = 1 THEN <<5, 0>> ELSE <<>>)
    \o (IF Bit(f, 4) = 1 THEN <<6, 6, 0>> ELSE <<>>) \o (IF Bit(f, 1) = 1 THEN <<4, 4>> ELSE <<>>)
Headed == {Optional(f) \o SubSeq(AsStored, 11, Len(AsStored)) : f \in {2 * i : i \in 0..15}}
OneGz(set) == {(Gz(PathA) :> Zfile(bytes)) : bytes \in set}
Damaged ==
    OwnTrees \cup {f \o g : f \in OwnTrees, g \in {Small, AsStored}} \cup Flips(Small, 3, Len(Small)) \cup Flips(AsStored, 10, Len(AsStored)) \cup Flips(Dynamic, 11, 32)
    \cup Cuts(Small) \cup Cuts(AsStored) \cup Cuts(Dynamic) \cup TwoMembers \cup Headed
TwoFiles == {(PathA :> Zfile(t)) @@ (PathB :> Zfile(u)) : t \in FewTexts, u \in FewTexts}
Home == (PathA :> Zfile(<<1, 1, 1>>)) @@ (Gz(PathB) :> Zfile(Small)) @@ (Tgz(PathB) :> Zfile(AsStored)) @@ (<<<<"d">>>> :> [type |-> "d", mode |-> {}])
        @@ (<<<<"c">>>> :> Zfile(<<2>>)) @@ (Gz(<<<<"c">>>>) :> Zfile(Small))
PlainArgs == {PathA, PathB, <<<<"d">>>>, <<<<"c">>>>}
HomeArgs == PlainArgs \cup {Gz(PathA), Gz(PathB), Tgz(PathB), Gz(<<<<"c">>>>)}
SomeZips ==
    <<[tool : {"gzip"}, opt : {""}, args : {<<PathA>>}, files : {(PathA :> Zfile(t)) : t \in LongTexts}, bad : {999}, fault : {0}, kill : {0},
       chunk : {5, 100}, beyond : {0, 1}],
      OneRun("gzip", {"", "c"}, {<<PathA, PathB>>}, TwoFiles), OneRun("gunzip", {""}, {<<Gz(PathA)>>}, OneGz(Damaged)),
      OneRun("gunzip", {"c", "t"}, {<<Gz(PathA)>>}, OneGz(TwoMembers)),
      OneRun("gzip", {"", "c"}, {<<p, q>> : p \in PlainArgs, q \in PlainArgs}, {Home}),
      OneRun("gunzip", {"", "c", "t"}, {<<p, q>> : p \in HomeArgs, q \in HomeArgs}, {Home})>>
    \o WithFaults("gzip", {"", "c"}, {<<PathA, PathB>>}, {(PathA :> Zfile(<<1, 2, 1, 2, 1, 2, 1, 7>>)) @@ (PathB :> Zfile([i \in 1..30 |-> i % 7]))}, 22)
    \o WithFaults("gunzip", {"", "c", "t"}, {<<Gz(PathA), Gz(PathB)>>}, {(Gz(PathA) :> Zfile(Dynamic)) @@ (Gz(PathB) :> Zfile(Small))}, 14)

-----------------------------------------------------------------------------
(* Regular expressions: pieces one behind the other, alternatives, groups, *)
(* copies of groups, sets, and the ends of lines and words.                *)

Codes ==
    ("NUL" :> 0) @@ ("\n" :> 10) @@ ("$" :> 36) @@ ("(" :> 40) @@ (")" :> 41) @@ ("*" :> 42) @@ ("+" :> 43) @@ ("," :> 44) @@ ("-" :> 45)
    @@ ("." :> 46) @@ ("0" :> 48) @@ ("1" :> 49) @@ ("2" :> 50) @@ (":" :> 58) @@ ("<" :> 60) @@ (">" :> 62) @@ ("?" :> 63) @@ ("A" :> 65)
    @@ ("B" :> 66) @@ ("[" :> 91) @@ ("\\" :> 92) @@ ("]" :> 93) @@ ("^" :> 94) @@ ("a" :> 97) @@ ("b" :> 98) @@ ("c" :> 99) @@ ("n" :> 110)
    @@ ("w" :> 119) @@ ("x" :> 120) @@ ("{" :> 123) @@ ("|" :> 124) @@ ("}" :> 125)
CodeOf(x) == Codes[x]
Signs == DOMAIN Codes
SmallLetter(x) == CASE x = "A" -> "a" [] x = "B" -> "b" [] OTHER -> x
InWords == {"0", "1", "2", "A", "B", "a", "b", "c", "n", "w"}
Classes == <<"a">> :> {"a", "b"}

Lit(x) == [k |-> "text", text |-> <<x>>, does |-> "take", set |-> {x}, but |-> FALSE]
Set(text, set) == [k |-> "text", text |-> text, does |-> "take", set |-> set, but |-> FALSE]
NotSet(text, set) == [k |-> "text", text |-> text, does |-> "take", set |-> set, but |-> TRUE]
Hold(text, at) == [k |-> "text", text |-> text, does |-> "hold", at |-> at]
Dot == NotSet(<<".">>, {})
NotA == NotSet(<<"[", "^", "a", "]">>, {"a"})
Group(r) == [k |-> "group", n |-> 1, r |-> r]
How(text, min, max) == [text |-> text, min |-> min, max |-> max]
Plainly == How(<<>>, 1, 1)
AnyTimes == How(<<"*">>, 0, 100)
AllHows ==
    {Plainly, AnyTimes, How(<<"+">>, 1, 100), How(<<"?">>, 0, 1), How(<<"{", "2", "}">>, 2, 2), How(<<"{", "1", ",", "2", "}">>, 1, 2),
     How(<<"{", "0", ",", "1", "}">>, 0, 1), How(<<"{", "2", ",", "}">>, 2, 100)}
PiecesOf(atoms, hows) == {Pattern!Piece(a, h.text, h.min, h.max) : a \in atoms, h \in hows}
Branches(pieces, lo, hi) == UNION {[1..k -> pieces] : k \in lo..hi}

AbPlain == PiecesOf({Lit("a"), Lit("b")}, {Plainly})
AbPieces == PiecesOf({Lit("a"), Lit("b")}, {Plainly, AnyTimes})
AllPieces == PiecesOf({Lit("a"), Lit("b"), Dot, NotA}, AllHows)
GroupsOf == {<<b>> : b \in Branches(AbPieces, 0, 2)} \cup {<<b, c>> : b \in Branches(AbPlain, 0, 2), c \in Branches(AbPieces, 0, 1)}
GroupPieces(hows) == PiecesOf({Group(r) : r \in GroupsOf}, hows)
Copied == Pattern!Once([k |-> "text", text |-> <<"\\", "1">>, does |-> "copy", n |-> 1])
SetAtoms ==
    {Set(<<"[", "a", "b", "]">>, {"a", "b"}), Set(<<"[", "a", "-", "c", "]">>, {"a", "b", "c"}), NotSet(<<"[", "^", "a", "-", "b", "]">>, {"a", "b"}),
     Set(<<"[", "]", "a", "]">>, {"a", "]"}), NotSet(<<"[", "^", "]", "]">>, {"]"}), Set(<<"[", "a", "-", "]">>, {"a", "-"}),
     Set(<<"[", "[", ":", "a", ":", "]", "-", "]">>, {"a", "b", "-"}), Set(<<"[", "[", ":", "a", "]">>, {"[", ":", "a"}),
     Set(<<"[", "*", "-", ".", "]">>, {"*", "+", ",", "-", "."}), Dot, Set(<<"\\", ".">>, {"."}), Set(<<"\\", "n">>, {"n"}), Lit("A")}
LinePieces ==
    PiecesOf({Dot, NotA, Lit("\n"), Lit("a"), Set(<<"\\", ".">>, {"."})}, {Plainly, AnyTimes})
    \cup PiecesOf({Hold(<<"^">>, "bol"), Hold(<<"$">>, "eol"), Hold(<<"\\", "<">>, "wbeg"), Hold(<<"\\", ">">>, "wend")}, {Plainly})

LineEnds == PiecesOf({Lit("\n")}, {Plainly, AnyTimes}) \cup PiecesOf({Dot}, {AnyTimes})
OverAb ==
    <<<<>>, <<"a">>, <<"b">>, <<"a", "a">>, <<"a", "b">>, <<"b", "a">>, <<"b", "b">>, <<"a", "a", "b">>, <<"a", "b", "a">>, <<"b", "a", "a">>,
      <<"a", "b", "b">>, <<"b", "b", "a">>, <<"c", "a", "a", "a">>, <<"a", "b", "a", "b">>, <<"b", "a", "a", "b">>, <<"c", "b", "a", "c">>>>
OverSigns ==
    <<<<"a">>, <<"A">>, <<"b">>, <<"B">>, <<"]">>, <<"[">>, <<"-">>, <<"+">>, <<".">>, <<":">>, <<"n">>, <<"a", "]">>, <<"B", "a">>, <<"-", "a">>, <<"b", "A", "c">>>>
OverLines ==
    <<<<>>, <<"\n">>, <<"a">>, <<"-", "a">>, <<"a", "\n">>, <<"\n", "a">>, <<"a", "-", "\n">>, <<"-", "\n", "a">>, <<"a", "\n", "-", "a">>, <<"\n", "\n">>,
      <<".", "\n", "a">>, <<"-", "a", ".", "\n">>>>
LongAs == <<[i \in 1..24 |-> "a"], <<"b">>, [i \in 1..12 |-> "a"]>>
Regexes(rs, ext, cflags, eflags, texts) ==
    [wrong : {"none"}, r : rs, extended : ext, cflags : cflags, eflags : eflags, texts : {texts}]
\* In a basic expression ^ is an anchor at its front only, $ at its end.
Basically(bs) ==
    {<<b>> : b \in {b \in bs : \A i \in DOMAIN b : b[i].a.does = "hold" => (b[i].a.at = "bol" => i = 1) /\ (b[i].a.at = "eol" => i = Len(b))}}
Wrongly(extended, text, err) ==
    [wrong |-> err, text |-> text, extended |-> extended, cflags |-> {}, eflags |-> {}, texts |-> <<>>]
SomeRegexes ==
    <<Regexes({<<b>> : b \in Branches(AllPieces, 1, 2)}, {TRUE}, {{}}, {{}}, OverAb),
      Regexes({<<b>> : b \in Branches(PiecesOf({Lit("a"), Dot}, AllHows), 1, 2)}, {FALSE}, {{}}, {{}}, OverAb),
      Regexes({<<b, c>> : b \in Branches(AbPieces, 0, 2), c \in Branches(AbPieces, 0, 2)}, {TRUE}, {{}}, {{}}, OverAb),
      Regexes({<<<<g>> \o t>> : g \in GroupPieces({h \in AllHows : h.max # 2 /\ h.min < 2}), t \in Branches(AbPieces, 0, 1)}, {TRUE}, {{}}, {{}}, OverAb),
      Regexes({<<<<g>> \o t \o <<Copied>>>> : g \in GroupPieces({Plainly, AnyTimes}), t \in Branches(AbPlain, 0, 1)}, {FALSE}, {{}}, {{}}, OverAb),
      Regexes({<<b>> : b \in Branches(PiecesOf(SetAtoms, {Plainly, AnyTimes}), 1, 2)}, {TRUE}, {{}, {"ICASE"}}, {{}}, OverSigns),
      Regexes({<<b>> : b \in Branches(LinePieces, 1, 2)}, {TRUE}, {{}, {"NEWLINE"}}, {{}, {"NOTBOL"}, {"NOTEOL"}}, OverLines),
      Regexes(Basically({<<x, y, z>> : x \in LinePieces, y \in LineEnds, z \in LinePieces}), {FALSE}, {{"NEWLINE"}}, {{}}, OverLines),
      Regexes({<<b>> : b \in Branches(PiecesOf({Lit("a"), Dot}, {Plainly, AnyTimes}), 1, 2)}, {TRUE}, {{}}, {{}}, LongAs),
      {Wrongly(FALSE, <<"\\", "(">>, "EPAREN"), Wrongly(FALSE, <<"\\", ")">>, "EPAREN"), Wrongly(FALSE, <<"[", "a">>, "EBRACK"),
       Wrongly(FALSE, <<"[", "b", "-", "a", "]">>, "ERANGE"), Wrongly(FALSE, <<"[", "[", ":", "b", ":", "]", "]">>, "ECTYPE"),
       Wrongly(FALSE, <<"a", "\\", "{">>, "EBRACE"), Wrongly(FALSE, <<"a", "\\", "{", "1">>, "EBRACE"),
       Wrongly(FALSE, <<"a", "\\", "{", "2", ",", "1", "\\", "}">>, "BADBR"), Wrongly(FALSE, <<"\\", "1">>, "ESUBREG"),
       Wrongly(FALSE, <<"a", "\\">>, "EESCAPE"), Wrongly(TRUE, <<"(", "a">>, "EPAREN"), Wrongly(TRUE, <<"a", "[">>, "EBRACK")}>>

-----------------------------------------------------------------------------
(* sed: lines that are selected in every way, commands that share the      *)
(* pattern space and the hold space, ranges, branches and blocks.          *)

Cmd(fn, text) ==
    [fn |-> fn, sel |-> <<>>, neg |-> FALSE, text |-> text, from |-> <<>>, r |-> <<>>, rep |-> <<>>, nth |-> 1, p |-> FALSE]
At(n) == [k |-> "line", n |-> n, text |-> <<ToString(n)>>]
LastOne == [k |-> "last", text |-> <<"$">>]
With(r) == [k |-> "re", r |-> r]
Word(x) == <<<<Pattern!Once(Lit(x))>>>>
Sels == {<<>>} \cup {<<a>> : a \in {At(2), LastOne, With(Word("a"))}}
        \cup {<<a, b>> : a \in {At(1), At(2), With(Word("a"))}, b \in {At(1), At(2), LastOne, With(Word("b"))}}
Selected(c, sels, negs) == {[c EXCEPT !.sel = s, !.neg = n] : s \in sels, n \in negs}
Simple == {Cmd(fn, <<>>) : fn \in {"p", "d", "D", "P", "=", "q", "n", "N", "g", "G", "h", "H", "x"}}
Texted == {Cmd(fn, <<"b">>) : fn \in {"a", "i", "c"}} \cup {[Cmd("y", <<"b", "c">>) EXCEPT !.from = <<"a", "b">>]}
Char(x) == [k |-> "char", text |-> <<x>>, x |-> x]
All1 == [k |-> "all", text |-> <<"&">>]
Group1 == [k |-> "group", n |-> 1, text |-> <<"\\", "1">>]
Escaped1(x, is) == [k |-> "char", text |-> <<"\\", x>>, x |-> is]
Sub(r, rep, nth, p) == [Cmd("s", <<>>) EXCEPT !.r = r, !.rep = rep, !.nth = nth, !.p = p]

SedTexts == {<<"a", "\n", "b", "\n">>, <<"a", "\n", "c", "a", "\n", "b", "a", "\n", "c", "\n">>, <<"b">>}
SedJob(cmds, how, quiets, texts, args, fs, inplace, faults, kills) ==
    [wrong : {"none"}, cmds : cmds, how : {how}, extended : {FALSE}, quiet : quiets, args : args, stdin : texts, fs : {fs}, inplace : {inplace},
     fault : faults, kill : kills]
SedRun(cmds, how, quiets, texts) == SedJob(cmds, how, quiets, texts, {<<>>}, <<>>, FALSE, {0}, {0})
OnePlus(c, sels) == Selected(c, sels, {FALSE})
Few1 == {<<>>, <<At(2)>>, <<LastOne>>, <<With(Word("b"))>>, <<At(1), With(Word("b"))>>}
Mixed1 == UNION {OnePlus(c, {<<>>, <<LastOne>>, <<With(Word("a")), With(Word("c"))>>}) : c \in Simple \cup {Cmd("c", <<"x">>)}}
          \cup UNION {Selected(c, {<<>>, <<At(2)>>}, {FALSE}) : c \in {Cmd("a", <<"x">>), Cmd("i", <<"x">>), Sub(Word("a"), <<Char("x")>>, 1, FALSE), Sub(Word("b"), <<>>, 0, TRUE)}}
NotOnLast == [Cmd("N", <<>>) EXCEPT !.sel = <<LastOne>>, !.neg = TRUE]
Holders == {Cmd(fn, <<>>) : fn \in {"g", "G", "h", "H", "x", "N", "P"}} \cup {[Cmd("d", <<>>) EXCEPT !.sel = <<LastOne>>, !.neg = TRUE]}
Windows == {Cmd(fn, <<>>) : fn \in {"D", "N", "h", "P", "n", "p", "="}} \cup {NotOnLast, [Cmd("d", <<>>) EXCEPT !.sel = <<With(Word("c"))>>]}
Rs == Basically(Branches(PiecesOf({Lit("a"), Dot, Hold(<<"^">>, "bol")}, {Plainly}) \cup PiecesOf({Lit("b")}, {AnyTimes}), 1, 2))
      \cup {<<<<Pattern!Once(Group(<<<<Pattern!Once(Dot)>>>>)), Copied>>>>, <<<<Pattern!Once(Lit("a")), Pattern!Once(Hold(<<"$">>, "eol"))>>>>}
Reps == {<<>>, <<Char("x")>>, <<All1, Char("x"), All1>>, <<Escaped1("&", "&")>>, <<Escaped1("n", "\n")>>}
SubsOf(rs, reps) == {Sub(r, rep, nth, p) : r \in rs, rep \in reps, nth \in {0, 1, 2}, p \in BOOLEAN}
Copying == Sub(<<<<Pattern!Once(Group(<<<<Pattern!Once(Dot)>>>>))>>>>, <<Group1, Group1>>, 1, FALSE)
LongTexts1 == {<<"a", "b", "a", "b", "b", "a", "\n", "a", "a", "\n", "b", "\n">>}
To(fn, label) == Cmd(fn, <<label>>)
Not(c, sel) == [c EXCEPT !.sel = sel, !.neg = TRUE]
Jumps ==
    {<<To(":", "a"), c, To(fn, "a")>> : fn \in {"t"}, c \in {Sub(Word("a"), <<Char("x")>>, 1, p) : p \in BOOLEAN}}
    \cup {<<To(":", "a"), Not(Cmd("N", <<>>), <<LastOne>>), Not(To("b", "a"), <<LastOne>>), c>> : c \in {Sub(<<<<Pattern!Once(Set(<<"\\", "n">>, {"\n"}))>>>>, <<Char("x")>>, n, FALSE) : n \in {0, 1, 2}}}
    \cup {<<Sub(Word("a"), <<Char("x")>>, 1, FALSE), c, Cmd("p", <<>>), To(":", "a"), Cmd("=", <<>>)>> :
             c \in {To(fn, "a") : fn \in {"b", "t", "T"}} \cup {Cmd(fn, <<>>) : fn \in {"b", "t", "T"}}}
Blocks ==
    {<<[Cmd("{", <<>>) EXCEPT !.sel = s, !.neg = n], c, d, Cmd("}", <<>>), Cmd("=", <<>>)>> :
        s \in {<<At(2)>>, <<With(Word("a")), With(Word("b"))>>}, n \in BOOLEAN, c \in {Cmd("p", <<>>), Cmd("N", <<>>)}, d \in {Cmd("D", <<>>), Cmd("x", <<>>), Cmd("d", <<>>)}}
Home1 == (<<"a">> :> <<"a", "\n", "b">>) @@ (<<"b">> :> <<"c", "\n", "a", "\n">>) @@ (<<"c">> :> <<>>)
FileCmds == UNION {Selected(c, {<<>>, <<At(2)>>, <<LastOne>>}, {FALSE}) : c \in {Cmd("r", <<"b">>), Cmd("r", <<"n">>), Cmd("w", <<"w">>), Cmd("=", <<>>), Cmd("i", <<"x">>)}}
OnFiles(cmds, args) == SedJob(cmds, "block", {FALSE}, {<<>>}, args, Home1, FALSE, {0}, {0})
InPlace(cmds, faults, kills) == SedJob(cmds, "block", {FALSE}, {<<>>}, {<<<<"a">>>>, <<<<"b">>, <<"a">>>>}, Home1, TRUE, faults, kills)
Edits == {<<Sub(Word("a"), <<Char("x")>>, 1, FALSE)>>, <<[Cmd("d", <<>>) EXCEPT !.sel = <<LastOne>>]>>, <<[Cmd("i", <<"x">>) EXCEPT !.sel = <<With(Word("a"))>>]>>, <<Cmd("G", <<>>)>>}
NoScript(texts, inplace) ==
    [wrong : {"die"}, text : texts, extended : BOOLEAN, quiet : {FALSE}, args : {IF inplace THEN <<<<"a">>>> ELSE <<>>}, stdin : {<<"a", "\n", "b">>}, fs : {Home1},
     inplace : {inplace}, fault : {0}, kill : {0}]
NotScripts ==
    {<<"1">>, <<"1", ",", "p">>, <<"k">>, <<"s", "/", "a">>, <<"s", "/", "a", "/", "b">>, <<"s", "/", "a", "/", "b", "/", "z">>, <<"s", "/", "[", "/", "b", "/">>,
     <<"y", "/", "a", "/">>, <<"r">>, <<"1", ",", "2", "r", "b">>, <<"1", ",", "2", "a", "x">>, <<"/", "a", "p">>, <<"/", "[", "/", "p">>}
DieLate == {<<"b", "a">>, <<"2", "b", "a">>, <<"s", "/", "/", "x", "/">>, <<"2", "{", ";", "p">>}
SomeSeds ==
    <<SedRun({<<c>> : c \in UNION {Selected(c, Sels, BOOLEAN) : c \in Simple \cup {Cmd("c", <<"b">>), [Cmd("y", <<"b", "c">>) EXCEPT !.from = <<"a", "b">>]}}}, "block", BOOLEAN, SedTexts),
      SedRun({<<c, d>> : c \in Mixed1, d \in Mixed1}, "block", {FALSE}, SedTexts),
      SedRun([1..3 -> Holders] \cup [1..3 -> Windows], "semi", {TRUE, FALSE}, {<<"a", "\n", "c", "a", "\n", "b", "a", "\n", "c", "\n">>}),
      SedRun({<<c>> : c \in SubsOf(Rs, Reps) \cup {Copying}}, "each", BOOLEAN, LongTexts1),
      SedRun(Jumps \cup Blocks, "file", BOOLEAN, LongTexts1 \cup SedTexts),
      OnFiles({<<c, d>> : c \in FileCmds, d \in FileCmds}, {<<<<"a">>, <<"b">>>>, <<<<"b">>, <<"n">>, <<"c">>, <<"b">>>>}),
      InPlace(Edits, 0..8, {0}), InPlace(Edits, {0}, 1..8), NoScript(NotScripts \cup DieLate, FALSE), NoScript(DieLate, TRUE)>>
=============================================================================
