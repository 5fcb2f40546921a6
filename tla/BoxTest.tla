------------------------------- MODULE BoxTest ------------------------------
(***************************************************************************)
(* test and [ (coreutils/test.c): a few forms told apart by the number of  *)
(* arguments, and a recursive descent for all the others.  An argument is  *)
(* an atom; what a name or a number stands for is given by the constants.  *)
(***************************************************************************)
EXTENDS BoxNumbers

CONSTANTS
    Stat(_),       \* what stat tells of a name, NoFile when it fails
    Lstat(_),      \* the same without following a symbolic link
    Terminals,     \* the descriptors isatty() knows
    Euid, Egid, Groups   \* who asks

NoNumber == <<>>
NoFile == [type |-> "none"]

-----------------------------------------------------------------------------
(* The operators.                                                          *)

FileAccess == {"-r", "-w", "-x"}
FileType   == {"-f", "-d", "-c", "-b", "-p", "-S"}
FileBit    == {"-u", "-g", "-k"}
UnaryOps   == FileAccess \cup FileType \cup FileBit \cup {"-e", "-s", "-t", "-z", "-n", "-h", "-O", "-G", "-L"}
IntOps     == {"-eq", "-ne", "-ge", "-gt", "-le", "-lt"}
StrOps     == {"=", "==", "!=", "<", ">"}
FileOps    == {"-nt", "-ot", "-ef"}
BinaryOps  == IntOps \cup StrOps \cup FileOps

\* The word at p, EOI behind the last.
EOI == "EOI"
Word(args, p) == IF p > Len(args) THEN EOI ELSE args[p]

\* A value and the last word that was used for it; 2 is what longjmp brings.
Syntax == [v |-> 2, p |-> 0]
Bit(b) == IF b THEN 1 ELSE 0

\* strtol() with its errors: what is neither blank nor part of the number,
\* ERANGE.  No number at all is 0.
Bare(s) == SelectSeq(s, LAMBDA c : c # " ")
LongOf(w) ==
    LET n == IF Bare(Chars(w)) = <<>> THEN <<0>> ELSE Number(Bare(Chars(w)))
        whole == \E i \in 0..Len(Chars(w)) : IsPrefix(Bare(Chars(w)), SubSeq(Chars(w), i + 1, Len(Chars(w))))
    IN  IF n = <<>> \/ ~whole \/ ~Fits(n[1], LongWidth) THEN NoNumber ELSE n
getn(s) == Trunc(LongOf(s)[1])

CompareInts(op, a, b) ==
    CASE op = "-eq" -> a = b [] op = "-ne" -> a # b [] op = "-ge" -> a >= b
      [] op = "-gt" -> a > b [] op = "-le" -> a <= b [] op = "-lt" -> a < b
CompareStrs(op, a, b) ==
    CASE op \in {"=", "=="} -> a = b [] op = "!=" -> a # b
      [] op = "<" -> Before(Chars(a), Chars(b))    [] op = ">" -> Before(Chars(b), Chars(a))
CompareFiles(op, f, g) ==
    /\ f # NoFile /\ g # NoFile
    /\ CASE op = "-nt" -> f.mtime > g.mtime [] op = "-ot" -> f.mtime < g.mtime [] op = "-ef" -> f.ino = g.ino

Compare(op, a, b) ==
    CASE op \in IntOps  -> CompareInts(op, getn(a), getn(b))
      [] op \in StrOps  -> CompareStrs(op, a, b)
      [] op \in FileOps -> CompareFiles(op, Stat(a), Stat(b))

\* The operand at p, its operator behind it.
binop(args, p) ==
    LET op == args[p + 1]
    IN  IF \/ p + 2 > Len(args)
           \/ op \in IntOps /\ NoNumber \in {LongOf(args[p]), LongOf(args[p + 2])}
        THEN Syntax
        ELSE [v |-> Bit(Compare(op, args[p], args[p + 2])), p |-> p + 2]

test_eaccess(st, mode) ==
    \/ Euid = 0 /\ mode # "-x"
    \/ Euid = 0 /\ \E who \in {"user", "group", "other"} : mode \in st.mode[who]
    \/ mode \in st.mode[CASE st.uid = Euid -> "user" [] st.uid # Euid /\ st.gid \in Groups -> "group" [] OTHER -> "other"]

TypeOf == [op \in FileType |->
    CASE op = "-f" -> "reg" [] op = "-d" -> "dir" [] op = "-c" -> "chr" [] op = "-b" -> "blk" [] op = "-p" -> "fifo" [] op = "-S" -> "sock"]

filstat(name, op) ==
    LET st == Stat(name)
    IN  IF op \in {"-h", "-L"} THEN Lstat(name).type = "lnk"
        ELSE /\ st # NoFile
             /\ CASE op = "-e" -> TRUE
                  [] op \in FileAccess -> test_eaccess(st, op)
                  [] op \in FileType -> st.type = TypeOf[op]
                  [] op \in FileBit -> op \in st.mode["bits"]
                  [] op = "-s" -> st.size > 0
                  [] op = "-O" -> st.uid = Euid
                  [] op = "-G" -> st.gid = Egid

Unary(args, p) ==
    LET op == args[p]
    IN  IF p = Len(args) \/ (op = "-t" /\ LongOf(args[p + 1]) = NoNumber) THEN Syntax
        ELSE [p |-> p + 1,
              v |-> Bit(CASE op = "-z" -> args[p + 1] = "" [] op = "-n" -> args[p + 1] # ""
                          [] op = "-t" -> getn(args[p + 1]) \in Terminals
                          [] OTHER -> filstat(args[p + 1], op))]

-----------------------------------------------------------------------------
(* The expressions.  Both sides of -a and -o are read and evaluated.       *)

RECURSIVE Descend(_, _, _)
oexpr(args, p) == Descend("oexpr", args, p)
aexpr(args, p) == Descend("aexpr", args, p)
nexpr(args, p) == Descend("nexpr", args, p)

\* The level below, and this level again behind the operator that joins them.
Closed(args, r) == IF r = Syntax \/ Word(args, r.p + 1) # ")" THEN Syntax ELSE [r EXCEPT !.p = @ + 1]
primary(args, p) ==
    CASE Word(args, p) = EOI -> Syntax
      [] Word(args, p) = "(" -> Closed(args, oexpr(args, p + 1))
      [] Word(args, p) \in UnaryOps -> Unary(args, p)
      [] Word(args, p) \notin UnaryOps \cup {EOI, "("} /\ Word(args, p + 1) \in BinaryOps -> binop(args, p)
      [] OTHER -> [v |-> Bit(args[p] # ""), p |-> p]

Not(r) == IF r = Syntax THEN Syntax ELSE [r EXCEPT !.v = 1 - @]
And(l, r) == IF r = Syntax THEN Syntax ELSE [r EXCEPT !.v = l.v * @]
Or(l, r) == IF r = Syntax THEN Syntax ELSE [r EXCEPT !.v = Bit(l.v + @ > 0)]

AndMore(args, l) == IF l # Syntax /\ Word(args, l.p + 1) = "-a" THEN And(l, aexpr(args, l.p + 2)) ELSE l
OrMore(args, l)  == IF l # Syntax /\ Word(args, l.p + 1) = "-o" THEN Or(l, oexpr(args, l.p + 2)) ELSE l

Descend(level, args, p) ==
    CASE level = "oexpr" -> OrMore(args, aexpr(args, p))
      [] level = "aexpr" -> AndMore(args, nexpr(args, p))
      [] level = "nexpr" -> IF Word(args, p) = "!" THEN Not(nexpr(args, p + 1)) ELSE primary(args, p)

\* The status of a value; after an error under a leading ! the local `negate'
\* was set behind setjmp: it may be seen or not, and a seen one makes 2 a 0.
Status(v, negate) ==
    IF v = 2 THEN (IF negate THEN {0, 2} ELSE {2}) ELSE {IF negate THEN v ELSE 1 - v}
Whole(args, r) == IF r # Syntax /\ r.p < Len(args) THEN {2} ELSE Status(r.v, FALSE)

TestArgs(args) ==
    LET negate == Len(args) > 1 /\ args[1] = "!"
        rest   == IF negate THEN Tail(args) ELSE args
    IN  CASE args = <<>> -> {1}
          [] Len(rest) = 1 -> Status(Bit(rest[1] # ""), negate)
          [] Len(rest) = 3 /\ rest[2] \in BinaryOps -> Status(binop(rest, 1).v, negate)
          [] Len(rest) \in {2} \cup (4..Len(args)) \/ (Len(rest) = 3 /\ rest[2] \notin BinaryOps) -> Whole(args, oexpr(args, 1))

\* The statuses it may end with.
test_main(arg0, args) ==
    LET last == [test |-> "", bracket |-> "]", brackets |-> "]]"]
    IN  IF arg0 = "test" THEN TestArgs(args)
        ELSE IF args = <<>> \/ args[Len(args)] # last[arg0] THEN {2}
        ELSE TestArgs(SubSeq(args, 1, Len(args) - 1))
=============================================================================
