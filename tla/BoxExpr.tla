------------------------------- MODULE BoxExpr ------------------------------
(***************************************************************************)
(* expr (coreutils/expr.c): six levels of operators that read their words  *)
(* from the left, the keywords and the brackets.                           *)
(***************************************************************************)
EXTENDS BoxNumbers

CONSTANT
    Regex(_, _)    \* regexec() at the front: [end, group] or NoMatch; -1 for a group without a match

NoMatch == [end |-> -1, group |-> <<>>]

StrV(s) == [type |-> "string", s |-> s]
IntV(i) == [type |-> "integer", i |-> i]
Died == [type |-> "died"]

null(v) == IF v.type = "integer" THEN v.i = 0 ELSE v.s \in {<<>>, <<"0">>}
tostring(v) == IF v.type = "integer" THEN StrV(Decimal(v.i)) ELSE v
toarith(v)  == IF v.type = "string" /\ Strtol(v.s) # <<>> THEN IntV(Strtol(v.s)[1]) ELSE v
Text(v) == tostring(v).s

\* The difference of two longs is kept in an int.
Sign(l, r) ==
    IF "string" \in {l.type, r.type}
    THEN (IF Text(l) = Text(r) THEN 0 ELSE IF Before(Text(l), Text(r)) THEN -1 ELSE 1)
    ELSE Trunc(l.i - r.i)
Holds(op, cmpval) ==
    CASE op = "<" -> cmpval < 0 [] op = "<=" -> cmpval <= 0 [] op \in {"=", "=="} -> cmpval = 0
      [] op = "!=" -> cmpval # 0 [] op = ">" -> cmpval > 0 [] op = ">=" -> cmpval >= 0
Bool(b) == IntV(IF b THEN 1 ELSE 0)
cmp_common(op, l, r) == Bool(Holds(op, Sign(l, r)))

\* C divides towards 0.
Abs(n) == IF n < 0 THEN -n ELSE n
Quotient(a, b) == IF (a < 0) = (b < 0) THEN Abs(a) \div Abs(b) ELSE -(Abs(a) \div Abs(b))
Result(op, a, b) ==
    CASE op = "+" -> a + b [] op = "-" -> a - b [] op = "*" -> a * b
      [] op = "/" -> Quotient(a, b) [] op = "%" -> a - b * Quotient(a, b)
arithmetic_common(op, l, r) ==
    IF "string" \in {l.type, r.type} \/ (op \in {"/", "%"} /\ r.i = 0) THEN Died
    ELSE IntV(Wrap(Result(op, l.i, r.i), LongWidth))

\* The number of characters matched, or what \( \) matched.
HasGroup(pattern) == \E i \in DOMAIN pattern : pattern[i] = "("
docolon(s, pattern) ==
    LET m == Regex(pattern, s)
    IN  IF m = NoMatch THEN (IF HasGroup(pattern) THEN StrV(<<>>) ELSE IntV(0))
        ELSE IF HasGroup(pattern) THEN StrV(m.group) ELSE IntV(m.end)

Index(s, set) ==
    LET at == {i \in DOMAIN s : \E j \in DOMAIN set : set[j] = s[i]}
    IN  IF at = {} THEN 0 ELSE CHOOSE i \in at : \A j \in at : i <= j

Substr(s, i1, i2) ==
    IF "string" \in {i1.type, i2.type} \/ i1.i > Len(s) \/ i1.i <= 0 \/ i2.i <= 0 THEN <<>>
    ELSE SubSeq(s, i1.i, IF Len(s) - i1.i + 1 < i2.i THEN Len(s) ELSE i1.i + i2.i - 1)

-----------------------------------------------------------------------------
(* The levels: | & comparisons + * : from the outside to the inside.       *)

Operators == <<{"|"}, {"&"}, {"<", "<=", "=", "==", "!=", ">=", ">"}, {"+", "-"}, {"*", "/", "%"}, {":"}>>
Keywords == {"quote", "length", "match", "index", "substr"}

Word(args, p) == IF p > Len(args) THEN "" ELSE args[p]

\* What an operator makes of both its values.
Combine(level, op, l, r) ==
    CASE Died \in {l, r} -> Died
      [] Died \notin {l, r} ->
            CASE level = 1 -> IF null(l) THEN r ELSE l
              [] level = 2 -> IF null(l) \/ null(r) THEN IntV(0) ELSE l
              [] level = 3 -> cmp_common(op, toarith(l), toarith(r))
              [] level \in {4, 5} -> arithmetic_common(op, toarith(l), toarith(r))
              [] level = 6 -> docolon(Text(l), Text(r))

\* What a keyword makes of its operands.
Arity(key) == CASE key = "length" -> 1 [] key \in {"match", "index"} -> 2 [] key = "substr" -> 3
Call(key, vs) ==
    CASE Died \in ToSet(vs) -> Died
      [] Died \notin ToSet(vs) ->
            CASE key = "length" -> IntV(Len(Text(vs[1])))
              [] key = "match" -> docolon(Text(vs[1]), Text(vs[2]))
              [] key = "index" -> IntV(Index(Text(vs[1]), Text(vs[2])))
              [] key = "substr" -> StrV(Substr(Text(vs[1]), toarith(vs[2]), toarith(vs[3])))

-----------------------------------------------------------------------------
(* The descent: a value and the first word that was not read.              *)

RECURSIVE Descend(_, _, _, _)
Eval(level, args, p) == Descend("eval", level, args, p)

\* The operators of one level, from the left to the right.
More(level, args, l) ==
    LET joined(r) == [v |-> Combine(level, args[l.p], l.v, r.v), p |-> r.p]
    IN  IF Word(args, l.p) \notin Operators[level] THEN l
        ELSE Descend("more", level, args, joined(Eval(level + 1, args, l.p + 1)))

Keyword(args, p) ==
    LET take(acc, r) == [vs |-> Append(acc.vs, r.v), p |-> r.p]
        read == FoldLeft(LAMBDA acc, i : take(acc, Eval(7, args, acc.p)), [vs |-> <<>>, p |-> p + 1], [i \in 1..Arity(args[p]) |-> i])
        called(r) == [v |-> Call(args[p], r.vs), p |-> r.p]
    IN  called(read)

Died1(args) == [v |-> Died, p |-> Len(args) + 1]
Quoted(args, p) == IF p > Len(args) THEN Died1(args) ELSE [v |-> StrV(Chars(args[p])), p |-> p + 1]
Closed(args, r) == IF Word(args, r.p) = ")" THEN [r EXCEPT !.p = @ + 1] ELSE Died1(args)

eval7(args, p) ==
    CASE Word(args, p) = "(" -> Closed(args, Eval(1, args, p + 1))
      [] Word(args, p) = ")" -> Died1(args)
      [] OTHER -> Quoted(args, p)
eval6(args, p) ==
    CASE Word(args, p) = "quote" -> Quoted(args, p + 1)
      [] Word(args, p) \in Keywords \ {"quote"} -> Keyword(args, p)
      [] OTHER -> eval7(args, p)

Descend(what, level, args, x) ==
    CASE what = "more" -> More(level, args, x)
      [] what = "eval" /\ level < 7 -> Descend("more", level, args, Eval(level + 1, args, x))
      [] what = "eval" /\ level = 7 -> eval6(args, x)

\* What is written, and the status.  Whatever is wrong, it is 1.
Finish(args, r) ==
    IF r.v = Died \/ r.p <= Len(args) THEN [text |-> <<>>, status |-> 1]
    ELSE [text |-> Text(r.v) \o <<"\n">>, status |-> IF null(r.v) THEN 1 ELSE 0]
expr_main(args) == IF args = <<>> THEN [text |-> <<>>, status |-> 1] ELSE Finish(args, Eval(1, args, 1))
=============================================================================
