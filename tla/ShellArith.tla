------------------------------ MODULE ShellArith -----------------------------
(***************************************************************************)
(* Arithmetic of the shell (box/shell/ash.c, arith.c): an operator         *)
(* precedence parser with a stack of operators and one of numbers.  Names  *)
(* are looked up when an operator is applied, their values are expressions *)
(* themselves.                                                             *)
(*                                                                         *)
(* e.vars maps names (sequences of characters) to values; long has Width   *)
(* bits.  What C leaves undefined (a shift by a count that is not in       *)
(* 0..Width - 1, the smallest number divided by -1) is the error UB.       *)
(***************************************************************************)
EXTENDS ShellSyntax, SequencesExt, Bitwise

CONSTANT Width

Unset == <<"*unset*">>
IsSet(e, name) == name \in DOMAIN e.vars /\ e.vars[name] # Unset
lookupvar(e, name) == IF name \in DOMAIN e.vars THEN e.vars[name] ELSE Unset
setvar(e, name, value) == [e EXCEPT !.vars = (name :> value) @@ @]

Chars(string) == [i \in 1..Len(string) |-> SubSeq(string, i, i)]

\* fmtstr with %ld, cvtnum.
NumText(n) == Chars(ToString(n))

Wrap(n) == LET u == n % (2 ^ Width) IN IF u < 2 ^ (Width - 1) THEN u ELSE u - 2 ^ Width
Unsigned(n) == n % (2 ^ Width)
LongMax == 2 ^ (Width - 1) - 1

SYNTAX == -1
ZERO == -2
NEGATIVE == -3
LOOP == -5
UB == -9

\* Division of C.
Magnitude(n) == IF n < 0 THEN -n ELSE n
Quot(a, b) == LET q == Magnitude(a) \div Magnitude(b) IN IF (a < 0) = (b < 0) THEN q ELSE -q
Rem(a, b) == a - b * Quot(a, b)

-----------------------------------------------------------------------------
(* Tokens.                                                                 *)

Precs ==
    <<{","}, {"=", "&=", "|=", "^=", "+=", "-=", "<<=", ">>=", "*=", "/=", "%="}, {},
      {"?", ":"}, {"||"}, {"&&"}, {"|"}, {"^"}, {"&"}, {"==", "!="}, {"<", ">", ">=", "<="},
      {"<<", ">>"}, {"add", "sub"}, {"*", "/", "%"}, {"**"}, {"~", "!"}, {"minus", "plus"},
      {"preinc", "predec"}, {"postinc", "postdec"}, {"num", ")"}>>

UnaryPrec == 16
SpecPrec == 20

\* PREC, with convert_prec_is_assing; the left parenthesis has 0.
PREC(op) == IF op = "(" THEN 0 ELSE CHOOSE p \in DOMAIN Precs : op \in Precs[p]

tok_have_assign(op) == PREC(op) \in {2, 18, 19}
is_right_associativity(prec) == prec \in {2, 4, 15}

\* op_tokens: the longest must be first.
op_tokens ==
    <<<<"<<=", "<<=">>, <<">>=", ">>=">>, <<"<<", "<<">>, <<">>", ">>">>, <<"||", "||">>,
      <<"&&", "&&">>, <<"!=", "!=">>, <<"<=", "<=">>, <<">=", ">=">>, <<"==", "==">>,
      <<"|=", "|=">>, <<"&=", "&=">>, <<"*=", "*=">>, <<"/=", "/=">>, <<"%=", "%=">>,
      <<"+=", "+=">>, <<"-=", "-=">>, <<"--", "postdec">>, <<"^=", "^=">>, <<"++", "postinc">>,
      <<"**", "**">>, <<"!", "!">>, <<"<", "<">>, <<">", ">">>, <<"=", "=">>, <<"|", "|">>,
      <<"&", "&">>, <<"*", "*">>, <<"/", "/">>, <<"%", "%">>, <<"+", "add">>, <<"-", "sub">>,
      <<"^", "^">>, <<"~", "~">>, <<",", ",">>, <<"?", "?">>, <<":", ":">>, <<")", ")">>,
      <<"(", "(">>>>

\* An operator that is no number before it is a prefix.
AsPrefix(op) ==
    CASE op = "add" -> "plus" [] op = "sub" -> "minus" [] op = "postinc" -> "preinc"
      [] op = "postdec" -> "predec" [] OTHER -> op

\* The spellings as characters, with the token.
OpTexts == [i \in DOMAIN op_tokens |-> [text |-> Chars(op_tokens[i][1]), op |-> op_tokens[i][2]]]

\* strtol with base 0: [val, next].
HexDigits == <<{"0"}, {"1"}, {"2"}, {"3"}, {"4"}, {"5"}, {"6"}, {"7"}, {"8"}, {"9"}, {"a", "A"},
               {"b", "B"}, {"c", "C"}, {"d", "D"}, {"e", "E"}, {"f", "F"}>>
DigitIn(c, base) == \E v \in 1..base : c \in HexDigits[v]
DigitVal(c) == CHOOSE v \in 0..15 : c \in HexDigits[v + 1]

strtol(text, at) ==
    LET char(i) == IF i \in DOMAIN text THEN text[i] ELSE EOF
        hex  == char(at) = "0" /\ char(at + 1) \in {"x", "X"} /\ DigitIn(char(at + 2), 16)
        base == IF hex THEN 16 ELSE IF char(at) = "0" THEN 8 ELSE 10
        from == IF hex THEN at + 2 ELSE at
        next == CHOOSE j \in from..(Len(text) + 1) :
                   /\ \A k \in from..(j - 1) : DigitIn(text[k], base)
                   /\ ~DigitIn(char(j), base)
        val  == FoldLeft(LAMBDA v, c : IF v > LongMax THEN v ELSE v * base + DigitVal(c), 0,
                         SubSeq(text, from, next - 1))
    IN  [val |-> IF val > LongMax THEN LongMax ELSE val, next |-> next]

-----------------------------------------------------------------------------
(* Operators.                                                              *)

Truth(b) == IF b THEN 1 ELSE 0
ShiftOK(n) == n \in 0..(Width - 1)

\* The operator without `=' that an assignment applies.
Applied(op) ==
    CASE op = "|=" -> "|" [] op = "&=" -> "&" [] op = "^=" -> "^" [] op = "+=" -> "add"
      [] op = "-=" -> "sub" [] op = "<<=" -> "<<" [] op = ">>=" -> ">>" [] op = "*=" -> "*"
      [] op = "/=" -> "/" [] op = "%=" -> "%" [] op = "=" -> "," [] OTHER -> op

UnaryOps == {"minus", "!", "~", "postinc", "preinc", "postdec", "predec", "plus"}

UnaryValue(op, a) ==
    CASE op = "minus" -> Wrap(-a)
      [] op = "!" -> Truth(a = 0)
      [] op = "~" -> -a - 1
      [] op \in {"postinc", "preinc"} -> Wrap(a + 1)
      [] op \in {"postdec", "predec"} -> Wrap(a - 1)
      [] OTHER -> a

Power(a, n) == FoldLeft(LAMBDA v, i : Wrap(v * a), 1, [i \in 1..n |-> i])

\* What an operator with two operands makes of them: [val, err].
BinaryValue(op, a, b) ==
    LET ok(v)  == [val |-> v, err |-> 0]
        bad(e) == [val |-> 0, err |-> e]
    IN  CASE op = "|"  -> ok(Wrap(Unsigned(a) | Unsigned(b)))
          [] op = "&"  -> ok(Wrap(Unsigned(a) & Unsigned(b)))
          [] op = "^"  -> ok(Wrap(Unsigned(a) ^^ Unsigned(b)))
          [] op = "||" -> ok(Truth(a # 0 \/ b # 0))
          [] op = "&&" -> ok(Truth(a # 0 /\ b # 0))
          [] op = "==" -> ok(Truth(a = b))
          [] op = "!=" -> ok(Truth(a # b))
          [] op = ">=" -> ok(Truth(a >= b))
          [] op = "<=" -> ok(Truth(a <= b))
          [] op = ">"  -> ok(Truth(a > b))
          [] op = "<"  -> ok(Truth(a < b))
          [] op = ">>" -> IF ShiftOK(b) THEN ok(a \div 2 ^ b) ELSE bad(UB)
          [] op = "<<" -> IF ShiftOK(b) THEN ok(Wrap(a * 2 ^ b)) ELSE bad(UB)
          [] op = "*"  -> ok(Wrap(a * b))
          [] op = "add" -> ok(Wrap(a + b))
          [] op = "sub" -> ok(Wrap(a - b))
          [] op = ","  -> ok(b)
          [] op = "**" -> IF b < 0 THEN bad(NEGATIVE) ELSE ok(Power(a, b))
          [] op \in {"/", "%"} ->
               IF b = 0 THEN bad(ZERO)
               ELSE IF a = -LongMax - 1 /\ b = -1 THEN bad(UB)
               ELSE ok(IF op = "/" THEN Quot(a, b) ELSE Rem(a, b))

-----------------------------------------------------------------------------
(* arith.  m is its state: e the shell, text the expression and at the     *)
(* place in it, seen the variables whose values enclose it, stack the      *)
(* operators and nums the numbers (top first), last lasttok, null: nothing *)
(* but blanks so far.                                                      *)

NoName == <<>>
Operand(val, name) == [val |-> val, var |-> name, second |-> 0, init |-> FALSE]
Stop(m, e, err) == [m EXCEPT !.e = e, !.err = err]

RECURSIVE arith(_, _, _)

\* arith_lookup_val: the value of a number or a name, and what that changed.
arith_lookup_val(e, n, seen) ==
    LET r == arith(e, lookupvar(e, n.var), seen \cup {n.var})
    IN  IF n.var = NoName THEN [e |-> e, val |-> n.val, err |-> 0]
        ELSE IF ~IsSet(e, n.var) THEN [e |-> e, val |-> 0, err |-> 0]
        ELSE IF n.var \in seen THEN [e |-> e, val |-> 0, err |-> LOOP]
        ELSE r

\* Mutant: x++ shows the new value.
StoreShowsNew(m, e, op, left, rez, rest) ==
    IF tok_have_assign(op) /\ left.var = NoName THEN Stop(m, e, SYNTAX)
    ELSE [m EXCEPT !.e = IF tok_have_assign(op) THEN setvar(e, left.var, NumText(rez)) ELSE e,
                   !.nums = <<[left EXCEPT !.val = rez, !.var = NoName]>> \o rest]

\* The end of arith_apply: the result is stored and replaces the operands.
Store(m, e, op, left, rez, rest) ==
    LET shown == CASE op = "postinc" -> Wrap(rez - 1) [] op = "postdec" -> Wrap(rez + 1) [] OTHER -> rez
    IN  IF tok_have_assign(op) /\ left.var = NoName THEN Stop(m, e, SYNTAX)
        ELSE [m EXCEPT !.e = IF tok_have_assign(op) THEN setvar(e, left.var, NumText(rez)) ELSE e,
                       !.nums = <<[left EXCEPT !.val = shown, !.var = NoName]>> \o rest]

\* arith_apply for two operands; b is the right one, looked up.
ApplyBinary(m, op, b) ==
    LET right == m.nums[1]
        left  == m.nums[2]
        rest  == SubSeq(m.nums, 3, Len(m.nums))
        a     == IF op = "=" THEN [e |-> b.e, val |-> 0, err |-> 0]
                 ELSE arith_lookup_val(b.e, left, m.seen)
        r     == BinaryValue(Applied(op), a.val, b.val)
    IN  IF Len(m.nums) < 2 \/ right.init # (op = "?") THEN Stop(m, b.e, SYNTAX)
        ELSE IF a.err # 0 THEN Stop(m, a.e, a.err)
        ELSE IF op = ":"
             THEN IF rest = <<>> THEN Stop(m, a.e, SYNTAX)
                  ELSE Store(m, a.e, op, [left EXCEPT !.init = TRUE, !.second = b.val], a.val, rest)
        ELSE IF op = "?"
             THEN Store(m, a.e, op, [left EXCEPT !.second = right.second],
                        IF a.val # 0 THEN b.val ELSE right.second, rest)
        ELSE IF r.err # 0 THEN Stop(m, a.e, r.err)
        ELSE Store(m, a.e, op, left, r.val, rest)

\* arith_apply: the operator on top of the stack is popped and applied.
arith_apply(m0) ==
    LET op == Head(m0.stack)
        m  == [m0 EXCEPT !.stack = Tail(@)]
        b  == arith_lookup_val(m.e, m.nums[1], m.seen)
    IN  IF m.nums = <<>> THEN Stop(m, m.e, SYNTAX)
        ELSE IF b.err # 0 THEN Stop(m, b.e, b.err)
        ELSE IF op \in UnaryOps
             THEN Store(m, b.e, op, m.nums[1], UnaryValue(op, b.val), Tail(m.nums))
        ELSE ApplyBinary(m, op, b)

\* Operators that bind as tightly as the new one, or more, are applied.
RECURSIVE Reduce(_, _)
Reduce(m, op) ==
    LET top == PREC(Head(m.stack))
    IN  IF m.err # 0 \/ m.stack = <<>> \/ top < PREC(op) \/ (top = PREC(op) /\ is_right_associativity(top))
        THEN m ELSE Reduce(arith_apply(m), op)

\* Up to the left parenthesis.
RECURSIVE Close(_)
Close(m) ==
    IF m.err # 0 THEN m
    ELSE IF m.stack = <<>> THEN Stop(m, m.e, SYNTAX)
    ELSE IF Head(m.stack) = "(" THEN [m EXCEPT !.stack = Tail(@), !.last = "num"]
    ELSE Close(arith_apply(m))

\* An operator was read.
ReadOperator(m, spelt) ==
    LET last == IF m.last \in {"postinc", "postdec"} THEN "num" ELSE m.last
        op   == IF last = "num" THEN spelt ELSE AsPrefix(spelt)
        prec == PREC(op)
        push(x) == IF x.err # 0 THEN x ELSE [x EXCEPT !.stack = <<op>> \o @, !.last = op]
    IN  IF ~((prec > 0 /\ prec < UnaryPrec) \/ prec = SpecPrec) THEN push(m)
        ELSE IF last # "num" THEN Stop(m, m.e, SYNTAX)
        ELSE IF op = ")" THEN Close(m)
        ELSE push(Reduce(m, op))

IsSpace(c) == c \in {" ", "\n", "\t"}

\* The loop; at the end a right parenthesis is appended.
RECURSIVE Tokens(_)
Tokens(m) ==
    LET c     == m.text[m.at]
        rest  == SubSeq(m.text, m.at, Len(m.text))
        name  == endofname(rest)
        num   == strtol(m.text, m.at)
        found == {i \in DOMAIN OpTexts : IsPrefix(OpTexts[i].text, rest)}
        first == CHOOSE i \in found : \A j \in found : i <= j
        number(n, next) == [m EXCEPT !.nums = <<n>> \o @, !.last = "num", !.at = next, !.null = FALSE]
        past  == [m EXCEPT !.at = @ + Len(OpTexts[first].text), !.null = FALSE]
    IN  IF m.err # 0 \/ (m.at > Len(m.text) /\ m.null) THEN m
        ELSE IF m.at > Len(m.text) THEN ReadOperator(m, ")")
        ELSE IF IsSpace(c) THEN Tokens([m EXCEPT !.at = @ + 1])
        ELSE IF name > 0 THEN Tokens(number(Operand(0, SubSeq(rest, 1, name)), m.at + name))
        ELSE IF c \in Digits THEN Tokens(number(Operand(num.val, NoName), num.next))
        ELSE IF found = {} THEN Stop(m, m.e, SYNTAX)
        ELSE Tokens(ReadOperator(past, OpTexts[first].op))

\* What is left when all is read: one operand, looked up.
Outcome(m) ==
    IF m.err # 0 \/ m.null THEN [e |-> m.e, val |-> 0, err |-> m.err]
    ELSE IF Len(m.nums) # 1 THEN [e |-> m.e, val |-> 0, err |-> SYNTAX]
    ELSE arith_lookup_val(m.e, m.nums[1], m.seen)

arith(e, text, seen) ==
    Outcome(Tokens([e |-> e, text |-> text, at |-> 1, seen |-> seen, stack |-> <<"(">>, nums |-> <<>>,
                    last |-> "(", err |-> 0, null |-> TRUE]))

\* dash_arith, from outside of any variable.
dash_arith(e, text) == arith(e, text, {})
=============================================================================
