----------------------------- MODULE BoxNumbers -----------------------------
(* Numbers of the C program and the texts they are written with.           *)
EXTENDS Integers, Sequences, SequencesExt, TLC

CONSTANTS
    IntWidth,      \* the bits of an int
    LongWidth,     \* the bits of a long
    CharOrder      \* the characters in the order of their codes

ASSUME WidthAssumption == IntWidth \in 2..LongWidth

\* The characters of a word.
Chars(w) == [i \in 1..Len(w) |-> SubSeq(w, i, i)]

\* A number kept in so many bits.
Wrap(n, width) == ((n + 2^(width - 1)) % 2^width) - 2^(width - 1)
Fits(n, width) == Wrap(n, width) = n
Trunc(n)       == Wrap(n, IntWidth)

Code(c) == CHOOSE i \in DOMAIN CharOrder : CharOrder[i] = c

\* strcmp() < 0
Before(s, t) ==
    \/ IsPrefix(s, t) /\ s # t
    \/ \E i \in DOMAIN s \cap DOMAIN t :
          /\ Code(s[i]) < Code(t[i]) /\ \A j \in 1..(i - 1) : s[j] = t[j]

Digits == <<"0", "1", "2", "3", "4", "5", "6", "7", "8", "9">>
DigitValue(c) == (CHOOSE i \in DOMAIN Digits : Digits[i] = c) - 1
IsDigit(c) == \E i \in DOMAIN Digits : Digits[i] = c

\* printf("%ld")
RECURSIVE Natural(_)
Natural(n) == IF n < 10 THEN <<Digits[n + 1]>> ELSE Natural(n \div 10) \o <<Digits[(n % 10) + 1]>>
Decimal(n) == IF n < 0 THEN <<"-">> \o Natural(-n) ELSE Natural(n)

\* strtol(s, &end, 10) for a text that is a number as a whole: the number, the
\* nearest a long can be; <<>> for any other text.
NatOf(s) == FoldLeft(LAMBDA n, c : IF n > 2^LongWidth THEN n ELSE 10 * n + DigitValue(c), 0, s)
Saturated(n) == CASE n >= 2^(LongWidth - 1) -> 2^(LongWidth - 1) - 1
                  [] n < -(2^(LongWidth - 1)) -> -(2^(LongWidth - 1)) [] OTHER -> n
Unsigned(s) == s # <<>> /\ \A i \in DOMAIN s : IsDigit(s[i])
Number(s) ==
    CASE Unsigned(s) -> <<NatOf(s)>>
      [] s # <<>> /\ s[1] = "-" /\ Unsigned(Tail(s)) -> <<-NatOf(Tail(s))>>
      [] s # <<>> /\ s[1] \in {"+", " "} /\ Unsigned(Tail(s)) -> <<NatOf(Tail(s))>>
      [] OTHER -> <<>>
Strtol(s) == IF Number(s) = <<>> THEN <<>> ELSE <<Saturated(Number(s)[1])>>
=============================================================================
