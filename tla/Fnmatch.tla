------------------------------- MODULE Fnmatch ------------------------------
(***************************************************************************)
(* fnmatch (compat/fnmatch.c), which the shell's patterns, its file name   *)
(* expansion and find use where the C library has none, and what a pattern *)
(* means.                                                                  *)
(*                                                                         *)
(* A pattern and a string are sequences of characters; a position may be   *)
(* one past the end, where the NUL is.  Flags is a subset of {"period",    *)
(* "filename", "noescape", "leadingdir"}; FNM_CASEFOLD is left out.        *)
(***************************************************************************)
EXTENDS Integers, Sequences, FiniteSets

CONSTANTS
    CharCode,       \* the characters, in the order of their codes
    ClassOf(_)      \* the characters of a named class ([:digit:])

NUL == "nul"
Ch(t, i) == IF i \in DOMAIN t THEN t[i] ELSE NUL
Code(c)  == IF c = NUL THEN 0 ELSE CHOOSE i \in DOMAIN CharCode : CharCode[i] = c

\* m: the pattern P and the string S, the flags, from where this call matches
\* the string, and whether a leading period needs a period there.
Leading(m, n) == /\ Ch(m.S, n) = "." /\ m.period
                 /\ n = m.from \/ (n > 1 /\ m.S[n - 1] = "/" /\ "filename" \in m.flags)
Slash(m, n)   == Ch(m.S, n) = "/" /\ "filename" \in m.flags
Escapes(m)    == "noescape" \notin m.flags

\* [:class:]: the position after it and its name, or 0.
ClassAt(P, p) ==
    LET ends == {e \in (p + 1)..Len(P) : /\ P[e] = ":" /\ Ch(P, e + 1) = "]"
                                         /\ \A i \in (p + 1)..(e - 1) :
                                               Code("a") <= Code(P[i]) /\ Code(P[i]) < Code("z")}
    IN  IF Ch(P, p) = ":" /\ ends # {} THEN CHOOSE e \in ends : TRUE ELSE 0

\* The end of a bracket expression after the character that matched: c was
\* read, p is next.  0 if there is no end.
RECURSIVE SkipBracket(_, _, _)
SkipBracket(m, c, p) ==
    LET P == m.P
        d == Ch(P, p)
        e == Ch(P, p + 1)
        class == {i \in (p + 2)..Len(P) : P[i] = ":" /\ Ch(P, i + 1) # "]"}
        first == CHOOSE i \in class : \A j \in class : i <= j
    IN  CASE c = "]" -> p
          [] c = NUL -> 0
          [] OTHER ->
             IF Escapes(m) /\ d = "\\" THEN IF e = NUL THEN 0 ELSE SkipBracket(m, d, p + 2)
             ELSE IF d = "[" /\ e = ":"
                  THEN IF class = {} THEN 0 ELSE SkipBracket(m, Ch(P, first + 2), first + 2)
             ELSE SkipBracket(m, d, p + 1)

\* A bracket expression from its character c on, p is next: whether it holds
\* the character fn, and the position after the expression (0: no match).
RECURSIVE InBracket(_, _, _, _)
InBracket(m, fn, c, p) ==
    LET P    == m.P
        d    == Ch(P, p)
        ce   == IF c = "[" THEN ClassAt(P, p) ELSE 0
        esc  == Escapes(m) /\ Ch(P, p + 1) = "\\"
        last == IF esc THEN p + 2 ELSE p + 1
        hit(x, next)  == [in |-> TRUE, next |-> SkipBracket(m, x, next)]
        miss(x, next) == IF x = "]" THEN [in |-> FALSE, next |-> next] ELSE InBracket(m, fn, x, next)
        lost == [in |-> FALSE, next |-> 0]
    IN  CASE Escapes(m) /\ c = "\\" -> IF d = NUL THEN lost
                                       ELSE IF d = fn THEN hit(d, p + 1) ELSE miss(d, p + 1)
          [] ce # 0 -> IF fn \in ClassOf(SubSeq(P, p + 1, ce - 1)) THEN hit(":", ce + 2) ELSE miss(":", ce + 2)
          [] c = NUL -> lost
          [] OTHER ->
             IF c = fn THEN hit(c, p)
             ELSE IF d = "-" /\ Ch(P, p + 1) # "]"
             THEN IF Ch(P, last) = NUL THEN lost
                  ELSE IF Code(c) <= Code(fn) /\ Code(fn) <= Code(Ch(P, last)) THEN hit(d, last + 1)
                  ELSE miss(Ch(P, last + 1), last + 2)
             ELSE miss(d, p + 1)

\* The wildcards at p: the position of the first other character, and of the
\* string after what the question marks take.  0 in n: no match.
RECURSIVE Wildcards(_, _, _)
Wildcards(m, p, n) ==
    LET c == Ch(m.P, p)
    IN  IF c \notin {"?", "*"} THEN [p |-> p, n |-> n]
        ELSE IF Slash(m, n) \/ (c = "?" /\ Ch(m.S, n) = NUL) THEN [p |-> p, n |-> 0]
        ELSE Wildcards(m, p + 1, IF c = "?" THEN n + 1 ELSE n)

\* internal_fnmatch from p and n on.
RECURSIVE Matches(_, _, _)

Star(m, p, n) ==
    LET w    == Wildcards(m, p + 1, n)
        c    == Ch(m.P, w.p)
        rest == SubSeq(m.S, w.n, Len(m.S))
        slash == {i \in w.n..Len(m.S) : m.S[i] = "/"}
        endp == IF "filename" \in m.flags /\ slash # {} THEN CHOOSE i \in slash : \A j \in slash : i <= j
                ELSE Len(m.S) + 1
        flags == IF "filename" \in m.flags THEN m.flags ELSE m.flags \ {"period"}
        from(i, per) == [m EXCEPT !.from = i, !.period = per, !.flags = flags]
        lead(i) == m.period /\ (i = m.from \/ (m.S[i - 1] = "/" /\ "filename" \in m.flags))
        head == IF c = "\\" /\ Escapes(m) THEN Ch(m.P, w.p + 1) ELSE c
    IN  CASE Leading(m, n) \/ w.n = 0 -> FALSE
          [] c = NUL -> ~("filename" \in m.flags /\ slash # {})
          [] c = "/" /\ "filename" \in m.flags ->
               slash # {} /\ Matches([m EXCEPT !.from = endp + 1, !.period = "period" \in m.flags],
                                     w.p + 1, endp + 1)
          [] OTHER -> \E i \in w.n..(endp - 1) :
                         /\ c = "[" \/ m.S[i] = head
                         /\ Matches(from(i, lead(i)), w.p, i)

Matches(m, p, n) ==
    LET c   == Ch(m.P, p)
        s   == Ch(m.S, n)
        not == Ch(m.P, p + 1) \in {"!", "^"}
        b   == IF not THEN InBracket(m, s, Ch(m.P, p + 2), p + 3) ELSE InBracket(m, s, Ch(m.P, p + 1), p + 2)
    IN  CASE c = NUL -> s = NUL \/ ("leadingdir" \in m.flags /\ s = "/")
          [] c = "?" -> s # NUL /\ ~Slash(m, n) /\ ~Leading(m, n) /\ Matches(m, p + 1, n + 1)
          [] c = "*" -> Star(m, p, n)
          [] c = "[" -> /\ s # NUL /\ ~Leading(m, n) /\ ~Slash(m, n)
                        /\ b.next # 0 /\ b.in # not
                        /\ Matches(m, b.next, n + 1)
          [] c = "\\" /\ Escapes(m) -> /\ Ch(m.P, p + 1) # NUL /\ s = Ch(m.P, p + 1)
                                       /\ Matches(m, p + 2, n + 1)
          [] OTHER -> s = c /\ Matches(m, p + 1, n + 1)

fnmatch(pattern, string, flags) ==
    Matches([P |-> pattern, S |-> string, from |-> 1, flags |-> flags,
             period |-> "period" \in flags], 1, 1)
=============================================================================
