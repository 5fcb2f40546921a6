----------------------------- MODULE ShellInput -----------------------------
(***************************************************************************)
(* The input of the shell's parser (box/shell/ash.c, input.c): a stack of  *)
(* files and strings, each with a buffer and with strings pushed back onto *)
(* it, read one character at a time; one character, or the end of the      *)
(* input, can be pushed back.                                              *)
(*                                                                         *)
(* A pointer into a buffer is the text of the buffer with a position.      *)
(* read() returns what it likes of what is left of a file.                 *)
(***************************************************************************)
EXTENDS ShellSyntax, SequencesExt

CONSTANTS
    Contents,      \* contents of files: characters, "nul" and "nl" among them
    Strings,       \* strings that eval, traps and `...` read; no NUL in them
    BufSize,       \* BUFSIZ - 1
    MaxFiles,      \* bound: inputs on the stack
    MaxPushed,     \* bound: strings pushed back onto one input
    MaxEnds        \* bound: times one input is read at its end

\* A byte is neither the end of the input nor the absence of one.
InputChars == STRING \ {EOF, "none"}

ASSUME InputAssumption ==
    Contents \subseteq Seq(InputChars) /\ Strings \subseteq Seq(InputChars) /\ BufSize \in Nat

VARIABLES
    pf,        \* the stack of struct parsefile, the current one first
    nleft,     \* parsenleft, parselleft and parsenextc: copies for the current one
    lleft,
    nextc,
    last,      \* what the last pgetc returned; "none" if it has been undone
    line,      \* what has been read of the current line
    expect     \* history: for each input, what it still has to deliver

inputVars == <<pf, nleft, lleft, nextc, last, line, expect>>

EofNleft == -99
NoFile == <<"none">>
At(text, i) == [text |-> text, at |-> i]
Nowhere == At(<<>>, 1)

\* The text without its NULs.
Visible(text) ==
    LET kept[i \in 0..Len(text)] ==
            IF i = 0 THEN <<>>
            ELSE IF text[i] = "nul" THEN kept[i - 1] ELSE Append(kept[i - 1], text[i])
    IN  kept[Len(text)]

From(text, i) == SubSeq(text, i, Len(text))

InputIdle ==
    /\ pf = <<>> /\ nleft = 0 /\ lleft = 0 /\ nextc = Nowhere
    /\ last = "none" /\ line = <<>> /\ expect = <<>>

\* basepf, reading from standard input.
InputInit ==
    \E data \in Contents :
        /\ pf = <<[data |-> data, hasbuf |-> TRUE, pushed |-> <<>>,
                   nleft |-> 0, lleft |-> 0, nextc |-> Nowhere]>>
        /\ nleft = 0 /\ lleft = 0 /\ nextc = Nowhere /\ last = "none" /\ line = <<>>
        /\ expect = <<Visible(data)>>

-----------------------------------------------------------------------------
(* Reading.                                                                *)

\* The loop of preadbuffer over a buffer: NULs before the end of the line are
\* deleted.  keep: characters kept; left: the rest of the buffer.
Scan(raw) ==
    LET nl == {i \in 1..Len(raw) : raw[i] = "nl"}
        to == IF nl = {} THEN Len(raw) ELSE CHOOSE i \in nl : \A j \in nl : i <= j
    IN  [keep |-> Visible(SubSeq(raw, 1, to)), left |-> From(raw, to + 1)]

\* What pgetc leaves: character c returned, the current input and its registers.
Takes(c, top, n, l, p) ==
    /\ last' = c
    /\ line' = IF c = EOF THEN line ELSE IF last = "nl" THEN <<c>> ELSE Append(line, c)
    /\ pf' = <<top>> \o Tail(pf)
    /\ nleft' = n /\ lleft' = l /\ nextc' = p
    /\ expect' = IF c = EOF \/ Head(expect) = <<>> THEN expect
                 ELSE <<Tail(Head(expect))>> \o Tail(expect)

\* A line of the buffer is made ready and its first character returned.
Deliver(top, scan) ==
    Takes(Head(scan.keep), top, Len(scan.keep) - 1, Len(scan.left), At(scan.keep \o scan.left, 2))

\* preadfd: some of what is left; a buffer of nothing but NULs is read over.
Refill(top) ==
    \/ /\ \A i \in DOMAIN top.data : top.data[i] = "nul"
       /\ Takes(EOF, [top EXCEPT !.data = <<>>], EofNleft, EofNleft, nextc)
    \/ \E s \in 0..Len(top.data), k \in 1..BufSize :
          /\ s + k <= Len(top.data)
          /\ \A i \in 1..s : top.data[i] = "nul"
          /\ \E i \in (s + 1)..(s + k) : top.data[i] # "nul"
          /\ Deliver([top EXCEPT !.data = From(@, s + k + 1)], Scan(SubSeq(top.data, s + 1, s + k)))

\* preadbuffer with nothing pushed back: n is parsenleft, p parsenextc.
FromBuffer(top, n, p) ==
    LET raw == From(p.text, p.at)
    IN  IF n = EofNleft \/ ~top.hasbuf THEN Takes(EOF, top, n, lleft, p)
        ELSE IF lleft <= 0 \/ (\A i \in DOMAIN raw : raw[i] = "nul") THEN Refill(top)
        ELSE Deliver(top, Scan(raw))

\* pgetc: the buffer, the strings pushed back (popstring), what they interrupted.
Pgetc ==
    LET top  == Head(pf)
        live == {k \in DOMAIN top.pushed : top.pushed[k].nleft > 0}
        k    == CHOOSE i \in live : \A j \in live : i <= j
        all  == Len(top.pushed)
        Resume(i) == Takes(top.pushed[i].nextc.text[top.pushed[i].nextc.at],
                           [top EXCEPT !.pushed = From(@, i + 1)],
                           top.pushed[i].nleft - 1, lleft,
                           [top.pushed[i].nextc EXCEPT !.at = @ + 1])
    IN  IF nleft > 0
        THEN Takes(nextc.text[nextc.at], top, nleft - 1, lleft, [nextc EXCEPT !.at = @ + 1])
        ELSE IF live # {} THEN Resume(k)
        ELSE IF all > 0
             THEN FromBuffer([top EXCEPT !.pushed = <<>>], top.pushed[all].nleft - 1,
                             top.pushed[all].nextc)
        ELSE FromBuffer(top, nleft - 1, nextc)

WithinEnds(n) == n > 0 - MaxEnds \/ n \in (EofNleft + 1 - MaxEnds)..(EofNleft + 1)

Read == WithinEnds(nleft) /\ Pgetc

\* pungetc, after a pgetc that has not been undone.
Pungetc ==
    /\ last # "none" /\ nextc.at > 0
    /\ nleft' = nleft + 1 /\ nextc' = [nextc EXCEPT !.at = @ - 1]
    /\ last' = "none" /\ line' = <<>>
    /\ expect' = IF last = EOF THEN expect ELSE <<<<last>> \o Head(expect)>> \o Tail(expect)
    /\ UNCHANGED <<pf, lleft>>

\* pushstring, as checkend calls it: the line that pfgets has read is not the
\* end of the here-document (a line that is too long is pushed back in parts).
PushString ==
    /\ Len(Head(pf).pushed) < MaxPushed /\ line # <<>> /\ WithinEnds(nleft)
    /\ pf' = [pf EXCEPT ![1].pushed = <<[nextc |-> nextc, nleft |-> nleft]>> \o @]
    /\ nextc' = At(line, 1) /\ nleft' = Len(line) /\ last' = "none" /\ line' = <<>>
    /\ expect' = <<line \o Head(expect)>> \o Tail(expect)
    /\ UNCHANGED lleft

-----------------------------------------------------------------------------
(* The stack.                                                              *)

\* pushfile: the registers are kept in the entry they belong to.
PushFile(data, hasbuf) ==
    /\ Len(pf) < MaxFiles
    /\ pf' = <<[data |-> data, hasbuf |-> hasbuf, pushed |-> <<>>,
                nleft |-> 0, lleft |-> 0, nextc |-> Nowhere],
               [Head(pf) EXCEPT !.nleft = nleft, !.lleft = lleft, !.nextc = nextc]>> \o Tail(pf)
    /\ last' = "none" /\ line' = <<>>

\* setinputfile and setinputfd: `.' and the profiles.
SetInputFile(data) ==
    /\ PushFile(data, TRUE)
    /\ nleft' = 0 /\ lleft' = 0 /\ UNCHANGED nextc
    /\ expect' = <<Visible(data)>> \o expect

\* setinputstring: the buffer pointer is NULL, parselleft stays as it is.
SetInputString(string) ==
    /\ PushFile(<<>>, FALSE)
    /\ nleft' = Len(string) /\ nextc' = At(string, 1) /\ UNCHANGED lleft
    /\ expect' = <<string>> \o expect

\* Mutant: parselleft is not restored, the one of the inner input stays.
PopFileKeepsLleft ==
    /\ Len(pf) > 1
    /\ pf' = Tail(pf)
    /\ nleft' = pf[2].nleft /\ nextc' = pf[2].nextc
    /\ last' = "none" /\ line' = <<>> /\ expect' = Tail(expect) /\ UNCHANGED lleft

\* popfile; by popallfiles also before the end of the input.
PopFile ==
    /\ Len(pf) > 1
    /\ pf' = Tail(pf)
    /\ nleft' = pf[2].nleft /\ lleft' = pf[2].lleft /\ nextc' = pf[2].nextc
    /\ last' = "none" /\ line' = <<>> /\ expect' = Tail(expect)

InputNext ==
    \/ Read \/ Pungetc \/ PushString \/ PopFile
    \/ \E data \in Contents : SetInputFile(data)
    \/ \E s \in Strings : SetInputString(s)

InputSpec == InputInit /\ [][InputNext]_inputVars

-----------------------------------------------------------------------------
(* Properties.                                                             *)

\* What is left of a string.
Waiting(n, p) == IF n > 0 THEN SubSeq(p.text, p.at, p.at + n - 1) ELSE <<>>

\* The registers of the input itself, under the strings pushed back onto it.
Bottom(f, n, p) ==
    IF f.pushed = <<>> THEN [n |-> n, p |-> p]
    ELSE [n |-> f.pushed[Len(f.pushed)].nleft, p |-> f.pushed[Len(f.pushed)].nextc]

\* What of its buffer has not been made ready.
Raw(f, n, l, p) ==
    LET b == Bottom(f, n, p)
    IN  IF f.hasbuf /\ l > 0 THEN From(b.p.text, b.p.at + (IF b.n > 0 THEN b.n ELSE 0)) ELSE <<>>

\* What an input with these registers still holds.
Holds(f, n, l, p) ==
    Waiting(n, p)
        \o FlattenSeq([k \in DOMAIN f.pushed |-> Waiting(f.pushed[k].nleft, f.pushed[k].nextc)])
        \o Visible(Raw(f, n, l, p) \o f.data)

\* No character is lost, doubled or moved, whatever read returns, whatever is
\* pushed back, and however inputs are put on top of each other and taken off
\* again; the end comes after the last character.
InputDelivered ==
    /\ \A i \in DOMAIN pf :
          expect[i] = IF i = 1 THEN Holds(pf[1], nleft, lleft, nextc)
                      ELSE Holds(pf[i], pf[i].nleft, pf[i].lleft, pf[i].nextc)
    /\ last = EOF => Head(expect) = <<>>
=============================================================================
