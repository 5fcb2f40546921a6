------------------------------ MODULE BoxInflate ----------------------------
(***************************************************************************)
(* gunzip's inflate (archival/libunarchive/decompress_unzip.c): the codes  *)
(* are looked up in tables of several levels, the output goes through a    *)
(* window, and what was read of the next member is given back.             *)
(***************************************************************************)
EXTENDS Integers, Sequences, FiniteSets, SequencesExt

CONSTANTS
    Byte, LITERALS,
    GUNZIP_WSIZE,
    BMAX,                       \* no code is longer
    cplens, cplext, cpdist, cpdext,     \* copy lengths and distances and their extra bits, from 0
    border,                     \* the order in which lengths of lengths are sent
    LitBits, DistBits, FixedBits,       \* lookup bits: 9 and 6, and 7 for the static code
    FixedLen(_), FixedDist,     \* bits in the static codes
    RepBits, CountBits, LenBits,
    Update(_, _),               \* one step of the checksum
    Stale                       \* what is found in v[] and in the window where nothing was written

MaxLit  == LITERALS + 1 + Cardinality(DOMAIN cplens) - 2        \* 286: two of the lengths do not exist
MaxDist == Cardinality(DOMAIN cpdist)
Invalid == 99

-----------------------------------------------------------------------------
(* huft_build().  A table is a function from 0; e > 16 leads to the table n *)
(* with e - 16 bits, 16 is a literal, 15 the end of the block, less are     *)
(* extra bits.                                                              *)

Count(b, k) == Cardinality({i \in DOMAIN b : b[i] = k})
Counts(b) == [k \in 0..BMAX |-> Count(b, k)]
Shortest(c) == CHOOSE k \in 1..BMAX : c[k] > 0 /\ \A j \in 1..(k - 1) : c[j] = 0
Longest(c)  == CHOOSE k \in 1..BMAX : c[k] > 0 /\ \A j \in (k + 1)..BMAX : c[j] = 0
\* The codes that are left at each length: below 0, there are too many.
Left(c) == FoldLeft(LAMBDA y, k : IF y < 0 THEN y ELSE 2 * y - c[k], 1, [k \in 1..Longest(c) |-> k])
Values(b) ==
    FlattenSeq([k \in 1..BMAX |-> SelectSeq([i \in 1..Cardinality(DOMAIN b) |-> i - 1], LAMBDA i : b[i] = k)])

\* The entry for the p-th value in the order of the lengths.  Up to n of them are
\* believed to be there, although only those with a length are.
Entry(h, bits) ==
    LET v == IF h.p <= Len(h.v) THEN h.v[h.p] ELSE Stale
    IN  CASE h.p > h.n -> [e |-> Invalid, b |-> bits, n |-> h.stale]
          [] h.p <= h.n /\ v < h.s -> [e |-> IF v < LITERALS THEN 16 ELSE 15, b |-> bits, n |-> v]
          [] h.p <= h.n /\ v >= h.s -> [e |-> h.ext[v - h.s], b |-> bits, n |-> h.base[v - h.s]]

\* The bits of a table: as few as hold all codes that begin alike.
RECURSIVE Fewest(_, _, _, _, _)
FewestNext(h, j, z, f, k) == IF f <= h.c[k] THEN j ELSE Fewest(h, j, z, f - h.c[k], k)
Fewest(h, j, z, f, k) == IF j + 1 >= z THEN j + 1 ELSE FewestNext(h, j + 1, z, 2 * f, k + 1)
AtMost(z, m) == IF z > m THEN m ELSE z
TableBits(h, k, a, w) ==
    LET j == k - w
        f == 2^j
    IN  IF f > a + 1 THEN Fewest(h, j, AtMost(h.g - w, h.m), f - (a + 1), k) ELSE j
EndsAtEob(h, w, j) == IF w + j > h.eob /\ w < h.eob THEN h.eob - w ELSE j

NewTable(h, w, j) ==
    LET new == Len(h.tables) + 1
        up  == h.u[h.htl]
        t   == IF h.htl < 0 THEN h.tables
               ELSE [h.tables EXCEPT ![up][(h.i % 2^w) \div 2^h.ws[h.htl]] = [e |-> 16 + j, b |-> w - h.ws[h.htl], n |-> new]]
    IN  [h EXCEPT !.tables = Append(t, [q \in 0..(2^j - 1) |-> [e |-> 0, b |-> 0, n |-> 0]]),
                  !.ws = (h.htl + 2 :> w + j) @@ @, !.u = (h.htl + 1 :> new) @@ @,
                  !.x = IF h.htl >= 0 THEN (h.htl + 1 :> h.i) @@ @ ELSE @, !.htl = @ + 1, !.w = w]
RECURSIVE Deepened(_, _, _)
DeepenedTo(h, k, a, w) == Deepened(NewTable(h, w, EndsAtEob(h, w, TableBits(h, k, a, w))), k, a)
Deepened(h, k, a) == IF k > h.ws[h.htl + 1] THEN DeepenedTo(h, k, a, h.ws[h.htl + 1]) ELSE h

Filled(h, k, r) ==
    LET f == 2^(k - h.w)
        j == h.i \div 2^h.w
    IN  [h EXCEPT !.tables[Len(h.tables)] = [q \in DOMAIN @ |-> IF q >= j /\ (q - j) % f = 0 THEN r ELSE @[q]],
                  !.p = IF @ > h.n THEN @ ELSE @ + 1, !.stale = r.n]
\* The next code, whose first bit is the lowest.
RECURSIVE Backwards(_, _)
Backwards(i, j) == IF j = 0 THEN i ELSE IF (i \div j) % 2 = 1 THEN Backwards(i - j, j \div 2) ELSE i + j
RECURSIVE BackedUp(_)
BackedUp(h) == IF h.i % 2^h.w # h.x[h.htl] THEN BackedUp([h EXCEPT !.htl = @ - 1, !.w = h.ws[h.htl - 1]]) ELSE h
CodeFilled(h, k) == BackedUp([Filled(h, k, Entry(h, k - h.w)) EXCEPT !.i = Backwards(@, 2^(k - 1))])
Coded(h, k, a) == CodeFilled(Deepened(h, k, a), k)

CodesOf(c) == FlattenSeq([k \in 1..BMAX |-> [a \in 1..c[k] |-> [k |-> k, a |-> c[k] - a]]])
Tables(h) ==
    LET done == FoldLeft(LAMBDA acc, code : Coded(acc, code.k, code.a), h, CodesOf(h.c))
    IN  [ret |-> IF h.y # 0 /\ h.g # 1 THEN 1 ELSE 0, t |-> done.tables, m |-> done.ws[1]]
Bounded(m, lo, hi) == IF m < lo THEN lo ELSE IF m > hi THEN hi ELSE m
huft(b, n, s, base, ext, m, c, y) ==
    IF y < 0 THEN [ret |-> 2, t |-> <<>>, m |-> 0]
    ELSE Tables([c |-> [c EXCEPT ![Longest(c)] = @ + y], y |-> y, g |-> Longest(c), m |-> Bounded(m, Shortest(c), Longest(c)),
                 n |-> n, s |-> s, base |-> base, ext |-> ext, v |-> Values(b), eob |-> IF n > LITERALS THEN b[LITERALS] ELSE BMAX,
                 tables |-> <<>>, ws |-> (0 :> 0), u |-> (-1 :> 0), x |-> (0 :> 0), htl |-> -1, w |-> 0,
                 i |-> 0, p |-> 1, stale |-> 0])
huft_counted(b, n, s, base, ext, m, c) ==
    IF c[0] = n THEN [ret |-> 2, t |-> <<>>, m |-> 0] ELSE huft(b, n, s, base, ext, m, c, Left(c))
huft_build(b, s, base, ext, m) == huft_counted(b, Cardinality(DOMAIN b), s, base, ext, m, Counts(b))

-----------------------------------------------------------------------------
(* The bits.  `bb' holds those that were read and not used; `died' is the  *)
(* jump out of it all.                                                     *)

ByteBits(c) == [i \in 1..Byte |-> (c \div 2^(i - 1)) % 2]
NumberOf(bits) == FoldRight(LAMBDA b, acc : 2 * acc + b, bits, 0)
RECURSIVE fill_bitbuffer(_, _)
fill_bitbuffer(s, required) ==
    IF Len(s.bb) >= required \/ s.died THEN s
    ELSE IF s.pos > Len(s.in) THEN [s EXCEPT !.died = TRUE]
    ELSE fill_bitbuffer([s EXCEPT !.bb = @ \o ByteBits(s.in[s.pos]), !.pos = @ + 1], required)
Peek(s, n) == NumberOf(SubSeq(s.bb, 1, n))
Drop(s, n) == [s EXCEPT !.bb = SubSeq(@, n + 1, Len(@))]
\* A number of n bits, into s.num.
Taken(s, n) == IF s.died THEN s ELSE Drop([s EXCEPT !.num = Peek(s, n)], n)
Number(s, n) == Taken(fill_bitbuffer(s, n), n)

\* An entry of the tables, into s.t.
RECURSIVE Lookup(_, _, _, _)
LookedUp(s, tables, t) ==
    CASE t.e = Invalid -> [s EXCEPT !.died = TRUE]
      [] t.e > 16 /\ t.e # Invalid -> Lookup(Drop(s, t.b), tables, t.n, t.e - 16)
      [] t.e <= 16 -> Drop([s EXCEPT !.t = t], t.b)
LookupFilled(s, tables, n, bits) == IF s.died THEN s ELSE LookedUp(s, tables, tables[n][Peek(s, bits)])
Lookup(s, tables, n, bits) == LookupFilled(fill_bitbuffer(s, bits), tables, n, bits)

-----------------------------------------------------------------------------
(* The blocks.  A block goes on until it ends or the window is full.       *)

Put(s, c) == [s EXCEPT !.window[s.w] = c, !.w = @ + 1]
FullWindow(s) == s.w = GUNZIP_WSIZE
\* The window is given out; `more' if it was full.
Given(s, more) == [s EXCEPT !.count = s.w, !.w = IF more THEN 0 ELSE @, !.more = more]

\* As much of the copy as goes without a wrap of either place.
Piece(s) ==
    LET dd == s.dd % GUNZIP_WSIZE
        e  == GUNZIP_WSIZE - (IF dd > s.w THEN dd ELSE s.w)
        n  == IF e > s.nn THEN s.nn ELSE e
    IN  [FoldLeft(LAMBDA acc, i : Put(acc, acc.window[dd + i - 1]), s, [i \in 1..n |-> i]) EXCEPT !.nn = @ - n, !.dd = dd + n]

RECURSIVE Codes(_), Copied(_)
\* A mutant: the rest of a copy is forgotten where the window is full.
CopyForgotten(s) == IF FullWindow(s) THEN Given(s, TRUE) ELSE IF s.nn # 0 THEN Copied(s) ELSE Codes([s EXCEPT !.resume_copy = FALSE])
CopiedPiece(s) ==
    IF FullWindow(s) THEN Given([s EXCEPT !.resume_copy = s.nn # 0], TRUE)
    ELSE IF s.nn # 0 THEN Copied(s) ELSE Codes([s EXCEPT !.resume_copy = FALSE])
Copied(s) == CopiedPiece(Piece(s))
CopyFrom(s, t) == IF s.died THEN s ELSE Copied([s EXCEPT !.dd = s.w - t.n - s.num])
DistanceOf(s) == IF s.died THEN s ELSE CopyFrom(Number(s, s.t.e), s.t)
CopyLength(s, t) == DistanceOf(Lookup([s EXCEPT !.nn = t.n + s.num], s.td, 1, s.bd))
Literal(s) == IF FullWindow(s) THEN Given(s, TRUE) ELSE Codes(s)
Coded1(s, t) ==
    CASE s.died -> s
      [] ~s.died /\ t.e = 16 -> Literal(Put(s, t.n))
      [] ~s.died /\ t.e = 15 -> Given(s, FALSE)
      [] ~s.died /\ t.e < 15 -> CopyLength(Number(s, t.e), t)
CodeRead(s) == Coded1(s, s.t)
Codes(s) == CodeRead(Lookup(s, s.tl, 1, s.bl))
inflate_codes(s) == IF s.resume_copy THEN Copied(s) ELSE Codes(s)

RECURSIVE inflate_stored(_)
StoredByte(s) == IF s.died THEN s ELSE IF FullWindow(s) THEN Given(s, TRUE) ELSE inflate_stored(s)
StoredRead(s) == StoredByte(Put(s, s.num))
inflate_stored(s) == IF s.n = 0 THEN Given(s, FALSE) ELSE StoredRead(Number([s EXCEPT !.n = @ - 1], Byte))

Died(s) == [s EXCEPT !.died = TRUE]
StoredLength(s, n) == IF s.num = 2^(2 * Byte) - 1 - n THEN [s EXCEPT !.n = n, !.method = -1] ELSE Died(s)
StoredCheck(s) == StoredLength(Number(s, 2 * Byte), s.num)
stored_setup(s) == StoredCheck(Number(Drop(s, Len(s.bb) % Byte), 2 * Byte))

CodesSetup(s, l, d) ==
    [s EXCEPT !.tl = l.t, !.td = d.t, !.bl = l.m, !.bd = d.m, !.method = -2]
FixedTable  == huft_build([i \in 0..(MaxLit + 1) |-> FixedLen(i)], LITERALS + 1, cplens, cplext, FixedBits)
FixedDists  == huft_build([i \in 0..(MaxDist - 1) |-> FixedDist], 0, cpdist, cpdext, FixedDist)

\* A dynamic block: the lengths of the lengths, the lengths, two tables.
RECURSIVE ReadLengths(_, _, _)
RepeatTo(s, n, table, len, times) ==
    IF Len(s.ll) + times > n THEN Died(s)
    ELSE ReadLengths([s EXCEPT !.ll = @ \o [i \in 1..times |-> len], !.last = len], n, table)
LongRun == 3 + 2^RepBits[2]
Repeat(s, n, table, code) ==
    CASE s.died -> s
      [] ~s.died /\ code = BMAX -> RepeatTo(s, n, table, s.last, 3 + s.num)
      [] ~s.died /\ code = BMAX + 1 -> RepeatTo(s, n, table, 0, 3 + s.num)
      [] ~s.died /\ code = BMAX + 2 -> RepeatTo(s, n, table, 0, LongRun + s.num)
LengthCode(s, n, table, code) ==
    IF code < BMAX THEN ReadLengths([s EXCEPT !.ll = Append(@, code), !.last = code], n, table)
    ELSE Repeat(Number(s, RepBits[code - BMAX + 1]), n, table, code)
LengthEntry(s, n, table, t) == LengthCode(Drop(s, t.b), n, table, t.n)
LengthFilled(s, n, table) == IF s.died THEN s ELSE LengthEntry(s, n, table, table.t[1][Peek(s, table.m)])
ReadLengths(s, n, table) == IF Len(s.ll) >= n THEN s ELSE LengthFilled(fill_bitbuffer(s, table.m), n, table)

DynamicTables(s, l, d) == IF l.ret # 0 \/ d.ret # 0 THEN Died(s) ELSE CodesSetup(s, l, d)
DynamicSetup(s, nl, nd) ==
    IF s.died THEN s
    ELSE DynamicTables(s, huft_build([i \in 0..(nl - 1) |-> s.ll[i + 1]], LITERALS + 1, cplens, cplext, LitBits),
                       huft_build([i \in 0..(nd - 1) |-> s.ll[nl + i + 1]], 0, cpdist, cpdext, DistBits))
LengthsSetup(s, nl, nd, table) ==
    IF table.ret # 0 THEN Died(s) ELSE DynamicSetup(ReadLengths([s EXCEPT !.ll = <<>>, !.last = 0], nl + nd, table), nl, nd)
BlLengths(lens) == [i \in 0..(Len(border) - 1) |-> LET p == CHOOSE p \in DOMAIN border : border[p] = i IN IF p > Len(lens) THEN 0 ELSE lens[p]]
BlSetup(s, nl, nd) ==
    IF s.died THEN s ELSE LengthsSetup(s, nl, nd, huft_build(BlLengths(s.ll), Len(border), <<>>, <<>>, FixedBits))
BlRead(s, nl, nd, nb) ==
    IF nl > MaxLit \/ nd > MaxDist THEN Died(s)
    ELSE BlSetup(FoldLeft(LAMBDA acc, i : LET r == Number(acc, LenBits) IN [r EXCEPT !.ll = Append(@, r.num)],
                          [s EXCEPT !.ll = <<>>], [i \in 1..nb |-> i]), nl, nd)
CountsRead3(s, nl, nd) == IF s.died THEN s ELSE BlRead(s, nl, nd, 4 + s.num)
CountsRead2(s, nl) == CountsRead3(Number(s, CountBits[3]), nl, 1 + s.num)
CountsRead1(s) == CountsRead2(Number(s, CountBits[2]), LITERALS + 1 + s.num)
dynamic_setup(s) == CountsRead1(Number(s, CountBits[1]))

BlockType(s) ==
    CASE s.died \/ s.num = 3 -> Died(s)
      [] ~s.died /\ s.num = 0 -> stored_setup(s)
      [] ~s.died /\ s.num = 1 -> CodesSetup(s, FixedTable, FixedDists)
      [] ~s.died /\ s.num = 2 -> dynamic_setup(s)
LastRead(s) == BlockType(Number([s EXCEPT !.end_reached = s.num = 1], 2))
inflate_block(s) == LastRead(Number(s, 1))

-----------------------------------------------------------------------------
(* The windows, the members.                                               *)

Summed(s) ==
    [s EXCEPT !.crc = FoldLeft(Update, @, [i \in 1..s.count |-> s.window[i - 1]]), !.bytes_out = @ + s.count,
              !.out = Append(@, [i \in 1..s.count |-> s.window[i - 1]])]
Method(s) == IF s.died THEN s ELSE IF s.method = -1 THEN inflate_stored(s) ELSE inflate_codes(s)
\* One window after the other is made, summed up and written.
RECURSIVE Windows(_)
WindowMade(s) == IF s.died THEN s ELSE IF s.more THEN Windows([Summed(s) EXCEPT !.count = 0]) ELSE Windows([s EXCEPT !.need = TRUE])
Windows(s) ==
    IF s.need /\ s.end_reached THEN [Summed(s) EXCEPT !.end_reached = FALSE]
    ELSE WindowMade(Method(IF s.need THEN [inflate_block(s) EXCEPT !.need = FALSE] ELSE s))
Unwound(s) == IF ~s.died /\ Len(s.bb) >= Byte THEN [s EXCEPT !.pos = @ - 1, !.bb = <<>>] ELSE [s EXCEPT !.bb = <<>>]
inflate_unzip_internal(in, pos, crc) ==
    Unwound(Windows([in |-> in, pos |-> pos, bb |-> <<>>, num |-> 0, t |-> [e |-> 0, b |-> 0, n |-> 0], died |-> FALSE,
                     window |-> [i \in 0..(GUNZIP_WSIZE - 1) |-> Stale], w |-> 0, count |-> 0, more |-> FALSE, nn |-> 0, dd |-> 0,
                     tl |-> <<>>, td |-> <<>>, bl |-> 0, bd |-> 0, n |-> 0, ll |-> <<>>, last |-> 0, method |-> -1,
                     resume_copy |-> FALSE, need |-> TRUE, end_reached |-> FALSE, crc |-> crc, bytes_out |-> 0, out |-> <<>>]))
=============================================================================
