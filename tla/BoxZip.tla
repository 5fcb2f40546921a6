-------------------------------- MODULE BoxZip ------------------------------
(***************************************************************************)
(* gzip and gunzip on files (archival/bbunzip.c): one new file is made of  *)
(* each old one, which is then removed.  Below, what a .gz file stands for,*)
(* by RFC 1951 and 1952, and what must never be lost.                      *)
(***************************************************************************)
EXTENDS BoxFiles, FiniteSets

CONSTANTS
    Byte, LITERALS, WSIZE, MAX_MATCH, TOO_FAR, max_chain_length, max_lazy_match, good_match, nice_match,
    HASH_SIZE, H_SHIFT, Xor(_, _), extra_lbits, extra_dbits, MAX_BITS, MAX_BL_BITS, bl_order, StaticLen(_), StaticDist,
    LIT_BUFSIZE, DIST_BUFSIZE, Tried, RepBits, CountBits, LenBits, Mix(_, _),
    cplens, cplext, cpdist, cpdext, border, LitBits, DistBits, Stale,
    OUTBUFSIZ

Deflate == INSTANCE BoxDeflate
Inflate == INSTANCE BoxInflate WITH
              GUNZIP_WSIZE <- WSIZE, BMAX <- MAX_BITS + 1, FixedBits <- MAX_BL_BITS, FixedLen <- StaticLen,
              FixedDist <- StaticDist, Update <- Mix

-----------------------------------------------------------------------------
(* The formats.  A file is a sequence of bytes; the bytes of the header are *)
(* as they are, all others have Byte bits.                                  *)

ToBytes(bits) == [i \in 1..(Len(bits) \div Byte) |-> Inflate!NumberOf(SubSeq(bits, (i - 1) * Byte + 1, i * Byte))]
put_32bit(n) == ToBytes(Deflate!Low(n, 4 * Byte))
Seed == 1
Header == <<31, 139, 8, 0>> \o <<0, 0, 0, 0>> \o <<2, 3>>
\* zip(): the file and the counts that remain.
Zipped(d) == [bytes |-> Header \o ToBytes(d.bits) \o put_32bit(d.crc) \o put_32bit(d.isize % 2^(4 * Byte)), bl_count |-> d.bl_count]
zip(text, how, bl_count) == Zipped(Deflate!Deflated(text, how.chunk, how.beyond, bl_count, Seed))

\* check_header_gzip(), behind the two magic bytes: the place behind the header, 0
\* if there is none.
PastText(in, p) ==
    LET ends == {q \in p..Len(in) : in[q] = 0} IN IF ends = {} THEN 0 ELSE 1 + CHOOSE q \in ends : \A r \in ends : q <= r
IsSet(flags, bit) == (flags \div bit) % 2 = 1
PastExtra(in, flags, p) ==
    IF ~IsSet(flags, 4) THEN p
    ELSE IF p + 1 > Len(in) THEN 0
    ELSE IF p + 1 + in[p] + in[p + 1] * 2^Byte > Len(in) THEN 0 ELSE p + 2 + in[p] + in[p + 1] * 2^Byte
PastTexts(in, n, p) == IF n = 0 \/ p = 0 THEN p ELSE IF n = 1 \/ PastText(in, p) = 0 THEN PastText(in, p) ELSE PastText(in, PastText(in, p))
PastCheck(in, flags, p) == IF ~IsSet(flags, 2) \/ p = 0 THEN p ELSE IF p + 1 > Len(in) THEN 0 ELSE p + 2
Texts(flags) == (IF IsSet(flags, 8) THEN 1 ELSE 0) + (IF IsSet(flags, 16) THEN 1 ELSE 0)
check_header_gzip(in, p) ==
    IF p + 7 > Len(in) THEN 0
    ELSE IF in[p] # 8 THEN 0
    ELSE PastCheck(in, in[p + 1], PastTexts(in, Texts(in[p + 1]), PastExtra(in, in[p + 1], p + 8)))

\* unpack_gz_stream(): the pieces that are written, and whether all was well.
RECURSIVE Member(_, _, _, _)
Word32(in, p) == Inflate!NumberOf(FlattenSeq([i \in 1..4 |-> Inflate!ByteBits(in[p + i - 1])]))
Ended(out, ok) == [out |-> out, ok |-> ok]
NextMember(in, p, out, ok) ==
    IF p + 1 <= Len(in) /\ in[p] = 31 /\ in[p + 1] = 139 THEN Member(in, p + 2, out, ok) ELSE Ended(out, ok)
Trailer(in, s, out, ok) ==
    IF s.died \/ ~ok \/ s.pos + 7 > Len(in) \/ s.crc # Word32(in, s.pos) THEN Ended(out \o s.out, FALSE)
    ELSE NextMember(in, s.pos + 8, out \o s.out, s.bytes_out = Word32(in, s.pos + 4))
MemberFrom(in, p, out, ok) ==
    IF p = 0 THEN Ended(out, FALSE) ELSE Trailer(in, Inflate!inflate_unzip_internal(in, p, Seed), out, ok)
Member(in, p, out, ok) == MemberFrom(in, check_header_gzip(in, p), out, ok)
unpack_gz_stream(in) == Member(in, 3, <<>>, TRUE)

-----------------------------------------------------------------------------
(* bbunpack().  A path has one name, which is a sequence of parts.  how =   *)
(* [tool, opt, args, bad, fault, kill, chunk, beyond]: the option is c, t or *)
(* none, no more than `bad' bytes of a file can be read.                     *)

new_name(tool, name) ==
    CASE tool = "gzip" -> <<Append(name, "gz")>>
      [] tool = "gunzip" /\ Len(name) > 1 /\ Last(name) = "gz" -> <<Front(name)>>
      [] tool = "gunzip" /\ Len(name) > 1 /\ Last(name) = "tgz" -> <<Append(Front(name), "tar")>>
      [] OTHER -> <<>>

Content(node) == IF node.type = "f" THEN FlattenSeq(node.data) ELSE <<>>
Readable(text, how) == IF how.bad > Len(text) THEN text ELSE SubSeq(text, 1, how.bad)
\* What is written at a time, and how it ends: well, badly, or with exit().
Pieces(bytes) ==
    [i \in 1..((Len(bytes) + OUTBUFSIZ - 1) \div OUTBUFSIZ) |->
        SubSeq(bytes, (i - 1) * OUTBUFSIZ + 1, IF i * OUTBUFSIZ < Len(bytes) THEN i * OUTBUFSIZ ELSE Len(bytes))]
Packed(z) == [out |-> Pieces(z.bytes), end |-> "well", bl_count |-> z.bl_count]
Inflated(g, bl_count) == [out |-> g.out, end |-> IF g.ok THEN "well" ELSE "badly", bl_count |-> bl_count]
unpacker(text, how, bl_count) ==
    CASE how.tool = "gzip" -> Packed(zip(text, how, bl_count))
      [] how.tool = "gunzip" /\ Len(text) > 1 /\ SubSeq(text, 1, 2) = <<31, 139>> -> Inflated(unpack_gz_stream(text), bl_count)
      [] OTHER -> [out |-> <<>>, end |-> IF text = <<>> \/ text = <<31>> THEN "exit" ELSE "badly", bl_count |-> bl_count]

Bad(s)  == [s EXCEPT !.exit = 1]
Exit(s) == [s EXCEPT !.exit = 1, !.dead = TRUE]
\* The output: a file, or standard output for <<>>.
WriteOut(s, q, piece, opt) ==
    CASE q # <<>> -> Write(s, q, piece)
      [] q = <<>> /\ opt = "t" -> Look(s, q)
      [] q = <<>> /\ opt # "t" -> Call([s EXCEPT !.shown = @ \o piece], "ok", s.fs)
WriteAll(s, q, pieces, opt) ==
    FoldLeft(LAMBDA t, piece : IF Ok(t) THEN WriteOut(t, q, piece, opt) ELSE t, [s EXCEPT !.errno = "ok"], pieces)
Removed(s) == IF Ok(s) THEN s ELSE Exit(s)
\* One of the two files is deleted.
AfterWrite(s, p, q, u, tool) ==
    CASE ~Ok(s) /\ tool = "gzip" -> Exit(s)
      [] Ok(s) /\ u.end = "exit" -> Exit(s)
      [] Ok(s) /\ u.end = "well" -> IF q = <<>> THEN s ELSE Removed(Unlink(s, p))
      [] OTHER -> IF q = <<>> THEN Bad(s) ELSE Removed(Unlink(Bad(s), q))
RunUnpacker(s, p, q, how, u) ==
    AfterWrite(WriteAll([s EXCEPT !.bl_count = u.bl_count, !.counts = Append(@, s.bl_count)], q, u.out, how.opt), p, q, u, how.tool)
Unpacked(s, p, q, how) ==
    IF s.dead THEN s ELSE RunUnpacker(s, p, q, how, unpacker(Readable(Content(s.fs[p]), how), how, s.bl_count))
Opened(s, p, q, how) == IF Ok(s) THEN Unpacked(s, p, q, how) ELSE Bad(s)
ToFile(s, p, how) ==
    IF new_name(how.tool, p[1]) = <<>> THEN Bad(s)
    ELSE Opened(Create(s, new_name(how.tool, p[1]), NewFile), p, new_name(how.tool, p[1]), how)
Destination(s, p, how) ==
    IF ~Ok(s) THEN Bad(s)
    ELSE IF how.opt = "t" THEN Opened(Look(s, p), p, <<>>, how)
    ELSE IF how.opt = "c" THEN Opened(s, p, <<>>, how) ELSE ToFile(s, p, how)
Source(s, p, how) == IF Ok(s) THEN Destination(Open(s, p), p, how) ELSE Bad(s)
bbunpack(fs, how) ==
    FoldLeft(LAMBDA s, p : IF s.dead THEN s ELSE Source(stat(s, p), p, how),
             [fs |-> fs, n |-> 1, fault |-> how.fault, kill |-> how.kill, dead |-> FALSE, errno |-> "ok", exit |-> 0, shown |-> <<>>,
              bl_count |-> [b \in 0..MAX_BITS |-> 0], counts |-> <<>>], how.args)

-----------------------------------------------------------------------------
(***************************************************************************)
(* What a .gz file stands for, by RFC 1951 and 1952, and what gzip and     *)
(* gunzip may do to the files.                                             *)
(***************************************************************************)

(* A code: of the codes of n bits, that of v is the number of those before  *)
(* it, after the room that the shorter ones take.                           *)

Taking(len, v, n) == {u \in DOMAIN len : len[u] > 0 /\ (len[u] < n \/ (len[u] = n /\ u < v))}
Room(len, S, n) == FoldFunctionOnSet(LAMBDA a, b : a + b, 0, [u \in DOMAIN len |-> 2^(n - len[u])], S)
Word(len, v) == Room(len, Taking(len, v, len[v]), len[v])
HasCode(len) == {v \in DOMAIN len : len[v] > 0}
WordsOf(len) == {[v |-> v, n |-> len[v], word |-> Word(len, v)] : v \in HasCode(len)}
Needed(len) == Room(len, HasCode(len), MAX_BITS)
\* A code leaves nothing out, or it is a single one of one bit.
Complete(len) == Needed(len) = 2^MAX_BITS \/ \E v \in DOMAIN len : HasCode(len) = {v} /\ len[v] = 1
\* gunzip refuses blocks without distances where no distance has a code.
Allowed(len) == Complete(len)

-----------------------------------------------------------------------------
(* A stream: s = [bits, p, out, ok], with the value last read in s.v.       *)

More(s, n) == s.ok /\ s.p + n - 1 <= Len(s.bits)
Refused(s) == [s EXCEPT !.ok = FALSE]
Get(s, n) ==
    IF ~More(s, n) THEN Refused(s)
    ELSE [s EXCEPT !.p = @ + n, !.v = FoldRight(LAMBDA b, acc : 2 * acc + b, SubSeq(s.bits, s.p, s.p + n - 1), 0)]
Prefixed(s, w) ==
    More(s, w.n) /\ FoldLeft(LAMBDA acc, b : 2 * acc + b, 0, SubSeq(s.bits, s.p, s.p + w.n - 1)) = w.word
Found(s, ws) == IF ws = {} THEN Refused(s) ELSE LET w == CHOOSE w \in ws : TRUE IN [s EXCEPT !.p = @ + w.n, !.v = w.v]
GetCode(s, words) == IF ~s.ok THEN s ELSE Found(s, {w \in words : Prefixed(s, w)})

RECURSIVE Copies(_, _, _)
Copies(s, n, dist) ==
    IF dist > Len(s.out) THEN Refused(s)
    ELSE IF n = 0 THEN s ELSE Copies([s EXCEPT !.out = Append(@, s.out[Len(s.out) + 1 - dist])], n - 1, dist)
RECURSIVE Symbols(_, _, _)
CopyDone(s, l, d) == IF s.ok THEN Symbols(s, l, d) ELSE s
DistanceGot(s, n, base, l, d) == IF s.ok THEN CopyDone(Copies(s, n, base + s.v), l, d) ELSE s
DistanceCode(s, n, l, d) == IF s.ok THEN DistanceGot(Get(s, cpdext[s.v]), n, cpdist[s.v], l, d) ELSE s
LengthGot(s, base, l, d) == IF s.ok THEN DistanceCode(GetCode(s, d), base + s.v, l, d) ELSE s
Symbol(s, l, d) ==
    CASE ~s.ok -> s
      [] s.ok /\ s.v < LITERALS -> Symbols([s EXCEPT !.out = Append(@, s.v)], l, d)
      [] s.ok /\ s.v = LITERALS -> s
      [] s.ok /\ s.v > LITERALS ->
            IF cplext[s.v - LITERALS - 1] = 99 THEN Refused(s)
            ELSE LengthGot(Get(s, cplext[s.v - LITERALS - 1]), cplens[s.v - LITERALS - 1], l, d)
Symbols(s, l, d) == Symbol(GetCode(s, l), l, d)

Aligned(s) == [s EXCEPT !.p = @ + ((1 - @) % Byte)]
RECURSIVE Stored(_, _)
Stored(s, n) == IF n = 0 \/ ~s.ok THEN s ELSE LET g == Get(s, Byte) IN Stored([g EXCEPT !.out = Append(@, g.v)], n - 1)
StoredSize(s, n) == IF s.ok /\ s.v + n = 2^(2 * Byte) - 1 THEN Stored(s, n) ELSE Refused(s)
StoredFrom(s) == IF s.ok THEN StoredSize(Get(s, 2 * Byte), s.v) ELSE s

\* The lengths of a dynamic block are sent with a code of their own.
RECURSIVE SentLengths(_, _, _)
Run(s, lens, len, base) == IF s.ok THEN [s EXCEPT !.lens = lens \o [i \in 1..(base + s.v) |-> len]] ELSE s
SentLength(s, n, words) ==
    CASE ~s.ok \/ (s.v = MAX_BITS + 1 /\ s.lens = <<>>) -> Refused(s)
      [] s.ok /\ s.v <= MAX_BITS -> SentLengths([s EXCEPT !.lens = Append(@, s.v)], n, words)
      [] s.ok /\ s.v = MAX_BITS + 1 /\ s.lens # <<>> -> SentLengths(Run(Get(s, RepBits[1]), s.lens, Last(s.lens), 3), n, words)
      [] s.ok /\ s.v = MAX_BITS + 2 -> SentLengths(Run(Get(s, RepBits[2]), s.lens, 0, 3), n, words)
      [] s.ok /\ s.v = MAX_BITS + 3 -> SentLengths(Run(Get(s, RepBits[3]), s.lens, 0, 3 + 2^RepBits[2]), n, words)
SentLengths(s, n, words) ==
    IF ~s.ok \/ Len(s.lens) = n THEN s ELSE IF Len(s.lens) > n THEN Refused(s) ELSE SentLength(GetCode(s, words), n, words)
DynamicCodes(s, l, d) == IF s.ok /\ Allowed(l) /\ Allowed(d) THEN Symbols(s, WordsOf(l), WordsOf(d)) ELSE Refused(s)
Dynamic(s, nl, nd) ==
    IF ~s.ok THEN s ELSE DynamicCodes(s, [v \in 0..(nl - 1) |-> s.lens[v + 1]], [v \in 0..(nd - 1) |-> s.lens[nl + v + 1]])
BlCode(s, nl, nd, len) ==
    IF Complete(len) THEN Dynamic(SentLengths([s EXCEPT !.lens = <<>>], nl + nd, WordsOf(len)), nl, nd) ELSE Refused(s)
BlLens(s, nl, nd) == IF ~s.ok THEN s ELSE BlCode(s, nl, nd, [v \in 0..(Len(border) - 1) |->
    LET i == CHOOSE i \in DOMAIN border : border[i] = v IN IF i <= Len(s.lens) THEN s.lens[i] ELSE 0])
BlSent(s, nl, nd, nb) ==
    BlLens(FoldLeft(LAMBDA acc, i : LET g == Get(acc, LenBits) IN [g EXCEPT !.lens = Append(@, g.v)],
                    [s EXCEPT !.lens = <<>>], [i \in 1..nb |-> i]), nl, nd)
Counts3(s, nl, nd) == IF s.ok /\ nl <= Inflate!MaxLit /\ nd <= Inflate!MaxDist THEN BlSent(s, nl, nd, 4 + s.v) ELSE Refused(s)
Counts2(s, nl) == Counts3(Get(s, CountBits[3]), nl, 1 + s.v)
Counts1(s) == Counts2(Get(s, CountBits[2]), LITERALS + 1 + s.v)

FixedWords == WordsOf([v \in 0..(Inflate!MaxLit + 1) |-> StaticLen(v)])
FixedDistWords == WordsOf([v \in 0..(2^StaticDist - 1) |-> StaticDist])
RECURSIVE RefBlocks(_)
AfterBlock(s, final) == IF final = 1 \/ ~s.ok THEN s ELSE RefBlocks(s)
OneBlock(s, final) ==
    CASE ~s.ok \/ s.v = 3 -> Refused(s)
      [] s.ok /\ s.v = 0 -> AfterBlock(StoredFrom(Get(Aligned(s), 2 * Byte)), final)
      [] s.ok /\ s.v = 1 -> AfterBlock(Symbols(s, FixedWords, FixedDistWords), final)
      [] s.ok /\ s.v = 2 -> AfterBlock(Counts1(Get(s, CountBits[1])), final)
BlockBegun(s) == IF s.ok THEN OneBlock(Get(s, 2), s.v) ELSE s
RefBlocks(s) == BlockBegun(Get(s, 1))

BitsFrom(in, p) == FlattenSeq([i \in 1..(IF p > Len(in) THEN 0 ELSE Len(in) + 1 - p) |-> [b \in 1..Byte |-> (in[p + i - 1] \div 2^(b - 1)) % 2]])
RefInflate(in, p) == Aligned(RefBlocks([bits |-> BitsFrom(in, p), p |-> 1, out |-> <<>>, ok |-> TRUE, v |-> 0, lens |-> <<>>]))

-----------------------------------------------------------------------------
(* A file is a sequence of members; what follows them is ignored.           *)

Four(in, p) == FoldRight(LAMBDA c, acc : 2^Byte * acc + c, SubSeq(in, p, p + 3), 0)
Sum(text) == FoldLeft(Mix, Seed, text)
RECURSIVE RefMembers(_, _, _)
RefRest(in, p, out) == IF p + 1 <= Len(in) /\ SubSeq(in, p, p + 1) = <<31, 139>> THEN RefMembers(in, p, out) ELSE [ok |-> TRUE, text |-> out]
RefTrailer(in, p, s, out) ==
    IF s.ok /\ p + 7 <= Len(in) /\ Four(in, p) = Sum(s.out) /\ Four(in, p + 4) = Len(s.out) % 2^(4 * Byte)
    THEN RefRest(in, p + 8, out \o s.out) ELSE [ok |-> FALSE, text |-> <<>>]
RefBody(in, p, s, out) == RefTrailer(in, p + ((s.p - 1) \div Byte), s, out)
RefData(in, p, out) == IF p = 0 \/ p > Len(in) THEN [ok |-> FALSE, text |-> <<>>] ELSE RefBody(in, p, RefInflate(in, p), out)
\* The optional fields: extra, name, comment, sum.
Zero(in, p) == LET z == {q \in p..Len(in) : in[q] = 0} IN IF z = {} THEN Len(in) + 1 ELSE CHOOSE q \in z : \A r \in z : q <= r
AfterExtra(in, f, p) == IF (f \div 4) % 2 = 1 THEN IF p + 1 > Len(in) THEN Len(in) + 1 ELSE p + 2 + in[p] + 2^Byte * in[p + 1] ELSE p
AfterText(in, f, flag, p) == IF (f \div flag) % 2 = 1 THEN Zero(in, p) + 1 ELSE p
AfterSum(f, p) == IF (f \div 2) % 2 = 1 THEN p + 2 ELSE p
Behind(in, f, p) == AfterSum(f, AfterText(in, f, 16, AfterText(in, f, 8, AfterExtra(in, f, p))))
RefMembers(in, p, out) ==
    IF p + 9 > Len(in) \/ SubSeq(in, p, p + 1) # <<31, 139>> \/ in[p + 2] # 8 THEN [ok |-> FALSE, text |-> <<>>]
    ELSE RefData(in, Behind(in, in[p + 3], p + 10), out)
Unzipped(in) == RefMembers(in, 1, <<>>)

-----------------------------------------------------------------------------
(* The promise.                                                            *)

Made(how, p) == new_name(how.tool, p[1])
\* What the new file must be: one that stands for the old one, or the text it stands for.
Stands(how, old, new) ==
    IF how.tool = "gzip" THEN Unzipped(new) = [ok |-> TRUE, text |-> old] ELSE Unzipped(old) = [ok |-> TRUE, text |-> new]

\* ct_init() adds to what the last tree of the file before has left in bl_count:
\* where that has codes of the greatest length, the static codes are wrong.
Stained(end) == \E i \in DOMAIN end.counts : end.counts[i][MAX_BL_BITS] > 0
\* gzip takes an error for the end of a file, and so does gunzip between members.
CutShort(how, fs) == \E p \in ToSet(how.args) : p \in DOMAIN fs /\ Len(Content(fs[p])) > how.bad
Trusted(fs, how, end) == ~CutShort(how, fs) /\ (how.tool = "gzip" => ~Stained(end))

Converted(fs, how, end, p) ==
    /\ p \notin DOMAIN end.fs /\ Made(how, p) \notin DOMAIN fs /\ Made(how, p) \in DOMAIN end.fs
    /\ Stands(how, Content(fs[p]), Content(end.fs[Made(how, p)]))
NothingLost(fs, how, end) ==
    \A p \in DOMAIN fs : (p \in DOMAIN end.fs /\ end.fs[p] = fs[p]) \/ (how.opt = "" /\ p \in ToSet(how.args) /\ Converted(fs, how, end, p))
\* What is left of a file that was begun.
NothingLeft(fs, how, end) ==
    ~end.dead => \A q \in DOMAIN end.fs \ DOMAIN fs : \E p \in ToSet(how.args) : q = Made(how, p) /\ p \notin DOMAIN end.fs

Text(fs, how, p) == Content(fs[p])
Good(fs, how, p) == p \in DOMAIN fs /\ (how.tool = "gzip" \/ Unzipped(Content(fs[p])).ok)
Shown(fs, how, text) ==
    IF how.tool = "gzip" THEN Unzipped(text) = [ok |-> TRUE, text |-> FlattenSeq([i \in DOMAIN how.args |-> Content(fs[how.args[i]])])]
    ELSE text = FlattenSeq([i \in DOMAIN how.args |-> Unzipped(Content(fs[how.args[i]])).text])
AllDone(fs, how, end) ==
    /\ \A p \in ToSet(how.args) : Good(fs, how, p) /\ (how.opt = "" => p \notin DOMAIN end.fs)
    /\ how.opt = "c" => Shown(fs, how, end.shown)
\* Where nothing stands in the way, all is done.
Possible(fs, how) ==
    /\ how.fault = 0 /\ how.kill = 0 /\ (how.opt = "" => IsInjective(how.args))
    /\ \A p \in ToSet(how.args) : Good(fs, how, p) /\ fs[p].type = "f" /\ (how.opt = "" => Made(how, p) # <<>> /\ Made(how, p) \notin DOMAIN fs)
RestoresData(fs, how, end) ==
    Trusted(fs, how, end) =>
        /\ NothingLost(fs, how, end)
        /\ NothingLeft(fs, how, end)
        /\ how.kill = 0 /\ end.exit = 0 => AllDone(fs, how, end)
        /\ Possible(fs, how) => end.exit = 0
=============================================================================
