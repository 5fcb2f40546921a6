------------------------------ MODULE BoxDeflate ----------------------------
(***************************************************************************)
(* gzip's deflate (archival/gzip.c): strings are looked up in hash chains  *)
(* over a sliding window, a match waits for a longer one at the next place,*)
(* and every block is sent with whichever of three codes is the shortest.  *)
(* The sizes are parameters.  The output is a sequence of bits, a code with*)
(* its first bit first, a number with its last.                            *)
(***************************************************************************)
EXTENDS Integers, Sequences, FiniteSets, SequencesExt, Functions

CONSTANTS
    Byte,                   \* bits of a byte
    LITERALS,               \* different bytes
    WSIZE, MAX_MATCH, TOO_FAR, max_chain_length, max_lazy_match, good_match, nice_match,
    HASH_SIZE, H_SHIFT, Xor(_, _),
    extra_lbits, extra_dbits,       \* of the length and the distance codes, from 0
    MAX_BITS, MAX_BL_BITS, bl_order,
    StaticLen(_), StaticDist,       \* bits in the static codes
    LIT_BUFSIZE, DIST_BUFSIZE, Tried,   \* Tried: how often it is looked whether to stop the block
    RepBits, CountBits, LenBits,    \* 2, 3, 7; 5, 5, 4; 3: bits of a repeat, of the counts, of a length
    Mix(_, _)                       \* one step of the checksum

MIN_MATCH     == 3
MIN_LOOKAHEAD == MAX_MATCH + MIN_MATCH + 1
MAX_DIST      == WSIZE - MIN_LOOKAHEAD
WINDOW_SIZE   == 2 * WSIZE
LENGTH_CODES  == Cardinality(DOMAIN extra_lbits)
D_CODES       == Cardinality(DOMAIN extra_dbits)
END_BLOCK     == LITERALS
L_CODES       == LITERALS + 1 + LENGTH_CODES
REP_3_6       == MAX_BITS + 1
REPZ_3_10     == MAX_BITS + 2
REPZ_11_138   == MAX_BITS + 3
BL_CODES      == MAX_BITS + 4

\* send_bits() of a number; bi_windup().
Low(v, n) == [i \in 1..n |-> (v \div 2^(i - 1)) % 2]
Zeros(n) == [i \in 1..n |-> 0]
bi_windup(bits) == bits \o Zeros((-Len(bits)) % Byte)

-----------------------------------------------------------------------------
(* The trees.  A heap is [at, n, freq, depth]; the nodes leave it in order. *)

SMALLER(h, a, b) == h.freq[a] < h.freq[b] \/ (h.freq[a] = h.freq[b] /\ h.depth[a] <= h.depth[b])

RECURSIVE Sink(_, _, _)
Son(h, j) == IF j < h.n /\ SMALLER(h, h.at[j + 1], h.at[j]) THEN j + 1 ELSE j
SinkTo(h, v, k, j) == IF SMALLER(h, v, h.at[j]) THEN [h EXCEPT !.at[k] = v] ELSE Sink([h EXCEPT !.at[k] = h.at[j]], v, j)
Sink(h, v, k) == IF 2 * k > h.n THEN [h EXCEPT !.at[k] = v] ELSE SinkTo(h, v, k, Son(h, 2 * k))
pqdownheap(h, k) == Sink(h, h.at[k], k)

\* PQREMOVE, and the father of the two that came out.
Removed(h) == pqdownheap([h EXCEPT !.at[1] = h.at[h.n], !.n = @ - 1], 1)
Larger(a, b) == IF a > b THEN a ELSE b
Father(h, n, m) ==
    pqdownheap([h EXCEPT !.freq = @ @@ (h.node :> @[n] + @[m]), !.depth = @ @@ (h.node :> Larger(@[n], @[m]) + 1),
                         !.dad = (n :> h.node) @@ (m :> h.node) @@ @, !.at[1] = h.node,
                         !.order = <<m, n>> \o @, !.node = @ + 1], 1)
RECURSIVE Combined(_)
CombinedFrom(h, n) == Combined(Father(h, n, h.at[1]))
Combined(h) ==
    IF h.n < 2 THEN [h EXCEPT !.order = <<h.at[1]>> \o @] ELSE CombinedFrom(Removed(h), h.at[1])

\* At least two codes have a frequency.
RECURSIVE Forced(_)
ForcedNew(f, new) == Forced([f EXCEPT !.used = Append(@, new), !.max_code = Larger(@, new), !.freq[new] = 1])
Forced(f) == IF Len(f.used) >= 2 THEN f ELSE ForcedNew(f, IF f.max_code < 2 THEN f.max_code + 1 ELSE 0)

Used(freq) == SelectSeq([i \in 1..Cardinality(DOMAIN freq) |-> i - 1], LAMBDA n : freq[n] > 0)
Heaped(f, elems) ==
    LET h == [at |-> f.used, n |-> Len(f.used), freq |-> f.freq, depth |-> [n \in DOMAIN f.freq |-> 0],
              dad |-> <<>>, order |-> <<>>, node |-> elems]
    IN  FoldLeft(LAMBDA acc, i : pqdownheap(acc, Len(f.used) \div 2 + 1 - i), h, [i \in 1..(Len(f.used) \div 2) |-> i])

\* gen_bitlen(): the lengths from the root on, cut at the maximum ...
LenAt(g, n, h, d) ==
    LET bits == IF g.len[h.dad[n]] + 1 > d.max THEN d.max ELSE g.len[h.dad[n]] + 1
    IN  [g EXCEPT !.len = @ @@ (n :> bits), !.overflow = @ + (IF g.len[h.dad[n]] + 1 > d.max THEN 1 ELSE 0),
                  !.bl_count[bits] = @ + (IF n < d.elems THEN 1 ELSE 0)]
\* ... then a leaf moves down for every two that were cut ...
RECURSIVE Moved(_, _, _)
MovedFrom(bl_count, over, d, bits) ==
    LET c == [bl_count EXCEPT ![bits] = @ - 1] IN LET e == [c EXCEPT ![bits + 1] = @ + 2]
    IN  Moved([e EXCEPT ![d.max] = @ - 1], over - 2, d)
Moved(bl_count, over, d) ==
    IF over <= 0 THEN bl_count
    ELSE MovedFrom(bl_count, over, d,
                   CHOOSE b \in 0..(d.max - 1) : bl_count[b] > 0 /\ \A c \in (b + 1)..(d.max - 1) : bl_count[c] = 0)
\* ... and the longest go to the rarest.
LongestFirst(bl_count, d) == FlattenSeq([i \in 1..d.max |-> [j \in 1..bl_count[d.max + 1 - i] |-> d.max + 1 - i]])
Relength(leaves, lens) == [n \in ToSet(leaves) |-> lens[CHOOSE i \in DOMAIN leaves : leaves[i] = n]]
Lengths(g, h, d) ==
    IF g.overflow = 0 THEN g
    ELSE LET c == Moved(g.bl_count, g.overflow, d)
         IN  [g EXCEPT !.bl_count = c,
                       !.len = Relength(Reverse(SelectSeq(h.order, LAMBDA n : n < d.elems)), LongestFirst(c, d)) @@ @]
gen_bitlen(h, d) ==
    Lengths(FoldLeft(LAMBDA g, n : LenAt(g, n, h, d),
                     [len |-> (h.order[1] :> 0), bl_count |-> [b \in 0..MAX_BITS |-> 0], overflow |-> 0], Tail(h.order)), h, d)

\* gen_codes(): only so many bits of a code are sent.
NextCode(bl_count) ==
    FoldLeft(LAMBDA acc, b : acc @@ (b :> 2 * (acc[b - 1] + bl_count[b - 1])), (0 :> 0), [b \in 1..MAX_BITS |-> b])
CodeBits(v, n) == Reverse(Low(v, n))
CodesFrom(len, next) ==
    [n \in DOMAIN len |-> CodeBits(next[len[n]] + Cardinality({m \in DOMAIN len : m < n /\ len[m] = len[n]}), len[n])]
gen_codes(len, bl_count) == CodesFrom(len, NextCode(bl_count))

\* What build_tree() leaves of a tree, and what it adds to opt_len and static_len.
Total(f, S) == FoldFunctionOnSet(LAMBDA a, b : a + b, 0, f, S)
Built(f, g, d) ==
    LET len == [n \in 0..(d.elems - 1) |-> IF f.freq[n] > 0 THEN g.len[n] ELSE 0]
    IN  [len |-> len, code |-> gen_codes(len, g.bl_count), max_code |-> f.max_code, bl_count |-> g.bl_count,
         opt |-> Total([n \in DOMAIN len |-> f.freq[n] * (len[n] + d.extra[n])], DOMAIN len) - f.forced,
         static |-> Total([n \in DOMAIN len |-> f.freq[n] * (d.static[n] + d.extra[n])], DOMAIN len)
                    - Total(d.static, {f.used[i] : i \in (Len(f.used) - f.forced + 1)..Len(f.used)})]
BuiltFrom(f, h, d) == Built(f, gen_bitlen(h, d), d)
build_tree_of(f, d) == BuiltFrom(f, Combined(Heaped(f, d.elems)), d)
WithForced(f, n) == f @@ [forced |-> Len(f.used) - n]
build_tree(freq, d) ==
    LET used == Used(freq)
    IN  build_tree_of(WithForced(Forced([used |-> used, max_code |-> IF used = <<>> THEN -1 ELSE Last(used), freq |-> freq]),
                                 Len(used)), d)

-----------------------------------------------------------------------------
(* What a tree is sent as: the lengths, with repeats.  scan_tree() counts   *)
(* the codes of this sequence, send_tree() sends it.                        *)

Most(code) == LET least == IF code = REPZ_11_138 THEN 3 + 2^RepBits[2] ELSE 3 IN least + 2^RepBits[code - MAX_BITS] - 1
MaxCount(next, same) == IF next = 0 THEN Most(REPZ_11_138) ELSE IF same THEN Most(REP_3_6) ELSE Most(REP_3_6) + 1
MinCount(next, same) == IF next = 0 \/ same THEN 3 ELSE 4

Plainly(len, n) == [i \in 1..n |-> <<len, 0>>]
Repeated(len, n, prev, min) ==
    IF n < min THEN Plainly(len, n)
    ELSE IF len # 0 THEN IF len # prev THEN <<<<len, 0>>, <<REP_3_6, n - 4>>>> ELSE <<<<REP_3_6, n - 3>>>>
    ELSE IF n <= Most(REPZ_3_10) THEN <<<<REPZ_3_10, n - 3>>>>
    ELSE <<<<REPZ_11_138, n - (Most(REPZ_3_10) + 1)>>>>

RunStep(r, cur, next) ==
    IF r.count + 1 < r.max /\ cur = next THEN [r EXCEPT !.count = @ + 1]
    ELSE [sent |-> r.sent \o Repeated(cur, r.count + 1, r.prev, r.min), count |-> 0, prev |-> cur,
          max |-> MaxCount(next, cur = next), min |-> MinCount(next, cur = next)]
scan_tree(t) ==
    FoldLeft(LAMBDA r, n : RunStep(r, t.len[n], IF n = t.max_code THEN -1 ELSE t.len[n + 1]),
             [sent |-> <<>>, count |-> 0, prev |-> -1, max |-> MaxCount(t.len[0], FALSE), min |-> MinCount(t.len[0], FALSE)],
             [i \in 1..(t.max_code + 1) |-> i - 1]).sent

BlExtra(code) == IF code > MAX_BITS THEN RepBits[code - MAX_BITS] ELSE 0
send_tree(sent, bl) == FlattenSeq([i \in DOMAIN sent |-> bl.code[sent[i][1]] \o Low(sent[i][2], BlExtra(sent[i][1]))])

Count(seq, P(_)) == Len(SelectSeq(seq, P))
BlDesc == [elems |-> BL_CODES, max |-> MAX_BL_BITS, extra |-> [n \in 0..(BL_CODES - 1) |-> BlExtra(n)],
           static |-> [n \in 0..(BL_CODES - 1) |-> 0]]
bl_tree(sent) == build_tree([n \in 0..(BL_CODES - 1) |-> Count(sent, LAMBDA c : c[1] = n)], BlDesc)
\* build_bl_tree(): how many lengths of this third tree are sent.
BlCodes(bl) ==
    LET used == {i \in 1..BL_CODES : bl.len[bl_order[i]] # 0} \cup {3} IN CHOOSE i \in used : \A j \in used : j <= i

HeaderBits(n) == CountBits[1] + CountBits[2] + CountBits[3] + LenBits * n
send_all_trees(l, d, bl, sent, n) ==
    Low(l.max_code - LITERALS, CountBits[1]) \o Low(d.max_code, CountBits[2]) \o Low(n - 4, CountBits[3])
    \o FlattenSeq([i \in 1..n |-> Low(bl.len[bl_order[i]], LenBits)]) \o send_tree(sent, bl)

-----------------------------------------------------------------------------
(* A block: what was tallied is a sequence of literals (dist = 0) and       *)
(* matches.                                                                 *)

Bases(extra) == [c \in DOMAIN extra |-> Total([i \in DOMAIN extra |-> 2^extra[i]], {i \in DOMAIN extra : i < c})]
CodeOf(base, extra, v) == CHOOSE c \in DOMAIN extra : base[c] <= v /\ v < base[c] + 2^extra[c]
base_length == Bases(extra_lbits)
base_dist   == Bases(extra_dbits)
\* The greatest length has a code of its own.
length_code == [lc \in 0..(MAX_MATCH - MIN_MATCH) |->
                   IF lc = MAX_MATCH - MIN_MATCH THEN LENGTH_CODES - 1 ELSE CodeOf(base_length, extra_lbits, lc)]
dist_code   == [dist \in 0..(MAX_DIST - 1) |-> CodeOf(base_dist, extra_dbits, dist)]

LCode(t) == IF t.dist = 0 THEN t.lc ELSE length_code[t.lc] + LITERALS + 1
LFreq(toks) == [n \in 0..(L_CODES - 1) |-> IF n = END_BLOCK THEN 1 ELSE Count(toks, LAMBDA t : LCode(t) = n)]
DFreq(toks) == [n \in 0..(D_CODES - 1) |-> Count(toks, LAMBDA t : t.dist > 0 /\ dist_code[t.dist - 1] = n)]
LDesc == [elems |-> L_CODES, max |-> MAX_BITS, static |-> [n \in 0..(L_CODES - 1) |-> StaticLen(n)],
          extra |-> [n \in 0..(L_CODES - 1) |-> IF n > LITERALS THEN extra_lbits[n - LITERALS - 1] ELSE 0]]
DDesc == [elems |-> D_CODES, max |-> MAX_BITS, static |-> [n \in 0..(D_CODES - 1) |-> StaticDist], extra |-> extra_dbits]

SendLength(lc, c) == IF extra_lbits[c] = 0 THEN <<>> ELSE Low(lc - base_length[c], extra_lbits[c])
SendDist(dist, c, dcode) == dcode[c] \o Low(dist - base_dist[c], extra_dbits[c])
Sent(t, lcode, dcode) ==
    IF t.dist = 0 THEN lcode[t.lc]
    ELSE lcode[LCode(t)] \o SendLength(t.lc, length_code[t.lc]) \o SendDist(t.dist - 1, dist_code[t.dist - 1], dcode)
compress_block(toks, lcode, dcode) ==
    FlattenSeq([i \in DOMAIN toks |-> Sent(toks[i], lcode, dcode)]) \o lcode[END_BLOCK]

\* ct_init(): the counts of the static code are added to whatever bl_count holds.
static_codes(bl_count) ==
    gen_codes([n \in 0..(L_CODES + 1) |-> StaticLen(n)],
              [b \in 0..MAX_BITS |-> bl_count[b] + Cardinality({n \in 0..(L_CODES + 1) : StaticLen(n) = b})])
static_dcodes == [n \in 0..(D_CODES - 1) |-> CodeBits(n, StaticDist)]

copy_block(bits, text) ==
    bi_windup(bits) \o Low(Len(text), 2 * Byte) \o Low(2^(2 * Byte) - 1 - Len(text), 2 * Byte)
    \o FlattenSeq([i \in DOMAIN text |-> Low(text[i], Byte)])

\* Where the block begins in the window may be gone: then it cannot be stored.
Bytes(bits) == (bits + 3 + Byte - 1) \div Byte
BlockBits(s, l, d, bl, sent, n, text, eof) ==
    LET opt    == Bytes(l.opt + d.opt + bl.opt + HeaderBits(n))
        static == Bytes(l.static + d.static)
        least  == IF static <= opt THEN static ELSE opt
    IN  CASE s.strstart - s.block_start + 4 <= least /\ s.block_start >= 0 -> copy_block(s.bits \o <<eof, 0, 0>>, text)
          [] ~(s.strstart - s.block_start + 4 <= least /\ s.block_start >= 0) /\ static = least ->
                 s.bits \o <<eof, 1, 0>> \o compress_block(s.toks, s.static, static_dcodes)
          [] OTHER -> s.bits \o <<eof, 0, 1>> \o send_all_trees(l, d, bl, sent, n) \o compress_block(s.toks, l.code, d.code)
BlockText(s) == [i \in 1..(IF s.block_start >= 0 THEN s.strstart - s.block_start ELSE 0) |-> s.window[s.block_start + i - 1]]
Flushed(s, bits, bl, eof) ==
    [s EXCEPT !.bits = IF eof = 1 THEN bi_windup(bits) ELSE bits, !.toks = <<>>, !.bl_count = bl.bl_count]
FlushWith(s, l, d, bl, sent, eof) == Flushed(s, BlockBits(s, l, d, bl, sent, BlCodes(bl), BlockText(s), eof), bl, eof)
FlushSent(s, l, d, sent, eof) == FlushWith(s, l, d, bl_tree(sent), sent, eof)
FlushTrees(s, l, d, eof) == FlushSent(s, l, d, scan_tree(l) \o scan_tree(d), eof)
flush_block(s, eof) == FlushTrees(s, build_tree(LFreq(s.toks), LDesc), build_tree(DFreq(s.toks), DDesc), eof)

-----------------------------------------------------------------------------
(* The window.  Behind it is whatever the memory holds there: longest_match *)
(* may look at it, but what it finds is cut to the lookahead.               *)

At(s, i) == IF i < WINDOW_SIZE THEN s.window[i] ELSE s.beyond

\* file_read(): a read may bring less than was asked for.  One that fails is taken
\* for the end of the file: the input is what can be read.
file_read(s, at, more) ==
    LET least == IF more < s.chunk THEN more ELSE s.chunk
        n     == IF Len(s.input) < least THEN Len(s.input) ELSE least
    IN  IF n = 0 THEN [s EXCEPT !.eofile = TRUE]
        ELSE [s EXCEPT !.window = [i \in at..(at + n - 1) |-> s.input[i - at + 1]] @@ @,
                       !.crc = FoldLeft(Mix, @, SubSeq(s.input, 1, n)), !.isize = @ + n,
                       !.input = SubSeq(@, n + 1, Len(@)), !.lookahead = @ + n]

Earlier(p) == IF p >= WSIZE THEN p - WSIZE ELSE 0
Slid(s) ==
    IF s.strstart < WSIZE + MAX_DIST THEN s
    ELSE [s EXCEPT !.window = [i \in 0..(WSIZE - 1) |-> @[i + WSIZE]] @@ @,
                   !.match_start = @ - WSIZE, !.strstart = @ - WSIZE, !.block_start = @ - WSIZE,
                   !.head = [h \in DOMAIN @ |-> Earlier(@[h])], !.prev = [p \in DOMAIN @ |-> Earlier(@[p])]]
FillFrom(s) == IF s.eofile THEN s ELSE file_read(s, s.strstart + s.lookahead, WINDOW_SIZE - s.lookahead - s.strstart)
fill_window(s) == FillFrom(Slid(s))
RECURSIVE Ahead(_)
Ahead(s) == IF s.lookahead < MIN_LOOKAHEAD /\ ~s.eofile THEN Ahead(fill_window(s)) ELSE s

UPDATE_HASH(h, c) == Xor((h * 2^H_SHIFT) % HASH_SIZE, c)
InsertHash(s, p, h) ==
    [s EXCEPT !.ins_h = h, !.prev[p % WSIZE] = s.head[h], !.hash_head = s.head[h], !.head[h] = p]
INSERT_STRING(s, p) == InsertHash(s, p, UPDATE_HASH(s.ins_h, s.window[p + MIN_MATCH - 1]))

\* longest_match(): the third characters are equal because the hashes are.
Equal(s, p) ==
    LET ends == {n \in 3..MAX_MATCH : At(s, p + n) # At(s, s.strstart + n)} \cup {MAX_MATCH}
    IN  CHOOSE n \in ends : \A m \in ends : n <= m
Candidate(s, p, best) ==
    \A n \in {best, best - 1, 0, 1} : At(s, p + n) = At(s, s.strstart + n)
RECURSIVE Chain(_, _, _)
Limit(s) == IF s.strstart > MAX_DIST THEN s.strstart - MAX_DIST ELSE 0
NextInChain(s, p, left) ==
    IF s.prev[p % WSIZE] > Limit(s) /\ left > 1 THEN Chain(s, s.prev[p % WSIZE], left - 1) ELSE s
Better(s, p, left, len) ==
    IF len <= s.match_length THEN NextInChain(s, p, left)
    ELSE IF len >= nice_match THEN [s EXCEPT !.match_start = p, !.match_length = len]
    ELSE NextInChain([s EXCEPT !.match_start = p, !.match_length = len], p, left)
Chain(s, p, left) == IF Candidate(s, p, s.match_length) THEN Better(s, p, left, Equal(s, p)) ELSE NextInChain(s, p, left)
longest_match(s) ==
    Chain([s EXCEPT !.match_length = s.prev_length], s.hash_head,
          IF s.prev_length >= good_match THEN max_chain_length \div 4 ELSE max_chain_length)

-----------------------------------------------------------------------------
(* deflate().                                                               *)

\* ct_tally() says whether the block shall end.
MatchCount(toks) == Count(toks, LAMBDA t : t.dist > 0)
Profitable(s) ==
    LET bits == Len(s.toks) * Byte + Total([c \in 0..(D_CODES - 1) |-> DFreq(s.toks)[c] * (StaticDist + extra_dbits[c])], 0..(D_CODES - 1))
    IN  MatchCount(s.toks) < Len(s.toks) \div 2 /\ bits \div Byte < (s.strstart - s.block_start) \div 2
Full(s) ==
    \/ Len(s.toks) % Tried = 0 /\ Profitable(s)
    \/ Len(s.toks) = LIT_BUFSIZE - 1
    \/ MatchCount(s.toks) = DIST_BUFSIZE
ct_tally(s, dist, lc) == [s EXCEPT !.toks = Append(@, [dist |-> dist, lc |-> lc])]

FlushIf(s, flush) == IF flush THEN [flush_block(s, 0) EXCEPT !.block_start = s.strstart] ELSE s

\* The match at this place, if there is one.
Clipped(s) == IF s.match_length > s.lookahead THEN [s EXCEPT !.match_length = s.lookahead] ELSE s
NotTooFar(s) == IF s.match_length = MIN_MATCH /\ s.strstart - s.match_start > TOO_FAR THEN [s EXCEPT !.match_length = @ - 1] ELSE s
Searched(s) ==
    IF s.hash_head # 0 /\ s.prev_length < max_lazy_match /\ s.strstart - s.hash_head <= MAX_DIST
    THEN NotTooFar(Clipped(longest_match(s))) ELSE s
Matched(s) ==
    Searched([s EXCEPT !.prev_length = s.match_length, !.prev_match = s.match_start, !.match_length = MIN_MATCH - 1])

\* The match at the place before is taken ...
Inserted(s, n) == FoldLeft(LAMBDA acc, i : INSERT_STRING([acc EXCEPT !.strstart = @ + 1], acc.strstart + 1), s, [i \in 1..n |-> i])
AfterMatch(s, flush) ==
    FlushIf([Inserted([s EXCEPT !.lookahead = @ - (s.prev_length - 1)], s.prev_length - 2)
                EXCEPT !.match_available = FALSE, !.match_length = MIN_MATCH - 1, !.strstart = @ + 1], flush)
TakenMatch(s) == AfterMatch(s, Full(s))
TakeMatch(s) == TakenMatch(ct_tally(s, s.strstart - 1 - s.prev_match, s.prev_length - MIN_MATCH))
\* ... or the character there is sent as it is, or it is too early to tell.
Advance(s) == [s EXCEPT !.strstart = @ + 1, !.lookahead = @ - 1]
TakenLiteral(s) == Advance(FlushIf(s, Full(s)))
TakeLiteral(s) == TakenLiteral(ct_tally(s, 0, s.window[s.strstart - 1]))

Taken(s) ==
    IF s.prev_length >= MIN_MATCH /\ s.match_length <= s.prev_length THEN TakeMatch(s)
    ELSE IF s.match_available THEN TakeLiteral(s)
    ELSE Advance([s EXCEPT !.match_available = TRUE])
RECURSIVE Blocks(_)
Blocks(s) == IF s.lookahead = 0 THEN s ELSE Blocks(Ahead(Taken(Matched(INSERT_STRING(s, s.strstart)))))
LastLiteral(s) == IF s.match_available THEN ct_tally(s, 0, s.window[s.strstart - 1]) ELSE s
deflate(s) == flush_block(LastLiteral(Blocks(s)), 1)

\* lm_init().  `bl_count' is left by the file before.
FirstHash(s) == [s EXCEPT !.ins_h = FoldLeft(UPDATE_HASH, 0, <<s.window[0], s.window[1]>>)]
lm_init(s) == IF s.eofile THEN s ELSE FirstHash(Ahead(s))
Fresh(text, chunk, beyond, bl_count, crc) ==
    [window |-> [i \in 0..(WINDOW_SIZE - 1) |-> 0], beyond |-> beyond, input |-> text, chunk |-> chunk,
     prev |-> [p \in 0..(WSIZE - 1) |-> 0], head |-> [h \in 0..(HASH_SIZE - 1) |-> 0], hash_head |-> 0, ins_h |-> 0,
     strstart |-> 0, block_start |-> 0, lookahead |-> 0, match_start |-> 0, match_length |-> MIN_MATCH - 1,
     prev_match |-> 0, prev_length |-> 0, match_available |-> FALSE, eofile |-> FALSE, toks |-> <<>>, bits |-> <<>>,
     static |-> static_codes(bl_count), bl_count |-> bl_count, crc |-> crc, isize |-> 0]
Deflated(text, chunk, beyond, bl_count, crc) ==
    deflate(lm_init(file_read(Fresh(text, chunk, beyond, bl_count, crc), 0, WINDOW_SIZE)))
=============================================================================
