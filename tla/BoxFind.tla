------------------------------- MODULE BoxFind ------------------------------
(***************************************************************************)
(* find (findutils/find.c) and the walk below it (libbb/recursive_action.c)*)
(* The words become groups of actions: a group is a conjunction, the       *)
(* groups a disjunction, and a bracket an action with groups of its own.   *)
(***************************************************************************)
EXTENDS BoxNumbers

CONSTANTS
    Stat(_), Lstat(_),      \* of a path, which is a sequence of names
    Entries(_),             \* what readdir tells of a directory, in its order
    Matches(_, _, _),       \* fnmatch(pattern, text) and regexec, by the flags or the kind
    ModeBits(_),            \* bb_parse_mode, {"bad"} for what it refuses
    Now, Day, Minute,       \* times
    Block                   \* 512 bytes

NoFile == [type |-> "none"]

-----------------------------------------------------------------------------
(* The actions.                                                            *)

Signed(w)  == Len(w) > 0 /\ Chars(w)[1] \in {"+", "-"}
Sign(w)    == IF Signed(w) THEN Chars(w)[1] ELSE "="
Rest(w)    == IF Signed(w) THEN Tail(Chars(w)) ELSE Chars(w)
Units      == [c |-> 1, w |-> 2, b |-> Block, k |-> 2 * Block]
Bytes(w) ==
    LET unit == IF Rest(w) # <<>> /\ ~IsDigit(Last(Rest(w))) THEN Last(Rest(w)) ELSE "b"
        num  == IF Rest(w) # <<>> /\ ~IsDigit(Last(Rest(w))) THEN Front(Rest(w)) ELSE Rest(w)
    IN  IF unit \in DOMAIN Units /\ Unsigned(num) THEN <<Units[unit] * NatOf(num)>> ELSE <<>>

\* A file is so old: n units and less than one more.
Aged(sign, n, unit, st) ==
    LET age == Now - st.mtime
    IN  CASE sign = "+" -> age >= (n + 1) * unit
          [] sign = "-" -> age < n * unit
          [] sign = "=" -> age >= n * unit /\ age < (n + 1) * unit

Permitted(sign, mask, st) ==
    CASE sign = "+" -> mask \cap st.mode # {} [] sign = "-" -> mask \subseteq st.mode [] sign = "=" -> mask = st.mode
Sized(sign, n, st) ==
    CASE sign = "+" -> st.size > n [] sign = "-" -> st.size < n [] sign = "=" -> st.size = n

\* A test on one file.
Tested(a, path, st) ==
    CASE a.f \in {"-name", "-iname"} -> Matches(a.arg, Last(path), a.f)
      [] a.f \in {"-path", "-regex"} -> Matches(a.arg, path, a.f)
      [] a.f = "-type"  -> st.type = a.arg
      [] a.f = "-perm"  -> Permitted(Sign(a.arg), ModeBits(Rest(a.arg)), st)
      [] a.f = "-mtime" -> Aged(Sign(a.arg), NatOf(Rest(a.arg)), Day, st)
      [] a.f = "-mmin"  -> Aged(Sign(a.arg), NatOf(Rest(a.arg)), Minute, st)
      [] a.f = "-newer" -> st.mtime > Stat(<<a.arg>>).mtime
      [] a.f = "-size"  -> Sized(Sign(a.arg), Bytes(a.arg)[1], st)

\* What an action does to [out, skip, ok]: `skip' sticks whatever comes after.
RECURSIVE exec_actions(_, _, _, _)
Act(a, path, st, r) ==
    CASE a.f \in {"-print", "-print0"} -> [r EXCEPT !.out = Append(@, path)]
      [] a.f = "-prune" -> [r EXCEPT !.skip = TRUE]
      [] a.f = "(" -> exec_actions(a.groups, path, st, r)
      [] OTHER -> [r EXCEPT !.ok = Tested(a, path, st)]
Inverted(a, r) == IF a.invert THEN [r EXCEPT !.ok = ~@] ELSE r
Group(g, path, st, r) ==
    FoldLeft(LAMBDA acc, a : IF acc.ok THEN Inverted(a, Act(a, path, st, acc)) ELSE acc, [r EXCEPT !.ok = TRUE], g)

\* An empty group is the NULL that ends the groups; with no group all is well.
Reached(groups) ==
    IF \E i \in DOMAIN groups : groups[i] = <<>>
    THEN SubSeq(groups, 1, (CHOOSE i \in DOMAIN groups : groups[i] = <<>> /\ \A j \in 1..(i - 1) : groups[j] # <<>>) - 1)
    ELSE groups
exec_actions(groups, path, st, r) ==
    IF Reached(groups) = <<>> THEN [r EXCEPT !.ok = TRUE]
    ELSE FoldLeft(LAMBDA acc, g : IF acc.ok THEN acc ELSE Group(g, path, st, acc), [r EXCEPT !.ok = FALSE], Reached(groups))

-----------------------------------------------------------------------------
(* The words.                                                              *)

Plain     == {"-print", "-print0", "-prune"}
WithWord  == {"-name", "-iname", "-path", "-regex", "-type", "-perm", "-mtime", "-mmin", "-newer", "-size"}
Types     == {"b", "c", "d", "p", "f", "l", "s"}

BadWord(f, arg) ==
    \/ f = "-type" /\ arg \notin Types
    \/ f = "-perm" /\ ModeBits(Rest(arg)) = {"bad"}
    \/ f \in {"-mtime", "-mmin"} /\ ~Unsigned(Rest(arg))
    \/ f = "-newer" /\ Stat(<<arg>>) = NoFile
    \/ f = "-size" /\ Bytes(arg) = <<>>

\* The bracket that closes the one at p, Len + 1 if there is none.
ClosedAt(args, p) ==
    LET depth(q) == Cardinality({i \in p..q : args[i] = "("}) - Cardinality({i \in p..q : args[i] = ")"})
        ends     == {q \in p..Len(args) : depth(q) = 0}
    IN  IF ends = {} THEN Len(args) + 1 ELSE CHOOSE q \in ends : \A e \in ends : q <= e

Alloc(s, a) ==
    [s EXCEPT !.groups[Len(s.groups)] = Append(@, a @@ [invert |-> s.invert]), !.invert = FALSE]
Fresh(s) == [s EXCEPT !.groups = <<<<>>>>, !.invert = FALSE]

\* The statics need_print and recurse_flags are shared with what is in brackets.
RECURSIVE parse_params(_, _)
Bracket(args, s, inner) ==
    [Alloc(s, [f |-> "(", groups |-> inner.groups])
        EXCEPT !.need_print = inner.need_print, !.depth = inner.depth, !.died = inner.died]
parse_params(args, s) ==
    IF args = <<>> \/ s.died THEN s
    ELSE LET w     == args[1]
             close == ClosedAt(args, 1)
             rest(n) == SubSeq(args, n + 1, Len(args))
         IN  CASE w = "-a" -> parse_params(rest(1), s)
               [] w = "-o" -> parse_params(rest(1), [s EXCEPT !.groups = Append(@, <<>>)])
               [] w = "!"  -> parse_params(rest(1), [s EXCEPT !.invert = ~@])
               [] w = "-depth" -> parse_params(rest(1), [s EXCEPT !.depth = TRUE])
               [] w \in Plain ->
                     parse_params(rest(1), Alloc([s EXCEPT !.invert = FALSE, !.need_print = @ /\ w = "-prune"], [f |-> w]))
               [] w = "(" /\ close <= Len(args) ->
                     parse_params(rest(close), Bracket(args, s, parse_params(SubSeq(args, 2, close - 1), Fresh(s))))
               [] w \in WithWord /\ Len(args) > 1 /\ ~BadWord(w, args[2]) ->
                     parse_params(rest(2), Alloc(s, [f |-> w, arg |-> args[2]]))
               [] OTHER -> [s EXCEPT !.died = TRUE]

-----------------------------------------------------------------------------
(* The walk.  The state gathers what was printed and whether all went well.*)

\* A slip in fileAction: the deepest level is left out.
FileActionFromMax(p, path, st, level, out) ==
    LET r == exec_actions(p.groups, path, st, [out |-> out, skip |-> FALSE, ok |-> FALSE])
    IN  IF level >= p.maxdepth THEN [out |-> out, skip |-> TRUE]
        ELSE [out |-> IF r.ok /\ p.need_print THEN Append(r.out, path) ELSE r.out, skip |-> r.skip]

fileAction(p, path, st, level, out) ==
    LET r == exec_actions(p.groups, path, st, [out |-> out, skip |-> FALSE, ok |-> FALSE])
    IN  IF level > p.maxdepth THEN [out |-> out, skip |-> TRUE]
        ELSE [out |-> IF r.ok /\ p.need_print THEN Append(r.out, path) ELSE r.out, skip |-> r.skip]

RECURSIVE recursive_action(_, _, _, _)
Below(p, path, level, w) ==
    FoldLeft(LAMBDA acc, name : recursive_action(p, Append(path, name), level + 1, acc), w,
             SelectSeq(Entries(path), LAMBDA name : name \notin {".", ".."}))
Visit(p, path, st, level, w) == [w EXCEPT !.out = fileAction(p, path, st, level, w.out).out]
Descend(p, path, st, level, w) ==
    IF ~st.readable THEN [w EXCEPT !.ok = FALSE] ELSE Below(p, path, level, w)

Inside(p, path, st, level, w) ==
    CASE p.depth /\ st.readable -> Visit(p, path, st, level, Below(p, path, level, w))
      [] p.depth /\ ~st.readable -> [w EXCEPT !.ok = FALSE]
      [] ~p.depth /\ fileAction(p, path, st, level, w.out).skip -> Visit(p, path, st, level, w)
      [] ~p.depth /\ ~fileAction(p, path, st, level, w.out).skip ->
            Descend(p, path, st, level, Visit(p, path, st, level, w))

recursive_action(p, path, level, w) ==
    LET st == IF p.follow THEN Stat(path) ELSE Lstat(path)
    IN  CASE st = NoFile -> [w EXCEPT !.ok = FALSE]
          [] st # NoFile /\ st.type # "d" -> Visit(p, path, st, level, w)
          [] st.type = "d" -> Inside(p, path, st, level, w)

\* The words before the first that looks like an expression are where to look.
Starts(args) ==
    LET first == {i \in DOMAIN args : args[i] \in {"!", "("} \/ (Len(args[i]) > 0 /\ Chars(args[i])[1] = "-")}
        n == IF first = {} THEN Len(args) ELSE (CHOOSE i \in first : \A j \in first : i <= j) - 1
    IN  SubSeq(args, 1, n)

\* Options are replaced by -a wherever they stand.
RECURSIVE Options(_, _)
Options(args, o) ==
    CASE args = <<>> -> o
      [] args # <<>> /\ args[1] = "-follow" -> Options(Tail(args), [o EXCEPT !.follow = TRUE, !.words = Append(@, "-a")])
      [] args # <<>> /\ args[1] = "-maxdepth" ->
            IF Len(args) = 1 \/ ~Unsigned(Chars(args[2])) THEN [o EXCEPT !.died = TRUE]
            ELSE Options(SubSeq(args, 3, Len(args)), [o EXCEPT !.maxdepth = NatOf(Chars(args[2])), !.words = @ \o <<"-a", "-a">>])
      [] OTHER -> Options(Tail(args), [o EXCEPT !.words = Append(@, args[1])])

Unlimited == 2^(LongWidth - 1) - 1
find_main(args) ==
    LET from  == IF Starts(args) = <<>> THEN <<".">> ELSE Starts(args)
        o     == Options(SubSeq(args, Len(Starts(args)) + 1, Len(args)), [words |-> <<>>, follow |-> FALSE, maxdepth |-> Unlimited, died |-> FALSE])
        p     == parse_params(o.words, [groups |-> <<<<>>>>, invert |-> FALSE, need_print |-> TRUE, depth |-> FALSE, died |-> o.died])
        walk(q) == FoldLeft(LAMBDA acc, start : recursive_action(q, <<start>>, 0, acc), [out |-> <<>>, ok |-> TRUE], from)
    IN  IF p.died THEN [out |-> <<>>, ok |-> FALSE] ELSE walk(p @@ [follow |-> o.follow, maxdepth |-> o.maxdepth])
=============================================================================
