----------------------------- MODULE ShellNames -----------------------------
(***************************************************************************)
(* What the names of a script mean (box/shell/ash.c): variables with their *)
(* flags and texts, local variables of functions, positional parameters    *)
(* and getopts, and the table that remembers where commands were found.    *)
(*                                                                         *)
(* The state is the record g, as most of it is the C record globals_var;   *)
(* the operators below are the functions of the source from a state to a   *)
(* state.  A value is a sequence of strings: characters, or the elements   *)
(* of a path.  The actions are the commands of an interactive script, in   *)
(* any order; an error unwinds the functions it happens in.                *)
(***************************************************************************)
EXTENDS Integers, Sequences, FiniteSets, TLC

CONSTANTS
    Names,         \* variables; "PATH" and "OPTIND" have a function to call
    Values,        \* what ordinary variables are set to
    Paths,         \* what PATH is set to
    Commands,      \* names of commands
    Cwds,          \* directories cd goes to
    Files,         \* Files[dir][name]: "file", "directory", "functions" or "none"
    Applets,       \* commands the box has itself (FEATURE_SH_STANDALONE)
    Builtins,      \* Builtins[name]: "no", "plain" or "regular"
    ArgLists,      \* positional parameters of the script and of functions, by group
    OptVars,       \* variables getopts is given for the option
    OptString,     \* the options getopts is asked for, a sequence of characters
    Groups,        \* groups of commands: a script keeps to one of them,
    Uses,          \* and assigns to the variables of its group
    MaxDepth,      \* bound: functions active at the same time, by group
    MaxLocals,     \* bound: `local's that are still to be undone
    MaxTexts       \* bound: texts on the heap, some are never freed

ASSUME NamesAssumption ==
    /\ {"PATH", "OPTIND", "OPTARG", "PWD", "OLDPWD"} \subseteq Names
    /\ OptVars \subseteq Names
    /\ \A u \in DOMAIN Uses : Uses[u] \subseteq Names
    /\ DOMAIN Groups \subseteq DOMAIN Uses

ASSUME LookupAssumption ==
    /\ Paths # {} /\ Paths \subseteq Seq(STRING)
    /\ Builtins \in [Commands -> {"no", "plain", "regular"}]
    \* a file of a %func directory defines the function it is named for
    /\ \A c \in Commands : Files["/f"][c] \in {"functions", "directory", "none"}

\* defpathvar, the first PATH, has no %builtin, as the first builtinloc says.
ASSUME DefaultPathAssumption ==
    LET default == CHOOSE p \in Paths : TRUE
    IN  \A i \in 1..Len(default) : default[i] # "%builtin"

VARIABLES
    g,        \* the state of the shell
    calls,    \* saveparam and savelocalvars of each active function, innermost first
    raising,  \* an exception is on its way to the outermost handler
    group     \* the group of the script's commands

vars == <<g, calls, raising, group>>

Unset == <<"*unset*">>     \* the value of a text without `='
Number(n) == <<ToString(n)>>

-----------------------------------------------------------------------------
(* Paths and the command table.                                            *)

IsBuiltinDir(e) == e = "%builtin"
IsFuncDir(e) == e = "/f%func"
Option(e) == IF IsBuiltinDir(e) THEN "builtin" ELSE IF IsFuncDir(e) THEN "func" ELSE "none"
Absolute(e) == e \in {"/a", "/b", "/f%func"}
Where(e, cwd) == IF e = "." THEN cwd ELSE IF IsFuncDir(e) THEN "/f" ELSE e

NoEntry == [type |-> "unknown", index |-> -1, rehash |-> FALSE]
Entry(type, index) == [type |-> type, index |-> index, rehash |-> FALSE]
InTable(tab, name) == tab[name].type # "unknown"

\* Index of the first `%builtin' of a path, -1 if it has none.
BuiltinIndex(path) ==
    LET at == {i \in 1..Len(path) : IsBuiltinDir(path[i])}
    IN  IF at = {} THEN -1 ELSE (CHOOSE i \in at : \A j \in at : i <= j) - 1

\* Index of the first element in which two paths differ.
FirstChange(old, new) ==
    LET n == IF Len(old) < Len(new) THEN Len(old) ELSE Len(new)
        at == {i \in 1..n : old[i] # new[i]}
    IN  IF old = new THEN 9999
        ELSE IF at = {} THEN n ELSE (CHOOSE i \in at : \A j \in at : i <= j) - 1

ClearCmdEntry(s, first) ==
    [s EXCEPT !.cmds = [c \in Commands |->
        IF \/ s.cmds[c].type = "normal" /\ s.cmds[c].index >= first
           \/ s.cmds[c].type = "builtin" /\ s.builtinloc >= first
        THEN NoEntry ELSE s.cmds[c]]]

\* Called before PATH is changed.
ChangePath(s, new) ==
    LET bltin == BuiltinIndex(new)
        first == IF s.builtinloc >= 0 /\ bltin < 0 THEN 0
                 ELSE FirstChange(s.vars["PATH"].text.val, new)
        loc   == IF s.builtinloc < 0 /\ bltin >= 0 THEN bltin ELSE s.builtinloc
    IN  [ClearCmdEntry([s EXCEPT !.builtinloc = loc], first) EXCEPT !.builtinloc = bltin]

\* Mutant: only the absolute elements of PATH matter to what is remembered.
HashCdForgets(s) == s

HashCd(s) ==
    [s EXCEPT !.cmds = [c \in Commands |->
        IF \/ s.cmds[c].type = "normal"
           \/ s.cmds[c].type = "builtin" /\ Builtins[c] # "regular" /\ s.builtinloc > 0
        THEN [s.cmds[c] EXCEPT !.rehash = TRUE] ELSE s.cmds[c]]]

PathVal(s) == s.vars["PATH"].text.val

\* What the element of index i of a path has for a command.
AtElement(s, name, path, i, prev, nofunc) ==
    LET e == path[i + 1]
        file == Files[Where(e, s.cwd)][name]
    IN  IF Option(e) = "builtin" THEN (IF Builtins[name] # "no" THEN "builtin" ELSE "skip")
        ELSE IF Option(e) = "func" /\ nofunc THEN "skip"
        ELSE IF Absolute(e) /\ i <= prev THEN (IF i = prev THEN "same" ELSE "skip")
        ELSE IF file \in {"none", "directory"} THEN "skip"
        ELSE IF Option(e) = "func" THEN "func" ELSE "file"

\* find_command for a name without a slash: [entry, cmds] with the table after it.
\* alt: the path is not the value of PATH; nofunc: asked by `command'.
FindCommand(s, name, path, alt, nofunc) ==
    LET hit    == s.cmds[name]
        altbl  == alt /\ BuiltinIndex(path) >= 0
        ignore == \/ hit.type = "normal" /\ alt
                  \/ hit.type = "function" /\ nofunc
                  \/ hit.type = "builtin" /\ altbl
        known  == InTable(s.cmds, name) /\ ~ignore
        update == ~alt /\ ~(InTable(s.cmds, name) /\ ignore)
        prev   == IF ~known \/ ~hit.rehash THEN -1
                  ELSE IF hit.type = "builtin" THEN s.builtinloc ELSE hit.index
        found  == {i \in 0..(Len(path) - 1) : AtElement(s, name, path, i, prev, nofunc) # "skip"}
        at     == CHOOSE i \in found : \A j \in found : i <= j
        what   == AtElement(s, name, path, at, prev, nofunc)
        Result(e) == [entry |-> e, cmds |-> IF update THEN [s.cmds EXCEPT ![name] = e] ELSE s.cmds]
    IN  IF known /\ ~hit.rehash THEN [entry |-> hit, cmds |-> s.cmds]
        ELSE IF \/ Builtins[name] = "regular"
                \/ Builtins[name] = "plain" /\ (IF alt THEN ~altbl ELSE s.builtinloc <= 0)
             THEN Result(Entry("builtin", -1))
        ELSE IF name \in Applets THEN [entry |-> Entry("normal", -1), cmds |-> s.cmds]
        ELSE IF found = {}
             THEN [entry |-> NoEntry,
                   cmds |-> IF known /\ update THEN [s.cmds EXCEPT ![name] = NoEntry] ELSE s.cmds]
        ELSE IF what = "builtin" THEN Result(Entry("builtin", -1))
        ELSE IF what = "same"
             THEN LET e == [hit EXCEPT !.rehash = FALSE]
                  IN  [entry |-> e, cmds |-> [s.cmds EXCEPT ![name] = e]]
        ELSE IF what = "func"      \* readcmdfile defines it
             THEN [entry |-> Entry("function", -1),
                   cmds |-> [s.cmds EXCEPT ![name] = Entry("function", -1)]]
        ELSE Result(Entry("normal", at))

\* The directory shellexec runs a command of index idx from, "none" if there is no file.
ExecFrom(s, name, path, idx) ==
    LET at == {i \in 0..(Len(path) - 1) :
                  i >= idx /\ Option(path[i + 1]) = "none"
                  /\ Files[Where(path[i + 1], s.cwd)][name] = "file"}
    IN  IF name \in Applets THEN "box"
        ELSE IF at = {} THEN "none"
        ELSE Where(path[(CHOOSE i \in at : \A j \in at : i <= j) + 1], s.cwd)

-----------------------------------------------------------------------------
(* Variables.                                                              *)

NoBlock == <<"static", 0>>
NoVar == [there |-> FALSE, flags |-> {}, text |-> [val |-> Unset, block |-> NoBlock]]

\* The value of a variable, Unset if it has none.
LookupVar(s, n) ==
    IF s.vars[n].there /\ "unset" \notin s.vars[n].flags THEN s.vars[n].text.val ELSE Unset

Owned(v) == v.there /\ v.flags \cap {"textfixed", "stack"} = {}

\* The texts the shell still has a use for.
TextsOf(s) ==
    {s.vars[n].text : n \in {x \in Names : s.vars[x].there}}
    \cup UNION {{l[i].text : i \in DOMAIN l} : l \in {s.locals} \cup {calls[k].locals : k \in DOMAIN calls}}

FreeText(s, text) == [s EXCEPT !.heap = @ \ {text.block}]
FreshBlock(s, n) ==    \* numbered for each variable
    LET used == s.heap \cup {t.block : t \in TextsOf(s)}
        free == {j \in 1..(Cardinality(used) + 1) : <<n, j>> \notin used}
    IN  <<n, CHOOSE j \in free : \A i \in free : j <= i>>

Fail(s) == [s EXCEPT !.failed = TRUE]

GetoptsReset(s, n) ==
    [s EXCEPT !.params.optind = n, !.params.optoff = -1, !.params.got = <<>>, !.params.done = FALSE]

\* The function of a variable, called with the new value.
CallFunc(s, n, val) ==
    CASE n = "PATH"   -> ChangePath(s, val)
      [] n = "OPTIND" -> GetoptsReset(s, CHOOSE k \in 0..9 : Number(k) = val)
      [] OTHER        -> s

SetVarEq(s, n, val, asked) ==
    LET v     == s.vars[n]
        kept  == (asked \ {"noset", "nofunc"}) \cup (IF s.aflag THEN {"export"} ELSE {})
        block == FreshBlock(s, n)
        Put(t, flags) ==
            [t EXCEPT !.heap = @ \cup {block},
                      !.vars[n] = [there |-> TRUE, flags |-> flags,
                                   text |-> [val |-> val, block |-> block]]]
    IN  IF v.there /\ "readonly" \in v.flags THEN Fail(s)
        ELSE IF "noset" \in asked THEN s
        ELSE IF v.there
             THEN LET called == IF "nofunc" \in asked THEN s ELSE CallFunc(s, n, val)
                      freed  == IF Owned(v) THEN FreeText(called, v.text) ELSE called
                  IN  Put(freed, kept \cup (v.flags \ {"textfixed", "stack", "unset"}))
        ELSE Put(s, kept)

SetVar(s, n, val, asked) ==
    SetVarEq(s, n, val, IF val = Unset THEN asked \cup {"unset"} ELSE asked)

\* unsetvar: [s, ret]
UnsetVar(s, n) ==
    LET v == s.vars[n]
    IN  IF ~v.there THEN [s |-> s, ret |-> 2]
        ELSE IF "readonly" \in v.flags THEN [s |-> s, ret |-> 1]
        ELSE IF "unset" \in v.flags THEN [s |-> s, ret |-> 0]
        ELSE IF "strfixed" \notin v.flags
             THEN [s |-> [(IF Owned(v) THEN FreeText(s, v.text) ELSE s) EXCEPT !.vars[n] = NoVar],
                   ret |-> 0]
        ELSE LET t == SetVar(s, n, Unset, {})
             IN  [s |-> [t EXCEPT !.vars[n].flags = @ \ {"export"}], ret |-> 0]

\* Mutant: the text a local saves is not marked VTEXTFIXED.
MkLocalUnfixed(s, n, val) ==
    LET v     == s.vars[n]
        saved == [name |-> n, text |-> v.text, was |-> LookupVar(s, n),
                  flags |-> IF v.there THEN v.flags ELSE {"unset"}]
        made  == IF ~v.there THEN SetVar(s, n, val, {"strfixed"})
                 ELSE LET held == [s EXCEPT !.vars[n].flags = @ \cup {"strfixed"}]
                      IN  IF val = Unset THEN held ELSE SetVarEq(held, n, val, {})
    IN  IF made.failed THEN made ELSE [made EXCEPT !.locals = <<saved>> \o @]

\* mklocal of a name, with a value or without (val = Unset).
MkLocal(s, n, val) ==
    LET v     == s.vars[n]
        saved == [name |-> n, text |-> v.text, was |-> LookupVar(s, n),
                  flags |-> IF v.there THEN v.flags ELSE {"unset"}]
        made  == IF ~v.there THEN SetVar(s, n, val, {"strfixed"})
                 ELSE LET held == [s EXCEPT !.vars[n].flags = @ \cup {"strfixed", "textfixed"}]
                      IN  IF val = Unset THEN held ELSE SetVarEq(held, n, val, {})
    IN  IF made.failed THEN made ELSE [made EXCEPT !.locals = <<saved>> \o @]

\* One step of poplocalvars.
PopLocal(s) ==
    LET l == Head(s.locals)
        v == s.vars[l.name]
        t == [s EXCEPT !.locals = Tail(@)]
    IN  IF "unset" \in l.flags /\ "strfixed" \notin l.flags THEN UnsetVar(t, l.name).s
        ELSE LET called == CallFunc(t, l.name, l.text.val)
                 freed  == IF Owned(v) THEN FreeText(called, v.text) ELSE called
             IN  [freed EXCEPT !.vars[l.name] = [there |-> TRUE, flags |-> l.flags, text |-> l.text]]

PopLocalVars(s) ==
    LET pop[k \in 0..Len(s.locals)] == IF k = 0 THEN s ELSE PopLocal(pop[k - 1])
    IN  pop[Len(s.locals)]

-----------------------------------------------------------------------------
(* Positional parameters and getopts.                                      *)

Params(words) == [p |-> words, optind |-> 1, optoff |-> -1, got |-> <<>>, done |-> FALSE]

Drop(word, k) == SubSeq(word, k + 1, Len(word))
IsOptionWord(word) == Len(word) > 1 /\ word[1] = "-"

\* Where an option stands in the string of options, 0 if it does not.
OptionAt(optstr, c) ==
    LET at == {q \in 1..Len(optstr) : optstr[q] = c /\ (q = 1 \/ c # ":")}
    IN  IF at = {} THEN 0 ELSE CHOOSE q \in at : \A r \in at : q <= r
TakesArgument(optstr, q) == q < Len(optstr) /\ optstr[q + 1] = ":"

\* setvarsafe, one after the other: an error in one does not keep the next from being set.
SetVarSafe(s, n, val, asked) ==
    LET t == SetVar(s, n, val, asked)
    IN  IF t.failed THEN [s EXCEPT !.optfail = TRUE] ELSE t

\* The option and the place of the next one are told, or getopts starts again.
TellOption(t, optvar, char, ind, offset, done) ==
    LET i == [t EXCEPT !.params.optind = ind, !.params.optoff = offset]
        o == SetVarSafe(SetVarSafe(i, "OPTIND", Number(ind), {"nofunc"}), optvar, <<char>>, {})
    IN  IF o.optfail
        THEN [GetoptsReset(o, 1) EXCEPT !.optfail = FALSE]
        ELSE [o EXCEPT !.params.done = @ \/ done,
                       !.params.got = IF done \/ o.params.done THEN @ ELSE
                           Append(@, <<char, LookupVar(o, "OPTARG")>>)]

\* One call of getopts: next option c with its argument, or the end.
Getopts(s, optstr, optvar) ==
    LET args   == s.params.p
        n      == s.params.optind
        off    == s.params.optoff
        inword == n > 1 /\ off >= 0 /\ Len(args[n - 1]) > off
        atend  == ~inword /\ (n > Len(args) \/ ~IsOptionWord(args[n]))
        dashes == ~inword /\ ~atend /\ args[n] = <<"-", "-">>
        next   == IF inword \/ atend THEN n ELSE n + 1      \* optnext
        word   == args[next - 1]
        from   == IF inword THEN off ELSE 1
        c      == word[from + 1]
        rest   == Drop(word, from + 1)
        q      == OptionAt(optstr, c)
        silent == optstr[1] = ":"
        Tell(t, char, ind, offset, done) == TellOption(t, optvar, char, ind, offset, done)
        NoArg(t, char) == IF silent THEN SetVarSafe(t, "OPTARG", <<c>>, {}) ELSE UnsetVar(t, "OPTARG").s
    IN  IF atend THEN Tell(s, "?", next, -1, TRUE)
        ELSE IF dashes THEN Tell(s, "?", next, -1, TRUE)
        ELSE IF q = 0 THEN Tell(NoArg(s, c), "?", next, from + 1, FALSE)
        ELSE IF ~TakesArgument(optstr, q)
             THEN Tell(SetVarSafe(s, "OPTARG", <<>>, {}), c, next, from + 1, FALSE)
        ELSE IF rest # <<>> THEN Tell(SetVarSafe(s, "OPTARG", rest, {}), c, next, -1, FALSE)
        ELSE IF next > Len(args)
             THEN Tell(NoArg(s, c), IF silent THEN ":" ELSE "?", next, -1, FALSE)
        ELSE Tell(SetVarSafe(s, "OPTARG", args[next], {}), c, next + 1, -1, FALSE)

\* getoptscmd without arguments of its own.
GetoptsCmd(s, optvar) ==
    LET t == IF s.params.optind > Len(s.params.p) + 1 THEN GetoptsReset(s, 1) ELSE s
    IN  Getopts(t, OptString, optvar)

-----------------------------------------------------------------------------
(* The commands.                                                           *)

Init ==
    /\ g = [vars  |-> [n \in Names |->
                          IF n = "PATH" THEN [there |-> TRUE, flags |-> {"strfixed", "textfixed"},
                                              text |-> [val |-> CHOOSE p \in Paths : TRUE, block |-> NoBlock]]
                          ELSE IF n = "OPTIND" THEN [there |-> TRUE, flags |-> {"strfixed", "textfixed"},
                                                     text |-> [val |-> Number(1), block |-> NoBlock]]
                          ELSE NoVar],
            heap |-> {}, locals |-> <<>>, aflag |-> FALSE, failed |-> FALSE, optfail |-> FALSE,
            params |-> Params(<<>>), cmds |-> [c \in Commands |-> NoEntry],
            builtinloc |-> -1, cwd |-> "/a", curdir |-> "/a"]
    /\ calls = <<>> /\ raising = FALSE
    /\ group \in DOMAIN Groups

\* A command of the script's group can be executed.
Executes(command) == ~raising /\ command \in Groups[group]
Room == Cardinality(g.heap) < MaxTexts
SumLocals(frames) ==
    LET sum[k \in 0..Len(frames)] == IF k = 0 THEN 0 ELSE sum[k - 1] + Len(frames[k].locals)
    IN  sum[Len(frames)]
LocalsToUndo == Len(g.locals) + SumLocals(calls)

\* The command leaves state s; an error it did not catch ends the functions it is in.
Leaves(s) ==
    /\ g' = [s EXCEPT !.failed = FALSE]
    /\ raising' = (s.failed /\ calls # <<>>)
    /\ UNCHANGED <<calls, group>>

\* The same for a builtin that is not special: evalcommand goes on after the error.
Catches(s) == Leaves([s EXCEPT !.failed = FALSE])

ValuesOf(n) == IF n = "PATH" THEN Paths ELSE IF n = "OPTIND" THEN {Number(1)} ELSE Values
Ordinary == Names \ {"PATH", "OPTIND"}

\* n=v, alone or before a special builtin; before another builtin it is only tested.
Assign(n) == Executes("assign") /\ Room /\ \E v \in ValuesOf(n) : Leaves(SetVarEq(g, n, v, {}))
AssignForBuiltin(n) == Executes("assign") /\ \E v \in ValuesOf(n) : Leaves(SetVarEq(g, n, v, {"noset"}))

\* export and readonly, with a value or without.
ExportCmd(n, flag) ==
    /\ Executes("export") /\ Room
    /\ \/ \E v \in ValuesOf(n) : Leaves(SetVar(g, n, v, {flag}))
       \/ Leaves(IF g.vars[n].there THEN [g EXCEPT !.vars[n].flags = @ \cup {flag}]
                 ELSE SetVar(g, n, Unset, {flag}))

UnsetCmd(n) == Executes("unset") /\ Room /\ Leaves(UnsetVar(g, n).s)

AllExport ==
    Executes("set") /\ Leaves([g EXCEPT !.aflag = ~@])

LocalCmd(n) ==
    /\ Executes("local") /\ Room /\ calls # <<>> /\ LocalsToUndo < MaxLocals
    /\ \E v \in ValuesOf(n) \cup {Unset} : Catches(MkLocal(g, n, v))

\* n=v f words: the assignment stays, the parameters and locals are those of the function.
Enter(kind, s, words) ==
    /\ calls' = <<[kind |-> kind, params |-> s.params,
                   locals |-> IF kind = "fun" THEN s.locals ELSE <<>>]>> \o calls
    /\ g' = [s EXCEPT !.params = Params(words),
                      !.locals = IF kind = "fun" THEN <<>> ELSE @]
    /\ UNCHANGED <<raising, group>>

EvalFun(words) == Executes("call") /\ Len(calls) < MaxDepth[group] /\ Enter("fun", g, words)
EvalFunWith(n, words) ==
    /\ Executes("callwith") /\ Room /\ Len(calls) < MaxDepth[group]
    /\ \E v \in ValuesOf(n) :
          LET s == SetVarEq(g, n, v, {})
          IN  IF s.failed THEN Leaves(s) ELSE Enter("fun", s, words)

\* `. file words'
DotCmd(words) == Executes("dot") /\ Len(calls) < MaxDepth[group] /\ Enter("dot", g, words)

\* Mutant: evalfun has no handler of its own, an exception passes it by.
FunDoneUnhandled ==
    /\ calls # <<>> /\ Head(calls).kind = "fun"
    /\ g' = [(IF raising THEN g ELSE PopLocalVars(g)) EXCEPT !.locals = Head(calls).locals, !.params = Head(calls).params]
    /\ calls' = Tail(calls)
    /\ raising' = (raising /\ Len(calls) > 1)
    /\ UNCHANGED group

\* The end of a function, by itself or by an exception.
FunDone ==
    /\ calls # <<>> /\ Head(calls).kind = "fun"
    /\ g' = [PopLocalVars(g) EXCEPT !.locals = Head(calls).locals, !.params = Head(calls).params]
    /\ calls' = Tail(calls)
    /\ raising' = (raising /\ Len(calls) > 1)
    /\ UNCHANGED group

\* The end of a file that was sourced; an exception does not come by.
DotDone ==
    /\ calls # <<>> /\ Head(calls).kind = "dot"
    /\ g' = IF raising THEN g ELSE [g EXCEPT !.params = Head(calls).params]
    /\ calls' = Tail(calls)
    /\ raising' = (raising /\ Len(calls) > 1)
    /\ UNCHANGED group

SetParam(words) == Executes("params") /\ Leaves([g EXCEPT !.params = Params(words)])
\* Mutant: shift leaves the position of getopts alone.
ShiftOnly ==
    /\ Executes("params")
    /\ Leaves(IF g.params.p = <<>> THEN Fail(g) ELSE [g EXCEPT !.params.p = Tail(@)])
ShiftCmd ==
    /\ Executes("params")
    /\ Leaves(IF g.params.p = <<>> THEN Fail(g) ELSE [g EXCEPT !.params = Params(Tail(g.params.p))])
GetoptsCommand(n) == Executes("getopts") /\ Room /\ Catches(GetoptsCmd(g, n))

\* A command is looked up and executed, with `command' or PATH= in front or without.
Run(name, nofunc) ==
    /\ Executes("run")
    /\ Leaves([g EXCEPT !.cmds = FindCommand(g, name, PathVal(g), FALSE, nofunc).cmds])
RunWithPath(name, path) ==
    /\ Executes("run")
    /\ Leaves([g EXCEPT !.cmds = FindCommand(g, name, path, TRUE, FALSE).cmds])

TypeCmd(name) ==
    /\ Executes("run") /\ ~InTable(g.cmds, name)
    /\ Leaves([g EXCEPT !.cmds = FindCommand(g, name, PathVal(g), FALSE, FALSE).cmds])

HashCmd(name) ==
    /\ Executes("hash")
    /\ LET e == g.cmds[name]
           s == IF e.type = "normal" \/ (e.type = "builtin" /\ g.builtinloc >= 0)
                THEN [g EXCEPT !.cmds[name] = NoEntry] ELSE g
       IN  Leaves([s EXCEPT !.cmds = FindCommand(s, name, PathVal(s), FALSE, FALSE).cmds])
HashForget == Executes("hash") /\ Leaves(ClearCmdEntry(g, 0))

DefFun(name) == Executes("defun") /\ Leaves([g EXCEPT !.cmds[name] = Entry("function", -1)])
UnsetFunc(name) ==
    /\ Executes("defun") /\ g.cmds[name].type = "function"
    /\ Leaves([g EXCEPT !.cmds[name] = NoEntry])

\* cd: chdir, OLDPWD, curdir, PWD, and then the table; an error in between ends it.
CdCmd(dir) ==
    /\ Executes("cd") /\ Room
    /\ LET moved == [g EXCEPT !.cwd = dir]
           old   == SetVar(moved, "OLDPWD", <<g.curdir>>, {"export"})
           new   == SetVar([old EXCEPT !.curdir = dir], "PWD", <<dir>>, {"export"})
       IN  Catches(IF old.failed THEN old ELSE IF new.failed THEN new ELSE HashCd(new))

Next ==
    \/ \E n \in Uses[group] : \/ Assign(n) \/ AssignForBuiltin(n) \/ LocalCmd(n)
                              \/ \E w \in ArgLists[group] : EvalFunWith(n, w)
    \/ \E n \in Uses[group] \cap Ordinary : \/ ExportCmd(n, "export") \/ ExportCmd(n, "readonly")
                                         \/ UnsetCmd(n)
    \/ \E n \in OptVars : GetoptsCommand(n)
    \/ \E w \in ArgLists[group] : EvalFun(w) \/ DotCmd(w) \/ SetParam(w)
    \/ AllExport \/ FunDone \/ DotDone \/ ShiftCmd \/ HashForget
    \/ \E c \in Commands : \/ Run(c, TRUE) \/ Run(c, FALSE) \/ TypeCmd(c) \/ HashCmd(c)
                           \/ DefFun(c) \/ UnsetFunc(c)
                           \/ \E p \in Paths : RunWithPath(c, p)
    \/ \E d \in Cwds : CdCmd(d)

Spec == Init /\ [][Next]_vars

-----------------------------------------------------------------------------
(* Properties.                                                             *)

\* The value of a text is the one its owner put there: no text in use has been
\* freed, and no block was given to another text while a local still needs it.
TextsAlive ==
    /\ \A t \in TextsOf(g) : t.block = NoBlock \/ t.block \in g.heap
    /\ \A t, u \in TextsOf(g) : t.block = u.block /\ t.block # NoBlock => t = u

\* What a function declared local has after the function the value it had
\* before, however the function ends; only a readonly variable that did not
\* exist before stays.
Restored ==
    Len(calls') < Len(calls) /\ Head(calls).kind = "fun"
    => \A i \in DOMAIN g.locals :
          LET l == g.locals[i]
              first == \A j \in (i + 1)..Len(g.locals) : g.locals[j].name # l.name
          IN  \/ ~first
              \/ LookupVar(g', l.name) = l.was
              \/ "unset" \in l.flags /\ "readonly" \in g.vars[l.name].flags

\* Every end of a function gives back what it declared local (`Restored').
CallRestores == [][Restored]_vars

\* The table is transparent: what a command name means is what a search of the
\* path from the beginning would find, for every path and after every cd and
\* change of PATH.  (Files do not change; the directory can be noted; the name
\* is not one that a %func directory defines.)
Forget(s) == [s EXCEPT !.cmds = [c \in Commands |->
                 IF s.cmds[c].type = "function" THEN s.cmds[c] ELSE NoEntry]]
Meaning(s, name, path, alt, nofunc) ==
    LET e == FindCommand(s, name, path, alt, nofunc).entry
    IN  IF e.type = "normal" THEN <<"normal", ExecFrom(s, name, path, e.index)>> ELSE <<e.type>>
LookupsAreFresh ==
    (\A n \in {"PWD", "OLDPWD"} \cap Names : "readonly" \notin g.vars[n].flags)
    => \A c \in Commands, nofunc \in BOOLEAN :
          Files["/f"][c] # "functions"
          => /\ Meaning(g, c, PathVal(g), FALSE, nofunc) = Meaning(Forget(g), c, PathVal(g), FALSE, nofunc)
             /\ \A p \in Paths : Meaning(g, c, p, TRUE, nofunc) = Meaning(Forget(g), c, p, TRUE, nofunc)

\* What getopts should report for letter k of word i, and where it goes on.
OptionThere(words, i, k) ==
    LET c    == words[i][k + 1]
        q    == {j \in 1..Len(OptString) : OptString[j] = c /\ c # ":"}
        arg  == \E j \in q : j < Len(OptString) /\ OptString[j + 1] = ":"
        rest == Drop(words[i], k + 1)
        silent == Head(OptString) = ":"
        none == IF silent THEN <<c>> ELSE Unset
        At(letter, value, place) == [report |-> <<letter, value>>, next |-> place]
    IN  IF q = {} THEN At("?", none, <<i, k + 1>>)
        ELSE IF ~arg THEN At(c, <<>>, <<i, k + 1>>)
        ELSE IF rest # <<>> THEN At(c, rest, <<i + 1, 0>>)
        ELSE IF i = Len(words) THEN At(IF silent THEN ":" ELSE "?", none, <<i + 1, 0>>)
        ELSE At(c, words[i + 1], <<i + 2, 0>>)

\* What getopts should report from a place on: the options up to the first word
\* that has none.  Place <<i, k>> is before letter k of word i.
ReportsFrom(words) ==
    LET from[at \in (1..(Len(words) + 1)) \X Nat] ==
            LET i == at[1]
                k == at[2]
            IN  IF i > Len(words) THEN <<>>
                ELSE IF k = 0
                     THEN IF ~IsOptionWord(words[i]) \/ words[i] = <<"-", "-">> THEN <<>> ELSE from[<<i, 1>>]
                ELSE IF k >= Len(words[i]) THEN from[<<i + 1, 0>>]
                ELSE <<OptionThere(words, i, k).report>> \o from[OptionThere(words, i, k).next]
    IN  from
Reference(words) == ReportsFrom(words)[<<1, 0>>]
IsPrefixOf(s, t) == Len(s) <= Len(t) /\ SubSeq(t, 1, Len(s)) = s

\* getopts reports every option of the parameters once and in order, also when a
\* function it calls in between uses getopts on its own parameters.
GetoptsReportsAll ==
    \A ps \in {g.params} \cup {calls[k].params : k \in DOMAIN calls} :
        /\ IsPrefixOf(ps.got, Reference(ps.p))
        /\ ps.done => ps.got = Reference(ps.p)
=============================================================================
