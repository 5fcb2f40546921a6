----------------------------- MODULE MCShellText ----------------------------
(* Commands, words and expressions that are large enough to put every      *)
(* construct into every other.                                             *)
EXTENDS ShellText

SomeContents == {<<"a", "nl", "b">>, <<"nul", "a", "nl", "nul", "b">>}
SomeStrings == {<<>>, <<"a", "nl">>}

Characters == <<" ", "!", "$", "*", "-", ".", "/", "1", "2", "3", "5", ":", "=", "?", "[", "\\", "]", "^", "a", "b", "c", "d", "x", "~">>
Class(name) == {}
Output(n) == Chars("a 1\n\n")

-----------------------------------------------------------------------------
(* Commands.                                                               *)

W(text, quoted) == [text |-> text, quoted |-> quoted, bq |-> <<>>]
Texts ==
    {[src |-> <<"a">>, word |-> W(<<"a">>, FALSE)],
     [src |-> <<"i", "f">>, word |-> W(<<"i", "f">>, FALSE)],
     [src |-> <<"'", ";", "'">>, word |-> W(<<"ctlquotemark", ";", "ctlquotemark">>, TRUE)],
     [src |-> <<"v", "=", "$", "{", "x", "-", "}">>,
      word |-> W(<<"v", "=", "ctlvar", "minus", "plain", "open", "x", "=", "ctlendvar">>, FALSE)],
     [src |-> <<"$", "a", "\n">>, word |-> W(<<"ctlvar", "normal", "plain", "quoted", "a", "=", "\n">>, FALSE)],
     [src |-> <<"$", "a", " ", "\n">>, word |-> W(<<"$", "a", " ", "\n">>, FALSE)]}
TextOf(src) == (CHOOSE p \in Texts : p.src = src).word

a == TextOf(<<"a">>)
Cmd(assign, args, redirect) == [type |-> "cmd", assign |-> assign, args |-> args, redirect |-> redirect]
To(type, fd, word) == [type |-> type, fd |-> <<fd>>, word |-> word]
Short == Cmd(<<>>, <<a>>, <<>>)
Long  == Cmd(<<TextOf(<<"v", "=", "$", "{", "x", "-", "}">>)>>, <<a, TextOf(<<"i", "f">>)>>,
             <<To("append", "2", TextOf(<<"'", ";", "'">>)), [type |-> "tofd", fd |-> <<"1">>, dupfd |-> <<"2">>]>>)
Docs  == Cmd(<<>>, <<a>>, <<[type |-> "xhere", fd |-> <<"0">>, doc |-> TextOf(<<"$", "a", "\n">>)],
                            [type |-> "here", fd |-> <<"2">>, doc |-> TextOf(<<"$", "a", " ", "\n">>)]>>)
Subst == Cmd(<<>>, <<a, [text |-> <<"ctlbackq">>, quoted |-> FALSE, bq |-> <<Binary("or", Short, Long)>>]>>, <<>>)

Back(n) == [type |-> "backgnd", n |-> n, redirect |-> <<>>]
If(x, y, z) == [type |-> "if", test |-> x, ifpart |-> y, elsepart |-> z]
Fd == <<To("to", "1", a)>>

With1(X) ==
    {Back(x) : x \in {y \in X : y.type \notin {"pipe", "redir"}}}
    \cup {[type |-> "not", com |-> x] : x \in X}
    \cup {[type |-> "subshell", n |-> x, redirect |-> r] : x \in X, r \in {<<>>, Fd}}
    \cup {[type |-> t, n |-> x, redirect |-> Fd] : t \in {"redir", "backgnd"}, x \in {y \in X : y.type # "subshell"}}
    \cup {[type |-> "defun", name |-> <<"f">>, body |-> x] : x \in X}
    \cup {[type |-> "for", var |-> <<"x">>, args |-> w, body |-> x] : w \in {<<dolatstr>>, <<>>, <<a, a>>}, x \in X}

With2(X, Y) ==
    {Binary(t, x, y) : t \in {"and", "or", "while", "until"}, x \in X, y \in Y}
    \cup {Binary("semi", x, y) : x \in X, y \in {z \in Y : z.type # "semi"}}
    \cup {[type |-> "pipe", cmds |-> <<x, y>>, backgnd |-> b] : x \in X, y \in Y, b \in BOOLEAN}
    \cup {If(x, y, NULL) : x \in X, y \in Y} \cup {If(x, Short, y) : x \in X, y \in Y}
    \cup {[type |-> "case", expr |-> a, cases |-> <<[pattern |-> <<a, TextOf(<<"'", ";", "'">>)>>, body |-> x],
                                                    [pattern |-> <<a>>, body |-> y]>>]
             : x \in X \cup {NULL}, y \in Y}

Around(X, Y) == With1(X) \cup With2(X, Y) \cup With2(Y, X)
Depth2(X) == X \cup With1(X) \cup With2(X, X)

SomeTrees ==
    Depth2({Long, Docs}) \cup Depth2({Long, Subst})
    \cup Around(Depth2({Docs}), {Docs}) \cup Around(Depth2({Subst}), {Short})

-----------------------------------------------------------------------------
(* Words.                                                                  *)

Lit(string) == [k |-> "lit", cs |-> Chars(string)]
Sq(string)  == [k |-> "sq", cs |-> Chars(string)]
Esc(c)      == [k |-> "esc", c |-> c]
Dq(ps)      == [k |-> "dq", ps |-> ps]
Var(name, op, ps) == [k |-> "var", name |-> <<name>>, op |-> op, ps |-> ps]
Sub         == [k |-> "cmd"]
Ari(string) == [k |-> "ari", cs |-> Chars(string)]

x1 == Var("x", "", <<>>)
Params == {Var("@", "", <<>>), Var("*", "", <<>>), Var("1", "", <<>>), Var("#", "", <<>>)}
Conditions == {"-", ":-", "+", ":+", "=", ":=", "?", ":?"}
Trims == {"%", "%%", "#", "##"}
Values == {<<Lit("a b")>>, <<Lit("b"), Dq(<<x1>>)>>, <<x1, Sq("* "), Esc(":"), Lit("b")>>}
Patterns1 == {<<Lit("?")>>, <<Lit("*"), x1>>, <<Lit("*"), Dq(<<Lit("b")>>)>>, <<Lit("[!b]*")>>, <<Dq(<<Lit("*")>>)>>,
              <<Lit("["), Esc("*"), Lit("b]")>>}
Altered == {Var("x", "len", <<>>)} \cup {Var("x", op, ps) : op \in Conditions, ps \in Values}
           \cup {Var("x", op, ps) : op \in Trims, ps \in Patterns1}
QuotedAltered == {Var("x", op, <<Lit("a "), x1>>) : op \in Conditions} \cup {Var("x", op, <<Lit("*"), x1>>) : op \in Trims}

Simple1 == {Lit("a"), Lit("*"), Lit("?b"), Lit("~"), Lit("~/b"), Lit("[a-c]"), Lit("d/*"), Lit("."), Esc("*"), Esc("a"),
            Sq(""), Sq("a *"), Sub, Ari("1+x"), x1} \cup Params
Inner == Params \cup {x1, Lit("a *"), Sub, Ari("x=2")} \cup QuotedAltered
Quoted1 == {Dq(<<i>>) : i \in Inner} \cup {Dq(<<>>), Dq(<<Lit("a"), Var("@", "", <<>>), Lit("b")>>), Dq(<<x1, Esc("$"), x1>>)}

Name(string) == Chars(string)
SomeShellOf(s) ==
    [vars |-> (<<"x">> :> s.x) @@ (Name("IFS") :> s.ifs) @@ (Name("HOME") :> Name("/b")),
     params |-> s.params, special |-> (<<"?">> :> <<"0">>), arg0 |-> <<"a">>, uflag |-> s.u, fflag |-> FALSE,
     err |-> "none", dest |-> <<>>, regs |-> <<>>, bq |-> <<>>,
     dirs |-> (<<".">> :> {Name("."), Name("a"), Name("b"), Name("*b"), Name(".a"), Name("d")}) @@ (<<"d">> :> {Name("."), Name("a"), Name("]")})]

Shells ==
    [x : {Unset} \cup {Name(t) : t \in {"", "a", " a  b", "*b", ":a: :b"}},
     ifs : {Unset, <<>>, <<" ", ":">>},
     params : {<<>>, <<Name("a b"), <<>>, Name("*")>>}, u : BOOLEAN]
FewShells ==
    [x : {Unset} \cup {Name(t) : t \in {"a", " a  b", "*b"}},
     ifs : {Unset, <<" ", ":">>}, params : {<<Name("a b"), Name("*")>>}, u : {FALSE}]

Job(how, first, rests, e, val) == [how |-> how, first |-> first, rests |-> rests, e |-> e, val |-> val]
Alone == {<<>>}
Then(pieces) == {<<p>> : p \in pieces}

SomeWords ==
    {Job("arg", p, Alone, e, <<>>) : p \in Simple1 \cup Quoted1 \cup Altered, e \in Shells}
    \cup {Job("arg", p, Then(Simple1 \cup Quoted1), e, <<>>) : p \in Simple1 \cup Quoted1, e \in FewShells}
    \cup {Job("arg", p, Then({x1, Lit("b"), Sub, Dq(<<x1>>)}), e, <<>>) : p \in Altered, e \in FewShells}
    \cup {Job("arg", p, Then(Altered), e, <<>>) : p \in {Lit("b"), Dq(<<x1>>), Var("@", "", <<>>)}, e \in FewShells}
    \cup {Job(how, p, Alone, e, <<>>) : how \in {"assign", "redir"}, p \in Simple1 \cup Quoted1 \cup Altered, e \in FewShells}
    \cup {Job("here", Lit("a "), Then(Inner), e, <<>>) : e \in FewShells}
    \cup {Job("case", p, Then(Quoted1 \cup {x1, Lit("]"), Lit("[*]")}), e, Name(v)) : p \in Simple1, e \in FewShells, v \in {"ab", "*b"}}

-----------------------------------------------------------------------------
(* Expressions.                                                            *)

Num(n) == [op |-> "num", n |-> n]
X == [op |-> "var", name |-> <<"x">>]
Y == [op |-> "var", name |-> <<"a">>]
Op2(op, l, r) == [op |-> op, l |-> l, r |-> r]
Ops2 == {"+", "-", "*", "/", "%", "**", "<<", ">>", "<", ">", "<=", ">=", "==", "!=", "&", "|", "^", "&&", "||", ","}
Lift(T, U) ==
    {[op |-> op, l |-> t] : op \in {"neg", "not", "com"}, t \in T}
    \cup {Op2(op, l, r) : op \in Ops2, l \in T, r \in U}
    \cup {Op2(op, X, r) : op \in {"=", "+=", "-=", "<<=", "/="}, r \in U}
    \cup {[op |-> "?", c |-> t, l |-> X, r |-> u] : t \in T, u \in U}
Leaves == {Num(3), X}
Steps == {[op |-> op, l |-> Y] : op \in {"++x", "x--"}}
Within == Lift({Num(100), X}, {Num(2)})
SomeExpressions ==
    Lift(Leaves \cup Steps, Leaves \cup Steps) \cup Lift(Within, {Num(2), Y}) \cup Lift({Num(2), Y}, Within)

SomeShell == [vars |-> (<<"x">> :> <<"5">>) @@ (<<"a">> :> <<"c", "-", "7">>) @@ (<<"c">> :> <<"5">>), cvars |-> (<<"x">> :> 5) @@ (<<"a">> :> -2)]

-----------------------------------------------------------------------------
(* Shells that run a command in another process.                           *)

ChainOf(name) == CASE name \in {"x", "y", "OPTIND", "f"} -> 1 [] name \in {"IFS", "PATH", "RANDOM", "b"} -> 2 [] OTHER -> 3
RootPath == <<"r">>
SomeEnvirons == {<<>>, <<[name |-> "x", val |-> <<"1">>], [name |-> "h", val |-> <<"2">>]>>}
Assign(sh, name, val, flags) == [sh EXCEPT !.vartab = Fork!setvareq(@, name, val, flags)]
Removed(sh, name) == [sh EXCEPT !.vartab[ChainOf(name)].list = SelectSeq(@, LAMBDA v : v.name # name)]
VarsOf(sh) ==
    {sh, Removed(sh, "x"), Assign(sh, "x", <<"3">>, {}), Assign(sh, "IFS", <<":">>, {}),
     Assign(Assign(sh, "y", <<"3">>, {"export"}), "x", <<>>, {"export"}),
     Assign(Assign(Assign(sh, "y", <<"4">>, {}), "h", <<"5">>, {"export"}), "w", <<>>, {"readonly"}),
     Assign(Assign(sh, "PATH", <<"b">>, {"export"}), "OPTIND", <<"2">>, {})}
Local(sh, name) == [sh EXCEPT !.localvars = <<[vp |-> Fork!FirstOf(sh.vartab[ChainOf(name)], name), flags |-> {}, text |-> <<>>]>> \o @]
LocalsOf(sh) ==
    {sh, Local(sh, "IFS"), Local(Local(sh, "PATH"), "OPTIND"),
     [sh EXCEPT !.localvars = <<[vp |-> [name |-> "null"], flags |-> {}, text |-> <<>>]>>]}
     \cup {Local(Local(sh, "OPTIND"), name) : name \in {"h", "x"} \cap {v.name : v \in UNION {ToSet(sh.vartab[i].list) : i \in {1, 3}}}}
Command1(sh, name, type, param) ==
    [sh EXCEPT !.cmdtable[ChainOf(name)].list = <<[name |-> name, type |-> type, param |-> param, rehash |-> FALSE]>> \o @]
CommandsFor(sh) ==
    {Command1(Command1(sh, "y", "normal", 1), "x", "builtin", 7),
     Command1(Command1(Command1(sh, "h", "unknown", 0), "b", "function", Fork!Linked(Long)), "f", "function", Fork!Linked(Docs))}
RestOf(sh) ==
    {[sh EXCEPT !.optlist = {"e", "u"}, !.rootpid = 1, !.exitstatus = 3, !.startlinno = 4, !.arg0 = <<"a">>, !.curdir = Fork!Absent],
     [sh EXCEPT !.sigmode = <<"ign", "catch">>, !.gotsig = <<0, 1>>, !.g_nullredirs = 1, !.preverrout_fd = 2,
        !.redirlist = <<[renamed |-> <<10, -1>>, nullredirs |-> 2], [renamed |-> <<-1, 11>>, nullredirs |-> 0]>>],
     [sh EXCEPT !.params = <<<<"a">>, <<>>>>, !.optind = 2, !.optoff = 1, !.exitstatus = 1]}
ForkJob(environ, sh, entry, tree) == [environ |-> environ, shell |-> sh, entry |-> entry, tree |-> tree]
StatesOf(environ) ==
    LET sh == Fork!init(environ)
    IN  UNION {LocalsOf(v) : v \in VarsOf(sh)} \cup CommandsFor(sh) \cup UNION {RestOf(v) : v \in CommandsFor(sh)} \cup RestOf(sh)
SomeForks ==
    UNION {{ForkJob(e, sh, entry, Short) : sh \in StatesOf(e), entry \in Fork!forkpoints} : e \in SomeEnvirons}
    \cup {ForkJob(<<>>, Fork!init(<<>>), "evalsubshell", t) :
              t \in Depth2({Long, Docs}) \cup Depth2({Subst}) \cup With1(With1({Docs})) \cup {NULL}}
=============================================================================
