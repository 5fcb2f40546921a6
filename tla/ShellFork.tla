------------------------------ MODULE ShellFork -----------------------------
(***************************************************************************)
(* How the Windows build of the shell does without fork                    *)
(* (box/shell/ash_fork.c): it writes its state and the command into a pipe *)
(* and a new process reads both.  The same trees are copied into one block *)
(* when a function is defined (copyfunc of ash.c).                         *)
(*                                                                         *)
(* A tree is a tree of C's nodes here: lists are linked through `next'.  A *)
(* shell is a record; the chains of its hash tables are sequences.  What   *)
(* goes through the pipe is a sequence of cells; a reader that is out of   *)
(* step is taken to notice it at once.                                     *)
(***************************************************************************)
EXTENDS Integers, SequencesExt, TLC

CONSTANTS
    VTABSIZE,      \* chains of vartab
    CMDTABLESIZE,  \* chains of cmdtable
    Chain(_),      \* the chain a name belongs to, from 1
    DefaultPath    \* bb_PATH_root_path

Absent == <<"*absent*">>    \* no text, no value
NoNode == [type |-> "null"]

-----------------------------------------------------------------------------
(* Nodes.                                                                  *)

Types == <<"cmd", "pipe", "redir", "backgnd", "subshell", "and", "or", "semi", "if", "while", "until", "for", "case",
           "clist", "defun", "arg", "to", "clobber", "from", "fromto", "append", "tofd", "fromfd", "here", "xhere", "not">>
Binary   == {"and", "or", "semi", "while", "until"}
Grouped  == {"redir", "backgnd", "subshell"}
ToFile   == {"to", "clobber", "from", "fromto", "append"}
ToFd     == {"tofd", "fromfd"}
Document == {"here", "xhere"}

\* Words and redirections are linked through their first field.
RECURSIVE Linked(_)
ForEach(seq, Op(_)) == FoldLeft(LAMBDA done, x : Append(done, Op(x)), <<>>, seq)
Each(trees) == ForEach(trees, LAMBDA t : Linked(t))
Args(words) ==
    FoldRight(LAMBDA w, next : [type |-> "arg", next |-> next, text |-> w.text,
                                backquote |-> Each(w.bq)], words, NoNode)
Redirs(redirs) ==
    FoldRight(LAMBDA r, next :
        CASE r.type \in Document -> [type |-> r.type, next |-> next, fd |-> r.fd, doc |-> Args(<<r.doc>>)]
          [] r.type \in ToFd -> [type |-> r.type, next |-> next, fd |-> r.fd, dupfd |-> r.dupfd, vname |-> NoNode]
          [] r.type \in ToFile -> [type |-> r.type, next |-> next, fd |-> r.fd, fname |-> Args(<<r.word>>)],
        redirs, NoNode)
Cases(cases) ==
    FoldRight(LAMBDA c, next : [type |-> "clist", next |-> next, pattern |-> Args(c.pattern), body |-> Linked(c.body)],
              cases, NoNode)
Linked(n) ==
    LET t == n.type IN
    CASE t = "null" -> NoNode
      [] t = "cmd" -> [type |-> t, assign |-> Args(n.assign), args |-> Args(n.args), redirect |-> Redirs(n.redirect)]
      [] t = "pipe" -> [type |-> t, backgnd |-> n.backgnd, cmdlist |-> Each(n.cmds)]
      [] t \in Grouped -> [type |-> t, n |-> Linked(n.n), redirect |-> Redirs(n.redirect)]
      [] t \in Binary -> [type |-> t, ch1 |-> Linked(n.ch1), ch2 |-> Linked(n.ch2)]
      [] t = "if" -> [type |-> t, test |-> Linked(n.test), ifpart |-> Linked(n.ifpart), elsepart |-> Linked(n.elsepart)]
      [] t = "for" -> [type |-> t, args |-> Args(n.args), body |-> Linked(n.body), var |-> n.var]
      [] t = "case" -> [type |-> t, expr |-> Args(<<n.expr>>), cases |-> Cases(n.cases)]
      [] t = "defun" -> [type |-> t, next |-> Linked(n.body), text |-> n.name, backquote |-> <<>>]
      [] t = "not" -> [type |-> t, com |-> Linked(n.com)]

\* Each of the four walks over a tree has its own switch.
SentFields(t) ==
    CASE t = "cmd" -> <<"assign", "args", "redirect">>
      [] t = "pipe" -> <<"backgnd", "cmdlist">>
      [] t \in Grouped -> <<"n", "redirect">>
      [] t \in Binary -> <<"ch1", "ch2">>
      [] t = "if" -> <<"test", "ifpart", "elsepart">>
      [] t = "for" -> <<"args", "body", "var">>
      [] t = "case" -> <<"expr", "cases">>
      [] t = "clist" -> <<"next", "pattern", "body">>
      [] t \in {"defun", "arg"} -> <<"next", "text", "backquote">>
      [] t \in ToFile -> <<"next", "fd", "fname">>
      [] t \in ToFd -> <<"next", "fd", "dupfd", "vname">>
      [] t \in Document -> <<"next", "fd", "doc">>
      [] t = "not" -> <<"com">>
ReceivedFields(t) ==
    CASE t = "cmd" -> <<"assign", "args", "redirect">>
      [] t = "pipe" -> <<"backgnd", "cmdlist">>
      [] t \in Grouped -> <<"n", "redirect">>
      [] t \in Binary -> <<"ch1", "ch2">>
      [] t = "if" -> <<"test", "ifpart", "elsepart">>
      [] t = "for" -> <<"args", "body", "var">>
      [] t = "case" -> <<"expr", "cases">>
      [] t = "clist" -> <<"next", "pattern", "body">>
      [] t \in {"defun", "arg"} -> <<"next", "text", "backquote">>
      [] t \in ToFile -> <<"next", "fd", "fname">>
      [] t \in ToFd -> <<"next", "fd", "dupfd", "vname">>
      [] t \in Document -> <<"next", "fd", "doc">>
      [] t = "not" -> <<"com">>
CountedFields(t) ==
    CASE t = "cmd" -> <<"redirect", "args", "assign">>
      [] t = "pipe" -> <<"cmdlist">>
      [] t \in Grouped -> <<"redirect", "n">>
      [] t \in Binary -> <<"ch2", "ch1">>
      [] t = "if" -> <<"elsepart", "ifpart", "test">>
      [] t = "for" -> <<"var", "body", "args">>
      [] t = "case" -> <<"cases", "expr">>
      [] t = "clist" -> <<"body", "pattern", "next">>
      [] t \in {"defun", "arg"} -> <<"backquote", "text", "next">>
      [] t \in ToFile -> <<"fname", "next">>
      [] t \in ToFd -> <<"vname", "next">>
      [] t \in Document -> <<"doc", "next">>
      [] t = "not" -> <<"com">>
CopiedFields(t) ==
    CASE t = "cmd" -> <<"redirect", "args", "assign">>
      [] t = "pipe" -> <<"cmdlist", "backgnd">>
      [] t \in Grouped -> <<"redirect", "n">>
      [] t \in Binary -> <<"ch2", "ch1">>
      [] t = "if" -> <<"elsepart", "ifpart", "test">>
      [] t = "for" -> <<"var", "body", "args">>
      [] t = "case" -> <<"cases", "expr">>
      [] t = "clist" -> <<"body", "pattern", "next">>
      [] t \in {"defun", "arg"} -> <<"backquote", "text", "next">>
      [] t \in ToFile -> <<"fname", "fd", "next">>
      [] t \in ToFd -> <<"vname", "dupfd", "fd", "next">>
      [] t \in Document -> <<"doc", "fd", "next">>
      [] t = "not" -> <<"com">>
TextFields == {"text", "var"}
Integral == {"fd", "dupfd", "backgnd"}
Lists    == {"backquote", "cmdlist"}
Kind(f)  == IF f \in TextFields THEN "str" ELSE IF f \in Integral THEN "int" ELSE IF f \in Lists THEN "nodes" ELSE "node"

-----------------------------------------------------------------------------
(* Copying a function into one block.                                      *)

\* The table of sizes is in the order of the types; sizes are in words.
nodesize == <<4, 3, 3, 3, 3, 3, 3, 3, 4, 3, 3, 4, 3, 4, 4, 4, 5, 5, 5, 5, 5, 5, 5, 4, 4, 2>>
SizeOf(t) == nodesize[CHOOSE i \in DOMAIN Types : Types[i] = t]
ListSize == 2
\* What a node really takes: the type, its fields, and expfname of a file.
Taken(t) == 1 + Len(SentFields(t)) + (IF t \in ToFile THEN 1 ELSE 0)

\* funcblocksize and funcstringsize.
Sum(a, b) == [block |-> a.block + b.block, string |-> a.string + b.string]
Needs(block, string) == [block |-> block, string |-> string]
RECURSIVE calcsize(_)
sizenodelist(nodes) == FoldLeft(LAMBDA c, n : Sum(Sum(c, Needs(ListSize, 0)), calcsize(n)), Needs(0, 0), nodes)
\* Mutant: the end of a string is not counted.
UnterminatedSize(n, f) ==
    CASE Kind(f) = "node" -> calcsize(n[f])
      [] Kind(f) = "nodes" -> sizenodelist(n[f])
      [] Kind(f) = "str" -> Needs(0, Len(n[f]))
FieldSize(n, f) ==
    CASE Kind(f) = "node" -> calcsize(n[f])
      [] Kind(f) = "nodes" -> sizenodelist(n[f])
      [] Kind(f) = "str" -> Needs(0, Len(n[f]) + 1)
calcsize(n) ==
    IF n = NoNode THEN Needs(0, 0)
    ELSE FoldLeft(LAMBDA c, f : Sum(c, FieldSize(n, f)), Needs(SizeOf(n.type), 0), CountedFields(n.type))

\* funcblock and funcstring, the node that is made, and whether one was
\* larger than its place; a node is copied from a field on.
RECURSIVE copynode(_, _, _)
Placed(c, n) ==
    [c EXCEPT !.block = @ + SizeOf(n.type), !.over = @ \/ Taken(n.type) > SizeOf(n.type), !.new = [type |-> n.type]]
Copy(c, n) == IF n = NoNode THEN [c EXCEPT !.new = NoNode] ELSE copynode(Placed(c, n), n, 1)
copynodelist(c, nodes) ==
    FoldLeft(LAMBDA d, n : LET e == Copy([d EXCEPT !.block = @ + ListSize], n) IN [e EXCEPT !.new = Append(d.new, e.new)],
             [c EXCEPT !.new = <<>>], nodes)
CopyField(c, n, f) ==
    CASE Kind(f) = "node" -> Copy(c, n[f])
      [] Kind(f) = "nodes" -> copynodelist(c, n[f])
      [] Kind(f) = "str" -> [c EXCEPT !.string = @ + Len(n[f]) + 1, !.new = n[f]]
      [] Kind(f) = "int" -> [c EXCEPT !.new = n[f]]
With(c, f, d) == [d EXCEPT !.new = (f :> d.new) @@ c.new]
copynode(c, n, i) ==
    IF c.over \/ i > Len(CopiedFields(n.type)) THEN c
    ELSE copynode(With(c, CopiedFields(n.type)[i], CopyField(c, n, CopiedFields(n.type)[i])), n, i + 1)

copyfunc(n) ==
    LET size == calcsize(n)
        c    == Copy([block |-> 0, string |-> size.block, over |-> FALSE, new |-> NoNode], n)
    IN  [func |-> c.new, inside |-> ~c.over /\ c.block <= size.block /\ c.string <= size.block + size.string]

-----------------------------------------------------------------------------
(* Sending.                                                                *)

Num(n)   == <<[k |-> "int", v |-> n]>>
Str(s)   == <<[k |-> "str", v |-> s]>>
Buf(b)   == <<[k |-> "buf", v |-> b]>>
Guard(n) == <<[k |-> "guard", v |-> n]>>
SER_TBLENTRY == -100
SER_VARTAB == -102
SER_LOCALVARS == -103
SER_OPTLIST == -104
SER_FORK == -105
SER_DONE == -106
SER_MISC == -107
Numbered(items) == FlattenSeq([i \in DOMAIN items |-> Guard(i - 1) \o items[i]]) \o Guard(-1)

RECURSIVE node_send(_)
SentField(n, f) ==
    CASE Kind(f) = "node" -> node_send(n[f])
      [] Kind(f) = "nodes" -> Numbered(ForEach(n[f], LAMBDA t : node_send(t)))
      [] Kind(f) = "str" -> Str(n[f])
      [] Kind(f) = "int" -> Num(n[f])
SentNode(n, fields) ==
    Num(n.type) \o Num(Taken(n.type)) \o FoldLeft(LAMBDA cells, f : cells \o SentField(n, f), <<>>, fields) \o Guard(-1)
node_send(n) == IF n = NoNode THEN Num("null") ELSE SentNode(n, SentFields(n.type))

funcnode_send(func) == Num(0) \o node_send(func) \o Guard(-1)

\* The items of all chains of a table, each with the number of its chain.
InChains(table, Send(_)) ==
    FlattenSeq([i \in DOMAIN table |-> [j \in DOMAIN table[i].list |-> Num(i) \o Send(table[i].list[j])]])

\* The bytes of an entry: a pointer means nothing to the reader.
Bytes(e) == IF e.type \in {"builtin", "function"} THEN [e EXCEPT !.param = Absent] ELSE e
EntrySent(e) ==
    Num(1) \o Buf(Bytes(e))
    \o (CASE e.type \in {"unknown", "normal"} -> <<>>
          [] e.type = "builtin" -> Num(e.param)
          [] e.type = "function" -> funcnode_send(e.param))
tblentry_send(sh) == Guard(SER_TBLENTRY) \o Numbered(InChains(sh.cmdtable, EntrySent))

var_send(v) == Num(v.flags) \o Str([name |-> v.name, val |-> v.val])
vartab_send(sh) == Guard(SER_VARTAB) \o Numbered(InChains(sh.vartab, var_send))

\* The variable of `local -' is a null pointer.
localvar_send(lv) == var_send(lv.vp) \o Num(lv.flags) \o Str(lv.text)
localvars_send(sh) == Guard(SER_LOCALVARS) \o Numbered([i \in DOMAIN sh.localvars |-> localvar_send(sh.localvars[i])])
SendCrashes(sh) == \E i \in DOMAIN sh.localvars : sh.localvars[i].vp.name = "null"

optlist_send(sh) == Guard(SER_OPTLIST) \o Buf(sh.optlist) \o Guard(-1)

sig_send(sh) == Numbered([i \in DOMAIN sh.sigmode |-> Num(sh.sigmode[i]) \o Num(sh.gotsig[i])])
redir_send(sh) ==
    Numbered([i \in DOMAIN sh.redirlist |-> Buf(sh.redirlist[i].renamed) \o Num(sh.redirlist[i].nullredirs)])
    \o Num(sh.g_nullredirs) \o Num(sh.preverrout_fd) \o Guard(-1)
shparam_send(sh) ==
    Num(Len(sh.params)) \o Num(sh.optind) \o Num(sh.optoff) \o Numbered([i \in DOMAIN sh.params |-> Str(sh.params[i])])
misc_send(sh) ==
    Guard(SER_MISC) \o Num(sh.rootpid) \o Num(sh.shlvl + 1) \o Num(sh.exitstatus) \o Num(sh.startlinno)
    \o Str(sh.commandname) \o Str(sh.arg0) \o Str(sh.curdir) \o Str(sh.physdir)
    \o sig_send(sh) \o redir_send(sh) \o shparam_send(sh) \o Guard(-1)

forkshell_transfer(sh, n, flags) ==
    tblentry_send(sh) \o vartab_send(sh) \o localvars_send(sh) \o optlist_send(sh) \o misc_send(sh)
    \o Guard(SER_FORK) \o node_send(n) \o Num(flags) \o Guard(SER_DONE)

-----------------------------------------------------------------------------
(* Receiving: the cells that are left, what was read last, what went wrong *)
(* and the shell that is filled.                                           *)

Corrupted(r) == [r EXCEPT !.err = "corrupted"]
ser_read(r, kind) ==
    IF r.err # "none" THEN r
    ELSE IF r.in = <<>> \/ Head(r.in).k # kind THEN Corrupted(r)
    ELSE [r EXCEPT !.val = Head(r.in).v, !.in = Tail(@)]
Ok(r) == r.err = "none"
\* A value is kept over a guard.
guard_recv1(r, n) ==
    LET t == ser_read(r, "guard") IN IF ~Ok(t) THEN t ELSE IF t.val = n THEN [t EXCEPT !.val = r.val] ELSE Corrupted(t)

\* Nodes, and lists of numbered items, by one recursive operator: what is
\* read, the number that comes next (of a field or of an item), the reader.
RECURSIVE recv(_, _, _)
node_recv(r) == recv("node", 0, r)
Field(a, f, b) == [b EXCEPT !.val = IF Ok(b) THEN (f :> b.val) @@ a.val ELSE NoNode]
FieldReceived(r, f) ==
    CASE Kind(f) = "node" -> recv("node", 0, r)
      [] Kind(f) = "nodes" -> recv("nodes", 0, [r EXCEPT !.val = <<>>])
      [] OTHER -> ser_read(r, Kind(f))
NodeOf(t) ==
    IF ~Ok(t) THEN t
    ELSE IF t.val = "null" THEN [t EXCEPT !.val = NoNode]
    ELSE guard_recv1(recv("fields", 1, [ser_read(t, "int") EXCEPT !.val = [type |-> t.val]]), -1)
FieldsFrom(i, r, fields) ==
    IF i > Len(fields) THEN r ELSE recv("fields", i + 1, Field(r, fields[i], FieldReceived(r, fields[i])))

\* A function is read as a node and copied into the record with the count.
funcnode_recv(r) == guard_recv1(node_recv(ser_read(r, "int")), -1)

InFront(r, table, i, item) == [r EXCEPT !.sh[table][i].list = <<item>> \o @]
EntryPut(r, i, e) == IF Ok(r) THEN InFront(r, "cmdtable", i, [e EXCEPT !.param = r.val]) ELSE r
EntryParam(r, i) ==
    IF ~Ok(r) THEN r
    ELSE EntryPut(CASE r.val.type \in {"unknown", "normal"} -> [r EXCEPT !.val = r.val.param]
                    [] r.val.type = "builtin" -> ser_read(r, "int")
                    [] r.val.type = "function" -> funcnode_recv(r), i, r.val)
EntryReceived(r) == IF Ok(r) THEN EntryParam(ser_read(ser_read(r, "int"), "buf"), r.val) ELSE r

VarOf(flags, r) ==
    IF Ok(r) THEN [r EXCEPT !.val = [name |-> r.val.name, val |-> r.val.val, flags |-> flags, static |-> FALSE, func |-> "none"]]
    ELSE r
VarWithFlags(r) == IF Ok(r) THEN VarOf(r.val, ser_read(r, "str")) ELSE r
var_recv(r) == VarWithFlags(ser_read(r, "int"))
VarPut(r, i) == IF Ok(r) THEN InFront(r, "vartab", i, r.val) ELSE r
VarReceived(r) == IF Ok(r) THEN VarPut(var_recv(r), r.val) ELSE r

\* The variable of a local one is looked for by its whole text, in all
\* chains but the last; one that is not found replaces its chain and follows
\* itself.
SameText(v, w) == v.name = w.name /\ v.val = w.val
Searched(sh) == 1..(VTABSIZE - 1)
FoundIn(sh, i, v) == \E j \in DOMAIN sh.vartab[i].list : SameText(sh.vartab[i].list[j], v)
SearchEnds(sh, v) == \A i \in Searched(sh) : sh.vartab[i].loop => \E j \in 1..i : FoundIn(sh, j, v)
LocalVar(r, v) ==
    IF ~SearchEnds(r.sh, v) THEN [r EXCEPT !.err = "hang"]
    ELSE IF \E i \in Searched(r.sh) : FoundIn(r.sh, i, v) THEN r
    ELSE [r EXCEPT !.sh.vartab[Chain(v.name)] = [list |-> <<v>>, loop |-> TRUE]]
LocalPut(r, v, flags) ==
    IF Ok(r) THEN [r EXCEPT !.sh.localvars = <<[vp |-> v, flags |-> flags, text |-> r.val]>> \o @] ELSE r
LocalText(r, v) == IF Ok(r) THEN LocalPut(ser_read(r, "str"), v, r.val) ELSE r
LocalFlags(r) == IF Ok(r) THEN LocalText(ser_read(LocalVar(r, r.val), "int"), r.val) ELSE r
localvar_recv(r) == LocalFlags(var_recv(r))

RedirPut(r, renamed) ==
    IF Ok(r) THEN [r EXCEPT !.sh.redirlist = Append(@, [renamed |-> renamed, nullredirs |-> r.val])] ELSE r
RedirReceived(r) == IF Ok(r) THEN RedirPut(ser_read(r, "int"), r.val) ELSE r

Item(what, r) ==
    CASE what = "nodes" -> LET n == recv("node", 0, r) IN [n EXCEPT !.val = Append(r.val, n.val)]
      [] what = "cmdtable" -> EntryReceived(ser_read(r, "int"))
      [] what = "vartab" -> VarReceived(ser_read(r, "int"))
      [] what = "localvars" -> localvar_recv(r)
      [] what = "redirlist" -> RedirReceived(ser_read(r, "buf"))
More(what, id, r, g) ==
    IF ~Ok(g) THEN g
    ELSE IF g.val = -1 THEN [g EXCEPT !.val = r.val]
    ELSE IF g.val # id THEN Corrupted(g)
    ELSE recv(what, id + 1, Item(what, [g EXCEPT !.val = r.val]))
recv(what, id, r) ==
    IF ~Ok(r) THEN r
    ELSE IF what = "node" THEN NodeOf(ser_read(r, "int"))
    ELSE IF what = "fields" THEN FieldsFrom(id, r, ReceivedFields(r.val.type))
    ELSE More(what, id, r, ser_read(r, "guard"))

tblentry_recv(r)  == recv("cmdtable", 0, guard_recv1(r, SER_TBLENTRY))
vartab_recv(r)    == recv("vartab", 0, guard_recv1(r, SER_VARTAB))
localvars_recv(r) == recv("localvars", 0, guard_recv1(r, SER_LOCALVARS))
\* A variable of the shell is read.
Set(r, name, kind) ==
    LET t == ser_read(r, kind) IN IF Ok(t) THEN [t EXCEPT !.sh = (name :> t.val) @@ @] ELSE t
optlist_recv(r) == guard_recv1(Set(guard_recv1(r, SER_OPTLIST), "optlist", "buf"), -1)

SetAt(r, name, i, kind) == LET t == ser_read(r, kind) IN IF Ok(t) THEN [t EXCEPT !.sh[name][i] = t.val] ELSE t
sig_recv(r) ==
    guard_recv1(FoldLeft(LAMBDA a, i : SetAt(SetAt(guard_recv1(a, i - 1), "sigmode", i, "int"), "gotsig", i, "int"),
                         r, [i \in DOMAIN r.sh.sigmode |-> i]), -1)
redir_recv(r) == guard_recv1(Set(Set(recv("redirlist", 0, r), "g_nullredirs", "int"), "preverrout_fd", "int"), -1)
Params(r, n) ==
    FoldLeft(LAMBDA a, i : SetAt(guard_recv1(a, i - 1), "params", i, "str"),
             [r EXCEPT !.sh.params = [i \in 1..n |-> Absent]], [i \in 1..n |-> i])
ParamCount(r) ==
    IF ~Ok(r) THEN r
    ELSE guard_recv1(Params(Set(Set(r, "optind", "int"), "optoff", "int"), r.val), -1)
shparam_recv(r) == ParamCount(ser_read(r, "int"))
misc_recv(r) ==
    LET words == FoldLeft(LAMBDA a, f : Set(a, f, IF f \in {"rootpid", "shlvl", "exitstatus", "startlinno"} THEN "int" ELSE "str"),
                          guard_recv1(r, SER_MISC),
                          <<"rootpid", "shlvl", "exitstatus", "startlinno", "commandname", "arg0", "curdir", "physdir">>)
    IN  guard_recv1(shparam_recv(redir_recv(sig_recv(words))), -1)

\* What the new process does before it evaluates the command.
Done(tree, flags) == [guard_recv1(flags, SER_DONE) EXCEPT !.val = [node |-> tree, flags |-> flags.val]]
WithTree(r) == Done(r.val, ser_read(r, "int"))
Then(r, Op(_)) == IF Ok(r) THEN Op(r) ELSE r
forkshell_receive(r) ==
    Then(Then(Then(Then(tblentry_recv(r), vartab_recv), localvars_recv), optlist_recv), misc_recv)
subshell_run(r) ==
    Then(Then(guard_recv1(forkshell_receive(r), SER_FORK), node_recv), WithTree)

-----------------------------------------------------------------------------
(* The new process: its shell before it reads, and what a command sees.    *)

Var(name, val, flags, static, func) == [name |-> name, val |-> val, flags |-> flags, static |-> static, func |-> func]
varinit ==
    <<Var("IFS", Absent, {"strfixed", "textfixed", "unset"}, TRUE, "none"),
      Var("PATH", DefaultPath, {"strfixed", "textfixed"}, TRUE, "changepath"),
      Var("OPTIND", <<"1">>, {"strfixed", "textfixed"}, TRUE, "getoptsreset"),
      Var("RANDOM", Absent, {"strfixed", "textfixed", "unset", "dynamic"}, TRUE, "change_random")>>

NamedIn(chain, name) == {j \in DOMAIN chain.list : chain.list[j].name = name}
Least(S) == CHOOSE i \in S : \A j \in S : i <= j
AddVar(tab, v) == [tab EXCEPT ![Chain(v.name)].list = <<v>> \o @]

\* setvareq on a chain without readonly variables.
setvareq(tab, name, val, flags) ==
    LET i  == Chain(name)
        at == NamedIn(tab[i], name)
        Kept(old) == flags \cup (old \ {"textfixed", "stack", "nosave", "unset"})
    IN  IF at = {} THEN AddVar(tab, Var(name, val, flags, FALSE, "none"))
        ELSE [tab EXCEPT ![i].list[Least(at)] = [@ EXCEPT !.val = val, !.flags = Kept(@)]]
EmptyChains(n) == SubSeq([i \in 1..n |-> [list |-> <<>>, loop |-> FALSE]], 1, n)
initvar == FoldLeft(AddVar, EmptyChains(VTABSIZE), varinit)

\* A shell that has read its environment and its arguments.
init(environ) ==
    [vartab |-> FoldLeft(LAMBDA t, e : setvareq(t, e.name, e.val, {"export", "textfixed"}), initvar, environ),
     cmdtable |-> EmptyChains(CMDTABLESIZE), localvars |-> <<>>, optlist |-> {"s"},
     rootpid |-> 2, shlvl |-> 0, exitstatus |-> 0, startlinno |-> 1, commandname |-> Absent, arg0 |-> <<"sh">>,
     curdir |-> <<"a">>, physdir |-> <<"a">>, sigmode |-> <<"dfl", "dfl">>, gotsig |-> <<0, 0>>,
     redirlist |-> <<>>, g_nullredirs |-> 0, preverrout_fd |-> 0, params |-> <<>>, optind |-> 1, optoff |-> -1]

\* The entry of the table of fork points that runs the command.
forkpoints == {"evalbackcmd", "evalsubshell", "evalpipe", "openhere"}
Entered(sh, entry) == IF entry = "evalbackcmd" THEN [sh EXCEPT !.optlist = @ \ {"e"}] ELSE sh

\* The first variable of a name decides, in a chain that may have no end.
FirstOf(chain, name) == chain.list[Least(NamedIn(chain, name))]
ValueOf(v) == IF "dynamic" \in v.flags THEN IF v.func = "none" THEN "crash" ELSE <<"random">>
              ELSE IF "unset" \in v.flags THEN Absent ELSE v.val
lookupvar(sh, name) ==
    LET chain == sh.vartab[Chain(name)] IN
    IF NamedIn(chain, name) # {} THEN ValueOf(FirstOf(chain, name)) ELSE IF chain.loop THEN "hang" ELSE Absent

\* shellspawn_getenv: all exported variables; a program takes the first.
Exported(chain, name) == {j \in NamedIn(chain, name) : {"export", "unset"} \cap chain.list[j].flags = {"export"}}
InEnvironment(sh, name) ==
    LET chain == sh.vartab[Chain(name)]
    IN  IF Exported(chain, name) = {} THEN Absent ELSE chain.list[Least(Exported(chain, name))].val

cmdlookup(sh, name) ==
    LET chain == sh.cmdtable[Chain(name)]
    IN  IF NamedIn(chain, name) = {} THEN Absent
        ELSE LET e == FirstOf(chain, name) IN <<e.type, e.param, e.rehash>>

Forked(r, entry) == IF Ok(r) THEN [r EXCEPT !.sh = Entered(@, entry)] ELSE r
forkshell(sh, environ, entry, n, flags) ==
    IF SendCrashes(sh) THEN [in |-> <<>>, err |-> "crash", val |-> 0, sh |-> sh]
    ELSE Forked(subshell_run([in |-> forkshell_transfer(sh, n, flags), err |-> "none", val |-> 0, sh |-> init(environ)]), entry)
=============================================================================
