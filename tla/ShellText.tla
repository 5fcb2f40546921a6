------------------------------ MODULE ShellText -----------------------------
(***************************************************************************)
(* From characters to arguments: the stack of inputs, the parser, the      *)
(* expansion of words and arithmetic of the shell, and commands on their   *)
(* way into a function or another process, each put to work on a job of    *)
(* its own and compared with what its result must be.                      *)
(***************************************************************************)
EXTENDS ShellInput, ShellPosix

CONSTANTS
    Trees,         \* commands to be written and parsed back
    WordJobs,      \* words, where they stand and in which shell
    ShellOf(_),    \* the shell with some variables and parameters
    Expressions,   \* arithmetic expressions
    Shell,         \* a shell for the expressions
    ForkJobs,      \* shells and the commands they run in another process
    VTABSIZE, CMDTABLESIZE, Chain(_), DefaultPath    \* see ShellFork

VARIABLES
    job,           \* what is done
    out            \* what came out of it, NULL at first

vars == <<job, out, inputVars>>

Fork == INSTANCE ShellFork

Init ==
    /\ out = NULL
    /\ \/ InputIdle /\ \E t \in Expressions : job = [kind |-> "compute", tree |-> t]
       \/ InputIdle /\ \E w \in WordJobs : job = [kind |-> "expand", words |-> w]
       \/ InputIdle /\ \E t \in Trees, style \in {"nl", "semi"} : job = [kind |-> "parse", tree |-> t, style |-> style]
       \/ InputIdle /\ \E f \in ForkJobs : job = [kind |-> "fork", shell |-> f.shell, environ |-> f.environ, entry |-> f.entry, tree |-> f.tree]
       \/ InputInit /\ job = [kind |-> "input"]

\* A script is parsed.
ParseScript ==
    /\ job.kind = "parse" /\ out = NULL
    /\ LET read(p) == [err |-> p.err, nodes |-> [i \in DOMAIN p.nodes |-> Bodies(p.nodes[i], p.docs)]]
       IN  out' = read(Parse(Script(job.tree, job.style)))
    /\ UNCHANGED <<job, inputVars>>

\* A word is parsed and expanded where it stands: as an argument, in an
\* assignment, after a redirection, as a pattern of case, in a here-document.
Standing(how, source) ==
    CASE how = "arg" -> <<"a", " ">> \o source \o <<"\n">>
      [] how = "assign" -> <<"v", "=">> \o source \o <<"\n">>
      [] how = "redir" -> <<"a", " ", ">">> \o source \o <<"\n">>
      [] how = "case" -> Chars("case a in ") \o source \o Chars(") esac\n")
      [] how = "here" -> <<"a", "<", "<", "E", "\n">> \o source \o <<"\n", "E", "\n">>

\* The routine that expands there, and what it is given.
Place(w, e, n, docs) ==
    CASE w.how = "arg"    -> <<"expandarg", <<e, n.args[2], {"full", "tilde"}, <<>>>>>>
      [] w.how = "assign" -> <<"expandarg", <<e, n.assign[1], {"vartilde"}, <<>>>>>>
      [] w.how = "redir"  -> <<"expandarg", <<e, n.redirect[1].word, {"tilde", "redir"}, <<>>>>>>
      [] w.how = "here"   -> <<"expandhere", <<e, docs[1]>>>>
      [] w.how = "case"   -> <<"casematch", <<e, n.cases[1].pattern[1], w.val>>>>

Outcomes(w, x) ==
    LET e    == IF w.how = "here" THEN x ELSE x.e
        args == CASE w.how = "here" -> <<x.dest>>
                  [] w.how = "case" -> <<IF x.match THEN <<"1">> ELSE <<"0">> >>
                  [] OTHER -> x.args
    IN  IF e.err # "none" THEN [err |-> e.err] ELSE [err |-> "none", args |-> args, vars |-> e.vars]

ExpandedTree(w, p) ==
    LET at == Place(w, ShellOf(w.e), p.nodes[1], p.docs)
    IN  IF p.err # "none" THEN [err |-> p.err] ELSE Outcomes(w, Expand(at[1], at[2]))
Expanded(w, ps) == ExpandedTree(w, Parse(Standing(w.how, Source(ps))))

\* Some words that begin alike.
Words1(w) == {<<w.first>> \o rest : rest \in w.rests}

ExpandWords ==
    /\ job.kind = "expand" /\ out = NULL
    /\ out' = [type |-> "words", of |-> [ps \in Words1(job.words) |-> Expanded(job.words, ps)]]
    /\ UNCHANGED <<job, inputVars>>

\* $(( ))
Compute ==
    /\ job.kind = "compute" /\ out = NULL
    /\ out' = dash_arith(Shell, Spelt(job.tree))
    /\ UNCHANGED <<job, inputVars>>

\* A command is kept as a function and run in another process.
Copied(f, n) == [copy |-> Fork!copyfunc(n), child |-> Fork!forkshell(f.shell, f.environ, f.entry, n, 1)]
ForkShell ==
    /\ job.kind = "fork" /\ out = NULL
    /\ out' = Copied(job, Fork!Linked(job.tree))
    /\ UNCHANGED <<job, inputVars>>

ReadInput == job.kind = "input" /\ InputNext /\ UNCHANGED <<job, out>>

Next == ParseScript \/ ExpandWords \/ Compute \/ ForkShell \/ ReadInput

Spec == Init /\ [][Next]_vars

-----------------------------------------------------------------------------
(* Properties.                                                             *)

\* The parser understands every command that can be written: whatever is
\* inside whatever, with newlines or semicolons, and wherever the bodies of
\* here-documents come to stand, the tree that was written is read back.
ParsesBack ==
    job.kind = "parse" /\ out # NULL =>
        out = [err |-> "none", nodes |-> <<job.tree>>]

\* What a word must become.
RefResult(w, r) ==
    IF r.err # "none" THEN [err |-> r.err]
    ELSE [err |-> "none", vars |-> r.e.vars,
          args |-> CASE w.how = "arg" -> r.items
                     [] w.how = "here" -> <<CharsOf(r.items) \o <<"\n">> >>
                     [] w.how = "case" -> <<IF RefMatch(r.items, w.val) THEN <<"1">> ELSE <<"0">> >>
                     [] w.how = "assign" -> <<<<"v", "=">> \o CharsOf(r.items)>>
                     [] w.how = "redir" -> <<CharsOf(r.items)>>]

Reference(w, ps) ==
    LET e == ShellOf(w.e)
    IN  RefResult(w, CASE w.how = "arg"  -> RefArgs(e, ps)
                       [] w.how = "here" -> Ref(e, ps, TRUE, FALSE, FALSE)
                       [] OTHER -> RefWord(e, ps, FALSE))

\* A word becomes the arguments that POSIX says: through the parser's control
\* characters, the expansions within expansions, the recorded regions, the
\* splitting, the patterns and the escapes that protect what was quoted.
ExpandsAsPosix ==
    job.kind = "expand" /\ out # NULL =>
        \A ps \in DOMAIN out.of : out.of[ps] = Reference(job.words, ps)

\* Arithmetic has the value and the effects that C gives to the expression.
ComputesAsC ==
    job.kind = "compute" /\ out # NULL /\ Meaningful(job.tree) =>
        LET c == CEval(Shell, job.tree)
        IN  IF c.err THEN out.err # 0
            ELSE /\ out.err = 0 /\ out.val = c.val
                 /\ \A name \in DOMAIN c.e.cvars :
                       c.e.cvars[name] # Shell.cvars[name] => lookupvar(out.e, name) = NumText(c.e.cvars[name])

\* What the new process is not told of: `local -' (sending stops at a null
\* pointer), a local variable of the last chain (its chain is broken), and
\* that a variable of the environment was unset or is no longer exported.
NeverSent(sh) == Fork!SendCrashes(sh) \/ \E i \in DOMAIN sh.localvars : Chain(sh.localvars[i].vp.name) = VTABSIZE
StillThere(f, name) ==
    (\E i \in DOMAIN f.environ : f.environ[i].name = name) => Fork!InEnvironment(f.shell, name) # Fork!Absent
Seen(sh) ==
    [f \in {"optlist", "rootpid", "exitstatus", "startlinno", "commandname", "arg0", "curdir", "physdir", "sigmode",
            "gotsig", "redirlist", "g_nullredirs", "preverrout_fd", "params", "optind", "optoff"} |-> sh[f]]
NamesOf(sh) == {v.name : v \in UNION {ToSet(sh.vartab[i].list) : i \in DOMAIN sh.vartab}}
CommandsOf(sh) == {e.name : e \in UNION {ToSet(sh.cmdtable[i].list) : i \in DOMAIN sh.cmdtable}}
SameShell(f, sh) ==
    /\ Seen(sh) = Seen(Fork!Entered(f.shell, f.entry)) /\ sh.shlvl > 0
    /\ \A name \in {n \in NamesOf(f.shell) \cup NamesOf(sh) : n # "RANDOM" /\ StillThere(f, n)} :
          /\ Fork!lookupvar(sh, name) = Fork!lookupvar(f.shell, name)
          /\ Fork!InEnvironment(sh, name) = Fork!InEnvironment(f.shell, name)
    /\ \A name \in CommandsOf(f.shell) \cup CommandsOf(sh) : Fork!cmdlookup(sh, name) = Fork!cmdlookup(f.shell, name)

\* A command arrives whole wherever it is taken: a function fits into the
\* block that was measured for it and is the command that was defined; the
\* process that runs a subshell on Windows has the same command, variables,
\* functions, options, parameters and redirections as the shell that wrote
\* them into the pipe.
CopiesAreWhole ==
    job.kind = "fork" /\ out # NULL =>
        LET n == Fork!Linked(job.tree) IN
        /\ out.copy = [func |-> n, inside |-> TRUE]
        /\ ~NeverSent(job.shell) =>
              /\ out.child.err = "none" /\ out.child.in = <<>>
              /\ out.child.val = [node |-> n, flags |-> 1]
              /\ SameShell(job, out.child.sh)
=============================================================================
