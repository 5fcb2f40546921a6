------------------------------ MODULE ShellEval ------------------------------
(***************************************************************************)
(* How the shell evaluates a script (box/shell/ash.c, "eval.c"): evaltree  *)
(* and the routines it calls, the builtins that steer them (break,         *)
(* continue, return, exit, eval, ., exec, set -e, trap), exceptions and    *)
(* their handlers, traps, and the end of the shell.                        *)
(*                                                                         *)
(* The evaluator is recursive; its C stack is the variable `stack', whose  *)
(* head is the innermost call.  The script is not given: whenever a node   *)
(* is evaluated it may turn out to be of any kind, so that a run covers    *)
(* all scripts whose nesting fits the stack.  At a fork the model may go   *)
(* on as the child, with the C stack the child has inherited.              *)
(*                                                                         *)
(* External: what commands do and the status they end with.                *)
(***************************************************************************)
EXTENDS Redirections, FiniteSets

CONSTANTS
    Kinds,        \* kinds of nodes and commands the script may have
    MaxStack,     \* bound: height of the C stack
    MaxCount,     \* bound: operand of break and continue
    MaxLevel,     \* bound: how many forks deep the followed shell may be
    MaxSignals,   \* bound: trapped signals that come
    Statuses,     \* exit statuses of commands
    Interactive   \* values of iflag

ASSUME EvalAssumption ==
    /\ MaxStack \in Nat /\ MaxCount \in Nat /\ MaxLevel \in Nat /\ MaxSignals \in Nat
    /\ Statuses \subseteq Nat
    /\ Interactive \subseteq BOOLEAN

VARIABLES
    stack,       \* the C stack: frames, innermost first
    act,         \* what happens next: "eval" a node, go "out" of evaltree,
                 \* "leave" it, go "back" to a caller, "read" the first command
                 \* of an input, "raise" an exception; "ended"
    flags,       \* EV_EXIT ("exit") and EV_TESTED ("tested") for "eval"
    exitstatus,
    evalskip,    \* "break", "cont", "func", "file", "eval"
    skipcount,
    loopnest,
    funcnest,
    eflag,       \* set -e
    exception,   \* "EXERROR" or "EXEXIT"
    io,          \* redirections, see Redirections
    inputs,      \* parsefiles pushed on the input of the shell
    traps,       \* is there a trap for the signal?
    exittrap,    \* is there a trap for the end of the shell?
    pending,     \* the signal has come and was not served
    iflag,
    shlvl,
    \* History.
    signals,     \* signals that came
    base,        \* height of the stack when this process was forked, until it exits
    due          \* has set -e fired?  "no", "yes", "string": in a string or file that
                 \* was not started under set -e, "tested": in one that is tested

evalVars == <<stack, act, flags, exitstatus>>
skipVars == <<evalskip, skipcount, loopnest, funcnest>>
trapVars == <<traps, exittrap, pending, signals>>
levelVars == <<iflag, shlvl, base>>
vars == <<evalVars, skipVars, eflag, exception, io, inputs, trapVars, levelVars, due>>

Top == Head(stack)
Push(frame) == stack' = <<frame>> \o stack
IsTop(fn) == stack # <<>> /\ Top.fn = fn

\* Frames that read and evaluate commands from an input of their own.
Readers == {"evalstring", "dotcmd", "dotrap", "exitshell"}

-----------------------------------------------------------------------------
(* evaltree.                                                               *)

\* Some caller, in whatever process, looks at the status.
Tests(frame) ==
    \/ frame.fn = "evaltree" /\ frame.next \in {"not", "and", "or", "if"}
    \/ frame.fn = "evalloop" /\ frame.at = "test"

\* Every enclosing eval string or dot file was started under set -e.
StringsUnderE ==
    \A i \in DOMAIN stack :
        stack[i].fn \in {"evalstring", "dotcmd"} => stack[i + 1].check

\* Mutant: set -e also looks at commands whose status is tested.
ChecksAlways == eflag

\* Does evaltree check the status of a simple command or a pipeline?
Checks == eflag /\ "tested" \notin flags

\* A frame that has no descriptor to restore.
Untouched == [d \in UserFds |-> Closed]

\* The frame of evaltree; `next' says what it does when a call returns.
Tree(next, check) ==
    [fn |-> "evaltree", next |-> next, before |-> Untouched,
     exit |-> "exit" \in flags, tested |-> "tested" \in flags, check |-> check,
     strict |-> check /\ ~\E i \in DOMAIN stack : Tests(stack[i])]

Command == Tree("simple", Checks)
Node(next) == Tree(next, FALSE)

FlagsOf(frame) == {f \in {"exit", "tested"} : frame[f]}
Tested == flags \cap {"tested"}

Kind(k) == act = "eval" /\ k \in Kinds
Room == Len(stack) + 2 <= MaxStack

\* The node is done: what is left is the end of evaltree.
Done(frame) == act' = "out" /\ Push(frame) /\ flags' = {}

\* evaltree(n, with) is called from new frames, or from the frame on top.
Call(frames, with) == act' = "eval" /\ stack' = frames \o stack /\ flags' = with
CallOn(frame, with) == act' = "eval" /\ stack' = <<frame>> \o Tail(stack) /\ flags' = with

Return == act' = "back" /\ stack' = Tail(stack) /\ UNCHANGED flags
GoOut == act' = "out" /\ UNCHANGED <<stack, flags>>

\* NNOT, NAND, NOR, NSEMI and NIF: the first call.
Compound(k) ==
    /\ Kind(k) /\ Room
    /\ Call(<<Node(k)>>, IF k = "semi" THEN Tested ELSE {"tested"})
    /\ UNCHANGED <<exitstatus, skipVars, eflag, exception, io, inputs, trapVars, levelVars, due>>

\* NDEFUN, and an empty command.
Trivial ==
    /\ Kind("trivial")
    /\ exitstatus' \in {0, exitstatus}
    /\ Done(Node("tail"))
    /\ UNCHANGED <<skipVars, eflag, exception, io, inputs, trapVars, levelVars, due>>

\* What a frame has to restore: the descriptors its redirections name.
Before(list) == [d \in UserFds |-> IF d \in Named(list) THEN io.fds[d] ELSE Closed]

\* Mutant: redirections that fail are not undone.
RedirectOnly(list) == Redirect(io, list, TRUE)

\* Redirections that fail, or of a command that is over: they are undone at once.
RedirectAndUndo(list) == PopRedir(Redirect(io, list, TRUE), FALSE)

\* NREDIR: a group with redirections.
Group(list) ==
    /\ Kind("group") /\ list # <<>>
    /\ IF RedirectFails(io, list)
       THEN /\ io' = RedirectAndUndo(list)
            /\ exitstatus' = 2
            /\ Done(Node("group"))
       ELSE /\ Room
            /\ io' = Redirect(io, list, TRUE)
            /\ Call(<<[Node("group") EXCEPT !.before = Before(list)]>>, Tested)
            /\ UNCHANGED exitstatus
    /\ UNCHANGED <<skipVars, eflag, exception, inputs, trapVars, levelVars, due>>

\* evalcase: a pattern matches, or none does.
Case ==
    /\ Kind("case") /\ Room
    /\ exitstatus' = 0
    /\ \/ evalskip = {} /\ Call(<<Node("tail")>>, flags)
       \/ Done(Node("tail"))
    /\ UNCHANGED <<skipVars, eflag, exception, io, inputs, trapVars, levelVars, due>>

\* evalloop and evalfor.
While(until) ==
    /\ Kind("while") /\ Room
    /\ loopnest' = loopnest + 1
    /\ Call(<<[fn |-> "evalloop", at |-> "test", until |-> until, status |-> 0,
               tested |-> "tested" \in flags],
              Node("tail")>>, {"tested"})
    /\ UNCHANGED <<exitstatus, evalskip, skipcount, funcnest, eflag, exception, io,
                   inputs, trapVars, levelVars, due>>

For ==
    /\ Kind("for") /\ Room
    /\ IF evalskip # {} THEN Done(Node("tail")) /\ UNCHANGED <<exitstatus, loopnest>>
       ELSE /\ exitstatus' = 0
            /\ \/ Done(Node("tail")) /\ UNCHANGED loopnest
               \/ /\ loopnest' = loopnest + 1
                  /\ Call(<<[fn |-> "evalfor", tested |-> "tested" \in flags], Node("tail")>>,
                          Tested)
    /\ UNCHANGED <<evalskip, skipcount, funcnest, eflag, exception, io, inputs,
                   trapVars, levelVars, due>>

-----------------------------------------------------------------------------
(* Processes.                                                              *)

\* Mutant: a subshell replaces the shell although its EXIT trap is still to run.
ReplacesAnyway == "exit" \in flags

\* Nothing is left to do after this command but to exit: no fork is needed.
Replaces == "exit" \in flags /\ ~exittrap

Processes == {"subshell", "background", "pipe", "backquote"}

\* The shell forks and, but for a background command, waits.
ForkParent(k) ==
    /\ k # "backquote" /\ Kind(k)
    /\ k = "subshell" => ~Replaces
    /\ exitstatus' \in CASE k = "background" -> {0}
                         [] k = "pipe" -> Statuses \cup {2, exitstatus}
                         [] OTHER -> Statuses \cup {2}
    /\ Done(IF k = "pipe" THEN Command ELSE Node("tail"))
    /\ UNCHANGED <<skipVars, eflag, exception, io, inputs, trapVars, levelVars, due>>

\* Mutant: a subshell does not exit at the end.
ChildReturns(k) == IF k \in {"background", "backquote"} THEN {} ELSE Tested

\* The flags a child evaluates its commands with.
ChildFlags(k) == {"exit"} \cup (IF k \in {"background", "backquote"} THEN {} ELSE Tested)

\* The child: it has no traps and goes on in the middle of the C stack.
ForkChild(k) ==
    /\ Kind(k) /\ Room
    /\ k = "subshell" => ~Replaces
    /\ shlvl < MaxLevel
    /\ shlvl' = shlvl + 1
    /\ base' = Len(stack) + 1
    /\ traps' = FALSE /\ exittrap' = FALSE
    /\ inputs' = 0
    /\ eflag' = IF k = "backquote" THEN FALSE ELSE eflag
    /\ Call(<<Node("never")>>, ChildFlags(k))
    /\ UNCHANGED <<exitstatus, skipVars, exception, io, pending, signals, iflag, due>>

\* A subshell that is the last thing a shell does is evaluated by the shell.
SubshellInPlace(list) ==
    /\ Kind("subshell") /\ Room
    /\ Replaces
    /\ ~RedirectFails(io, list)
    /\ io' = Redirect(io, list, FALSE)
    /\ Call(<<Node("never")>>, flags)
    /\ UNCHANGED <<exitstatus, skipVars, eflag, exception, inputs, trapVars, levelVars, due>>

-----------------------------------------------------------------------------
(* evalcommand.                                                            *)

\* A command that is no special builtin: its redirections fail, or it ends.
Plain(list) ==
    /\ Kind("command")
    /\ io' = RedirectAndUndo(list)
    /\ exitstatus' \in IF RedirectFails(io, list) THEN {2} ELSE Statuses
    /\ Done(Command)
    /\ UNCHANGED <<skipVars, eflag, exception, inputs, trapVars, levelVars, due>>

\* An external command is not forked if nothing is left to do after it.
ExecInPlace ==
    /\ Kind("command")
    /\ Replaces
    /\ exitstatus' \in Statuses
    /\ act' = "ended"
    /\ UNCHANGED <<stack, flags, skipVars, eflag, exception, io, inputs, trapVars, levelVars, due>>

\* An expansion, the redirections of a special builtin, or the builtin itself
\* raise an error: before redirect, or after it and without popredir.
Fails(list) ==
    /\ Kind("error")
    /\ io' \in {io, Redirect(io, list, TRUE)}
    /\ act' = "raise" /\ exception' = "EXERROR"
    /\ UNCHANGED <<stack, flags, exitstatus, skipVars, eflag, inputs, trapVars, levelVars, due>>

\* Mutant: break does not look how many loops there are.
Unlimited(n) == n

\* breakcmd: no more loops are broken than there are.
Limited(n) == IF n > loopnest THEN loopnest ELSE n

Break(kind, n) ==
    /\ Kind("break")
    /\ IF Limited(n) > 0 THEN evalskip' = {kind} /\ skipcount' = Limited(n)
                         ELSE UNCHANGED <<evalskip, skipcount>>
    /\ exitstatus' = 0
    /\ Done(Command)
    /\ UNCHANGED <<loopnest, funcnest, eflag, exception, io, inputs, trapVars, levelVars, due>>

\* returncmd.
ReturnBuiltin ==
    /\ Kind("return")
    /\ evalskip' = {IF funcnest > 0 THEN "func" ELSE "file"}
    /\ exitstatus' \in Statuses
    /\ Done(Command)
    /\ UNCHANGED <<skipcount, loopnest, funcnest, eflag, exception, io, inputs,
                   trapVars, levelVars, due>>

\* exitcmd.
ExitBuiltin ==
    /\ Kind("exit")
    /\ exitstatus' \in Statuses
    /\ act' = "raise" /\ exception' = "EXEXIT"
    /\ UNCHANGED <<stack, flags, skipVars, eflag, io, inputs, trapVars, levelVars, due>>

\* execcmd with redirections only.
ExecBuiltin(list) ==
    /\ Kind("exec") /\ ~RedirectFails(io, list)
    /\ io' = PopRedir(Redirect(io, list, TRUE), TRUE)
    /\ exitstatus' = 0
    /\ Done(Command)
    /\ UNCHANGED <<skipVars, eflag, exception, inputs, trapVars, levelVars, due>>

\* setcmd: set -e and set +e.
SetBuiltin ==
    /\ Kind("set")
    /\ eflag' \in BOOLEAN
    /\ exitstatus' = 0
    /\ Done(Command)
    /\ UNCHANGED <<skipVars, exception, io, inputs, trapVars, levelVars, due>>

\* trapcmd: the trap for the end of the shell.
TrapBuiltin ==
    /\ Kind("trap")
    /\ exittrap' \in BOOLEAN
    /\ exitstatus' = 0
    /\ Done(Command)
    /\ UNCHANGED <<skipVars, eflag, exception, io, inputs, traps, pending, signals,
                   levelVars, due>>

\* evalcmd and dotcmd, run by `command' or not.
RunInput(fn, list, special) ==
    /\ Kind(fn) /\ Room
    /\ special \/ "prefix" \in Kinds
    /\ ~RedirectFails(io, list)
    /\ io' = Redirect(io, list, TRUE)
    /\ inputs' = inputs + 1
    /\ act' = "read"
    /\ stack' = <<[fn |-> fn, special |-> special, before |-> Before(list)], Command>> \o stack
    /\ flags' = {}
    /\ UNCHANGED <<exitstatus, skipVars, eflag, exception, trapVars, levelVars, due>>

\* evalfun is called.
CallFunction(list) ==
    /\ Kind("function") /\ Room
    /\ ~RedirectFails(io, list)
    /\ io' = Redirect(io, list, TRUE)
    /\ funcnest' = funcnest + 1
    /\ Call(<<[fn |-> "evalfun", before |-> Before(list)], Command>>, Tested)
    /\ UNCHANGED <<exitstatus, evalskip, skipcount, loopnest, eflag, exception, inputs,
                   trapVars, levelVars, due>>

-----------------------------------------------------------------------------
(* The end of evaltree, and what its callers do then.                      *)

Fired == Top.check /\ exitstatus # 0

\* set -e: from now on everything is skipped.
OutErrexit ==
    /\ act = "out" /\ Fired
    /\ evalskip' = evalskip \cup {"eval"}
    /\ due' = CASE due = "yes" -> due
                [] due # "yes" /\ Top.strict -> IF StringsUnderE THEN "yes" ELSE "string"
                [] due # "yes" /\ ~Top.strict -> IF due = "no" THEN "tested" ELSE due
    /\ act' = "leave"
    /\ UNCHANGED <<stack, flags, exitstatus, skipcount, loopnest, funcnest, eflag,
                   exception, io, inputs, trapVars, levelVars>>

\* dotrap: the action of the trap is read.
OutTrap ==
    /\ act = "out" /\ ~Fired /\ pending
    /\ pending' = FALSE
    /\ IF traps
       THEN /\ Push([fn |-> "dotrap", status |-> exitstatus])
            /\ inputs' = inputs + 1
            /\ act' = "read"
       ELSE act' = "leave" /\ UNCHANGED <<stack, inputs>>
    /\ UNCHANGED <<flags, exitstatus, skipVars, eflag, exception, io, traps, exittrap,
                   signals, levelVars, due>>

\* evaltree returns, or exits the shell.
Leave ==
    /\ act = "leave" \/ (act = "out" /\ ~Fired /\ ~pending)
    /\ IF Top.exit THEN act' = "raise" /\ exception' = "EXEXIT" /\ UNCHANGED stack
                   ELSE act' = "back" /\ stack' = Tail(stack) /\ UNCHANGED exception
    /\ flags' = {}
    /\ UNCHANGED <<exitstatus, skipVars, eflag, io, inputs, trapVars, levelVars, due>>

Back(nexts) == act = "back" /\ IsTop("evaltree") /\ Top.next \in nexts

BackTail ==
    /\ Back({"tail", "never"})
    /\ GoOut
    /\ UNCHANGED <<exitstatus, skipVars, eflag, exception, io, inputs, trapVars, levelVars, due>>

BackNot ==
    /\ Back({"not"})
    /\ exitstatus' = IF exitstatus = 0 THEN 1 ELSE 0
    /\ GoOut
    /\ UNCHANGED <<skipVars, eflag, exception, io, inputs, trapVars, levelVars, due>>

BackGroup ==
    /\ Back({"group"})
    /\ io' = PopRedir(io, FALSE)
    /\ GoOut
    /\ UNCHANGED <<exitstatus, skipVars, eflag, exception, inputs, trapVars, levelVars, due>>

\* Mutant: the second command is evaluated whatever is to be skipped.
StopsOnStatus == (Top.next = "and" /\ exitstatus # 0) \/ (Top.next = "or" /\ exitstatus = 0)

\* Is the second command of &&, || and ; left out?
Stops ==
    \/ Top.next = "and" /\ exitstatus # 0
    \/ Top.next = "or" /\ exitstatus = 0
    \/ evalskip # {}

BackBinary ==
    /\ Back({"and", "or", "semi"})
    /\ IF Stops THEN GoOut
                ELSE CallOn([Top EXCEPT !.next = "tail"], FlagsOf(Top))
    /\ UNCHANGED <<exitstatus, skipVars, eflag, exception, io, inputs, trapVars, levelVars, due>>

BackIf ==
    /\ Back({"if"})
    /\ IF evalskip # {} THEN GoOut /\ UNCHANGED exitstatus
       ELSE \/ CallOn([Top EXCEPT !.next = "tail"], FlagsOf(Top)) /\ UNCHANGED exitstatus
            \/ exitstatus # 0 /\ exitstatus' = 0 /\ GoOut
    /\ UNCHANGED <<skipVars, eflag, exception, io, inputs, trapVars, levelVars, due>>

\* A loop ends: its caller evaltree goes on.
EndLoop == loopnest' = loopnest - 1 /\ Return

\* The status of a loop: that of its body, executed last.
LoopStatus == IF Top.at = "body" THEN exitstatus ELSE Top.status

BackLoop ==
    /\ act = "back" /\ IsTop("evalloop") /\ evalskip = {}
    /\ IF Top.at = "body"
       THEN CallOn([Top EXCEPT !.at = "test", !.status = exitstatus], {"tested"})
            /\ UNCHANGED <<loopnest, exitstatus>>
       ELSE IF (exitstatus = 0) # Top.until
       THEN CallOn([Top EXCEPT !.at = "body"], FlagsOf([exit |-> FALSE, tested |-> Top.tested]))
            /\ UNCHANGED <<loopnest, exitstatus>>
       ELSE EndLoop /\ exitstatus' = Top.status
    /\ UNCHANGED <<evalskip, skipcount, funcnest, eflag, exception, io, inputs,
                   trapVars, levelVars, due>>

BackFor ==
    /\ act = "back" /\ IsTop("evalfor") /\ evalskip = {}
    /\ \/ CallOn(Top, FlagsOf([exit |-> FALSE, tested |-> Top.tested])) /\ UNCHANGED loopnest
       \/ EndLoop
    /\ UNCHANGED <<exitstatus, evalskip, skipcount, funcnest, eflag, exception, io,
                   inputs, trapVars, levelVars, due>>

\* This loop is the one break or continue is meant for.
Reached == skipcount <= 1

\* What evalloop and evalfor do while commands are skipped.
LoopSkips ==
    /\ act = "back" /\ evalskip # {} /\ (IsTop("evalloop") \/ IsTop("evalfor"))
    /\ LET counted == evalskip \in {{"break"}, {"cont"}}
           while == Top.fn = "evalloop"
       IN  /\ skipcount' = IF counted THEN skipcount - 1 ELSE skipcount
           /\ evalskip' = IF counted /\ Reached THEN {} ELSE evalskip
           /\ \/ /\ evalskip = {"cont"} /\ Reached
                 /\ IF while
                    THEN CallOn([Top EXCEPT !.at = "test", !.status = LoopStatus], {"tested"})
                    ELSE CallOn(Top, FlagsOf([exit |-> FALSE, tested |-> Top.tested]))
                 /\ UNCHANGED <<loopnest, exitstatus>>
              \/ /\ ~(while /\ evalskip = {"cont"} /\ Reached)
                 /\ EndLoop
                 /\ exitstatus' = IF while THEN LoopStatus ELSE exitstatus
    /\ UNCHANGED <<funcnest, eflag, exception, io, inputs, trapVars, levelVars, due>>

\* Mutant: the end of a function ends all skipping.
NoSkip == {}

\* evalfun ends the skipping that `return' has started.
FunctionSkip == evalskip \ {"func"}

BackFunction ==
    /\ act = "back" /\ IsTop("evalfun")
    /\ funcnest' = funcnest - 1
    /\ evalskip' = FunctionSkip
    /\ io' = PopRedir(io, FALSE)
    /\ act' = "out" /\ stack' = Tail(stack) /\ UNCHANGED flags
    /\ UNCHANGED <<exitstatus, skipcount, loopnest, eflag, exception, inputs, trapVars,
                   levelVars, due>>

-----------------------------------------------------------------------------
(* Inputs: the script, eval strings, dot files, traps.                     *)

Reading == stack # <<>> => Top.fn \in Readers

\* The next command is parsed and evaluated.
Read ==
    /\ Reading
    /\ act = "read" \/ (act = "back" /\ evalskip = {})
    /\ act' = "eval" /\ flags' = {}
    /\ UNCHANGED <<stack, exitstatus, skipVars, eflag, exception, io, inputs, trapVars,
                   levelVars, due>>

\* The end of the input, or of the evaluation when commands are skipped; an
\* input that is empty does not look at evalskip.
InputEnds(fn) == act \in {"read", "back"} /\ IsTop(fn)
Skip == IF act = "read" THEN {} ELSE evalskip

EvalstringEnds ==
    /\ InputEnds("evalstring")
    /\ evalskip' = Skip \ {"eval"}
    /\ inputs' = inputs - 1
    /\ io' = PopRedir(io, FALSE)
    /\ act' = "out" /\ stack' = Tail(stack) /\ UNCHANGED flags
    /\ UNCHANGED <<exitstatus, skipcount, loopnest, funcnest, eflag, exception, trapVars,
                   levelVars, due>>

DotEnds ==
    /\ InputEnds("dotcmd")
    /\ evalskip' = IF act = "read" THEN evalskip ELSE {}
    /\ inputs' = inputs - 1
    /\ io' = PopRedir(io, FALSE)
    /\ act' = "out" /\ stack' = Tail(stack) /\ UNCHANGED flags
    /\ UNCHANGED <<exitstatus, skipcount, loopnest, funcnest, eflag, exception, trapVars,
                   levelVars, due>>

\* dotrap takes nothing but the end by set -e from the action.
TrapEnds ==
    /\ InputEnds("dotrap")
    /\ evalskip' = Skip \cap {"eval"}
    /\ exitstatus' = Top.status
    /\ inputs' = inputs - 1
    /\ stack' = Tail(stack)
    /\ IF "eval" \in Skip
       THEN act' = "raise" /\ exception' = "EXEXIT" /\ UNCHANGED due
       ELSE act' = "leave" /\ due' = "no" /\ UNCHANGED exception
    /\ UNCHANGED <<flags, skipcount, loopnest, funcnest, eflag, io, trapVars, levelVars>>

-----------------------------------------------------------------------------
(* The end of the shell.                                                   *)

\* exitshell: the EXIT trap is run once, then the shell ends.
ExitShell(status, opened) ==
    IF exittrap
    THEN /\ exittrap' = FALSE
         /\ act' = "read"
         /\ stack' = <<[fn |-> "exitshell", status |-> status]>>
         /\ inputs' = opened + 1
    ELSE /\ act' = "ended"
         /\ stack' = <<>>
         /\ inputs' = opened
         /\ UNCHANGED exittrap

ScriptEnds ==
    /\ act \in {"read", "back"} /\ stack = <<>>
    /\ evalskip' = {}
    /\ ExitShell(exitstatus, inputs)
    /\ UNCHANGED <<flags, exitstatus, skipcount, loopnest, funcnest, eflag, exception, io,
                   traps, pending, signals, levelVars, due>>

ExitTrapEnds ==
    /\ InputEnds("exitshell")
    /\ exitstatus' = Top.status
    /\ act' = "ended"
    /\ evalskip' = {}
    /\ inputs' = inputs - 1
    /\ UNCHANGED <<stack, flags, skipcount, loopnest, funcnest, eflag, exception, io, trapVars,
                   levelVars, due>>

-----------------------------------------------------------------------------
(* Exceptions: longjmp to the innermost handler.                           *)

\* These routines have none.
Unwind ==
    /\ act = "raise" /\ stack # <<>> /\ Top.fn \in {"evaltree", "evalloop", "evalfor", "dotrap"}
    /\ stack' = Tail(stack)
    /\ UNCHANGED <<act, flags, exitstatus, skipVars, eflag, exception, io, inputs, trapVars,
                   levelVars, due>>

\* evalfun cleans up and passes the exception on.
UnwindFunction ==
    /\ act = "raise" /\ IsTop("evalfun")
    /\ funcnest' = funcnest - 1
    /\ evalskip' = FunctionSkip
    /\ stack' = Tail(stack)
    /\ UNCHANGED <<act, flags, exitstatus, skipcount, loopnest, eflag, exception, io, inputs,
                   trapVars, levelVars, due>>

\* evalcommand passes the exception of a special builtin on and catches an
\* error of another one.
UnwindBuiltin ==
    /\ act = "raise" /\ (IsTop("evalstring") \/ IsTop("dotcmd"))
    /\ exitstatus' = IF exception = "EXERROR" THEN 2 ELSE exitstatus
    /\ stack' = Tail(stack)
    /\ IF exception = "EXEXIT" \/ Top.special THEN UNCHANGED <<act, io>>
       ELSE act' = "out" /\ io' = PopRedir(io, FALSE)
    /\ UNCHANGED <<flags, skipVars, eflag, exception, inputs, trapVars, levelVars, due>>

UnwindExitTrap ==
    /\ act = "raise" /\ IsTop("exitshell")
    /\ act' = "ended"
    /\ exitstatus' = IF exception = "EXEXIT" THEN exitstatus ELSE Top.status
    /\ UNCHANGED <<stack, flags, skipVars, eflag, exception, io, inputs, trapVars, levelVars, due>>

\* Mutant: reset forgets the loops that were being executed.
KeepLoops == loopnest

\* What reset sets loopnest to.
NoLoops == 0

\* ash_main: the shell is reset; it exits unless it is interactive.
UnwindMain ==
    /\ act = "raise" /\ stack = <<>>
    /\ evalskip' = {} /\ loopnest' = NoLoops
    /\ io' = ClearRedir(io)
    /\ base' = 0
    /\ exitstatus' = IF exception = "EXERROR" THEN 2 ELSE exitstatus
    /\ IF exception = "EXEXIT" \/ ~iflag \/ shlvl > 0
       THEN ExitShell(exitstatus', 0) /\ UNCHANGED due
       ELSE /\ act' = "read" /\ inputs' = 0 /\ due' = "no"
            /\ UNCHANGED <<stack, exittrap>>
    /\ UNCHANGED <<flags, skipcount, funcnest, eflag, exception, traps, pending, signals,
                   iflag, shlvl>>

\* onsig, for a signal with a trap.
Signal ==
    /\ act # "ended"
    /\ traps /\ ~pending /\ signals < MaxSignals
    /\ pending' = TRUE /\ signals' = signals + 1
    /\ UNCHANGED <<evalVars, skipVars, eflag, exception, io, inputs, traps, exittrap,
                   levelVars, due>>

-----------------------------------------------------------------------------
Init ==
    /\ stack = <<>> /\ act = "read" /\ flags = {} /\ exitstatus = 0
    /\ evalskip = {} /\ skipcount = 0 /\ loopnest = 0 /\ funcnest = 0
    /\ eflag = FALSE /\ exception = "EXEXIT"
    /\ io = NewIo /\ inputs = 0
    /\ traps = (MaxSignals > 0) /\ exittrap = FALSE /\ pending = FALSE /\ signals = 0
    /\ iflag \in Interactive /\ shlvl = 0 /\ base = 0
    /\ due = "no"

Evaluate ==
    \/ \E k \in {"not", "and", "or", "semi", "if"} : Compound(k)
    \/ Trivial \/ Case \/ For \/ \E until \in BOOLEAN : While(until)
    \/ \E k \in Processes : ForkParent(k) \/ ForkChild(k)
    \/ \E list \in Redirs : Group(list) \/ SubshellInPlace(list)

EvaluateCommand ==
    \/ \E list \in Redirs : Plain(list) \/ Fails(list) \/ ExecBuiltin(list) \/ CallFunction(list)
    \/ \E list \in Redirs, fn \in {"evalstring", "dotcmd"}, special \in BOOLEAN :
          RunInput(fn, list, special)
    \/ \E kind \in {"break", "cont"}, n \in 1..MaxCount : Break(kind, n)
    \/ ExecInPlace \/ ReturnBuiltin \/ ExitBuiltin \/ SetBuiltin \/ TrapBuiltin

Continue ==
    \/ OutErrexit \/ OutTrap \/ Leave
    \/ BackTail \/ BackNot \/ BackGroup \/ BackBinary \/ BackIf
    \/ BackLoop \/ BackFor \/ LoopSkips \/ BackFunction

ReadOrEnd == Read \/ EvalstringEnds \/ DotEnds \/ TrapEnds \/ ScriptEnds \/ ExitTrapEnds

Raised == Unwind \/ UnwindFunction \/ UnwindBuiltin \/ UnwindExitTrap \/ UnwindMain

Ended == act = "ended" /\ UNCHANGED vars

Next == Evaluate \/ EvaluateCommand \/ Continue \/ ReadOrEnd \/ Raised \/ Signal \/ Ended

Spec == Init /\ [][Next]_vars

-----------------------------------------------------------------------------
(* Properties.                                                             *)

Count(fns) == Cardinality({i \in DOMAIN stack : stack[i].fn \in fns})
Within(fn) == Count({fn}) > 0
Loops == {"evalloop", "evalfor"}

\* Frames of the C stack that this process has pushed itself.
Own(i) == Len(stack) - i >= base - 1

\* The counters break, return and the input stack work with agree with the C
\* stack whenever a command is evaluated, however loops, functions, strings and
\* files were left: by break or return, by an error or by set -e.  The child of
\* a fork has closed the inputs it has inherited (closescript).
CountersMatchStack ==
    act \notin {"raise", "ended"} =>
        /\ loopnest = Count(Loops)
        /\ funcnest = Count({"evalfun"})
        /\ inputs = Cardinality({i \in DOMAIN stack : Own(i) /\ stack[i].fn \in Readers})

\* A break or continue that is on its way has as many loops to end as skipcount
\* says, and a return has its function: skipping cannot run on to the end of
\* the script.  (Unless set -e has fired: evalloop does not count then.)
SkipHasTarget ==
    act \notin {"raise", "ended"} /\ due = "no" =>
        /\ evalskip \cap {"break", "cont"} # {} => skipcount \in 1..Count(Loops)
        /\ "func" \in evalskip => Within("evalfun")

\* While commands are skipped none is evaluated, except the action of a trap.
NothingWhileSkipping == act = "eval" /\ evalskip # {} => Within("dotrap")

\* After a command has failed under set -e in a place where the status is not
\* tested, nothing but traps is evaluated any more.
ErrexitStops ==
    act = "eval" /\ due = "yes" => Within("dotrap") \/ Within("exitshell")

\* The EXIT trap is run, whichever way a shell ends: end of the script, exit,
\* set -e, an error, the last command being executed without a fork.
ExitTrapServed == act = "ended" /\ exittrap => Within("exitshell")

\* A child evaluates its own part of the script only: it never goes on with what
\* follows the subshell, pipeline or command substitution it was forked for.
\* ash.c:7942, evaltreenr in the child: "never returns".
SubshellStays ==
    act \notin {"raise", "ended"} => Len(stack) >= base

\* When a group, a function, an eval string or a dot file with redirections is
\* left, every open descriptor they named is what it was before, whatever
\* commands inside it redirected, changed with exec or failed to redirect.
RedirectionsUndone ==
    [][BackGroup \/ BackFunction \/ EvalstringEnds \/ DotEnds =>
          \A d \in UserFds : Top.before[d] # Closed => io'.fds[d] = Top.before[d]]_vars

\* ash.c:8799, breakcmd: "Break, continue, and return are all handled by setting
\* the evalskip flag.  The evaluation routines above all check this flag, and if
\* it is set they start skipping commands rather than executing them."  A break
\* or continue ends at a loop only.
BreakReachesLoop ==
    [][evalskip' = {} /\ evalskip \in {{"break"}, {"cont"}} =>
          act = "raise" \/ IsTop("evalloop") \/ IsTop("evalfor")]_vars
=============================================================================
