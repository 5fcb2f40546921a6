----------------------------- MODULE ShellJobs -----------------------------
(***************************************************************************)
(* The jobs of the shell that runs the work unit's script                  *)
(* (box/shell/ash.c, "jobs.c"): the job table and the list of current      *)
(* jobs, forking of commands, pipelines, background commands, command      *)
(* substitutions and here-document writers, waiting in the foreground and  *)
(* in the `wait' builtin, and the signals that interrupt it.               *)
(*                                                                         *)
(* The model follows one shell process.  At a fork it may go on as the     *)
(* child, so every subshell is covered too.  The build is the POSIX one    *)
(* with JOBS = 0 (no job control), as box/include/autoconf.h sets it.      *)
(* External: the kernel's children of the shell and the pids it gives out. *)
(***************************************************************************)
EXTENDS Integers, Sequences, FiniteSets, SequencesExt

CONSTANTS
    Pids,            \* process ids the kernel may give to children
    WaitStatuses,    \* what a child may end with, as wait(2) encodes it
    MaxPipe,         \* bound: commands in a pipeline
    MaxJobs,         \* bound: jobs in the table
    MaxSlots,        \* bound: size of the table
    MaxLevel,        \* bound: how many forks deep the followed shell may be
    MaxDrift,        \* bound: how far jobless may be from the number it means
    TrappedSignals,  \* signals the script has a trap for
    CanInterrupt,    \* may the terminal or a user send SIGINT?
    Interactive,     \* values of iflag
    Failures,        \* the system calls that may fail: "fork", "pipe"
    CommandCatches,  \* may a `command eval' around the commands catch errors?
    Alive,           \* state of a child that has not ended
    None             \* no process, no pid, no signal

SigInt == 2
EmptySlot == [state |-> "free", waited |-> FALSE, procs |-> <<>>]
Unreaped == -1       \* procstat.status of a process not yet waited for
NoOwner == [job |-> 0, last |-> FALSE]

ASSUME JobsAssumption ==
    /\ IsFiniteSet(Pids)
    /\ WaitStatuses \subseteq Nat
    /\ MaxPipe \in Nat \ {0} /\ MaxJobs \in Nat /\ MaxSlots \in Nat /\ MaxLevel \in Nat
    /\ MaxDrift \in Nat
    /\ TrappedSignals \subseteq 1..64
    /\ CanInterrupt \in BOOLEAN
    /\ Interactive \subseteq BOOLEAN
    /\ Failures \subseteq {"fork", "pipe"}
    /\ CommandCatches \in BOOLEAN

ASSUME NotAPid == None \notin Pids \cup Int /\ Alive \notin Int /\ Alive # None

VARIABLES
    \* The shell.
    pc,          \* "idle", "fork", "reap", "fg", "waitone", "waitall", "after", "ended"
    iflag,       \* is the shell interactive?
    shlvl,       \* 0 in the root shell
    jobtab,      \* the table: a sequence of slots
    order,       \* curjob and the prev_job chain: slots, newest first
    jobless,     \* number of presumed living untracked jobs
    cur,         \* slot of the job being launched or waited for, or 0
    left,        \* commands of the pipeline still to be forked
    mode,        \* what the job is launched for: "fg", "bg", "subst", or "none"
    exitstatus,  \* $?
    trapped,     \* signals with a trap action
    intIgnored,  \* SIGINT is ignored (S_HARD_IGN)
    gotsig,      \* signals received and not yet served
    pendingsig,  \* the last of them, or None
    intpending,  \* an interrupt held back by INT_OFF
    ended,       \* why the shell has ended: "exit", an exception or "SIGINT"
    \* The kernel.
    child,       \* state of each child: None, Alive, or its wait status
    \* History.
    owner,       \* the job a child was forked for, and is it its last one?
    truth        \* wait status the last process of each slot's job ended with

tableVars == <<jobtab, order, jobless>>
launchVars == <<cur, left, mode>>
trapVars == <<trapped, intIgnored>>
signalVars == <<trapVars, gotsig, pendingsig, intpending>>
kernelVars == <<child, owner, truth>>
levelVars == <<iflag, shlvl>>
vars == <<pc, levelVars, tableVars, launchVars, exitstatus, signalVars,
          ended, kernelVars>>

Slots == 1..Len(jobtab)
Used(s) == jobtab[s].state # "free"
JobRunning(s) == jobtab[s].state = "running"
JobDone(s) == jobtab[s].state = "done"
IsZombie(p) == child[p] \notin {None, Alive}
Zombies == {p \in Pids : IsZombie(p)}

-----------------------------------------------------------------------------
(* The job table.                                                          *)

\* set_curjob(jp, CUR_DELETE).
Without(s) == RemoveFirst(order, s)

\* freejob.
FreeJob(s) ==
    /\ jobtab' = [jobtab EXCEPT ![s] = EmptySlot]
    /\ order' = Without(s)

\* Mutant: makejob takes the slot of any job that is done.
ReusableOnceDone == {s \in Slots : ~Used(s) \/ JobDone(s)}

\* The slots makejob may take: unused, or of a job that is done and waited for.
Reusable == {s \in Slots : ~Used(s) \/ (JobDone(s) /\ jobtab[s].waited)}

\* makejob takes the first of them; growjobtab adds four slots if there is none.
NewSlot == IF Reusable = {} THEN Len(jobtab) + 1
           ELSE CHOOSE s \in Reusable : \A t \in Reusable : s <= t

Grown == IF Reusable = {}
         THEN jobtab \o <<EmptySlot, EmptySlot, EmptySlot, EmptySlot>>
         ELSE jobtab

\* No job is being launched or waited for.
NoJob == cur' = 0 /\ left' = 0 /\ mode' = "none"

MakeJob ==
    /\ Len(Grown) <= MaxSlots
    /\ jobtab' = [Grown EXCEPT ![NewSlot] = [EmptySlot EXCEPT !.state = "running"]]
    /\ order' = <<NewSlot>> \o Without(NewSlot)
    /\ cur' = NewSlot

\* getstatus: the exit code, or 128 and the signal.
Decode(status) == IF status % 256 = 0 THEN status \div 256 ELSE 128 + (status % 128)

\* Mutant: the status of the first command of a pipeline.
FirstStatus(s) == {Decode(jobtab[s].procs[1].status)}

\* getstatus of a job; without a process it reads whatever precedes ps[0].
JobStatus(s) ==
    LET procs == jobtab[s].procs
    IN  IF procs = <<>> THEN {Decode(w) : w \in WaitStatuses}
        ELSE {Decode(Last(procs).status)}

-----------------------------------------------------------------------------
(* Exceptions and interrupts.                                              *)

\* longjmp to ash_main's handler: a shell that is not interactive, or not the
\* root shell, exits; the other one reads its next command.
ToMain(exception) ==
    IF iflag /\ shlvl = 0
    THEN pc' = "idle" /\ UNCHANGED ended
    ELSE pc' = "ended" /\ ended' = exception

\* INT_ON with an interrupt held back raises it (raise_interrupt).
IntOn(next) ==
    /\ intpending' = FALSE
    /\ IF intpending THEN ToMain("SIGINT") ELSE pc' = next /\ UNCHANGED ended

\* An exception on the way of a command is caught by ash_main, or by a regular
\* builtin (`command eval ...') that runs the command: evalbltin returns.
Raise(exception, status, held) ==
    /\ intpending' = FALSE
    /\ \/ /\ ToMain(exception)
          /\ exitstatus' = IF exception = "EXERROR" THEN 2 ELSE exitstatus
       \/ /\ CommandCatches
          /\ exitstatus' = status
          /\ IF held THEN ToMain("SIGINT") ELSE pc' = "after" /\ UNCHANGED ended

Error == Raise("EXERROR", 2, intpending)

-----------------------------------------------------------------------------
(* Starting jobs.                                                          *)

\* The kernel may give any pid that is no child's to a new child.
FreePid(p) == child[p] = None
FreePids == {p \in Pids : FreePid(p)}

Lists(s, p) == \E i \in DOMAIN jobtab[s].procs : jobtab[s].procs[i].pid = p

\* evalcommand, evalsubshell, evalpipe and evalbackcmd make a job for the n
\* commands they are about to fork.
StartJob(n, why) ==
    /\ pc = "idle"
    /\ Cardinality(FreePids) >= n
    /\ Len(order) < MaxJobs
    /\ MakeJob
    /\ left' = n
    /\ mode' = why
    /\ pc' = "fork"
    /\ truth' = [truth EXCEPT ![NewSlot] = None]
    /\ UNCHANGED <<levelVars, jobless, exitstatus, signalVars,
                   ended, child, owner>>

\* After the last fork: wait, or go on with the script.  evalsubshell sets
\* exitstatus to 0 for a background command, evalpipe leaves it alone.
Launched ==
    IF mode = "bg"
    THEN /\ IntOn("after")
         /\ NoJob
         /\ exitstatus' = IF Len(jobtab[cur].procs) = 0 THEN 0 ELSE exitstatus
    ELSE /\ pc' = "fg" /\ left' = 0
         /\ UNCHANGED <<cur, mode, exitstatus, intpending, ended>>

\* Mutant: set_curjob inserts a job without first removing it.
ForkParentTwice(p) ==
    /\ jobtab' = [jobtab EXCEPT ![cur].procs =
                      Append(@, [pid |-> p, status |-> Unreaped])]
    /\ order' = IF mode = "bg" THEN <<cur>> \o order ELSE order

\* forkparent.
ForkParent(p) ==
    /\ jobtab' = [jobtab EXCEPT ![cur].procs =
                      Append(@, [pid |-> p, status |-> Unreaped])]
    /\ order' = IF mode = "bg" THEN <<cur>> \o Without(cur) ELSE order

\* forkshell with a job, in the parent.
Fork(p) ==
    /\ pc = "fork" /\ FreePid(p)
    /\ ForkParent(p)
    /\ child' = [child EXCEPT ![p] = Alive]
    /\ owner' = [owner EXCEPT ![p] = [job |-> cur, last |-> left = 1]]
    /\ IF left = 1
       THEN Launched
       ELSE /\ left' = left - 1
            /\ UNCHANGED <<pc, cur, mode, exitstatus, intpending, ended>>
    /\ UNCHANGED <<levelVars, jobless, trapVars, gotsig, pendingsig, truth>>

ForgetJobs ==
    /\ jobtab' = [s \in Slots |-> EmptySlot]
    /\ order' = <<>>

\* forkshell with a job, in the child (forkchild): it has no children, knows no
\* jobs and has no traps; signals its parent received stay marked.
BecomeChild ==
    /\ pc = "fork"
    /\ shlvl < MaxLevel
    /\ shlvl' = shlvl + 1
    /\ trapped' = {}
    /\ intIgnored' = (intIgnored \/ mode = "bg")
    /\ ForgetJobs
    /\ jobless' = 0
    /\ NoJob
    /\ child' = [p \in Pids |-> None]
    /\ owner' = [p \in Pids |-> NoOwner]
    /\ truth' = [s \in 1..MaxSlots |-> None]
    /\ IntOn("idle")
    /\ UNCHANGED <<iflag, exitstatus, gotsig, pendingsig>>

Untracked == Cardinality({p \in Pids : child[p] # None /\ owner[p].job = 0})

\* fork() fails: forkshell frees the job, whatever was already forked for it.
ForkFails ==
    /\ "fork" \in Failures
    /\ pc = "fork"
    /\ Len(jobtab[cur].procs) + Untracked - jobless <= MaxDrift
    /\ FreeJob(cur)
    /\ owner' = [p \in Pids |-> IF owner[p].job = cur THEN NoOwner ELSE owner[p]]
    /\ NoJob
    /\ Error
    /\ UNCHANGED <<levelVars, jobless, trapVars, gotsig,
                   pendingsig, child, truth>>

\* pipe() fails in evalpipe: the job stays in the table as it is.
PipeFails ==
    /\ "pipe" \in Failures
    /\ pc = "fork" /\ left > 1
    /\ NoJob
    /\ Error
    /\ UNCHANGED <<levelVars, tableVars, trapVars, gotsig,
                   pendingsig, kernelVars>>

\* openhere: the writer of a here-document is forked without a job.  Assumed:
\* it does not get the pid of an ended process that a running job still lists.
ForkWriter(p) ==
    /\ pc = "idle" /\ FreePid(p)
    /\ jobless - Untracked <= MaxDrift
    /\ \A s \in Slots : JobRunning(s) => ~Lists(s, p)
    /\ child' = [child EXCEPT ![p] = Alive]
    /\ owner' = [owner EXCEPT ![p] = NoOwner]
    /\ pc' = "reap"
    /\ UNCHANGED <<levelVars, tableVars, launchVars, exitstatus, signalVars,
                   ended, truth>>

-----------------------------------------------------------------------------
(* Waiting.                                                                *)

Waiting == pc \in {"fg", "waitone", "waitall"}

\* The condition under which the loops of waitforjob and waitcmd call dowait.
StillWaiting ==
    /\ Waiting
    /\ IF pc = "waitall" THEN \E s \in Slots : JobRunning(s) ELSE JobRunning(cur)

\* Mutant: dowait starts with the second job.
AllButNewest == IF order = <<>> THEN <<>> ELSE Tail(order)

\* The order in which dowait looks through the jobs.
SearchList == order

\* The running job in which dowait finds pid p: the first in the list.  A job
\* without processes is compared by an uninitialised pid, so it may match.
Finders(p) ==
    LET sure == SelectInSeq(SearchList, LAMBDA s : JobRunning(s) /\ Lists(s, p))
        before == IF sure = 0 THEN Len(SearchList) ELSE sure - 1
        maybe == {s \in {SearchList[i] : i \in 1..before} :
                     JobRunning(s) /\ jobtab[s].procs = <<>>}
    IN  maybe \cup {IF sure = 0 THEN 0 ELSE SearchList[sure]}

\* Mutant: dowait calls a job done as soon as one of its processes is.
DoneWhenOneIs(procs) == "done"

StateOf(procs) ==
    IF \E i \in DOMAIN procs : procs[i].status = Unreaped THEN "running" ELSE "done"

\* waitcmd without operands marks the jobs before the first running one.
MarkWaited(tab) ==
    LET running == SelectInSeq(order, LAMBDA s : tab[s].state = "running")
        passed == IF running = 0 THEN Len(order) ELSE running - 1
    IN  [s \in DOMAIN tab |->
            IF \E i \in 1..passed : order[i] = s
            THEN [tab[s] EXCEPT !.waited = TRUE] ELSE tab[s]]

\* dowait with a zombie to reap: the process is looked up among the running
\* jobs; one that no job lists is counted off the untracked ones.
Reap(p) ==
    /\ IsZombie(p)
    /\ child' = [child EXCEPT ![p] = None]
    /\ owner' = [owner EXCEPT ![p] = NoOwner]
    /\ \E s \in Finders(p) :
          IF s = 0
          THEN jobless' = jobless - 1 /\ UNCHANGED jobtab
          ELSE LET procs == [i \in DOMAIN jobtab[s].procs |->
                                IF jobtab[s].procs[i].pid = p
                                THEN [pid |-> p, status |-> child[p]]
                                ELSE jobtab[s].procs[i]]
                   tab == [jobtab EXCEPT ![s].procs = procs, ![s].state = StateOf(procs)]
               IN  /\ jobtab' = IF pc = "waitall" THEN MarkWaited(tab) ELSE tab
                   /\ UNCHANGED jobless

WaitStep(p) ==
    /\ StillWaiting
    /\ Reap(p)
    /\ UNCHANGED <<pc, levelVars, order, launchVars, exitstatus, signalVars,
                   ended, truth>>

\* waitforjob has its job done.  A command substitution keeps the status for
\* itself (back_exitstatus) and its command goes on being expanded.
ForegroundDone ==
    /\ pc = "fg" /\ ~StillWaiting
    /\ IF mode = "subst" THEN UNCHANGED exitstatus
                         ELSE exitstatus' \in JobStatus(cur)
    /\ FreeJob(cur)
    /\ truth' = [truth EXCEPT ![cur] = None]
    /\ NoJob
    /\ IntOn(IF mode = "subst" THEN "idle" ELSE "after")
    /\ UNCHANGED <<levelVars, jobless, trapVars, gotsig, pendingsig, child, owner>>

\* forkparent without a job reaps while it thinks there is something to reap,
\* and then counts the new child.
ReapMore(p) ==
    /\ pc = "reap" /\ jobless # 0
    /\ Reap(p)
    /\ UNCHANGED <<pc, levelVars, order, launchVars, exitstatus, signalVars,
                   ended, truth>>

CountWriter == jobless' = jobless + 1

ReapEnough ==
    /\ pc = "reap"
    /\ jobless = 0 \/ Zombies = {}
    /\ CountWriter
    /\ IntOn("idle")
    /\ UNCHANGED <<levelVars, jobtab, order, launchVars, exitstatus, trapVars, gotsig, pendingsig, kernelVars>>

\* The `wait' builtin returns at once if a trapped signal is pending.
WaitRefused ==
    /\ pc = "idle" /\ pendingsig # None
    /\ exitstatus' = 128 + pendingsig
    /\ pc' = "after"
    /\ UNCHANGED <<levelVars, tableVars, launchVars, signalVars, ended, kernelVars>>

WaitAll ==
    /\ pc = "idle" /\ pendingsig = None
    /\ jobtab' = MarkWaited(jobtab)
    /\ pc' = "waitall"
    /\ UNCHANGED <<levelVars, order, jobless, launchVars, exitstatus,
                   signalVars, ended, kernelVars>>

\* The numbers getjob accepts.
Numbered(n) == n < Len(jobtab)

\* getjob: the job `%n' names, if any.
NamedByNumber(n) == IF Numbered(n) THEN IF Used(n) THEN {n} ELSE {} ELSE {}

\* getjob: `%%' is the first of the list, `%-' the second.
NamedBySign == {order[i] : i \in 1..(IF Len(order) < 2 THEN Len(order) ELSE 2)}

\* waitcmd: the newest job whose last process has the pid.  For a job without
\* processes it compares what precedes ps[0].
NamedByPid(p) ==
    LET last(s) == jobtab[s].procs # <<>> /\ Last(jobtab[s].procs).pid = p
        sure == SelectInSeq(order, last)
        before == IF sure = 0 THEN Len(order) ELSE sure - 1
    IN  {s \in {order[i] : i \in 1..before} : jobtab[s].procs = <<>>}
        \cup (IF sure = 0 THEN {} ELSE {order[sure]})

WaitFor(s) ==
    /\ pc = "idle" /\ pendingsig = None
    /\ cur' = s
    /\ pc' = "waitone"
    /\ UNCHANGED <<levelVars, tableVars, left, mode, exitstatus,
                   signalVars, ended, kernelVars>>

\* An unknown pid gives 127; an unknown job name is an error of the builtin.
WaitUnknown ==
    /\ pc = "idle" /\ pendingsig = None
    /\ exitstatus' \in {127, 2}
    /\ pc' = "after"
    /\ UNCHANGED <<levelVars, tableVars, launchVars, signalVars, ended, kernelVars>>

WaitOneDone ==
    /\ pc = "waitone" /\ ~StillWaiting
    /\ exitstatus' \in JobStatus(cur)
    /\ jobtab' = [jobtab EXCEPT ![cur].waited = TRUE]
    /\ NoJob
    /\ pc' = "after"
    /\ UNCHANGED <<levelVars, order, jobless, signalVars, ended, kernelVars>>

WaitAllDone ==
    /\ pc = "waitall" /\ ~StillWaiting
    /\ exitstatus' = 0
    /\ pc' = "after"
    /\ UNCHANGED <<levelVars, tableVars, launchVars, signalVars, ended, kernelVars>>

-----------------------------------------------------------------------------
(* Signals.                                                                *)

\* INT_OFF is in force while a job is launched or waited for in the foreground.
Suppressed == pc \in {"fork", "fg", "reap"}

\* Signals the shell catches: those with a trap, and SIGINT.
Caught(sig) == sig \in trapped \/ (CanInterrupt /\ sig = SigInt /\ ~intIgnored)

\* onsig, while the shell is not blocked in waitpid: the signal is remembered.
\* SIGINT without a trap is an interrupt, at once or when INT_ON comes.
SignalArrives(sig) ==
    /\ pc # "ended" /\ Caught(sig)
    /\ gotsig' = gotsig \cup {sig}
    /\ IF sig \in trapped
       THEN /\ pendingsig' = sig
            /\ UNCHANGED <<pc, launchVars, ended, exitstatus, intpending>>
       ELSE IF Suppressed
       THEN /\ pendingsig' = sig
            /\ intpending' = TRUE
            /\ UNCHANGED <<pc, launchVars, ended, exitstatus>>
       ELSE /\ pendingsig' = None
            /\ ToMain("SIGINT")
            /\ NoJob
            /\ exitstatus' = IF Waiting THEN 128 + SigInt ELSE exitstatus
            /\ UNCHANGED intpending
    /\ UNCHANGED <<levelVars, tableVars, trapVars, kernelVars>>

\* dowait: waitpid gave no process and a signal is pending.
RaiseExsig(sig, held) ==
    IF pc = "fg"
    THEN Raise("EXSIG", 128 + sig, held)
    ELSE pc' = "after" /\ exitstatus' = 128 + sig /\ UNCHANGED <<intpending, ended>>

\* The signal comes while waitpid blocks (EINTR).
SignalWakes(sig) ==
    /\ StillWaiting
    /\ Zombies = {} /\ \E p \in Pids : child[p] # None
    /\ Caught(sig) /\ (sig \in trapped \/ Suppressed)
    /\ gotsig' = gotsig \cup {sig}
    /\ pendingsig' = sig
    /\ RaiseExsig(sig, intpending \/ sig \notin trapped)
    /\ NoJob
    /\ UNCHANGED <<levelVars, tableVars, trapVars, kernelVars>>

\* There is no child to wait for (ECHILD) and a signal is pending.
NoChildLeft ==
    /\ StillWaiting
    /\ \A p \in Pids : child[p] = None
    /\ pendingsig # None
    /\ RaiseExsig(pendingsig, intpending)
    /\ NoJob
    /\ UNCHANGED <<levelVars, tableVars, trapVars, gotsig, pendingsig, kernelVars>>

\* Without a signal the loop calls waitpid again and again.
Spin ==
    /\ StillWaiting
    /\ \A p \in Pids : child[p] = None
    /\ pendingsig = None
    /\ UNCHANGED vars

\* Mutant: dotrap runs the traps and leaves the signals marked.
ServeAgain == UNCHANGED gotsig

Serve == gotsig' = IF pendingsig # None THEN {} ELSE gotsig

\* The end of evaltree: dotrap runs the traps of the signals received.
EndCommand ==
    /\ pc = "after"
    /\ Serve
    /\ pendingsig' = None
    /\ pc' = "idle"
    /\ UNCHANGED <<levelVars, tableVars, launchVars, exitstatus, trapVars,
                   intpending, ended, kernelVars>>

\* The end of the script, or `exit'.
Exit ==
    /\ pc = "idle"
    /\ pc' = "ended" /\ ended' = "exit"
    /\ UNCHANGED <<levelVars, tableVars, launchVars, exitstatus, signalVars,
                   kernelVars>>

-----------------------------------------------------------------------------
\* A child ends.
ChildEnds(p, status) ==
    /\ child[p] = Alive
    /\ child' = [child EXCEPT ![p] = status]
    /\ truth' = IF owner[p].last THEN [truth EXCEPT ![owner[p].job] = status] ELSE truth
    /\ UNCHANGED <<pc, levelVars, tableVars, launchVars, exitstatus,
                   signalVars, ended, owner>>

Init ==
    /\ pc = "idle"
    /\ iflag \in Interactive
    /\ shlvl = 0
    /\ jobtab = <<>>
    /\ order = <<>>
    /\ jobless = 0
    /\ cur = 0
    /\ left = 0
    /\ mode = "none"
    /\ exitstatus = 0
    /\ trapped = TrappedSignals
    /\ intIgnored = FALSE
    /\ gotsig = {}
    /\ pendingsig = None
    /\ intpending = FALSE
    /\ ended = "no"
    /\ child = [p \in Pids |-> None]
    /\ owner = [p \in Pids |-> NoOwner]
    /\ truth = [s \in 1..MaxSlots |-> None]

Command ==
    \/ \E n \in 1..MaxPipe : \E why \in {"fg", "bg"} : StartJob(n, why)
    \/ StartJob(1, "subst")
    \/ \E p \in Pids : ForkWriter(p)
    \/ WaitRefused \/ WaitAll \/ WaitUnknown
    \/ \E s \in Slots : s \in NamedByNumber(s) \cup NamedBySign /\ WaitFor(s)
    \/ \E p \in Pids : \E s \in NamedByPid(p) : WaitFor(s)
    \/ Exit

\* What the shell does by itself once a command has started.
Proceed ==
    \/ \E p \in Pids : Fork(p) \/ WaitStep(p) \/ ReapMore(p)
    \/ ForegroundDone \/ WaitOneDone \/ WaitAllDone \/ ReapEnough
    \/ NoChildLeft \/ EndCommand

Mishap == ForkFails \/ PipeFails \/ BecomeChild \/ Spin

SignalNext == \E sig \in TrappedSignals \cup {SigInt} : SignalArrives(sig) \/ SignalWakes(sig)

ChildNext == \E p \in Pids, status \in WaitStatuses : ChildEnds(p, status)

Ended == pc = "ended" /\ UNCHANGED vars

Next == Command \/ Proceed \/ Mishap \/ SignalNext \/ ChildNext \/ Ended

Spec == Init /\ [][Next]_vars

\* The shell is one thread and goes on whenever it can; every child ends.
Fairness ==
    /\ WF_vars(Proceed)
    /\ \A p \in Pids : WF_vars(\E status \in WaitStatuses : ChildEnds(p, status))

FairSpec == Spec /\ Fairness

-----------------------------------------------------------------------------
(* Properties.                                                             *)

Procs == [pid : Pids, status : WaitStatuses \cup {Unreaped}]

TypeOK ==
    /\ pc \in {"idle", "fork", "reap", "fg", "waitone", "waitall", "after", "ended"}
    /\ iflag \in BOOLEAN
    /\ shlvl \in 0..MaxLevel
    /\ Len(jobtab) <= MaxSlots
    /\ \A s \in Slots : /\ jobtab[s].state \in {"free", "running", "done"}
                        /\ jobtab[s].waited \in BOOLEAN
                        /\ jobtab[s].procs \in Seq(Procs)
    /\ order \in Seq(Slots)
    /\ jobless \in Int
    /\ cur \in Slots \cup {0}
    /\ left \in 0..MaxPipe
    /\ mode \in {"none", "fg", "bg", "subst"}
    /\ exitstatus \in Nat
    /\ trapped \subseteq TrappedSignals
    /\ intIgnored \in BOOLEAN
    /\ gotsig \subseteq TrappedSignals \cup {SigInt}
    /\ pendingsig \in TrappedSignals \cup {SigInt, None}
    /\ intpending \in BOOLEAN
    /\ ended \in {"no", "exit", "EXERROR", "EXSIG", "SIGINT"}
    /\ child \in [Pids -> WaitStatuses \cup {None, Alive}]
    /\ owner \in [Pids -> [job : 0..MaxSlots, last : BOOLEAN]]
    /\ truth \in [1..MaxSlots -> WaitStatuses \cup {None}]

Awaited(s, i) == jobtab[s].procs[i].status = Unreaped

\* Each process the table expects is a child of the shell and belongs to that
\* job; each child forked for a job is expected by it.
ChildrenAreAwaited ==
    /\ \A s \in Slots : \A i \in DOMAIN jobtab[s].procs :
          Awaited(s, i) => LET p == jobtab[s].procs[i].pid
                           IN  child[p] # None /\ owner[p].job = s
    /\ \A p \in Pids : child[p] # None /\ owner[p].job # 0 =>
          \E i \in DOMAIN jobtab[owner[p].job].procs :
             jobtab[owner[p].job].procs[i].pid = p /\ Awaited(owner[p].job, i)

\* The table and the kernel agree, whatever was forked, reaped, freed or never
\* forked in between: each process the table still expects is a child of the
\* shell that is alive or a zombie, and belongs to that job; each child forked
\* for a job is expected by it.  This is what makes dowait give every wait
\* status to the right job, and no wait of the shell wait for a ghost.  The list
\* that starts at curjob holds every used slot once and nothing else: set_curjob
\* would run off its end for a job that is missing.  And jobless (ash.c:3406) is
\* the number of children that no job lists, the one that is about to be counted
\* excepted.
TableMatchesKernel ==
    /\ ChildrenAreAwaited
    /\ ToSet(order) = {s \in Slots : Used(s)}
    /\ IsInjective(order)
    /\ jobless + (IF pc = "reap" THEN 1 ELSE 0) = Untracked

\* $? after a foreground command and after `wait' for one job is the status its
\* last process really ended with, though dowait reaps the children of all jobs
\* in any order, pids are used again and slots change hands.
RightStatus ==
    [][(pc \in {"fg", "waitone"} /\ pc' = "after" /\ JobDone(cur))
          => exitstatus' = Decode(truth[cur])]_vars

PidsOf(job) == [i \in DOMAIN job.procs |-> job.procs[i].pid]

\* A job nobody has waited for keeps its slot and its processes until the shell
\* ends, however many commands come and go: `wait $!' still finds it.  And a
\* wait status once recorded for a process of a running job is final, though
\* the pid may be used again and turn up in dowait a second time.
UnwaitedJobsKept ==
    [][\A s \in Slots :
       /\ (Used(s) /\ ~jobtab[s].waited /\ s # cur /\ shlvl' = shlvl)
             => jobtab'[s].state # "free" /\ PidsOf(jobtab'[s]) = PidsOf(jobtab[s])
       /\ \A i \in DOMAIN jobtab[s].procs :
             (JobRunning(s) /\ ~Awaited(s, i) /\ jobtab'[s].procs # <<>>)
                => jobtab'[s].procs[i] = jobtab[s].procs[i]]_vars

\* `wait' without operands that is not interrupted leaves no child of a job.
WaitAllMeansAll ==
    [][(pc = "waitall" /\ pc' = "after" /\ exitstatus' = 0)
          => \A p \in Pids : child[p] # None => owner[p].job = 0]_vars

\* If its children end, the shell does not wait for ever, whatever forks failed
\* and whatever signals came; but a pipeline whose pipe() failed may have left a
\* job without a process in the table, and then it may.
WaitReturns ==
    (/\ Waiting /\ ChildrenAreAwaited
     /\ \A s \in Slots : JobRunning(s) => \E i \in DOMAIN jobtab[s].procs : Awaited(s, i))
        ~> ~Waiting

\* A trap is served, or the shell ends, if the script gets to the end of one
\* command after the other.
TrapServed ==
    []<>(pc = "after")
        => (gotsig \cap trapped # {} ~> gotsig \cap trapped = {} \/ pc = "ended")

-----------------------------------------------------------------------------
\* No action treats one pid unlike another: where only safety is checked TLC may
\* take pids for each other.
PidSymmetry == Permutations(Pids)
=============================================================================
