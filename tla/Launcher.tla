------------------------------ MODULE Launcher ------------------------------
(***************************************************************************)
(* The supervision core of GenWrapper: the launcher's main loop and its    *)
(* TASK object (launcher/gw_launcher.C, launcher/task.C), the reports it   *)
(* sends to the BOINC client (launcher/gw_common.C), the fraction_done     *)
(* file the `boinc' applet writes (box/boinc/boinc.c), and, as external    *)
(* parties, the processes of the script, the kernel's process group and    *)
(* the client with its one-slot status channel.                            *)
(*                                                                         *)
(* The model is the POSIX build (the #else branches of task.C).  What one  *)
(* run of the launcher prepares before TASK::run and copies after the main *)
(* loop (gw_launcher.C 114-229 and 264-332) is not in this module.         *)
(***************************************************************************)
EXTENDS Integers, FiniteSets

CONSTANTS
    Leader,           \* the process TASK::run forks: the shell running gw_tmp.sh
    Background,       \* processes the script may leave in the background
    ExitCodes,        \* exit statuses the script may choose
    PercentArgs,      \* integer arguments of `boinc fraction_done_percent'
    FractionArgs,     \* arguments of `boinc fraction_done', in thousandths
    UninitSuspended,  \* values the uninitialised TASK::suspended may hold
    KillRequests,     \* the members of BOINC_STATUS that end the task
    CanCrash,         \* may the launcher itself be killed from outside?
    FinalRepeats,     \* repetitions of the final report (5 in the code)
    ErrFork,          \* ERR_FORK of BOINC's error_numbers.h
    ErrExec,          \* ERR_EXEC of BOINC's error_numbers.h
    MaxWall,          \* bound: wall_cpu_time is counted up to this
    MaxRuns,          \* bound: how often the client starts the work unit
    None              \* no message, no pending write, no status

Procs == {Leader} \cup Background
ExitFailure == 1        \* EXIT_FAILURE of stdlib.h
Signaled == -1          \* stands for a wait status with WIFSIGNALED
ExitByte(code) == code % 256  \* what exit(code) leaves for WEXITSTATUS
FinalFraction == 10000  \* gw_finish reports 100.0, in percent

ASSUME LauncherAssumption ==
    /\ Leader \notin Background
    /\ IsFiniteSet(Background)
    /\ ExitCodes \subseteq 0..255
    /\ ErrFork \in Int /\ ErrExec \in Int
    /\ PercentArgs \subseteq Int
    /\ FractionArgs \subseteq Int
    /\ UninitSuspended \subseteq BOOLEAN
    /\ UninitSuspended # {}
    /\ KillRequests \subseteq {"no_heartbeat", "quit_request", "abort_request"}
    /\ CanCrash \in BOOLEAN
    /\ FinalRepeats \in Nat
    /\ MaxWall \in Nat
    /\ MaxRuns \in Nat \ {0}

ASSUME NoneAssumption == None \notin Int

VARIABLES
    \* The launcher.
    pc,          \* "start", "poll", "control", "final", "finished", "exited"
    suspended,   \* TASK::suspended
    fracDone,    \* TASK::frac_done, in percent
    wallTime,    \* TASK::wall_cpu_time, in poll periods
    finalTime,   \* TASK::final_cpu_time
    status,      \* main's `status', the argument of gw_finish
    sends,       \* final reports sent so far by gw_finish
    \* The script's processes and the kernel.
    proc,        \* state of each process of this run
    stage,       \* how far the forked child has come
    exitStatus,  \* wait status of the leader once it is a zombie
    pending,     \* the value a `boinc' applet of a process is about to write
    fractionFile,\* fraction_done.txt: a percentage, or None if absent or empty
    survivors,   \* do processes of an earlier run still live?
    \* The BOINC client.
    shm,         \* is the shared memory there (FALSE when standalone)?
    wantSuspend, \* BOINC_STATUS.suspended
    killReq,     \* which of the requests to end BOINC_STATUS holds
    channel,     \* the app_status channel: one message, or None
    told,        \* the last message the client took in this run
    runs,        \* launches so far
    \* History.
    missed,      \* signals the task should have got from this run and did not
    best         \* largest percentage ever written by a script

launcherVars == <<pc, suspended, fracDone, wallTime, finalTime, status, sends>>
scriptVars == <<proc, stage, exitStatus, pending, fractionFile, survivors>>
clientVars == <<shm, wantSuspend, killReq, channel, told, runs>>
historyVars == <<missed, best>>
vars == <<launcherVars, scriptVars, clientVars, historyVars>>

-----------------------------------------------------------------------------
(* Kernel.                                                                 *)

Alive(p) == proc[p] \in {"running", "stopped"}
Running(p) == proc[p] = "running"

\* killpg(pid, .) and wait4(-pid, ...) find the task only once the child has
\* made itself a group leader; a zombie leader still holds the group.
InGroup == stage \in {"joined", "script"}

\* Mutants: kill(pid, .) in place of killpg(pid, .).
LeaderStopped == [proc EXCEPT ![Leader] = IF @ = "running" THEN "stopped" ELSE @]
LeaderContinued == [proc EXCEPT ![Leader] = IF @ = "stopped" THEN "running" ELSE @]
LeaderGone == [proc EXCEPT ![Leader] = IF Alive(Leader) THEN "gone" ELSE @]

\* The effect of killpg with SIGSTOP, SIGCONT and SIGKILL on the group.
Stopped == [p \in Procs |-> IF Running(p) THEN "stopped" ELSE proc[p]]
Continued == [p \in Procs |-> IF proc[p] = "stopped" THEN "running" ELSE proc[p]]
Killed == [p \in Procs |-> IF Alive(p) THEN "gone" ELSE proc[p]]

\* When the leader or the launcher dies the group may become orphaned: its
\* stopped members get SIGHUP and SIGCONT, which some of them survive.
HungUp(before) ==
    {after \in [Procs -> {"none", "running", "zombie", "gone"}] :
        \A p \in Procs : IF before[p] = "stopped"
                         THEN after[p] \in {"running", "gone"}
                         ELSE after[p] = before[p]}

-----------------------------------------------------------------------------
(* Reports to the client.                                                  *)

Message(kind, cpu, frac) == [kind |-> kind, cpu |-> cpu, frac |-> frac]

\* MSG_CHANNEL::send_msg: a message is dropped while the slot is full.
Send(m) == channel' = IF shm /\ channel = None THEN m ELSE channel

-----------------------------------------------------------------------------
(* The launcher.                                                           *)

Supervising == pc \in {"poll", "control"}

\* TASK::TASK and the parent's half of a TASK::run whose fork succeeds.
\* TASK::TASK leaves `suspended' as it finds it; a flag that starts out TRUE
\* stands for a stop that was never sent.
StartTask ==
    /\ pc = "start"
    /\ pc' = "poll"
    /\ suspended' \in UninitSuspended
    /\ missed' = IF suspended' THEN {"stop"} ELSE {}
    /\ fracDone' = 0
    /\ wallTime' = 0
    /\ finalTime' = 0
    /\ proc' = [proc EXCEPT ![Leader] = "running"]
    /\ stage' = "forked"
    /\ UNCHANGED <<status, sends, exitStatus, pending, fractionFile,
                   survivors, clientVars, best>>

\* fork() fails: gw_finish(ERR_FORK) with its default cpu time 0.
ForkFails ==
    /\ pc = "start"
    /\ pc' = "final"
    /\ suspended' \in UninitSuspended
    /\ fracDone' = 0
    /\ wallTime' = 0
    /\ finalTime' = 0
    /\ status' = ErrFork
    /\ UNCHANGED <<sends, scriptVars, clientVars, historyVars>>

\* Mutant: gw_read_fraction_done without the initial value of `fraction'.
ReadUninitialised == IF fractionFile = None THEN 100 ELSE fractionFile

\* gw_read_fraction_done: an absent or empty file reads as 0.
ReadFraction == IF fractionFile = None THEN 0 ELSE fractionFile

\* Mutant: TASK::poll takes over whatever it reads.
TakeFraction == fracDone' = ReadFraction

RaiseFraction == fracDone' = IF ReadFraction > fracDone THEN ReadFraction
                                                       ELSE fracDone

\* Mutant: the launcher does not wait for a task it has suspended.
ReapableUnlessSuspended == ~suspended /\ InGroup /\ proc[Leader] = "zombie"

\* wait4(-pid, ..., WNOHANG) has somebody to return.
Reapable == InGroup /\ proc[Leader] = "zombie"

\* Mutant: the wait status is used without WIFSIGNALED and WEXITSTATUS.
RawWaitStatus == exitStatus

ReapedStatus == IF exitStatus = Signaled THEN ExitFailure ELSE exitStatus

\* TASK::poll when wait4 returns the leader; main leaves its loop.
PollEnded ==
    /\ pc = "poll"
    /\ Reapable
    /\ RaiseFraction
    /\ proc' = [proc EXCEPT ![Leader] = "gone"]
    /\ status' = ReapedStatus
    /\ finalTime' \in 0..MaxWall
    /\ Send(Message("ended", finalTime', fracDone'))
    /\ pc' = "final"
    /\ UNCHANGED <<suspended, wallTime, sends, stage, exitStatus, pending,
                   fractionFile, survivors, shm, wantSuspend, killReq, told,
                   runs, historyVars>>

\* TASK::poll when wait4 returns 0, or ECHILD because there is no such group.
PollRunning ==
    /\ pc = "poll"
    /\ ~Reapable
    /\ RaiseFraction
    /\ wallTime' = IF suspended \/ wallTime = MaxWall THEN wallTime
                                                      ELSE wallTime + 1
    /\ Send(Message("running", wallTime', fracDone'))
    /\ pc' = "control"
    /\ UNCHANGED <<suspended, finalTime, status, sends, scriptVars, shm,
                   wantSuspend, killReq, told, runs, historyVars>>

Requested == killReq # {}

\* poll_boinc_messages on any of the three requests: TASK::kill and exit(0).
ControlKill ==
    /\ pc = "control"
    /\ Requested
    /\ proc' = IF InGroup THEN Killed ELSE proc
    /\ missed' = IF InGroup THEN missed ELSE missed \cup {"kill"}
    /\ pc' = "exited"
    /\ UNCHANGED <<suspended, fracDone, wallTime, finalTime, status, sends,
                   stage, exitStatus, pending, fractionFile, survivors,
                   clientVars, best>>

\* TASK::stop.
ControlStop ==
    /\ pc = "control"
    /\ ~Requested
    /\ wantSuspend /\ ~suspended
    /\ proc' = IF InGroup THEN Stopped ELSE proc
    /\ missed' = IF InGroup THEN missed \ {"stop"} ELSE missed \cup {"stop"}
    /\ suspended' = TRUE
    /\ pc' = "poll"
    /\ UNCHANGED <<fracDone, wallTime, finalTime, status, sends, stage,
                   exitStatus, pending, fractionFile, survivors, clientVars,
                   best>>

\* TASK::resume.
ControlResume ==
    /\ pc = "control"
    /\ ~Requested
    /\ ~wantSuspend /\ suspended
    /\ proc' = IF InGroup THEN Continued ELSE proc
    /\ missed' = missed \ {"stop"}
    /\ suspended' = FALSE
    /\ pc' = "poll"
    /\ UNCHANGED <<fracDone, wallTime, finalTime, status, sends, stage,
                   exitStatus, pending, fractionFile, survivors, clientVars,
                   best>>

ControlKeep ==
    /\ pc = "control"
    /\ ~Requested
    /\ wantSuspend = suspended
    /\ pc' = "poll"
    /\ UNCHANGED <<suspended, fracDone, wallTime, finalTime, status, sends,
                   scriptVars, clientVars, historyVars>>

\* Mutant: the final report is not repeated.
SendOnce == sends = 0

MoreToSend == sends <= FinalRepeats

\* gw_finish: gw_report_status(cpu, 100.0, true) sends once and then
\* FinalRepeats times more, sleeping in between; then boinc_finish(status).
FinalSend ==
    /\ pc = "final"
    /\ shm /\ MoreToSend
    /\ Send(Message("final", finalTime, FinalFraction))
    /\ sends' = sends + 1
    /\ UNCHANGED <<pc, suspended, fracDone, wallTime, finalTime, status,
                   scriptVars, shm, wantSuspend, killReq, told, runs,
                   historyVars>>

BoincFinish ==
    /\ pc = "final"
    /\ shm => ~MoreToSend
    /\ pc' = "finished"
    /\ UNCHANGED <<suspended, fracDone, wallTime, finalTime, status, sends,
                   scriptVars, clientVars, historyVars>>

-----------------------------------------------------------------------------
(* The forked child and the script.  A process and the foreground programs *)
(* it waits for are one process here.                                      *)

\* setpgid(getpid(), getpid()) in the child's half of TASK::run.
JoinGroup ==
    /\ stage = "forked" /\ Running(Leader)
    /\ stage' = "joined"
    /\ UNCHANGED <<launcherVars, proc, exitStatus, pending, fractionFile,
                   survivors, clientVars, historyVars>>

\* The redirections and execv.
ExecScript ==
    /\ stage = "joined" /\ Running(Leader)
    /\ stage' = "script"
    /\ UNCHANGED <<launcherVars, proc, exitStatus, pending, fractionFile,
                   survivors, clientVars, historyVars>>

LeaderEnds(wait) ==
    /\ exitStatus' = wait
    /\ pending' = [pending EXCEPT ![Leader] = None]
    /\ UNCHANGED <<launcherVars, stage, fractionFile, survivors, clientVars,
                   missed, best>>

\* execv fails: exit(ERR_EXEC).
ExecFails ==
    /\ stage = "joined" /\ Running(Leader)
    /\ proc' = [proc EXCEPT ![Leader] = "zombie"]
    /\ LeaderEnds(ExitByte(ErrExec))

InScript(p) == stage = "script" /\ Running(p)

\* `program &' in the script.
Spawn(b) ==
    /\ InScript(Leader)
    /\ proc[b] = "none"
    /\ proc' = [proc EXCEPT ![b] = "running"]
    /\ UNCHANGED <<launcherVars, stage, exitStatus, pending, fractionFile,
                   survivors, clientVars, historyVars>>

BackgroundExit(b) ==
    /\ InScript(b)
    /\ proc' = [proc EXCEPT ![b] = "gone"]
    /\ pending' = [pending EXCEPT ![b] = None]
    /\ UNCHANGED <<launcherVars, stage, exitStatus, fractionFile, survivors,
                   clientVars, historyVars>>

\* The script ends by itself, with any status.  `boinc finish code' does no more:
\* it ends the applet's own process, and the script only if `set -e' is on.
ScriptExit(code) ==
    /\ InScript(Leader) /\ pending[Leader] = None
    /\ proc' = [proc EXCEPT ![Leader] = "zombie"]
    /\ LeaderEnds(code)

\* A signal from outside the launcher ends the leader.
LeaderKilled ==
    /\ Alive(Leader)
    /\ proc' \in IF InGroup
                 THEN HungUp([proc EXCEPT ![Leader] = "zombie"])
                 ELSE {[proc EXCEPT ![Leader] = "zombie"]}
    /\ LeaderEnds(Signaled)

\* fraction_done_percent clamps to 0..1, here in percent.
Clamp(n) == IF n < 0 THEN 0 ELSE IF n > 100 THEN 100 ELSE n

\* (int)(fraction * 100.00) for a fraction given in thousandths: C truncates
\* towards zero, and the product of a whole number of hundredths may come out
\* just below the whole number.
ToPercent(t) ==
    LET toward == IF t >= 0 THEN t \div 10 ELSE -((-t) \div 10)
    IN  {toward} \cup IF t % 10 = 0 /\ t > 0 THEN {toward - 1} ELSE {}

\* What the two commands of the applet can write.
Writable == {Clamp(n) : n \in PercentArgs \cup UNION {ToPercent(t) : t \in FractionArgs}}

\* fopen(FILE_FRACTION_DONE, "w+") truncates the file ...
OpenFraction(p, value) ==
    /\ InScript(p) /\ pending[p] = None
    /\ fractionFile' = None
    /\ pending' = [pending EXCEPT ![p] = value]
    /\ UNCHANGED <<launcherVars, proc, stage, exitStatus, survivors,
                   clientVars, historyVars>>

Higher(value) == best' = IF value > best THEN value ELSE best

\* ... and fclose writes the buffered text.
CloseFraction(p) ==
    /\ InScript(p) /\ pending[p] # None
    /\ fractionFile' = pending[p]
    /\ Higher(pending[p])
    /\ pending' = [pending EXCEPT ![p] = None]
    /\ UNCHANGED <<launcherVars, proc, stage, exitStatus, survivors,
                   clientVars, missed>>

\* Processes of an earlier run go on writing until they end.
SurvivorWrites(content) ==
    /\ survivors
    /\ fractionFile' = content
    /\ IF content = None THEN UNCHANGED best ELSE Higher(content)
    /\ UNCHANGED <<launcherVars, proc, stage, exitStatus, pending, survivors,
                   clientVars, missed>>

SurvivorsEnd ==
    /\ survivors
    /\ survivors' = FALSE
    /\ UNCHANGED <<launcherVars, proc, stage, exitStatus, pending,
                   fractionFile, clientVars, historyVars>>

-----------------------------------------------------------------------------
(* The BOINC client.                                                       *)

Ended == pc \in {"finished", "exited"}

SuspendOrResume ==
    /\ shm /\ ~Ended
    /\ wantSuspend' = ~wantSuspend
    /\ UNCHANGED <<launcherVars, scriptVars, shm, killReq, channel, told,
                   runs, historyVars>>

RequestKill(request) ==
    /\ shm /\ ~Ended
    /\ request \notin killReq
    /\ killReq' = killReq \cup {request}
    /\ UNCHANGED <<launcherVars, scriptVars, shm, wantSuspend, channel, told,
                   runs, historyVars>>

TakeMessage ==
    /\ channel # None
    /\ told' = channel
    /\ channel' = None
    /\ UNCHANGED <<launcherVars, scriptVars, shm, wantSuspend, killReq, runs,
                   historyVars>>

\* The launcher is killed from outside: nothing it supervises is told.
Crash ==
    /\ CanCrash /\ ~Ended
    /\ pc' = "exited"
    /\ missed' = missed \cup {"kill"}
    /\ proc' \in IF InGroup THEN HungUp(proc) ELSE {proc}
    /\ UNCHANGED <<suspended, fracDone, wallTime, finalTime, status, sends,
                   stage, exitStatus, pending, fractionFile, survivors,
                   clientVars, best>>

\* A launcher that ended without boinc_finish is started again, in the same
\* directory, unless the client gave the task up.
Restart ==
    /\ pc = "exited"
    /\ "abort_request" \notin killReq
    /\ runs < MaxRuns
    /\ pc' = "start"
    /\ status' = None
    /\ sends' = 0
    /\ survivors' = (survivors \/ \E p \in Procs : Alive(p))
    /\ proc' = [p \in Procs |-> "none"]
    /\ stage' = "none"
    /\ exitStatus' = None
    /\ pending' = [p \in Procs |-> None]
    /\ wantSuspend' \in IF shm THEN BOOLEAN ELSE {FALSE}
    /\ killReq' = {}
    /\ channel' = None
    /\ told' = None
    /\ runs' = runs + 1
    /\ missed' = {}
    /\ UNCHANGED <<suspended, fracDone, wallTime, finalTime, fractionFile,
                   shm, best>>

-----------------------------------------------------------------------------
Init ==
    /\ pc = "start"
    /\ suspended = FALSE
    /\ fracDone = 0
    /\ wallTime = 0
    /\ finalTime = 0
    /\ status = None
    /\ sends = 0
    /\ proc = [p \in Procs |-> "none"]
    /\ stage = "none"
    /\ exitStatus = None
    /\ pending = [p \in Procs |-> None]
    /\ fractionFile = None
    /\ survivors = FALSE
    /\ shm \in BOOLEAN
    /\ wantSuspend \in IF shm THEN BOOLEAN ELSE {FALSE}
    /\ killReq = {}
    /\ channel = None
    /\ told = None
    /\ runs = 1
    /\ missed = {}
    /\ best = 0

Launch == StartTask \/ ForkFails
Poll == PollEnded \/ PollRunning
Control == ControlKill \/ ControlStop \/ ControlResume \/ ControlKeep
Finish == FinalSend \/ BoincFinish
LauncherNext == Launch \/ Poll \/ Control \/ Finish

LeaderNext ==
    \/ JoinGroup \/ ExecScript \/ ExecFails \/ LeaderKilled
    \/ \E b \in Background : Spawn(b)
    \/ \E code \in ExitCodes : ScriptExit(code)

ScriptNext ==
    \/ LeaderNext
    \/ \E b \in Background : BackgroundExit(b)
    \/ \E p \in Procs : CloseFraction(p) \/ \E v \in Writable : OpenFraction(p, v)
    \/ \E content \in Writable \cup {None} : SurvivorWrites(content)
    \/ SurvivorsEnd

ClientNext ==
    \/ SuspendOrResume
    \/ \E request \in KillRequests : RequestKill(request)
    \/ TakeMessage \/ Crash \/ Restart

Next == LauncherNext \/ ScriptNext \/ ClientNext

Spec == Init /\ [][Next]_vars

\* The launcher is one thread that never blocks for good: boinc_sleep and
\* wait4 with WNOHANG return.  A runnable child is scheduled.  Nothing is
\* assumed of the script and of the client.
Fairness ==
    /\ WF_vars(LauncherNext)
    /\ WF_vars(JoinGroup)

FairSpec == Spec /\ Fairness

-----------------------------------------------------------------------------
(* Properties.                                                             *)

Statuses == ExitCodes \cup {ExitByte(ErrExec), Signaled}
Results == ExitCodes \cup {ExitByte(ErrExec), ExitFailure, ErrFork}
Messages == [kind : {"running", "ended", "final"},
             cpu : 0..MaxWall, frac : (0..100) \cup {FinalFraction}]

LauncherTypeOK ==
    /\ pc \in {"start", "poll", "control", "final", "finished", "exited"}
    /\ suspended \in BOOLEAN
    /\ fracDone \in 0..100
    /\ wallTime \in 0..MaxWall
    /\ finalTime \in 0..MaxWall
    /\ status \in Results \cup {None}
    /\ sends \in 0..(FinalRepeats + 1)

ScriptTypeOK ==
    /\ proc \in [Procs -> {"none", "running", "stopped", "zombie", "gone"}]
    /\ stage \in {"none", "forked", "joined", "script"}
    /\ exitStatus \in Statuses \cup {None}
    /\ pending \in [Procs -> (0..100) \cup {None}]
    /\ fractionFile \in (0..100) \cup {None}
    /\ survivors \in BOOLEAN

ClientTypeOK ==
    /\ shm \in BOOLEAN
    /\ wantSuspend \in BOOLEAN
    /\ killReq \subseteq KillRequests
    /\ channel \in Messages \cup {None}
    /\ told \in Messages \cup {None}
    /\ runs \in 1..MaxRuns

HistoryTypeOK ==
    /\ missed \subseteq {"stop", "kill"}
    /\ best \in 0..100

\* Every variable holds a value of its kind: above all, a percentage stays one
\* on its way from the applet's argument to the client.
TypeOK == LauncherTypeOK /\ ScriptTypeOK /\ ClientTypeOK /\ HistoryTypeOK

\* While the launcher takes the task for suspended no process of it runs,
\* unless the stop was never delivered: killpg found no group yet, or the
\* uninitialised TASK::suspended was TRUE from the start.  (Once the leader
\* has died its orphaned background processes are woken by the kernel.)
SuspendedMeansStopped ==
    (Supervising /\ suspended /\ "stop" \notin missed /\ Alive(Leader))
        => \A p \in Procs : ~Running(p)

\* A task the launcher takes for running has no stopped process: no order of
\* suspends, resumes, forks and restarts makes the launcher forget one.
NobodyLeftStopped ==
    (Supervising /\ ~suspended) => \A p \in Procs : proc[p] # "stopped"

\* After the launcher has left by exit(0) (no heartbeat, quit, abort) no
\* process of the task is alive, unless killpg came before the child's
\* setpgid or the launcher was itself killed.
ExitLeavesNobody ==
    (pc = "exited" /\ "kill" \notin missed) => \A p \in Procs : ~Alive(p)

\* The launcher never says more progress than a script has reported, though it
\* reads the file while applets of several processes rewrite it.
FractionEarned == fracDone <= best

\* Within one run the progress and, while the task runs, the cpu time that the
\* client sees never drop, although fraction_done.txt is empty between an
\* applet's fopen and its fclose and messages get lost in the channel.
ProgressNeverDrops ==
    [][(told # None /\ told' # None) =>
          /\ told'.frac >= told.frac
          /\ told'.kind = "running" => told'.cpu >= told.cpu]_vars

\* The inductive strengthening of the three control invariants: before its
\* first step a run has no process, and nobody can be stopped outside a group.
ControlInv ==
    /\ SuspendedMeansStopped
    /\ NobodyLeftStopped
    /\ ExitLeavesNobody
    /\ pc = "start" => \A p \in Procs : proc[p] = "none"
    /\ ~InGroup => \A p \in Procs : proc[p] # "stopped"

\* The inductive strengthening of FractionEarned: what the file holds was
\* written by a script.
EarnedInv == FractionEarned /\ (fractionFile # None => fractionFile <= best)

\* The inductive invariant behind ProgressNeverDrops: what is in the slot is
\* newer than what the client has, and the launcher's own values newest.
ReportsOrdered ==
    /\ pc = "start" => channel = None /\ told = None
    /\ \A m \in {channel, told} \ {None} :
          Supervising => /\ m.kind = "running"
                         /\ m.frac <= fracDone
                         /\ m.cpu <= wallTime
    /\ (channel # None /\ told # None) =>
          /\ told.frac <= channel.frac
          /\ channel.kind = "running" => told.cpu <= channel.cpu

\* The launcher does not sleep through anything: a request of the client to end
\* the task is obeyed; the end of the script's leader is noticed and ends the
\* launcher, also while it is suspended; and a stopped process does not stay
\* stopped while the client does not want it, though a heartbeat may find the
\* flag in any state and the client may change its mind in between.
RequestsObeyed ==
    /\ (killReq # {}) ~> Ended
    /\ (Supervising /\ InGroup /\ proc[Leader] = "zombie") ~> Ended
    /\ (Supervising /\ ~wantSuspend /\ \E p \in Procs : proc[p] = "stopped")
          ~> (wantSuspend \/ ~Supervising \/ \A p \in Procs : proc[p] # "stopped")

\* gw_finish repeats its report because the channel drops what does not fit:
\* if the slot is empty with a report still to come, that report is not lost.
FinalReportArrives ==
    (pc = "final" /\ shm /\ channel = None /\ sends <= FinalRepeats)
        ~> ((\E m \in {channel, told} : m # None /\ m.kind = "final") \/ pc = "exited")

\* The launcher implements WorkUnit: the status handed to boinc_finish is the
\* one the script ended with, EXIT_FAILURE if a signal ended it, in every
\* order of polls, requests, crashes and restarts; and a script is finished at
\* most once.
NeverStarted == stage = "none"
Implemented ==
    INSTANCE WorkUnit WITH
        Outcomes <- Statuses,
        ResultOf <- [s \in Statuses |-> IF s = Signaled THEN ExitFailure ELSE s],
        CannotStart <- ErrFork,
        Nothing <- None,
        phase <- CASE pc = "start" -> "waiting"
                   [] pc = "final" -> IF NeverStarted THEN "waiting" ELSE "running"
                   [] pc = "finished" -> "done"
                   [] pc = "exited" -> "withdrawn"
                   [] OTHER -> "running",
        outcome <- IF pc \in {"poll", "control", "final", "finished"}
                   THEN exitStatus ELSE None,
        verdict <- IF pc = "finished" THEN status ELSE None
ImplementsWorkUnit == Implemented!Spec

\* The inductive invariant behind ImplementsWorkUnit: there is a wait status
\* exactly when the leader has ended, and a launcher that is past its loop has
\* reaped the leader and holds its status, or never had one.
VerdictInv ==
    /\ NeverStarted => proc[Leader] = "none" /\ exitStatus = None
    /\ pc = "start" => NeverStarted /\ status = None
    /\ Supervising => ~NeverStarted
    /\ Alive(Leader) => exitStatus = None
    /\ proc[Leader] = "zombie" => exitStatus \in Statuses
    /\ pc \in {"final", "finished"} =>
          IF NeverStarted THEN status = ErrFork
          ELSE /\ proc[Leader] = "gone"
               /\ exitStatus \in Statuses
               /\ status = ReapedStatus
=============================================================================
