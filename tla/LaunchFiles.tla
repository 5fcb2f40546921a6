---------------------------- MODULE LaunchFiles ----------------------------
(***************************************************************************)
(* The files of one work unit: what the launcher prepares before it starts *)
(* the task and what it does with the task's output afterwards             *)
(* (launcher/gw_launcher.C, launcher/gw_common.C), over several launches   *)
(* of which the last but one may have been cut off at any point.           *)
(*                                                                         *)
(* The supervision of the running task is module Launcher; here the task   *)
(* starts, writes lines and ends.  A file is the sequence of its lines, a  *)
(* line is known by the launch and the number it was written in.           *)
(* External: the archive, the client that starts the launcher again.       *)
(***************************************************************************)
EXTENDS Integers, Sequences

CONSTANTS
    Default,     \* WU_SCRIPT, the name of the default work unit script
    Arguments,   \* command lines the launcher may be given: sequences of words
    DcApi,       \* built with WANT_DCAPI?
    MaxLines,    \* bound: lines a task writes to a stream
    MaxLaunches, \* bound: how often the client starts the work unit
    MaxFailures, \* bound: system calls that fail in one behaviour
    None

Streams == {"stdout", "stderr"}
ExitFailure == 1
ErrExec == 108       \* exit(ERR_EXEC), as WEXITSTATUS sees it

ASSUME FilesAssumption ==
    /\ DcApi \in BOOLEAN
    /\ \A a \in Arguments : a \in Seq({a[i] : i \in DOMAIN a})
    /\ MaxLines \in Nat /\ MaxLaunches \in Nat \ {0} /\ MaxFailures \in Nat

Scripts == {Default} \cup {a[1] : a \in {b \in Arguments : b # <<>>}}
ArgLists == Arguments \cup {Tail(a) : a \in {b \in Arguments : b # <<>>}}
Unpackings == {"no", "part", "all"}
Runs == [script : Scripts \cup {None, "part"}, args : ArgLists, unpacked : Unpackings]
Lines == Nat \X Nat

ASSUME NoneAssumption == None \notin Seq(Lines) /\ None \notin Runs

VARIABLES
    \* The launcher.
    pc,         \* "dcfiles", "unzip", "interp", "choose", "write", "run", "task",
                \* "echoerr", "echoout", "copyout", "copyerr", "finish", "finished", "down"
    argv,       \* its arguments
    script,     \* wu_script, or None
    buffered,   \* lines in the stdio buffer of each stream
    status,     \* argument of gw_finish, or None
    \* Files.
    readable,   \* names of scripts that can be opened, "zip" if the archive can
    requested,  \* streams that are output files of the work unit
    unpacked,   \* "no", "part" or "all" of the archive is in the slot directory
    execScript, \* gw_tmp.sh: None, "part", or the name of the script it runs
    executable, \* may gitbox be executed?
    gw,         \* the task's output: its lines, or None
    local,      \* stdout.txt and stderr.txt in the slot directory
    output,     \* what they resolve to in the project directory
    dc,         \* dc_stdout.txt and dc_stderr.txt
    \* The task.
    task,       \* "none", "forked", "running", "ended"
    direct,     \* streams the task has inherited from the launcher
    survives,   \* a task of an earlier launch is still running
    \* History.
    launches, failures,
    written,    \* lines the task of this launch has written to each stream
    ran,        \* what the task of this launch was started with
    spoilt,     \* streams an earlier task has written to in this launch
    lost        \* streams that could not be copied

progVars == <<pc, argv, script, buffered, status>>
fileVars == <<readable, requested, unpacked, execScript, executable, gw, local, output, dc>>
taskVars == <<task, direct, survives>>
historyVars == <<launches, failures, written, ran, spoilt, lost>>
vars == <<progVars, fileVars, taskVars, historyVars>>

Nothing == [s \in Streams |-> <<>>]
MayFail == failures < MaxFailures
Failed == failures' = failures + 1
NoFailure == UNCHANGED failures

\* The file stream `to' gets the content of `from'.
Copy(from, to, s) == [to EXCEPT ![s] = from[s]]

\* Mutants: gw_finish(0); exit in place of boinc_finish.
GiveUpSilently == pc' = "finish" /\ status' = 0
GiveUpByExit == pc' = "down" /\ status' = ExitFailure

\* gw_finish(EXIT_FAILURE).
GiveUp == pc' = "finish" /\ status' = ExitFailure
Goto(next) == pc' = next /\ UNCHANGED status

-----------------------------------------------------------------------------
(* Preparation.                                                            *)

\* The files DC-API expects are created, empty.
CreateDcFiles ==
    /\ pc = "dcfiles"
    /\ \/ ~DcApi /\ Goto("unzip") /\ NoFailure /\ UNCHANGED dc
       \/ DcApi /\ Goto("unzip") /\ NoFailure /\ dc' = Nothing
       \/ DcApi /\ MayFail /\ GiveUp /\ Failed /\ UNCHANGED dc
    /\ UNCHANGED <<argv, script, buffered, readable, requested, unpacked, execScript, executable,
                   gw, local, output, taskVars, launches, written, ran, spoilt, lost>>

\* The archive is unpacked in every launch, over what is there (unzip -o).
MustUnzip == "zip" \in readable

Unzip ==
    /\ pc = "unzip"
    /\ \/ /\ MustUnzip
          /\ unpacked' = "all" /\ executable' \in BOOLEAN
          /\ Goto("interp") /\ NoFailure
       \/ /\ MustUnzip /\ MayFail
          /\ unpacked' \in {unpacked, "part"} /\ UNCHANGED executable
          /\ GiveUp /\ Failed
       \/ ~MustUnzip /\ Goto("interp") /\ NoFailure /\ UNCHANGED <<unpacked, executable>>
    /\ UNCHANGED <<argv, script, buffered, readable, requested, execScript, gw, local, output, dc,
                   taskVars, launches, written, ran, spoilt, lost>>

CheckInterpreter ==
    /\ pc = "interp"
    /\ \/ Goto("choose") /\ NoFailure /\ executable' = TRUE
       \/ ~executable /\ MayFail /\ GiveUp /\ Failed /\ UNCHANGED executable
    /\ UNCHANGED <<argv, script, buffered, readable, requested, unpacked, execScript, gw, local,
                   output, dc, taskVars, launches, written, ran, spoilt, lost>>

\* The default script, or else the first argument (legacy behaviour).
Candidates == IF argv = <<>> THEN <<Default>> ELSE <<Default, argv[1]>>

\* Mutant: a script that cannot be opened is taken all the same.
LastCandidate(names) == names[Len(names)]

FirstReadable(names) ==
    LET open == {i \in DOMAIN names : names[i] \in readable}
    IN  IF open = {} THEN None ELSE names[CHOOSE i \in open : \A j \in open : i <= j]

ChooseScript ==
    /\ pc = "choose"
    /\ script' = FirstReadable(Candidates)
    /\ IF script' = None THEN GiveUp ELSE Goto("write")
    /\ UNCHANGED <<argv, buffered, fileVars, taskVars, historyVars>>

\* Mutant: nobody asks the stream for errors.
WriteUnchecked(ok) == Goto("run")

AfterWrite(ok) == IF ok THEN Goto("run") ELSE GiveUp

\* gw_tmp.sh is written anew; its writing can be cut off.
WriteScript ==
    /\ pc = "write"
    /\ \/ execScript' = script /\ AfterWrite(TRUE) /\ NoFailure
       \/ execScript' = "part" /\ MayFail /\ AfterWrite(FALSE) /\ Failed
    /\ UNCHANGED <<argv, script, buffered, readable, requested, unpacked, executable, gw, local,
                   output, dc, taskVars, launches, written, ran, spoilt, lost>>

\* The name of the script is taken off the arguments of the task.
TaskArgs == IF argv # <<>> /\ argv[1] = script THEN Tail(argv) ELSE argv

RunTask ==
    /\ pc = "run"
    /\ Goto("task")
    /\ task' = "forked"
    /\ ran' = [script |-> None, args |-> TaskArgs, unpacked |-> "no"]
    /\ UNCHANGED <<argv, script, buffered, fileVars, direct, survives, launches, failures, written,
                   spoilt, lost>>

-----------------------------------------------------------------------------
(* The task.                                                               *)

Truncated(s) == <<>>

\* The child truncates the files for its output; a stream whose file cannot be
\* opened remains the one of the launcher.  Then gitbox runs gw_tmp.sh.
TaskStarts(opened) ==
    /\ task = "forked"
    /\ opened # Streams => MayFail /\ Failed
    /\ opened = Streams => NoFailure
    /\ gw' = [s \in Streams |-> IF s \in opened THEN Truncated(s) ELSE gw[s]]
    /\ direct' = Streams \ opened
    /\ task' = "running"
    /\ ran' = [ran EXCEPT !.script = execScript, !.unpacked = unpacked]
    /\ UNCHANGED <<progVars, readable, requested, unpacked, execScript, executable, local, output,
                   dc, survives, launches, written, spoilt, lost>>

TaskWrites(s) ==
    /\ task = "running" /\ Len(written[s]) < MaxLines
    /\ LET line == <<launches, Len(written[s]) + 1>>
       IN  /\ written' = [written EXCEPT ![s] = Append(@, line)]
           /\ IF s \in direct THEN local' = [local EXCEPT ![s] = Append(@, line)] /\ UNCHANGED gw
                              ELSE gw' = [gw EXCEPT ![s] = Append(@, line)] /\ UNCHANGED local
    /\ UNCHANGED <<progVars, readable, requested, unpacked, execScript, executable, output, dc,
                   taskVars, launches, failures, ran, spoilt, lost>>

\* The task ends with some status, or could not execute gitbox.
TaskEnds(code) ==
    /\ pc = "task"
    /\ \/ task = "running"
       \/ task = "forked" /\ code = ErrExec
    /\ task' = "ended"
    /\ pc' = "echoerr" /\ status' = code
    /\ UNCHANGED <<argv, script, buffered, fileVars, direct, survives, historyVars>>

\* A task whose launcher was killed goes on writing into the files it has open.
SurvivorWrites(s) ==
    /\ survives /\ gw[s] # None
    /\ \E i \in 1..(IF Len(gw[s]) < MaxLines THEN Len(gw[s]) + 1 ELSE MaxLines) :
          gw' = [gw EXCEPT ![s] = IF i > Len(@) THEN Append(@, <<0, 0>>)
                                                ELSE [@ EXCEPT ![i] = <<0, 0>>]]
    /\ spoilt' = spoilt \cup {s}
    /\ UNCHANGED <<progVars, readable, requested, unpacked, execScript, executable, local, output,
                   dc, taskVars, launches, failures, written, ran, lost>>

SurvivorEnds ==
    /\ survives /\ survives' = FALSE
    /\ UNCHANGED <<progVars, fileVars, task, direct, historyVars>>

-----------------------------------------------------------------------------
(* Outputs.                                                                *)

\* The getline loop prints an empty line after the last one.
Blank == <<0, 1>>
Echoed(lines) == Append(lines, Blank)

\* Mutant: the stream is not flushed before its file is copied.
NoFlush(s) == buffered' = [buffered EXCEPT ![s] = Echoed(gw[s])] /\ UNCHANGED local

PrintAndFlush(s) == local' = [local EXCEPT ![s] = @ \o Echoed(gw[s])] /\ UNCHANGED buffered

\* The task's output is copied into the launcher's own, if it can be opened.
Echo(s, next) ==
    /\ \/ gw[s] # None /\ PrintAndFlush(s) /\ NoFailure
       \/ gw[s] = None /\ NoFailure /\ UNCHANGED <<local, buffered>>
       \/ gw[s] # None /\ MayFail /\ Failed /\ UNCHANGED <<local, buffered>>
    /\ lost' = IF failures' > failures THEN lost \cup {s} ELSE lost
    /\ Goto(next)
    /\ UNCHANGED <<argv, script, readable, requested, unpacked, execScript, executable, gw, output,
                   dc, taskVars, launches, written, ran, spoilt>>

EchoStderr == pc = "echoerr" /\ Echo("stderr", "echoout")
EchoStdout == pc = "echoout" /\ Echo("stdout", "copyout")

\* An output file of the work unit gets the content of the local file; nobody
\* looks whether that succeeds.
CopyOutput(s, next) ==
    /\ \/ s \in requested /\ output' = Copy(local, output, s) /\ NoFailure /\ UNCHANGED lost
       \/ /\ s \in requested /\ MayFail /\ Failed
          /\ lost' = lost \cup {s} /\ output' \in {output, [output EXCEPT ![s] = <<>>]}
       \/ s \notin requested /\ NoFailure /\ UNCHANGED <<output, lost>>
    /\ Goto(next)
    /\ UNCHANGED <<argv, script, buffered, readable, requested, unpacked, execScript, executable,
                   gw, local, dc, taskVars, launches, written, ran, spoilt>>

CopyStdout == pc = "copyout" /\ CopyOutput("stdout", "copyerr")
CopyStderr == pc = "copyerr" /\ CopyOutput("stderr", "finish")

\* gw_finish: with DC-API the local files are copied once more; boinc_finish.
Finish ==
    /\ pc = "finish"
    /\ dc' = IF DcApi THEN local ELSE dc
    /\ pc' = "finished"
    /\ UNCHANGED <<argv, script, buffered, status, readable, requested, unpacked, execScript,
                   executable, gw, local, output, taskVars, historyVars>>

-----------------------------------------------------------------------------
(* Launches.                                                               *)

Init ==
    /\ pc = "dcfiles" /\ argv \in Arguments /\ script = None /\ buffered = Nothing /\ status = None
    /\ readable \in SUBSET (Scripts \cup {"zip"})
    /\ requested \in SUBSET Streams
    /\ unpacked = "no" /\ execScript = None /\ executable \in BOOLEAN
    /\ gw = [s \in Streams |-> None] /\ local = Nothing /\ output = Nothing
    /\ dc = [s \in Streams |-> None]
    /\ task = "none" /\ direct = {} /\ survives = FALSE
    /\ launches = 1 /\ failures = 0 /\ written = Nothing /\ ran = None /\ spoilt = {} /\ lost = {}

\* The launcher is killed.  What it was writing may stay half written, what it
\* had buffered is gone, its task may live on.
Crash ==
    /\ pc \notin {"finished", "down"} /\ launches < MaxLaunches
    /\ pc' = "down"
    /\ unpacked' \in {unpacked} \cup (IF pc = "unzip" THEN {"part"} ELSE {})
    /\ execScript' \in {execScript} \cup (IF pc = "write" THEN {"part"} ELSE {})
    /\ survives' \in {survives, survives \/ task = "running"}
    /\ task' = "none" /\ direct' = {}
    /\ UNCHANGED <<argv, script, buffered, status, readable, requested, executable, gw, local,
                   output, dc, historyVars>>

\* The client starts the work unit again, in the same slot directory.
Restart ==
    /\ pc = "down" /\ launches < MaxLaunches
    /\ pc' = "dcfiles" /\ script' = None /\ buffered' = Nothing /\ status' = None
    /\ launches' = launches + 1 /\ written' = Nothing /\ ran' = None
    /\ spoilt' = {} /\ lost' = {}
    /\ UNCHANGED <<argv, fileVars, taskVars, failures>>

Prepare == \/ CreateDcFiles \/ Unzip \/ CheckInterpreter \/ ChooseScript \/ WriteScript
           \/ RunTask
Collect == EchoStderr \/ EchoStdout \/ CopyStdout \/ CopyStderr \/ Finish
LauncherNext == Prepare \/ Collect

TaskNext == \/ \E opened \in SUBSET Streams : TaskStarts(opened)
            \/ \E s \in Streams : TaskWrites(s)
            \/ \E code \in {0, 3, ErrExec} : TaskEnds(code)

Next ==
    \/ LauncherNext \/ TaskNext \/ Crash \/ Restart \/ SurvivorEnds
    \/ \E s \in Streams : SurvivorWrites(s)

Spec == Init /\ [][Next]_vars

\* The launcher is never blocked for ever by a file, a task ends and the client
\* starts again what was interrupted.
FairSpec ==
    /\ Spec
    /\ WF_vars(LauncherNext)
    /\ WF_vars(\E opened \in SUBSET Streams : TaskStarts(opened))
    /\ WF_vars(\E code \in {0, 3, ErrExec} : TaskEnds(code))
    /\ WF_vars(Restart)

-----------------------------------------------------------------------------
(* Properties.                                                             *)

LauncherTypeOK ==
    /\ pc \in {"dcfiles", "unzip", "interp", "choose", "write", "run", "task", "echoerr",
              "echoout", "copyout", "copyerr", "finish", "finished", "down"}
    /\ argv \in Arguments /\ script \in Scripts \cup {None}
    /\ buffered \in [Streams -> Seq(Lines)] /\ status \in {None, ExitFailure, 0, 3, ErrExec}

FileTypeOK ==
    /\ readable \subseteq Scripts \cup {"zip"} /\ requested \subseteq Streams
    /\ unpacked \in Unpackings /\ execScript \in Scripts \cup {None, "part"}
    /\ executable \in BOOLEAN

StreamTypeOK ==
    /\ gw \in [Streams -> Seq(Lines) \cup {None}] /\ local \in [Streams -> Seq(Lines)]
    /\ output \in [Streams -> Seq(Lines)] /\ dc \in [Streams -> Seq(Lines) \cup {None}]
    /\ written \in [Streams -> Seq(Lines)]

TaskTypeOK ==
    /\ task \in {"none", "forked", "running", "ended"}
    /\ direct \subseteq Streams /\ survives \in BOOLEAN
    /\ launches \in 1..MaxLaunches /\ failures \in Nat /\ ran \in Runs \cup {None}
    /\ spoilt \subseteq Streams /\ lost \subseteq Streams

\* Every variable keeps its type; the launches are counted up to the bound.
TypeOK == LauncherTypeOK /\ FileTypeOK /\ StreamTypeOK /\ TaskTypeOK

\* The lines of this launch among `lines' are the ones of `new', without a gap.
Holds(lines, new) ==
    \E before \in 0..(Len(lines) - Len(new)) :
        \A i \in 1..Len(lines) :
            IF i \in (before + 1)..(before + Len(new)) THEN lines[i] = new[i - before]
                                                      ELSE lines[i][1] # launches

\* When the work unit is finished, each stream that is an output file has all
\* lines of the task, once and in order, whatever happened in earlier launches
\* (the slot directory keeps their files), and also if the task had to write
\* into the launcher's own stream.  Excepted are streams a surviving task has
\* written into, and those that could not be copied, which nobody notices.
OutputHasAllLines ==
    pc = "finished" /\ ran # None =>
        \A s \in Streams \ (spoilt \cup lost) :
            /\ s \in requested => Holds(output[s], written[s])
            /\ DcApi => Holds(dc[s], written[s])

\* A task runs one whole script, the one that was chosen in this launch, though
\* the slot directory may hold a half-written gw_tmp.sh of an earlier launch; it
\* never sees an archive unpacked by halves; and it gets the arguments of the
\* launcher, but for the name of its script.
RunsWholeScript ==
    /\ ran # None /\ ran.script # None => ran.script = script /\ ran.script \in readable
    /\ ran # None /\ ran.script # None /\ "zip" \in readable => ran.unpacked = "all"
    /\ ran # None =>
                  \/ ran.args = argv /\ (argv = <<>> \/ argv[1] # script)
                  \/ <<script>> \o ran.args = argv

\* A launch whose preparation fails is finished with EXIT_FAILURE, and nothing
\* of it was run; a launch with a task is finished with the task's status.
FailureReported ==
    pc = "finished" => (status = ExitFailure <=> ran = None)

\* Whatever is interrupted and whatever fails, the work unit gets finished.
GetsFinished == <>(pc = "finished")
=============================================================================
