--------------------------- MODULE LauncherProofs ---------------------------
(***************************************************************************)
(* Proofs about Launcher, for every value of its constants.                *)
(***************************************************************************)
EXTENDS Launcher, TLAPS

USE LauncherAssumption, NoneAssumption

(***************************************************************************)
(* The applet writes percentages only, whatever its argument.              *)
(***************************************************************************)
LEMMA ClampInRange ==
    ASSUME NEW n \in Int
    PROVE  Clamp(n) \in 0..100
BY DEF Clamp

LEMMA WritableInRange == Writable \subseteq 0..100
<1>1. ASSUME NEW t \in FractionArgs
      PROVE  ToPercent(t) \subseteq Int
  <2>1. t \in Int
    OBVIOUS
  <2>2. t \div 10 \in Int /\ (-t) \div 10 \in Int
    BY <2>1
  <2> QED
    BY <2>1, <2>2 DEF ToPercent
<1>2. QED
  BY <1>1, ClampInRange DEF Writable

(***************************************************************************)
(* What the kernel does to a group keeps the states of processes legal.    *)
(***************************************************************************)
ProcStates == {"none", "running", "stopped", "zombie", "gone"}

LEMMA SignalsKeepStates ==
    ASSUME proc \in [Procs -> ProcStates]
    PROVE  /\ Stopped \in [Procs -> ProcStates]
           /\ Continued \in [Procs -> ProcStates]
           /\ Killed \in [Procs -> ProcStates]
           /\ \A before : HungUp(before) \subseteq [Procs -> ProcStates]
BY DEF Stopped, Continued, Killed, HungUp, Alive, Running, ProcStates

(***************************************************************************)
(* Type correctness.                                                       *)
(***************************************************************************)
LEMMA TypeInit == Init => TypeOK
<1> SUFFICES ASSUME Init
             PROVE  TypeOK
  OBVIOUS
<1>5. suspended \in BOOLEAN /\ shm \in BOOLEAN /\ wantSuspend \in BOOLEAN
  BY DEF Init
<1>0. /\ wallTime \in 0..MaxWall /\ finalTime \in 0..MaxWall
      /\ sends \in 0..(FinalRepeats + 1) /\ runs \in 1..MaxRuns
  BY DEF Init
<1>1. LauncherTypeOK
  BY <1>5, <1>0 DEF Init, LauncherTypeOK
<1>2. ScriptTypeOK
  BY DEF Init, ScriptTypeOK
<1>3. ClientTypeOK
  BY <1>5, <1>0 DEF Init, ClientTypeOK
<1>4. HistoryTypeOK
  BY DEF Init, HistoryTypeOK
<1> QED
  BY <1>1, <1>2, <1>3, <1>4 DEF TypeOK

(***************************************************************************)
(* A part of the state that a step leaves alone keeps its types.           *)
(***************************************************************************)
LEMMA TypesUnchanged ==
    /\ LauncherTypeOK /\ UNCHANGED launcherVars => LauncherTypeOK'
    /\ ScriptTypeOK /\ UNCHANGED scriptVars => ScriptTypeOK'
    /\ ClientTypeOK /\ UNCHANGED clientVars => ClientTypeOK'
    /\ HistoryTypeOK /\ UNCHANGED historyVars => HistoryTypeOK'
<1>1. LauncherTypeOK /\ UNCHANGED launcherVars => LauncherTypeOK'
  BY DEF LauncherTypeOK, launcherVars
<1>2. ScriptTypeOK /\ UNCHANGED scriptVars => ScriptTypeOK'
  BY DEF ScriptTypeOK, scriptVars
<1>3. ClientTypeOK /\ UNCHANGED clientVars => ClientTypeOK'
  BY DEF ClientTypeOK, clientVars
<1>4. HistoryTypeOK /\ UNCHANGED historyVars => HistoryTypeOK'
  BY DEF HistoryTypeOK, historyVars
<1> QED
  BY <1>1, <1>2, <1>3, <1>4

LEMMA LauncherTypes == TypeOK /\ LauncherNext => TypeOK'
<1> SUFFICES ASSUME TypeOK, LauncherNext
             PROVE  TypeOK'
  OBVIOUS
<1> USE TypesUnchanged DEF TypeOK
<1>1. CASE StartTask
  <2>1. LauncherTypeOK'
    BY <1>1 DEF StartTask, LauncherTypeOK
  <2>2. ScriptTypeOK'
    BY <1>1 DEF StartTask, ScriptTypeOK
  <2>3. HistoryTypeOK'
    BY <1>1 DEF StartTask, HistoryTypeOK
  <2> QED
    BY <1>1, <2>1, <2>2, <2>3 DEF StartTask
<1>2. CASE ForkFails
  <2>1. LauncherTypeOK'
    BY <1>2 DEF ForkFails, LauncherTypeOK, Results
  <2> QED
    BY <1>2, <2>1 DEF ForkFails
<1>3. CASE PollEnded
  <2>1. status' \in Results \cup {None}
    BY <1>3 DEF PollEnded, ReapedStatus, Results, Statuses, LauncherTypeOK,
                ScriptTypeOK
  <2>2. fracDone' \in 0..100
    BY <1>3 DEF PollEnded, RaiseFraction, ReadFraction, LauncherTypeOK, ScriptTypeOK
  <2>3. LauncherTypeOK'
    BY <1>3, <2>1, <2>2 DEF PollEnded, LauncherTypeOK
  <2>4. ScriptTypeOK'
    BY <1>3 DEF PollEnded, ScriptTypeOK
  <2>5. ClientTypeOK'
    BY <1>3, <2>2 DEF PollEnded, Send, Message, Messages, ClientTypeOK
  <2> QED
    BY <1>3, <2>3, <2>4, <2>5 DEF PollEnded
<1>4. CASE PollRunning
  <2>1. LauncherTypeOK'
    BY <1>4 DEF PollRunning, RaiseFraction, ReadFraction, LauncherTypeOK, ScriptTypeOK
  <2>2. ClientTypeOK'
    BY <1>4, <2>1 DEF PollRunning, Send, Message, Messages, LauncherTypeOK, ClientTypeOK
  <2> QED
    BY <1>4, <2>1, <2>2 DEF PollRunning
<1>5. CASE Control
  <2> USE DEF LauncherTypeOK, ScriptTypeOK, HistoryTypeOK, ProcStates
  <2>1. CASE ControlKill
    BY <2>1, SignalsKeepStates DEF ControlKill
  <2>2. CASE ControlStop
    BY <2>2, SignalsKeepStates DEF ControlStop
  <2>3. CASE ControlResume
    BY <2>3, SignalsKeepStates DEF ControlResume
  <2>4. CASE ControlKeep
    BY <2>4 DEF ControlKeep
  <2> QED
    BY <1>5, <2>1, <2>2, <2>3, <2>4 DEF Control
<1>6. CASE Finish
  <2>1. CASE FinalSend
    <3>1. LauncherTypeOK'
      BY <2>1 DEF FinalSend, MoreToSend, LauncherTypeOK
    <3>2. ClientTypeOK'
      BY <2>1 DEF FinalSend, FinalFraction, Send, Message, Messages,
                  LauncherTypeOK, ClientTypeOK
    <3> QED
      BY <2>1, <3>1, <3>2 DEF FinalSend
  <2>2. CASE BoincFinish
    BY <2>2 DEF BoincFinish, LauncherTypeOK
  <2> QED
    BY <1>6, <2>1, <2>2 DEF Finish
<1> QED
  BY <1>1, <1>2, <1>3, <1>4, <1>5, <1>6 DEF LauncherNext, Launch, Poll

LEMMA ScriptTypes == TypeOK /\ ScriptNext => TypeOK'
<1> SUFFICES ASSUME TypeOK, ScriptNext
             PROVE  TypeOK'
  OBVIOUS
<1> USE TypesUnchanged DEF TypeOK
<1>1. CASE JoinGroup \/ ExecScript
  BY <1>1 DEF JoinGroup, ExecScript, ScriptTypeOK
<1>2. CASE ExecFails
  BY <1>2 DEF ExecFails, LeaderEnds, Statuses, ScriptTypeOK, HistoryTypeOK
<1>3. CASE LeaderKilled
  <2>1. proc' \in [Procs -> ProcStates]
    BY <1>3, SignalsKeepStates DEF LeaderKilled, ProcStates, ScriptTypeOK
  <2>2. ScriptTypeOK'
    BY <1>3, <2>1 DEF LeaderKilled, LeaderEnds, Statuses, ProcStates, ScriptTypeOK
  <2> QED
    BY <1>3, <2>2 DEF LeaderKilled, LeaderEnds, HistoryTypeOK
<1>4. ASSUME NEW b \in Background, Spawn(b) \/ BackgroundExit(b)
      PROVE  TypeOK'
  BY <1>4 DEF Spawn, BackgroundExit, ScriptTypeOK
<1>5. ASSUME NEW code \in ExitCodes, ScriptExit(code)
      PROVE  TypeOK'
  BY <1>5 DEF ScriptExit, LeaderEnds, Statuses, ScriptTypeOK, HistoryTypeOK
<1>6. ASSUME NEW p \in Procs, CloseFraction(p)
      PROVE  TypeOK'
  BY <1>6 DEF CloseFraction, Higher, ScriptTypeOK, HistoryTypeOK
<1>7. ASSUME NEW p \in Procs, NEW v \in Writable, OpenFraction(p, v)
      PROVE  TypeOK'
  BY <1>7, WritableInRange DEF OpenFraction, ScriptTypeOK
<1>8. ASSUME NEW content \in Writable \cup {None}, SurvivorWrites(content)
      PROVE  TypeOK'
  BY <1>8, WritableInRange DEF SurvivorWrites, Higher, ScriptTypeOK, HistoryTypeOK
<1>9. CASE SurvivorsEnd
  BY <1>9 DEF SurvivorsEnd, ScriptTypeOK
<1> QED
  BY <1>1, <1>2, <1>3, <1>4, <1>5, <1>6, <1>7, <1>8, <1>9
     DEF ScriptNext, LeaderNext

LEMMA ClientTypes == TypeOK /\ ClientNext => TypeOK'
<1> SUFFICES ASSUME TypeOK, ClientNext
             PROVE  TypeOK'
  OBVIOUS
<1> USE TypesUnchanged DEF TypeOK, ClientTypeOK
<1>1. CASE SuspendOrResume
  BY <1>1 DEF SuspendOrResume
<1>2. ASSUME NEW request \in KillRequests, RequestKill(request)
      PROVE  TypeOK'
  BY <1>2 DEF RequestKill
<1>3. CASE TakeMessage
  BY <1>3 DEF TakeMessage
<1>4. CASE Crash
  BY <1>4, SignalsKeepStates
     DEF Crash, ProcStates, LauncherTypeOK, ScriptTypeOK, HistoryTypeOK
<1>5. CASE Restart
  <2>1. LauncherTypeOK'
    BY <1>5 DEF Restart, LauncherTypeOK
  <2>2. ScriptTypeOK'
    BY <1>5 DEF Restart, ScriptTypeOK
  <2>3. ClientTypeOK'
    <3>1. runs' \in 1..MaxRuns
      BY <1>5 DEF Restart
    <3>2. wantSuspend' \in BOOLEAN /\ shm' = shm
      BY <1>5 DEF Restart
    <3> QED
      BY <1>5, <3>1, <3>2 DEF Restart
  <2>4. HistoryTypeOK'
    BY <1>5 DEF Restart, HistoryTypeOK
  <2> QED
    BY <2>1, <2>2, <2>3, <2>4
<1> QED
  BY <1>1, <1>2, <1>3, <1>4, <1>5 DEF ClientNext

(***************************************************************************)
(* Every behaviour of Launcher keeps every variable in its type.           *)
(***************************************************************************)
THEOREM TypeCorrect == Spec => []TypeOK
<1>1. TypeOK /\ [Next]_vars => TypeOK'
  BY TypesUnchanged, LauncherTypes, ScriptTypes, ClientTypes DEF Next, vars, TypeOK
<1> QED
  BY <1>1, TypeInit, PTL DEF Spec

-----------------------------------------------------------------------------
(***************************************************************************)
(* Control of the process group.                                           *)
(***************************************************************************)

\* The signals do to every process what they should.
LEMMA SignalEffects ==
    ASSUME ScriptTypeOK
    PROVE  \A p \in Procs :
               /\ Stopped[p] # "running"
               /\ Continued[p] # "stopped"
               /\ Killed[p] \notin {"running", "stopped"}
BY DEF Stopped, Continued, Killed, Alive, Running, ScriptTypeOK

LEMMA HangUpWakes ==
    ASSUME NEW before, NEW after \in HungUp(before), NEW p \in Procs
    PROVE  after[p] # "stopped"
BY DEF HungUp

LEMMA LeaderInProcs == Leader \in Procs
BY DEF Procs

\* A step that changes neither the processes nor what the launcher thinks of
\* them keeps the invariant.
LEMMA ControlUnchanged ==
    ASSUME ControlInv, UNCHANGED <<pc, suspended, missed, proc, stage>>
    PROVE  ControlInv'
BY DEF ControlInv, SuspendedMeansStopped, NobodyLeftStopped, ExitLeavesNobody,
       Supervising, Alive, Running, InGroup

LEMMA ControlByLauncher == TypeOK /\ ControlInv /\ LauncherNext => ControlInv'
<1> SUFFICES ASSUME TypeOK, ControlInv, LauncherNext
             PROVE  ControlInv'
  OBVIOUS
<1> USE LeaderInProcs DEF TypeOK, ControlInv, SuspendedMeansStopped, NobodyLeftStopped,
        ExitLeavesNobody, Supervising, Alive, Running, InGroup
<1>1. CASE StartTask
  BY <1>1 DEF StartTask, ScriptTypeOK
<1>2. CASE ForkFails
  BY <1>2 DEF ForkFails, scriptVars, historyVars
<1>3. CASE PollEnded
  BY <1>3 DEF PollEnded, Reapable, historyVars, ScriptTypeOK
<1>4. CASE PollRunning
  BY <1>4 DEF PollRunning, scriptVars, historyVars
<1>5. CASE ControlKill
  BY <1>5, SignalEffects DEF ControlKill
<1>6. CASE ControlStop
  BY <1>6, SignalEffects DEF ControlStop
<1>7. CASE ControlResume
  BY <1>7, SignalEffects DEF ControlResume
<1>8. CASE ControlKeep
  BY <1>8 DEF ControlKeep, scriptVars, historyVars
<1>9. CASE FinalSend
  BY <1>9, ControlUnchanged DEF FinalSend, scriptVars, historyVars
<1>10. CASE BoincFinish
  BY <1>10 DEF BoincFinish, scriptVars, historyVars
<1> QED
  BY <1>1, <1>2, <1>3, <1>4, <1>5, <1>6, <1>7, <1>8, <1>9, <1>10
     DEF LauncherNext, Launch, Poll, Control, Finish

LEMMA ControlByScript == TypeOK /\ ControlInv /\ ScriptNext => ControlInv'
<1> SUFFICES ASSUME TypeOK, ControlInv, ScriptNext
             PROVE  ControlInv'
  OBVIOUS
<1> USE LeaderInProcs, ControlUnchanged DEF launcherVars, historyVars
<1> USE DEF TypeOK, ScriptTypeOK, ControlInv, SuspendedMeansStopped, NobodyLeftStopped,
        ExitLeavesNobody, Supervising, Alive, Running, InGroup
<1>1. CASE JoinGroup \/ ExecScript
  BY <1>1 DEF JoinGroup, ExecScript
<1>2. CASE ExecFails
  BY <1>2 DEF ExecFails, LeaderEnds
<1>3. CASE LeaderKilled
  <2>1. CASE InGroup
    <3>1. proc' \in HungUp([proc EXCEPT ![Leader] = "zombie"])
      BY <1>3, <2>1 DEF LeaderKilled
    <3>2. \A p \in Procs : proc'[p] # "stopped"
      BY <3>1, HangUpWakes
    <3>3. proc'[Leader] = "zombie"
      BY <3>1 DEF HungUp
    <3> QED
      BY <1>3, <2>1, <3>2, <3>3 DEF LeaderKilled, LeaderEnds
  <2>2. CASE ~InGroup
    BY <1>3, <2>2 DEF LeaderKilled, LeaderEnds
  <2> QED
    BY <2>1, <2>2
<1>4. ASSUME NEW b \in Background, Spawn(b)
      PROVE  ControlInv'
  BY <1>4 DEF Spawn, InScript
<1>5. ASSUME NEW b \in Background, BackgroundExit(b)
      PROVE  ControlInv'
  BY <1>5 DEF BackgroundExit, InScript
<1>6. ASSUME NEW code \in ExitCodes, ScriptExit(code)
      PROVE  ControlInv'
  BY <1>6 DEF ScriptExit, LeaderEnds, InScript
<1>7. ASSUME NEW p \in Procs, CloseFraction(p)
      PROVE  ControlInv'
  BY <1>7 DEF CloseFraction
<1>8. ASSUME NEW p \in Procs, NEW v \in Writable, OpenFraction(p, v)
      PROVE  ControlInv'
  BY <1>8 DEF OpenFraction
<1>9. ASSUME NEW content \in Writable \cup {None}, SurvivorWrites(content)
       PROVE  ControlInv'
  BY <1>9 DEF SurvivorWrites
<1>10. CASE SurvivorsEnd
  BY <1>10 DEF SurvivorsEnd
<1> QED
  BY <1>1, <1>2, <1>3, <1>4, <1>5, <1>6, <1>7, <1>8, <1>9, <1>10
     DEF ScriptNext, LeaderNext

LEMMA ControlByClient == TypeOK /\ ControlInv /\ ClientNext => ControlInv'
<1> SUFFICES ASSUME TypeOK, ControlInv, ClientNext
             PROVE  ControlInv'
  OBVIOUS
<1> USE ControlUnchanged DEF launcherVars, scriptVars, historyVars
<1>1. CASE SuspendOrResume
  BY <1>1 DEF SuspendOrResume
<1>2. ASSUME NEW request \in KillRequests, RequestKill(request)
      PROVE  ControlInv'
  BY <1>2 DEF RequestKill
<1>3. CASE TakeMessage
  BY <1>3 DEF TakeMessage
<1>4. CASE Crash
  <2>1. ~InGroup' => \A p \in Procs : proc'[p] # "stopped"
    BY <1>4 DEF Crash, ControlInv, InGroup
  <2> QED
    BY <1>4, <2>1 DEF Crash, ControlInv, SuspendedMeansStopped, NobodyLeftStopped,
       ExitLeavesNobody, Supervising
<1>5. CASE Restart
  BY <1>5 DEF Restart, ControlInv, SuspendedMeansStopped, NobodyLeftStopped,
     ExitLeavesNobody, Supervising, InGroup
<1> QED
  BY <1>1, <1>2, <1>3, <1>4, <1>5 DEF ClientNext

(***************************************************************************)
(* With any number of background processes, requests, crashes and          *)
(* restarts, the launcher's idea of the task is the state the task is in:  *)
(* suspended means stopped, not suspended means nobody is left stopped, and *)
(* leaving by exit(0) means nobody is left at all, but for the signals in  *)
(* `missed'.                                                               *)
(***************************************************************************)
LEMMA ControlInvariant == Spec => []ControlInv
<1>1. Init => ControlInv
  BY DEF Init, ControlInv, SuspendedMeansStopped, NobodyLeftStopped, ExitLeavesNobody,
         Supervising
<1>2. TypeOK /\ ControlInv /\ [Next]_vars => ControlInv'
  BY ControlByLauncher, ControlByScript, ControlByClient, ControlUnchanged
     DEF Next, vars, launcherVars, scriptVars, historyVars
<1> QED
  BY <1>1, <1>2, TypeCorrect, PTL DEF Spec

THEOREM SuspendedTaskIsStopped == Spec => []SuspendedMeansStopped
BY ControlInvariant, PTL DEF ControlInv

THEOREM ResumedTaskIsNotStopped == Spec => []NobodyLeftStopped
BY ControlInvariant, PTL DEF ControlInv

THEOREM KilledTaskIsGone == Spec => []ExitLeavesNobody
BY ControlInvariant, PTL DEF ControlInv

-----------------------------------------------------------------------------
(***************************************************************************)
(* The progress reported was made.                                         *)
(***************************************************************************)
LEMMA EarnedStep == TypeOK /\ EarnedInv /\ [Next]_vars => EarnedInv'
<1> SUFFICES ASSUME TypeOK, EarnedInv, [Next]_vars
             PROVE  EarnedInv'
  OBVIOUS
<1> USE DEF TypeOK, EarnedInv, FractionEarned, LauncherTypeOK, ScriptTypeOK, HistoryTypeOK,
        launcherVars, scriptVars, historyVars
<1>1. CASE Launch
  BY <1>1 DEF Launch, StartTask, ForkFails
<1>2. CASE Poll
  BY <1>2 DEF Poll, PollEnded, PollRunning, RaiseFraction, ReadFraction
<1>3. CASE Control
  BY <1>3 DEF Control, ControlKill, ControlStop, ControlResume, ControlKeep
<1>4. CASE Finish
  BY <1>4 DEF Finish, FinalSend, BoincFinish
<1>5. CASE LeaderNext
  BY <1>5 DEF LeaderNext, JoinGroup, ExecScript, ExecFails, LeaderKilled, Spawn, ScriptExit,
              LeaderEnds
<1>6. CASE \E b \in Background : BackgroundExit(b)
  BY <1>6 DEF BackgroundExit
<1>7. ASSUME NEW p \in Procs, CloseFraction(p)
      PROVE  EarnedInv'
  <2>1. pending[p] \in 0..100
    BY <1>7 DEF CloseFraction
  <2> QED
    BY <1>7, <2>1 DEF CloseFraction, Higher
<1>8. ASSUME NEW p \in Procs, NEW v \in Writable, OpenFraction(p, v)
      PROVE  EarnedInv'
  BY <1>8 DEF OpenFraction
<1>9. ASSUME NEW content \in Writable \cup {None}, SurvivorWrites(content)
      PROVE  EarnedInv'
  BY <1>9, WritableInRange DEF SurvivorWrites, Higher
<1>10. CASE SurvivorsEnd
  BY <1>10 DEF SurvivorsEnd
<1>11. CASE ClientNext
  BY <1>11 DEF ClientNext, SuspendOrResume, RequestKill, TakeMessage, Crash, Restart
<1>12. CASE UNCHANGED vars
  BY <1>12 DEF vars
<1> QED
  BY <1>1, <1>2, <1>3, <1>4, <1>5, <1>6, <1>7, <1>8, <1>9, <1>10, <1>11, <1>12
     DEF Next, LauncherNext, ScriptNext

(***************************************************************************)
(* Whatever is written to fraction_done.txt, by whom and when, the launcher *)
(* never believes in more progress than a script has reported.             *)
(***************************************************************************)
THEOREM ProgressIsEarned == Spec => []FractionEarned
<1>1. Init => EarnedInv
  BY DEF Init, EarnedInv, FractionEarned
<1>2. EarnedInv => FractionEarned
  BY DEF EarnedInv
<1> QED
  BY <1>1, <1>2, EarnedStep, TypeCorrect, PTL DEF Spec

-----------------------------------------------------------------------------
(***************************************************************************)
(* The order of the reports.                                               *)
(***************************************************************************)
LEMMA ReportsUnchanged ==
    ASSUME ReportsOrdered, UNCHANGED <<channel, told>>,
           pc' = "start" => pc = "start",
           Supervising' => /\ Supervising
                           /\ fracDone' >= fracDone /\ wallTime' >= wallTime
                           /\ fracDone \in Int /\ fracDone' \in Int
                           /\ wallTime \in Int /\ wallTime' \in Int,
           ClientTypeOK
    PROVE  ReportsOrdered'
BY DEF ReportsOrdered, Supervising, ClientTypeOK, Messages, FinalFraction

LEMMA ScriptFrame == ScriptNext => UNCHANGED <<launcherVars, clientVars>>
BY DEF ScriptNext, LeaderNext, JoinGroup, ExecScript, ExecFails, LeaderKilled, Spawn,
       ScriptExit, LeaderEnds, BackgroundExit, CloseFraction, OpenFraction,
       SurvivorWrites, SurvivorsEnd, scriptVars

\* A message put into the empty slot is newer than what the client has.
LEMMA ReportsExtended ==
    ASSUME TypeOK, ReportsOrdered, channel = None, told' = told,
           NEW kind \in {"running", "ended", "final"},
           NEW cpu \in 0..MaxWall, NEW frac \in (0..100) \cup {FinalFraction},
           channel' = Message(kind, cpu, frac),
           pc' # "start",
           told # None => frac >= told.frac,
           (told # None /\ kind = "running") => cpu >= told.cpu,
           Supervising' => /\ kind = "running"
                           /\ frac <= fracDone' /\ cpu <= wallTime'
                           /\ told # None => /\ told.kind = "running"
                                             /\ told.frac <= fracDone'
                                             /\ told.cpu <= wallTime'
    PROVE  ReportsOrdered'
BY DEF ReportsOrdered, Message, TypeOK, ClientTypeOK

LEMMA ReportsStep == TypeOK /\ ReportsOrdered /\ [Next]_vars => ReportsOrdered'
<1> SUFFICES ASSUME TypeOK, ReportsOrdered, [Next]_vars
             PROVE  ReportsOrdered'
  OBVIOUS
<1> USE ReportsUnchanged DEF TypeOK, LauncherTypeOK, clientVars, launcherVars
<1>1. CASE Launch
  BY <1>1 DEF Launch, StartTask, ForkFails, ReportsOrdered, Supervising
<1>2. CASE Poll
  <2>1. /\ fracDone' \in 0..100 /\ fracDone' >= fracDone
        /\ wallTime' \in 0..MaxWall /\ wallTime' >= wallTime
        /\ finalTime' \in 0..MaxWall
    BY <1>2 DEF Poll, PollEnded, PollRunning, RaiseFraction, ReadFraction, ScriptTypeOK
  <2>2. told # None => /\ told.kind = "running"
                       /\ told.frac \in Int /\ told.cpu \in Int
                       /\ told.frac <= fracDone /\ told.cpu <= wallTime
    BY <1>2 DEF Poll, PollEnded, PollRunning, ReportsOrdered, Supervising, ClientTypeOK,
                Messages, FinalFraction
  <2>3. CASE channel' = channel
    BY <1>2, <2>1, <2>3 DEF Poll, PollEnded, PollRunning, Supervising
  <2>4. CASE PollEnded /\ channel' # channel
    <3>1. channel = None /\ channel' = Message("ended", finalTime', fracDone')
      BY <2>4 DEF PollEnded, Send
    <3>2. ~Supervising' /\ pc' # "start" /\ told' = told
      BY <2>4 DEF PollEnded, Supervising
    <3>3. told # None => fracDone' >= told.frac
      BY <2>1, <2>2
    <3> QED
      BY ONLY TypeOK, ReportsOrdered, <2>1, <3>1, <3>2, <3>3, ReportsExtended
  <2>5. CASE PollRunning /\ channel' # channel
    <3>1. channel = None /\ channel' = Message("running", wallTime', fracDone')
      BY <2>5 DEF PollRunning, Send
    <3>2. pc' = "control" /\ told' = told
      BY <2>5 DEF PollRunning
    <3>3. told # None => /\ fracDone' >= told.frac /\ wallTime' >= told.cpu
                         /\ told.kind = "running"
      <4>1. fracDone \in Int /\ wallTime \in Int
        OBVIOUS
      <4>2. fracDone' \in Int /\ wallTime' \in Int
        BY <2>1
      <4> QED
        BY ONLY <2>1, <2>2, <4>1, <4>2
    <3>4. PICK cpu \in 0..MaxWall, frac \in 0..100 : cpu = wallTime' /\ frac = fracDone'
      BY <2>1
    <3>5. channel' = Message("running", cpu, frac)
      BY <3>1, <3>4
    <3>6. frac <= fracDone' /\ cpu <= wallTime'
      BY <3>4
    <3>7. told # None => /\ frac >= told.frac /\ cpu >= told.cpu
                         /\ told.kind = "running"
                         /\ told.frac <= fracDone' /\ told.cpu <= wallTime'
      BY <2>2, <3>3, <3>4
    <3> QED
      BY ONLY TypeOK, ReportsOrdered, <3>1, <3>2, <3>5, <3>6, <3>7, ReportsExtended
  <2> QED
    BY <1>2, <2>3, <2>4, <2>5 DEF Poll
<1>4. CASE Control
  BY <1>4 DEF Control, ControlKill, ControlStop, ControlResume, ControlKeep, Supervising
<1>5. CASE FinalSend
  <2>1. CASE channel' = channel
    BY <1>5, <2>1 DEF FinalSend, Supervising
  <2>2. CASE channel' # channel
    <3>1. channel = None /\ channel' = Message("final", finalTime, FinalFraction)
      BY <1>5, <2>2 DEF FinalSend, Send
    <3>2. told # None => told.frac <= FinalFraction
      BY DEF ClientTypeOK, Messages, FinalFraction
    <3> QED
      BY <1>5, <3>1, <3>2, ReportsExtended DEF FinalSend, Supervising
  <2> QED
    BY <2>1, <2>2
<1>6. CASE BoincFinish
  BY <1>6 DEF BoincFinish, Supervising
<1>7. CASE ScriptNext
  BY <1>7, ScriptFrame DEF Supervising
<1>8. CASE ClientNext
  <2>1. CASE SuspendOrResume \/ Crash \/ \E request \in KillRequests : RequestKill(request)
    BY <2>1 DEF SuspendOrResume, Crash, RequestKill, Supervising
  <2>2. CASE TakeMessage
    BY <2>2 DEF TakeMessage, ReportsOrdered, Supervising
  <2>3. CASE Restart
    BY <2>3 DEF Restart, ReportsOrdered, Supervising
  <2> QED
    BY <1>8, <2>1, <2>2, <2>3 DEF ClientNext
<1>9. CASE UNCHANGED vars
  BY <1>9 DEF vars, Supervising
<1> QED
  BY <1>1, <1>2, <1>4, <1>5, <1>6, <1>7, <1>8, <1>9
     DEF Next, LauncherNext, Finish

(***************************************************************************)
(* What the client learns of one run never goes back.                      *)
(***************************************************************************)
THEOREM ProgressIsMonotone == Spec => ProgressNeverDrops
<1>1. Init => ReportsOrdered
  BY DEF Init, ReportsOrdered, Supervising
<1>2. TypeOK /\ ReportsOrdered /\ [Next]_vars =>
        [(told # None /\ told' # None) =>
           /\ told'.frac >= told.frac
           /\ told'.kind = "running" => told'.cpu >= told.cpu]_vars
  <2> SUFFICES ASSUME TypeOK, ReportsOrdered, Next, told # None, told' # None
               PROVE  /\ told'.frac >= told.frac
                      /\ told'.kind = "running" => told'.cpu >= told.cpu
    BY DEF vars
  <2>1. told \in Messages /\ told.frac \in Int /\ told.cpu \in Int
    BY DEF TypeOK, ClientTypeOK, Messages, FinalFraction
  <2>2. CASE told' = told
    BY <2>1, <2>2
  <2>3. CASE told' # told
    <3>1. TakeMessage
      BY <2>3, ScriptFrame
         DEF Next, LauncherNext, Launch, StartTask, ForkFails, Poll, PollEnded, PollRunning,
             Control, ControlKill, ControlStop, ControlResume, ControlKeep, Finish, FinalSend,
             BoincFinish, ClientNext, SuspendOrResume, RequestKill, Crash, Restart, clientVars
    <3>2. channel \in Messages /\ channel.frac \in Int /\ channel.cpu \in Int
      BY <3>1 DEF TakeMessage, TypeOK, ClientTypeOK, Messages, FinalFraction
    <3> QED
      BY <2>1, <3>1, <3>2 DEF TakeMessage, ReportsOrdered
  <2> QED
    BY <2>2, <2>3
<1> QED
  BY <1>1, <1>2, ReportsStep, TypeCorrect, PTL DEF Spec, ProgressNeverDrops

-----------------------------------------------------------------------------
(***************************************************************************)
(* The verdict on a work unit.                                             *)
(***************************************************************************)
LEMMA VerdictUnchanged ==
    ASSUME VerdictInv, UNCHANGED <<status, proc, stage, exitStatus>>,
           pc' # "start", pc' = pc \/ pc' = "exited" \/ (Supervising /\ Supervising')
                          \/ (pc = "final" /\ pc' = "finished")
    PROVE  VerdictInv'
BY DEF VerdictInv, Supervising, NeverStarted, ReapedStatus, Alive

\* A step of the living leader: only before the launcher has left its loop, or
\* after the launcher is gone.
LEMMA VerdictByLeader ==
    ASSUME VerdictInv, Alive(Leader), UNCHANGED <<pc, status>>,
           \/ UNCHANGED <<proc, exitStatus>> /\ stage' # "none"
           \/ /\ proc'[Leader] = "zombie" /\ exitStatus' \in Statuses
              /\ stage' = stage
    PROVE  VerdictInv'
BY DEF VerdictInv, NeverStarted, Alive, Supervising

LEMMA VerdictByScript == TypeOK /\ VerdictInv /\ ScriptNext => VerdictInv'
<1> SUFFICES ASSUME TypeOK, VerdictInv, ScriptNext
             PROVE  VerdictInv'
  OBVIOUS
<1> USE LeaderInProcs, VerdictByLeader DEF TypeOK, ScriptTypeOK, scriptVars, Running, InScript
<1>1. UNCHANGED <<pc, status>>
  BY ScriptFrame DEF launcherVars
<1>2. CASE JoinGroup \/ ExecScript
  BY <1>1, <1>2 DEF JoinGroup, ExecScript, Alive
<1>3. CASE ExecFails
  BY <1>1, <1>3 DEF ExecFails, LeaderEnds, Alive, Statuses
<1>4. CASE LeaderKilled
  <2>1. proc'[Leader] = "zombie"
    <3>1. CASE InGroup
      BY <1>4, <3>1 DEF LeaderKilled, HungUp
    <3>2. CASE ~InGroup
      BY <1>4, <3>2 DEF LeaderKilled
    <3> QED
      BY <3>1, <3>2
  <2> QED
    BY <1>1, <1>4, <2>1 DEF LeaderKilled, LeaderEnds, Statuses
<1>5. ASSUME NEW code \in ExitCodes, ScriptExit(code)
      PROVE  VerdictInv'
  BY <1>1, <1>5 DEF LeaderEnds, ScriptExit, Alive, Statuses
<1>6. ASSUME NEW b \in Background, Spawn(b) \/ BackgroundExit(b)
      PROVE  VerdictInv'
  <2>1. proc'[Leader] = proc[Leader] /\ UNCHANGED <<stage, exitStatus>>
    BY <1>6 DEF Spawn, BackgroundExit, Procs
  <2> QED
    BY <1>1, <2>1 DEF VerdictInv, NeverStarted, Alive, ReapedStatus, Supervising
<1>7. ASSUME UNCHANGED <<proc, stage, exitStatus>>
      PROVE  VerdictInv'
  BY <1>1, <1>7 DEF VerdictInv, NeverStarted, Alive, ReapedStatus, Supervising
<1> QED
  BY <1>2, <1>3, <1>4, <1>5, <1>6, <1>7
     DEF ScriptNext, LeaderNext, CloseFraction, OpenFraction, SurvivorWrites, SurvivorsEnd

LEMMA VerdictStep == TypeOK /\ VerdictInv /\ [Next]_vars => VerdictInv'
<1> SUFFICES ASSUME TypeOK, VerdictInv, [Next]_vars
             PROVE  VerdictInv'
  OBVIOUS
<1> USE LeaderInProcs, VerdictUnchanged DEF TypeOK, scriptVars, clientVars, Supervising
<1>1. CASE StartTask
  BY <1>1 DEF StartTask, VerdictInv, NeverStarted, ScriptTypeOK
<1>2. CASE ForkFails
  BY <1>2 DEF ForkFails, VerdictInv, NeverStarted, Alive
<1>3. CASE PollEnded
  BY <1>3 DEF PollEnded, VerdictInv, NeverStarted, Alive, Reapable, InGroup, ReapedStatus,
              ScriptTypeOK
<1>4. CASE PollRunning
  BY <1>4 DEF PollRunning
<1>5. CASE Control
  <2>1. CASE ControlKeep
    BY <2>1 DEF ControlKeep
  <2>2. CASE ControlKill
    BY <2>2 DEF ControlKill, VerdictInv, NeverStarted, Alive, Killed, ScriptTypeOK, InGroup
  <2>3. CASE ControlStop
    BY <2>3 DEF ControlStop, VerdictInv, NeverStarted, Alive, Running, Stopped, ScriptTypeOK,
                InGroup
  <2>4. CASE ControlResume
    BY <2>4 DEF ControlResume, VerdictInv, NeverStarted, Alive, Continued, ScriptTypeOK, InGroup
  <2> QED
    BY <1>5, <2>1, <2>2, <2>3, <2>4 DEF Control
<1>6. CASE FinalSend
  BY <1>6 DEF FinalSend
<1>7. CASE BoincFinish
  BY <1>7 DEF BoincFinish
<1>8. CASE ScriptNext
  BY <1>8, VerdictByScript
<1>9. CASE ClientNext
  <2>1. CASE SuspendOrResume \/ TakeMessage \/ \E request \in KillRequests : RequestKill(request)
    BY <2>1 DEF SuspendOrResume, TakeMessage, RequestKill, VerdictInv, launcherVars,
                NeverStarted, Alive, ReapedStatus
  <2>2. CASE Crash
    <3>1. ASSUME InGroup
          PROVE  proc'[Leader] = proc[Leader] \/ (Alive(Leader) /\ proc'[Leader] \in {"running", "gone"})
      BY <2>2, <3>1 DEF Crash, HungUp, Alive, ScriptTypeOK
    <3> QED
      BY <2>2, <3>1 DEF Crash, VerdictInv, Alive, InGroup, NeverStarted
  <2>3. CASE Restart
    BY <2>3 DEF Restart, VerdictInv, NeverStarted, Alive
  <2> QED
    BY <1>9, <2>1, <2>2, <2>3 DEF ClientNext
<1>10. CASE UNCHANGED vars
  BY <1>10 DEF vars, launcherVars, VerdictInv, NeverStarted, Alive, ReapedStatus
<1> QED
  BY <1>1, <1>2, <1>3, <1>4, <1>5, <1>6, <1>7, <1>8, <1>9, <1>10
     DEF Next, LauncherNext, Launch, Poll, Finish

LEMMA VerdictInvariant == Spec => []VerdictInv
<1>1. Init => VerdictInv
  BY LeaderInProcs DEF Init, VerdictInv, NeverStarted, Supervising, Alive
<1> QED
  BY <1>1, VerdictStep, TypeCorrect, PTL DEF Spec

(***************************************************************************)
(* The abstract state of a step that leaves the verdict's variables alone. *)
(***************************************************************************)
LEMMA AbstractStutter ==
    ASSUME UNCHANGED <<pc, status, stage, exitStatus>>
    PROVE  UNCHANGED Implemented!vars
BY DEF Implemented!vars, NeverStarted

LEMMA NoneIsNoStatus == None \notin Statuses
<1>1. ExitByte(ErrExec) \in Int
  BY DEF ExitByte
<1>2. Signaled \in Int
  BY DEF Signaled
<1>3. ExitCodes \subseteq Int
  OBVIOUS
<1> QED
  BY <1>1, <1>2, <1>3 DEF Statuses

\* The one thing the script does that the promise speaks of: it ends.
LEMMA AbstractScript ==
    TypeOK /\ VerdictInv /\ ScriptNext => [Implemented!Next]_(Implemented!vars)
<1> SUFFICES ASSUME TypeOK, VerdictInv, ScriptNext
             PROVE  [Implemented!Next]_(Implemented!vars)
  OBVIOUS
<1> USE AbstractStutter DEF scriptVars
<1>1. UNCHANGED <<pc, status>>
  BY ScriptFrame DEF launcherVars
<1>2. ASSUME UNCHANGED <<stage, exitStatus>>
      PROVE  UNCHANGED Implemented!vars
  BY <1>1, <1>2
<1>3. CASE JoinGroup \/ ExecScript
  BY <1>1, <1>3 DEF JoinGroup, ExecScript, VerdictInv, NeverStarted, Running, Alive, Supervising,
                    Implemented!vars
<1>4. ASSUME Alive(Leader), UNCHANGED stage, exitStatus' \in Statuses
      PROVE  [Implemented!Next]_(Implemented!vars)
  <2>1. exitStatus = None /\ ~NeverStarted /\ pc \notin {"start", "final", "finished"}
    BY <1>4 DEF VerdictInv, Alive
  <2>2. CASE pc \in {"poll", "control"}
    <3>1. Implemented!ScriptEnds(exitStatus')
      BY <1>1, <1>4, <2>1, <2>2, NoneIsNoStatus DEF Implemented!ScriptEnds
    <3> QED
      BY <1>4, <3>1 DEF Implemented!Next
  <2>3. CASE pc = "exited"
    BY <1>1, <1>4, <2>1, <2>3 DEF Implemented!vars
  <2> QED
    BY <2>1, <2>2, <2>3 DEF TypeOK, LauncherTypeOK
<1>5. CASE ExecFails \/ LeaderKilled
  BY <1>4, <1>5 DEF ExecFails, LeaderKilled, LeaderEnds, Running, Alive, Statuses
<1>6. ASSUME NEW code \in ExitCodes, ScriptExit(code)
      PROVE  [Implemented!Next]_(Implemented!vars)
  BY <1>2, <1>4, <1>6 DEF ScriptExit, LeaderEnds, InScript, Running, Alive, Statuses
<1> QED
  BY <1>2, <1>3, <1>5, <1>6
     DEF ScriptNext, LeaderNext, Spawn, BackgroundExit, CloseFraction, OpenFraction,
         SurvivorWrites, SurvivorsEnd

LEMMA AbstractStep ==
    TypeOK /\ VerdictInv /\ [Next]_vars => [Implemented!Next]_(Implemented!vars)
<1> SUFFICES ASSUME TypeOK, VerdictInv, [Next]_vars
             PROVE  [Implemented!Next]_(Implemented!vars)
  OBVIOUS
<1> USE AbstractStutter DEF scriptVars, clientVars
<1>1. CASE StartTask
  BY <1>1 DEF StartTask, VerdictInv, NeverStarted, Implemented!Next, Implemented!Start, Implemented!vars
<1>2. CASE ForkFails
  BY <1>2 DEF ForkFails, VerdictInv, NeverStarted, Implemented!vars
<1>3. CASE PollEnded
  BY <1>3 DEF PollEnded, VerdictInv, NeverStarted, Supervising, Implemented!vars
<1>4. CASE PollRunning
  BY <1>4 DEF PollRunning, VerdictInv, NeverStarted, Supervising, Implemented!vars
<1>5. CASE ControlKill
  BY <1>5 DEF ControlKill, VerdictInv, Implemented!Next, Implemented!Withdraw, Implemented!vars
<1>6. CASE ControlStop \/ ControlResume \/ ControlKeep
  BY <1>6 DEF ControlStop, ControlResume, ControlKeep, Implemented!vars
<1>7. CASE FinalSend
  BY <1>7 DEF FinalSend
<1>8. CASE BoincFinish
  <2>1. CASE NeverStarted
    BY <1>8, <2>1 DEF BoincFinish, VerdictInv, NeverStarted, Implemented!Next, Implemented!GiveUp,
       Implemented!vars
  <2>2. CASE ~NeverStarted
    <3>1. exitStatus \in Statuses /\ exitStatus # None /\ status = ReapedStatus
      BY <1>8, <2>2, NoneIsNoStatus DEF BoincFinish, VerdictInv
    <3> QED
      BY <1>8, <2>2, <3>1 DEF BoincFinish, ReapedStatus, NeverStarted, Implemented!Next,
         Implemented!Finish, Implemented!vars
  <2> QED
    BY <2>1, <2>2
<1>9. CASE ScriptNext
  BY <1>9, AbstractScript
<1>10. CASE ClientNext
  <2>1. CASE SuspendOrResume \/ TakeMessage \/ \E request \in KillRequests : RequestKill(request)
    BY <2>1 DEF SuspendOrResume, TakeMessage, RequestKill, launcherVars
  <2>2. CASE Crash
    BY <2>2 DEF Crash, VerdictInv, NeverStarted, Ended, Implemented!Next, Implemented!Withdraw, Implemented!vars
  <2>3. CASE Restart
    BY <2>3 DEF Restart, NeverStarted, Implemented!Next, Implemented!Retry, Implemented!vars
  <2> QED
    BY <1>10, <2>1, <2>2, <2>3 DEF ClientNext
<1>11. CASE UNCHANGED vars
  BY <1>11 DEF vars, launcherVars
<1> QED
  BY <1>1, <1>2, <1>3, <1>4, <1>5, <1>6, <1>7, <1>8, <1>9, <1>10, <1>11
     DEF Next, LauncherNext, Launch, Poll, Control, Finish

(***************************************************************************)
(* Whatever happens, the work unit ends with the status of its script, and *)
(* with none before the script has ended.                                  *)
(***************************************************************************)
THEOREM WorkUnitImplemented == Spec => ImplementsWorkUnit
<1>1. Init => Implemented!Init
  BY DEF Init, Implemented!Init
<1> QED
  BY <1>1, AbstractStep, TypeCorrect, VerdictInvariant, PTL
     DEF Spec, ImplementsWorkUnit, Implemented!Spec
=============================================================================
