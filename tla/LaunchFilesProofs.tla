------------------------- MODULE LaunchFilesProofs -------------------------
(***************************************************************************)
(* Proofs about LaunchFiles, for every set of command lines, every number  *)
(* of lines, launches and failures, with DC-API and without.               *)
(***************************************************************************)
EXTENDS LaunchFiles, TLAPS

USE FilesAssumption, NoneAssumption

(***************************************************************************)
(* The inductive invariant.  Streams are followed from the task to the     *)
(* output file: a line is in the task's own file or, if that could not be  *)
(* opened, at the end of the launcher's; what earlier launches left there  *)
(* is told apart by the launch it was written in.                          *)
(***************************************************************************)
Preparing == {"dcfiles", "unzip", "interp", "choose", "write", "run"}
Collecting == {"echoerr", "echoout", "copyout", "copyerr"}
EchoDone(s) == pc \in {"copyout", "copyerr", "finish", "finished"}
                      \cup IF s = "stderr" THEN {"echoout"} ELSE {}
CopyDone(s) == pc \in {"finish", "finished"} \cup IF s = "stdout" THEN {"copyerr"} ELSE {}

Others(lines) == \A i \in 1..Len(lines) : lines[i][1] # launches
NotLater(lines) == \A i \in 1..Len(lines) : lines[i][1] <= launches

\* The lines of this launch are the ones of `new', and they come last.
EndsWith(lines, new) ==
    /\ Len(new) <= Len(lines)
    /\ \A i \in 1..Len(lines) :
          IF i > Len(lines) - Len(new) THEN lines[i] = new[i - (Len(lines) - Len(new))]
                                       ELSE lines[i][1] # launches

Started == ran # None /\ ran.script # None

PhaseInv ==
    /\ pc \in Preparing => ran = None /\ task = "none"
    /\ pc = "task" => ran # None /\ task \in {"forked", "running"}
    /\ pc \in Collecting => ran # None /\ task = "ended" /\ status \in {0, 3, ErrExec}
    /\ pc \in {"finish", "finished"} =>
           /\ (status = ExitFailure) <=> (ran = None)
           /\ task = IF ran = None THEN "none" ELSE "ended"
    /\ pc = "down" => task = "none"

ScriptInv ==
    /\ script # None => script \in readable
    /\ pc \in {"write", "run", "task"} => script # None
    /\ pc \in {"run", "task"} => execScript = script
    /\ pc \in {"interp", "choose", "write", "run", "task"} /\ "zip" \in readable => unpacked = "all"
    /\ task = "forked" => ran.script = None
    /\ task = "running" => Started
    /\ RunsWholeScript

\* Nobody has written in this launch.
UntouchedInv(s) ==
    ~Started => written[s] = <<>> /\ Others(local[s]) /\ (gw[s] # None => Others(gw[s]))

\* The task has been started with a file of its own, or without.
OwnFileInv(s) == Started /\ pc # "down" /\ s \notin direct => gw[s] # None

WrittenInv(s) ==
    Started /\ pc # "down" /\ s \notin spoilt =>
        /\ s \notin direct => gw[s] = written[s]
        /\ s \notin direct /\ ~EchoDone(s) => Others(local[s])
        /\ s \in direct => (gw[s] # None => Others(gw[s]))
        /\ s \in direct /\ ~EchoDone(s) => EndsWith(local[s], written[s])

EchoedInv(s) ==
    EchoDone(s) /\ ran # None /\ s \notin spoilt \cup lost => Holds(local[s], written[s])

CopiedInv(s) ==
    /\ CopyDone(s) /\ ran # None /\ s \in requested \ lost => output[s] = local[s]
    /\ pc = "finished" /\ DcApi => dc[s] = local[s]

StreamInv(s) ==
    /\ NotLater(local[s]) /\ (gw[s] # None => NotLater(gw[s]))
    /\ UntouchedInv(s) /\ OwnFileInv(s) /\ WrittenInv(s) /\ EchoedInv(s) /\ CopiedInv(s)

LinesInv == \A s \in Streams : StreamInv(s)

IInv == TypeOK /\ PhaseInv /\ ScriptInv /\ LinesInv

-----------------------------------------------------------------------------
(***************************************************************************)
(* Operators of the model.                                                 *)
(***************************************************************************)

(* The script chosen is a candidate that can be opened.                    *)
LEMMA ChosenIsReadable ==
    ASSUME argv \in Arguments
    PROVE  LET chosen == FirstReadable(Candidates)
           IN  chosen = None \/ (chosen \in readable /\ chosen \in Scripts)
<1> DEFINE open == {i \in DOMAIN Candidates : Candidates[i] \in readable}
           first == CHOOSE i \in open : \A j \in open : i <= j
<1>1. DOMAIN Candidates \subseteq {1, 2}
  BY DEF Candidates
<1>2. open \subseteq {1, 2}
  BY <1>1
<1>3. ASSUME open # {}
      PROVE  \E i \in open : \A j \in open : i <= j
  <2>1. CASE 1 \in open
    BY <1>2, <2>1
  <2>2. CASE 1 \notin open
    BY <1>2, <1>3, <2>2
  <2> QED
    BY <2>1, <2>2
<1>4. open # {} => first \in open
  BY <1>3
<1>5. \A i \in DOMAIN Candidates : Candidates[i] \in Scripts
  BY DEF Candidates, Scripts
<1> HIDE DEF open, first
<1>6. FirstReadable(Candidates) = IF open = {} THEN None ELSE Candidates[first]
  BY DEF FirstReadable, open, first
<1> QED
  BY <1>4, <1>5, <1>6 DEF open

(* The arguments of the task are those of the launcher, but for the script. *)
LEMMA ArgsWithoutScript ==
    ASSUME argv \in Arguments
    PROVE  /\ TaskArgs \in ArgLists
           /\ \/ TaskArgs = argv /\ (argv = <<>> \/ argv[1] # script)
              \/ <<script>> \o TaskArgs = argv
<1> DEFINE Words == {argv[i] : i \in DOMAIN argv}
<1>1. argv \in Seq(Words)
  OBVIOUS
<1> HIDE DEF Words
<1>2. CASE argv # <<>> /\ argv[1] = script
  <2>1. <<script>> \o Tail(argv) = argv
    BY <1>1, <1>2
  <2> QED
    BY <1>2, <2>1 DEF TaskArgs, ArgLists
<1>3. CASE ~(argv # <<>> /\ argv[1] = script)
  BY <1>3 DEF TaskArgs, ArgLists
<1> QED
  BY <1>2, <1>3

(* What is appended to lines that end with those of this launch.           *)
LEMMA EndsWithAppend ==
    ASSUME NEW lines \in Seq(Lines), NEW new \in Seq(Lines), NEW line \in Lines,
           EndsWith(lines, new)
    PROVE  EndsWith(Append(lines, line), Append(new, line))
BY DEF EndsWith

LEMMA EndsWithNothing ==
    ASSUME NEW lines \in Seq(Lines), Others(lines)
    PROVE  EndsWith(lines, <<>>)
BY DEF EndsWith, Others

LEMMA ConcatHolds ==
    ASSUME NEW lines \in Seq(Lines), NEW new \in Seq(Lines), NEW tail \in Seq(Lines),
           Others(lines), Others(tail)
    PROVE  Holds(lines \o (new \o tail), new)
<1> DEFINE rest == new \o tail
           all == lines \o rest
<1>1. /\ rest \in Seq(Lines) /\ Len(rest) = Len(new) + Len(tail)
      /\ all \in Seq(Lines) /\ Len(all) = Len(lines) + Len(rest)
  OBVIOUS
<1>2. Len(lines) \in 0..(Len(all) - Len(new))
  BY <1>1
<1>3. ASSUME NEW i \in 1..Len(all)
      PROVE  IF i \in (Len(lines) + 1)..(Len(lines) + Len(new))
             THEN all[i] = new[i - Len(lines)] ELSE all[i][1] # launches
  <2>1. CASE i <= Len(lines)
    BY <1>1, <2>1 DEF Others
  <2>2. CASE i > Len(lines)
    <3> DEFINE j == i - Len(lines)
    <3>1. j \in 1..Len(rest) /\ all[i] = rest[j]
      BY <1>1, <2>2
    <3>2. rest[j] = IF j <= Len(new) THEN new[j] ELSE tail[j - Len(new)]
      BY <1>1, <3>1
    <3>3. j > Len(new) => j - Len(new) \in 1..Len(tail)
      BY <1>1, <3>1
    <3> QED
      BY <1>1, <2>2, <3>1, <3>2, <3>3 DEF Others
  <2> QED
    BY <2>1, <2>2
<1> QED
  BY <1>2, <1>3 DEF Holds

LEMMA HoldsConcat ==
    ASSUME NEW lines \in Seq(Lines), NEW new \in Seq(Lines), NEW tail \in Seq(Lines),
           EndsWith(lines, new), Others(tail)
    PROVE  Holds(lines \o tail, new)
<1> DEFINE before == Len(lines) - Len(new)
           all == lines \o tail
<1>1. before \in 0..(Len(all) - Len(new))
  BY DEF EndsWith
<1>2. ASSUME NEW i \in 1..Len(all)
      PROVE  IF i \in (before + 1)..(before + Len(new)) THEN all[i] = new[i - before]
                                                        ELSE all[i][1] # launches
  <2>1. CASE i <= Len(lines)
    <3>1. all[i] = lines[i] /\ i \in 1..Len(lines)
      BY <2>1
    <3> QED
      BY <3>1 DEF EndsWith
  <2>2. CASE i > Len(lines)
    <3>1. all[i] = tail[i - Len(lines)] /\ i - Len(lines) \in 1..Len(tail)
      BY <2>2
    <3>2. i \notin (before + 1)..(before + Len(new))
      BY <2>2
    <3> QED
      BY <3>1, <3>2 DEF Others
  <2> QED
    BY <2>1, <2>2
<1> QED
  BY <1>1, <1>2 DEF Holds

LEMMA OthersConcat ==
    ASSUME NEW l1 \in Seq(Lines), NEW l2 \in Seq(Lines), Others(l1), Others(l2)
    PROVE  Others(l1 \o l2)
BY DEF Others

LEMMA NotLaterConcat ==
    ASSUME NEW l1 \in Seq(Lines), NEW l2 \in Seq(Lines), NotLater(l1), NotLater(l2)
    PROVE  NotLater(l1 \o l2)
BY DEF NotLater

(* The empty line of an echo is of no launch.                              *)
LEMMA BlankIsOld ==
    ASSUME TypeOK
    PROVE  <<Blank>> \in Seq(Lines) /\ Others(<<Blank>>) /\ NotLater(<<Blank>>)
BY DEF Blank, Others, NotLater, TypeOK, TaskTypeOK, Lines

LEMMA EchoedIsConcat ==
    ASSUME NEW lines \in Seq(Lines)
    PROVE  /\ Echoed(lines) = lines \o <<Blank>>
           /\ Echoed(lines) \in Seq(Lines)
BY DEF Echoed, Blank, Lines

-----------------------------------------------------------------------------
(***************************************************************************)
(* Type correctness.                                                       *)
(***************************************************************************)
LEMMA TypeInit == Init => TypeOK
<1> SUFFICES ASSUME Init
             PROVE  TypeOK
  OBVIOUS
<1>1. Nothing \in [Streams -> Seq(Lines)]
  BY DEF Nothing
<1>2. [s \in Streams |-> None] \in [Streams -> Seq(Lines) \cup {None}]
  OBVIOUS
<1>3. LauncherTypeOK
  BY <1>1 DEF Init, LauncherTypeOK
<1>4. FileTypeOK
  BY DEF Init, FileTypeOK, Unpackings
<1>5. StreamTypeOK
  BY <1>1, <1>2 DEF Init, StreamTypeOK
<1>6. TaskTypeOK
  <2>1. launches \in 1..MaxLaunches /\ failures \in Nat
    BY DEF Init
  <2>2. survives \in BOOLEAN
    BY DEF Init
  <2> QED
    BY <2>1, <2>2 DEF Init, TaskTypeOK
<1> QED
  BY <1>3, <1>4, <1>5, <1>6 DEF TypeOK

(* A part of the state that a step leaves alone keeps its types.           *)
streamVars == <<gw, local, output, dc, written>>
countVars == <<task, direct, survives, launches, failures, ran, spoilt, lost>>

LEMMA TypesUnchanged ==
    /\ LauncherTypeOK /\ UNCHANGED progVars => LauncherTypeOK'
    /\ FileTypeOK /\ UNCHANGED <<readable, requested, unpacked, execScript, executable>> => FileTypeOK'
    /\ StreamTypeOK /\ UNCHANGED streamVars => StreamTypeOK'
    /\ TaskTypeOK /\ UNCHANGED countVars => TaskTypeOK'
<1>1. LauncherTypeOK /\ UNCHANGED progVars => LauncherTypeOK'
  BY DEF LauncherTypeOK, progVars
<1>2. FileTypeOK /\ UNCHANGED <<readable, requested, unpacked, execScript, executable>> => FileTypeOK'
  BY DEF FileTypeOK
<1>3. StreamTypeOK /\ UNCHANGED streamVars => StreamTypeOK'
  BY DEF StreamTypeOK, streamVars
<1>4. TaskTypeOK /\ UNCHANGED countVars => TaskTypeOK'
  BY DEF TaskTypeOK, countVars
<1> QED
  BY <1>1, <1>2, <1>3, <1>4

LEMMA PrepareTypes == TypeOK /\ Prepare => TypeOK'
<1> SUFFICES ASSUME TypeOK, Prepare
             PROVE  TypeOK'
  OBVIOUS
<1> USE TypesUnchanged DEF Goto, GiveUp, Failed, NoFailure, taskVars, historyVars, fileVars,
                           streamVars, countVars, TypeOK
<1>1. CASE CreateDcFiles
  <2>1. StreamTypeOK'
    <3>1. Nothing \in [Streams -> Seq(Lines) \cup {None}]
      BY DEF Nothing
    <3>2. dc' \in [Streams -> Seq(Lines) \cup {None}]
      BY <1>1, <3>1 DEF CreateDcFiles, StreamTypeOK
    <3> QED
      BY <1>1, <3>2 DEF CreateDcFiles, StreamTypeOK
  <2>2. LauncherTypeOK' /\ TaskTypeOK'
    BY <1>1 DEF CreateDcFiles, LauncherTypeOK, TaskTypeOK
  <2> QED
    BY <1>1, <2>1, <2>2 DEF CreateDcFiles
<1>2. CASE Unzip
  <2>1. LauncherTypeOK' /\ TaskTypeOK'
    BY <1>2 DEF Unzip, LauncherTypeOK, TaskTypeOK
  <2>2. FileTypeOK'
    BY <1>2 DEF Unzip, Unpackings, FileTypeOK
  <2> QED
    BY <1>2, <2>1, <2>2 DEF Unzip
<1>3. CASE CheckInterpreter
  <2>1. LauncherTypeOK' /\ TaskTypeOK'
    BY <1>3 DEF CheckInterpreter, LauncherTypeOK, TaskTypeOK
  <2>2. FileTypeOK'
    BY <1>3 DEF CheckInterpreter, FileTypeOK
  <2> QED
    BY <1>3, <2>1, <2>2 DEF CheckInterpreter
<1>4. CASE ChooseScript
  <2>1. script' \in Scripts \cup {None}
    BY <1>4, ChosenIsReadable DEF ChooseScript, LauncherTypeOK
  <2>2. LauncherTypeOK'
    BY <1>4, <2>1 DEF ChooseScript, LauncherTypeOK
  <2> QED
    BY <1>4, <2>2 DEF ChooseScript
<1>5. CASE WriteScript
  <2>1. LauncherTypeOK' /\ TaskTypeOK'
    BY <1>5 DEF WriteScript, AfterWrite, LauncherTypeOK, TaskTypeOK
  <2>2. FileTypeOK'
    BY <1>5 DEF WriteScript, FileTypeOK, LauncherTypeOK
  <2> QED
    BY <1>5, <2>1, <2>2 DEF WriteScript
<1>6. CASE RunTask
  <2>1. ran' \in Runs
    BY <1>6, ArgsWithoutScript DEF RunTask, Runs, Unpackings, LauncherTypeOK
  <2>2. TaskTypeOK' /\ LauncherTypeOK'
    BY <1>6, <2>1 DEF RunTask, TaskTypeOK, LauncherTypeOK
  <2> QED
    BY <1>6, <2>2 DEF RunTask
<1> QED
  BY <1>1, <1>2, <1>3, <1>4, <1>5, <1>6 DEF Prepare

LEMMA EchoTypes ==
    ASSUME TypeOK, NEW s \in Streams, NEW next \in {"echoout", "copyout"}, Echo(s, next)
    PROVE  TypeOK'
<1>1. gw[s] # None => local[s] \o Echoed(gw[s]) \in Seq(Lines)
  BY EchoedIsConcat DEF TypeOK, StreamTypeOK
<1>2. StreamTypeOK'
  BY <1>1 DEF Echo, PrintAndFlush, TypeOK, StreamTypeOK
<1>3. TaskTypeOK'
  BY DEF Echo, Failed, NoFailure, taskVars, TypeOK, TaskTypeOK
<1>4. LauncherTypeOK'
  BY DEF Echo, PrintAndFlush, Goto, TypeOK, LauncherTypeOK
<1> QED
  BY <1>2, <1>3, <1>4, TypesUnchanged DEF Echo, TypeOK

LEMMA CopyTypes ==
    ASSUME TypeOK, NEW s \in Streams, NEW next \in {"copyerr", "finish"}, CopyOutput(s, next)
    PROVE  TypeOK'
<1>1. StreamTypeOK'
  <2>1. output' \in [Streams -> Seq(Lines)]
    <3>1. Copy(local, output, s) \in [Streams -> Seq(Lines)]
      BY DEF Copy, TypeOK, StreamTypeOK
    <3>2. [output EXCEPT ![s] = <<>>] \in [Streams -> Seq(Lines)]
      BY DEF TypeOK, StreamTypeOK
    <3> QED
      BY <3>1, <3>2 DEF CopyOutput, TypeOK, StreamTypeOK
  <2> QED
    BY <2>1 DEF CopyOutput, TypeOK, StreamTypeOK
<1>2. TaskTypeOK'
  BY DEF CopyOutput, Failed, NoFailure, taskVars, TypeOK, TaskTypeOK
<1>3. LauncherTypeOK'
  BY DEF CopyOutput, Goto, TypeOK, LauncherTypeOK
<1> QED
  BY <1>1, <1>2, <1>3, TypesUnchanged DEF CopyOutput, TypeOK

LEMMA CollectTypes == TypeOK /\ Collect => TypeOK'
<1> SUFFICES ASSUME TypeOK, Collect
             PROVE  TypeOK'
  OBVIOUS
<1>1. CASE EchoStderr \/ EchoStdout
  BY <1>1, EchoTypes DEF EchoStderr, EchoStdout, Streams
<1>2. CASE CopyStdout \/ CopyStderr
  BY <1>2, CopyTypes DEF CopyStderr, CopyStdout, Streams
<1>3. CASE Finish
  <2>1. dc' \in [Streams -> Seq(Lines) \cup {None}]
    BY <1>3 DEF Finish, TypeOK, StreamTypeOK
  <2>2. StreamTypeOK'
    BY <1>3, <2>1 DEF Finish, historyVars, TypeOK, StreamTypeOK
  <2>3. LauncherTypeOK'
    BY <1>3 DEF Finish, TypeOK, LauncherTypeOK
  <2> QED
    BY <1>3, <2>2, <2>3, TypesUnchanged DEF Finish, taskVars, historyVars, countVars, TypeOK
<1> QED
  BY <1>1, <1>2, <1>3 DEF Collect

LEMMA TaskTypes == IInv /\ TaskNext => TypeOK'
<1> SUFFICES ASSUME IInv, TaskNext
             PROVE  TypeOK'
  OBVIOUS
<1> USE TypesUnchanged DEF IInv, TypeOK
<1>1. ASSUME NEW opened \in SUBSET Streams, TaskStarts(opened)
      PROVE  TypeOK'
  <2>1. ran \in Runs
    BY <1>1 DEF TaskStarts, PhaseInv, Preparing, Collecting, LauncherTypeOK, TaskTypeOK
  <2>2. ran' \in Runs
    BY <1>1, <2>1 DEF TaskStarts, Runs, FileTypeOK
  <2>3. StreamTypeOK'
    BY <1>1 DEF TaskStarts, Truncated, StreamTypeOK
  <2>4. TaskTypeOK'
    BY <1>1, <2>2 DEF TaskStarts, Failed, NoFailure, TaskTypeOK
  <2> QED
    BY <1>1, <2>3, <2>4 DEF TaskStarts
<1>2. ASSUME NEW s \in Streams, TaskWrites(s)
      PROVE  TypeOK'
  <2>1. <<launches, Len(written[s]) + 1>> \in Lines
    BY DEF Lines, TaskTypeOK, StreamTypeOK
  <2>2. s \notin direct => gw[s] \in Seq(Lines)
    <3>1. Started /\ pc # "down"
      BY <1>2 DEF TaskWrites, PhaseInv, ScriptInv
    <3> QED
      BY <3>1 DEF LinesInv, StreamInv, OwnFileInv, StreamTypeOK
  <2>3. StreamTypeOK'
    <3>1. written' \in [Streams -> Seq(Lines)]
      BY <1>2, <2>1 DEF TaskWrites, StreamTypeOK
    <3>2. local' \in [Streams -> Seq(Lines)]
      <4>1. Append(local[s], <<launches, Len(written[s]) + 1>>) \in Seq(Lines)
        BY <2>1 DEF StreamTypeOK
      <4> QED
        BY <1>2, <4>1 DEF TaskWrites, StreamTypeOK
    <3>3. gw' \in [Streams -> Seq(Lines) \cup {None}]
      <4>1. CASE s \in direct
        BY <1>2, <4>1 DEF TaskWrites, StreamTypeOK
      <4>2. CASE s \notin direct
        <5>1. Append(gw[s], <<launches, Len(written[s]) + 1>>) \in Seq(Lines)
          BY <2>1, <2>2, <4>2
        <5> QED
          BY <1>2, <4>2, <5>1 DEF TaskWrites, StreamTypeOK
      <4> QED
        BY <4>1, <4>2
    <3> QED
      BY <1>2, <3>1, <3>2, <3>3 DEF TaskWrites, StreamTypeOK
  <2> QED
    BY <1>2, <2>3 DEF TaskWrites, taskVars, countVars, TaskTypeOK
<1>3. ASSUME NEW code \in {0, 3, ErrExec}, TaskEnds(code)
      PROVE  TypeOK'
  <2>1. LauncherTypeOK' /\ TaskTypeOK'
    BY <1>3 DEF TaskEnds, historyVars, LauncherTypeOK, TaskTypeOK
  <2> QED
    BY <1>3, <2>1 DEF TaskEnds, fileVars, historyVars, streamVars
<1> QED
  BY <1>1, <1>2, <1>3 DEF TaskNext

(* A surviving task overwrites a line or adds one.                         *)
Overwritten(lines, i) == IF i > Len(lines) THEN Append(lines, <<0, 0>>)
                                           ELSE [lines EXCEPT ![i] = <<0, 0>>]

LEMMA OverwrittenLines ==
    ASSUME NEW lines \in Seq(Lines), NEW i \in Nat \ {0}, launches \in Nat \ {0}
    PROVE  /\ Overwritten(lines, i) \in Seq(Lines)
           /\ Others(lines) => Others(Overwritten(lines, i))
           /\ NotLater(lines) => NotLater(Overwritten(lines, i))
<1>1. <<0, 0>> \in Lines
  BY DEF Lines
<1>2. CASE i > Len(lines)
  BY <1>1, <1>2 DEF Overwritten, Others, NotLater
<1>3. CASE i <= Len(lines)
  <2> DEFINE new == [lines EXCEPT ![i] = <<0, 0>>]
  <2>1. new \in [1..Len(lines) -> Lines]
    BY <1>1, <1>3
  <2>2. new \in Seq(Lines) /\ Len(new) = Len(lines)
    BY <2>1
  <2>3. \A j \in 1..Len(lines) : new[j] = IF j = i THEN <<0, 0>> ELSE lines[j]
    BY <1>3
  <2> HIDE DEF new
  <2>4. Overwritten(lines, i) = new
    BY <1>3 DEF Overwritten, new
  <2> QED
    BY <2>2, <2>3, <2>4 DEF Others, NotLater
<1> QED
  BY <1>2, <1>3

LEMMA SurvivorOverwrites ==
    ASSUME NEW s \in Streams, SurvivorWrites(s), gw[s] \in Seq(Lines)
    PROVE  \E i \in Nat \ {0} : gw' = [gw EXCEPT ![s] = Overwritten(gw[s], i)]
<1> DEFINE end == IF Len(gw[s]) < MaxLines THEN Len(gw[s]) + 1 ELSE MaxLines
<1>1. end \in Nat
  OBVIOUS
<1>2. PICK i \in 1..end : gw' = [gw EXCEPT ![s] = IF i > Len(@) THEN Append(@, <<0, 0>>)
                                                   ELSE [@ EXCEPT ![i] = <<0, 0>>]]
  BY DEF SurvivorWrites
<1>3. i \in Nat \ {0}
  BY <1>1
<1>4. gw' = [gw EXCEPT ![s] = Overwritten(gw[s], i)]
  BY <1>2, Zenon DEF Overwritten
<1> QED
  BY <1>3, <1>4

LEMMA ClientTypes ==
    TypeOK /\ (Crash \/ Restart \/ SurvivorEnds \/ \E s \in Streams : SurvivorWrites(s)) => TypeOK'
<1> SUFFICES ASSUME TypeOK,
                    Crash \/ Restart \/ SurvivorEnds \/ \E s \in Streams : SurvivorWrites(s)
             PROVE  TypeOK'
  OBVIOUS
<1> USE TypesUnchanged DEF TypeOK, streamVars, countVars, historyVars, fileVars, progVars, taskVars
<1>1. CASE Crash
  <2>1. LauncherTypeOK'
    BY <1>1 DEF Crash, LauncherTypeOK
  <2>2. FileTypeOK'
    BY <1>1 DEF Crash, FileTypeOK, Unpackings
  <2>3. TaskTypeOK'
    BY <1>1 DEF Crash, TaskTypeOK
  <2> QED
    BY <1>1, <2>1, <2>2, <2>3 DEF Crash
<1>2. CASE Restart
  <2>1. Nothing \in [Streams -> Seq(Lines)]
    BY DEF Nothing
  <2>2. LauncherTypeOK'
    BY <1>2, <2>1 DEF Restart, LauncherTypeOK
  <2>3. StreamTypeOK'
    BY <1>2, <2>1 DEF Restart, StreamTypeOK
  <2>4. TaskTypeOK'
    BY <1>2 DEF Restart, TaskTypeOK
  <2> QED
    BY <1>2, <2>2, <2>3, <2>4 DEF Restart
<1>3. CASE SurvivorEnds
  BY <1>3 DEF SurvivorEnds, TaskTypeOK
<1>4. ASSUME NEW s \in Streams, SurvivorWrites(s)
      PROVE  TypeOK'
  <2>1. gw[s] \in Seq(Lines) /\ <<0, 0>> \in Lines
    BY <1>4 DEF SurvivorWrites, StreamTypeOK, Lines
  <2>2. PICK i \in Nat \ {0} : gw' = [gw EXCEPT ![s] = Overwritten(gw[s], i)]
    BY <1>4, <2>1, SurvivorOverwrites
  <2>3. gw' \in [Streams -> Seq(Lines) \cup {None}]
    <3>1. Overwritten(gw[s], i) \in Seq(Lines)
      BY <2>1, OverwrittenLines DEF TaskTypeOK
    <3> QED
      BY <2>2, <3>1 DEF StreamTypeOK
  <2>4. TaskTypeOK'
    BY <1>4 DEF SurvivorWrites, TaskTypeOK
  <2>5. StreamTypeOK'
    BY <1>4, <2>3 DEF SurvivorWrites, StreamTypeOK
  <2> QED
    BY <1>4, <2>4, <2>5 DEF SurvivorWrites
<1> QED
  BY <1>1, <1>2, <1>3, <1>4

LEMMA TypeStep == IInv /\ Next => TypeOK'
BY PrepareTypes, CollectTypes, TaskTypes, ClientTypes DEF IInv, Next, LauncherNext

-----------------------------------------------------------------------------
(***************************************************************************)
(* The launcher and its task.                                              *)
(***************************************************************************)
LEMMA PhaseStep == IInv /\ Next => PhaseInv'
<1> SUFFICES ASSUME IInv, Next
             PROVE  PhaseInv'
  OBVIOUS
<1> USE DEF IInv, PhaseInv, Preparing, Collecting, Goto, GiveUp, fileVars, taskVars, historyVars,
            progVars, ExitFailure, ErrExec
<1>1. CASE Prepare
  <2>1. CASE RunTask
    <3>1. ran' # None
      <4>1. ran' \in Runs
        BY <2>1, ArgsWithoutScript DEF RunTask, Runs, Unpackings, TypeOK, LauncherTypeOK
      <4> QED
        BY <4>1
    <3> QED
      BY <2>1, <3>1 DEF RunTask
  <2>2. CASE CreateDcFiles \/ Unzip \/ CheckInterpreter
    BY <2>2 DEF CreateDcFiles, Unzip, CheckInterpreter
  <2>3. CASE ChooseScript \/ WriteScript
    BY <2>3 DEF ChooseScript, WriteScript, AfterWrite
  <2> QED
    BY <1>1, <2>1, <2>2, <2>3 DEF Prepare
<1>2. CASE Collect
  <2>1. CASE EchoStderr \/ EchoStdout
    BY <2>1 DEF EchoStderr, EchoStdout, Echo
  <2>2. CASE CopyStdout \/ CopyStderr
    BY <2>2 DEF CopyStdout, CopyStderr, CopyOutput
  <2>3. CASE Finish
    BY <2>3 DEF Finish
  <2> QED
    BY <1>2, <2>1, <2>2, <2>3 DEF Collect
<1>3. CASE TaskNext
  <2>1. ASSUME NEW opened \in SUBSET Streams, TaskStarts(opened)
        PROVE  PhaseInv'
    <3>1. pc = "task" /\ ran \in Runs
      BY <2>1 DEF TaskStarts, TypeOK, LauncherTypeOK, TaskTypeOK
    <3>2. ran' \in Runs
      BY <2>1, <3>1 DEF TaskStarts, Runs, TypeOK, FileTypeOK
    <3> QED
      BY <2>1, <3>1, <3>2 DEF TaskStarts
  <2>2. ASSUME NEW s \in Streams, TaskWrites(s)
        PROVE  PhaseInv'
    BY <2>2 DEF TaskWrites
  <2>3. ASSUME NEW code \in {0, 3, ErrExec}, TaskEnds(code)
        PROVE  PhaseInv'
    BY <2>3 DEF TaskEnds
  <2> QED
    BY <1>3, <2>1, <2>2, <2>3 DEF TaskNext
<1>4. CASE Crash \/ Restart
  BY <1>4 DEF Crash, Restart
<1>5. CASE SurvivorEnds
  BY <1>5 DEF SurvivorEnds
<1>6. ASSUME NEW s \in Streams, SurvivorWrites(s)
      PROVE  PhaseInv'
  BY <1>6 DEF SurvivorWrites
<1> QED
  BY <1>1, <1>2, <1>3, <1>4, <1>5, <1>6 DEF Next, LauncherNext

LEMMA ScriptStep == IInv /\ Next => ScriptInv'
<1> SUFFICES ASSUME IInv, Next
             PROVE  ScriptInv'
  OBVIOUS
<1> USE DEF IInv, ScriptInv, RunsWholeScript, Started, Goto, GiveUp, fileVars, taskVars,
            historyVars, progVars
<1>1. CASE Prepare
  <2>1. CASE RunTask
    <3>1. ran' \in Runs /\ ran'.script = None /\ ran'.args = TaskArgs
      BY <2>1, ArgsWithoutScript DEF RunTask, Runs, Unpackings, TypeOK, LauncherTypeOK
    <3>2. \/ TaskArgs = argv /\ (argv = <<>> \/ argv[1] # script)
          \/ <<script>> \o TaskArgs = argv
      BY ArgsWithoutScript DEF TypeOK, LauncherTypeOK
    <3> QED
      BY <2>1, <3>1, <3>2 DEF RunTask
  <2>2. CASE CreateDcFiles
    BY <2>2 DEF CreateDcFiles, PhaseInv, Preparing
  <2>3. CASE Unzip
    BY <2>3 DEF Unzip, MustUnzip, PhaseInv, Preparing
  <2>4. CASE CheckInterpreter
    BY <2>4 DEF CheckInterpreter, PhaseInv, Preparing
  <2>5. CASE ChooseScript
    <3>1. script' = None \/ script' \in readable
      BY <2>5, ChosenIsReadable DEF ChooseScript, TypeOK, LauncherTypeOK
    <3> QED
      BY <2>5, <3>1 DEF ChooseScript, PhaseInv, Preparing
  <2>6. CASE WriteScript
    BY <2>6 DEF WriteScript, AfterWrite, PhaseInv, Preparing
  <2> QED
    BY <1>1, <2>1, <2>2, <2>3, <2>4, <2>5, <2>6 DEF Prepare
<1>2. CASE Collect
  <2>1. CASE EchoStderr \/ EchoStdout
    BY <2>1 DEF EchoStderr, EchoStdout, Echo
  <2>2. CASE CopyStdout \/ CopyStderr
    BY <2>2 DEF CopyStdout, CopyStderr, CopyOutput
  <2>3. CASE Finish
    BY <2>3 DEF Finish
  <2> QED
    BY <1>2, <2>1, <2>2, <2>3 DEF Collect
<1>3. CASE TaskNext
  <2>1. ASSUME NEW opened \in SUBSET Streams, TaskStarts(opened)
        PROVE  ScriptInv'
    <3>1. pc = "task" /\ ran # None /\ ran \in Runs
      BY <2>1 DEF TaskStarts, PhaseInv, Preparing, Collecting, TypeOK, LauncherTypeOK, TaskTypeOK
    <3>2. ran' \in Runs /\ ran'.script = script /\ ran'.args = ran.args
                         /\ ran'.unpacked = unpacked
      BY <2>1, <3>1 DEF TaskStarts, Runs, TypeOK, FileTypeOK
    <3>3. UNCHANGED <<pc, script, argv, readable, unpacked, execScript>> /\ task' = "running"
      BY <2>1 DEF TaskStarts
    <3> QED
      BY <3>1, <3>2, <3>3
  <2>2. ASSUME NEW s \in Streams, TaskWrites(s)
        PROVE  ScriptInv'
    BY <2>2 DEF TaskWrites
  <2>3. ASSUME NEW code \in {0, 3, ErrExec}, TaskEnds(code)
        PROVE  ScriptInv'
    BY <2>3 DEF TaskEnds
  <2> QED
    BY <1>3, <2>1, <2>2, <2>3 DEF TaskNext
<1>4. CASE Crash
  BY <1>4 DEF Crash
<1>5. CASE Restart
  BY <1>5 DEF Restart, PhaseInv
<1>6. CASE SurvivorEnds
  BY <1>6 DEF SurvivorEnds
<1>7. ASSUME NEW s \in Streams, SurvivorWrites(s)
      PROVE  ScriptInv'
  BY <1>7 DEF SurvivorWrites
<1> QED
  BY <1>1, <1>2, <1>3, <1>4, <1>5, <1>6, <1>7 DEF Next, LauncherNext

-----------------------------------------------------------------------------
(***************************************************************************)
(* The lines of the task.                                                  *)
(***************************************************************************)
(* A preparation that goes on or gives up writes no line.                  *)
LEMMA PrepareLines ==
    ASSUME IInv, Prepare, NEW s \in Streams
    PROVE  StreamInv(s)'
<1> USE DEF IInv, Goto, GiveUp, taskVars, historyVars, fileVars
<1>1. ran = None /\ pc \in Preparing
  BY DEF Prepare, PhaseInv, Preparing, CreateDcFiles, Unzip, CheckInterpreter, ChooseScript,
         WriteScript, RunTask
<1>2. pc' \notin {"finished", "down", "echoout", "copyout", "copyerr"}
  BY DEF Prepare, CreateDcFiles, Unzip, CheckInterpreter, ChooseScript, WriteScript, AfterWrite,
         RunTask
<1>3. ran' = None \/ (ran'.script = None /\ pc' = "task")
  <2>1. CASE RunTask
    BY <2>1 DEF RunTask
  <2>2. CASE ~RunTask
    BY <1>1, <2>2 DEF Prepare, CreateDcFiles, Unzip, CheckInterpreter, ChooseScript, WriteScript
  <2> QED
    BY <2>1, <2>2
<1>4. UNCHANGED <<gw, local, written, launches>>
  BY DEF Prepare, CreateDcFiles, Unzip, CheckInterpreter, ChooseScript, WriteScript, RunTask
<1>5. NotLater(local[s]) /\ (gw[s] # None => NotLater(gw[s])) /\ UntouchedInv(s)
  BY DEF LinesInv, StreamInv
<1>6. (NotLater(local[s]) /\ (gw[s] # None => NotLater(gw[s])) /\ UntouchedInv(s))'
  BY <1>1, <1>4, <1>5 DEF UntouchedInv, NotLater, Others, Started
<1>7. (OwnFileInv(s) /\ WrittenInv(s))'
  BY <1>3 DEF OwnFileInv, WrittenInv, Started
<1>8. (EchoedInv(s) /\ CopiedInv(s))'
  BY <1>2, <1>3 DEF EchoedInv, CopiedInv, EchoDone, CopyDone
<1> QED
  BY <1>6, <1>7, <1>8 DEF StreamInv

(* The stream t is echoed: its file follows the lines before this launch,  *)
(* or another file the lines of this launch.                               *)
LEMMA EchoLines ==
    ASSUME IInv, NEW t \in Streams, NEW s \in Streams,
           \/ t = "stderr" /\ pc = "echoerr" /\ Echo(t, "echoout")
           \/ t = "stdout" /\ pc = "echoout" /\ Echo(t, "copyout")
    PROVE  StreamInv(s)'
<1> USE DEF IInv
<1>1. /\ UNCHANGED <<gw, output, dc, task, direct, launches, written, ran, spoilt, requested>>
      /\ pc' \in {"echoout", "copyout"} /\ ran # None /\ ~EchoDone(t) /\ EchoDone(t)'
      /\ pc \in {"echoerr", "echoout"}
  BY DEF Echo, Goto, taskVars, EchoDone, PhaseInv, Collecting
<1>2. /\ gw[s] # None => gw[s] \in Seq(Lines)
      /\ local[s] \in Seq(Lines) /\ written[s] \in Seq(Lines)
      /\ launches \in Nat \ {0}
  BY DEF TypeOK, StreamTypeOK, TaskTypeOK
<1>3. NotLater(local[s]) /\ (gw[s] # None => NotLater(gw[s])) /\ UntouchedInv(s) /\ OwnFileInv(s)
      /\ WrittenInv(s) /\ EchoedInv(s)
  BY DEF LinesInv, StreamInv
<1>4. CASE s # t
  <2>1. local'[s] = local[s] /\ (s \in lost' <=> s \in lost) /\ (EchoDone(s)' <=> EchoDone(s))
    <3>1. local'[s] = local[s]
      BY <1>4 DEF Echo, PrintAndFlush, TypeOK, StreamTypeOK
    <3>2. s \in lost' <=> s \in lost
      BY <1>4 DEF Echo
    <3>3. EchoDone(s)' <=> EchoDone(s)
      BY <1>4 DEF Echo, Goto, EchoDone, Streams
    <3> QED
      BY <3>1, <3>2, <3>3
  <2>2. (NotLater(local[s]) /\ (gw[s] # None => NotLater(gw[s])) /\ UntouchedInv(s))'
    BY <1>1, <1>3, <2>1 DEF NotLater, Others, UntouchedInv, Started
  <2>3. (OwnFileInv(s) /\ WrittenInv(s))'
    BY <1>1, <1>3, <2>1 DEF OwnFileInv, WrittenInv, Started, Others, EndsWith
  <2>4. (EchoedInv(s) /\ CopiedInv(s))'
    BY <1>1, <1>3, <2>1 DEF EchoedInv, Holds, CopiedInv, CopyDone
  <2> QED
    BY <2>2, <2>3, <2>4 DEF StreamInv
<1>5. CASE s = t
  <2>1. CASE UNCHANGED local
    <3>1. (NotLater(local[s]) /\ (gw[s] # None => NotLater(gw[s])) /\ UntouchedInv(s))'
      BY <1>1, <1>3, <2>1 DEF NotLater, Others, UntouchedInv, Started
    <3>2. (OwnFileInv(s) /\ WrittenInv(s))'
      BY <1>1, <1>3, <2>1, <1>5 DEF OwnFileInv, WrittenInv, Started, Others, EndsWith
    <3>3. s \notin spoilt \cup lost' => Holds(local[s], written[s])
      <4>1. CASE gw[s] # None
        <5>1. s \in lost'
          <6>1. failures' > failures
            BY <1>2, <1>5, <2>1, <4>1
               DEF Echo, PrintAndFlush, Failed, TypeOK, StreamTypeOK, TaskTypeOK, Echoed
          <6> QED
            BY <6>1, <1>5 DEF Echo
        <5> QED
          BY <5>1
      <4>2. CASE gw[s] = None
        <5>1. ASSUME s \notin spoilt, Started
              PROVE  EndsWith(local[s], written[s])
          BY <1>1, <1>3, <1>5, <4>2, <5>1 DEF WrittenInv, OwnFileInv
        <5>2. ASSUME ~Started
              PROVE  EndsWith(local[s], written[s])
          BY <1>2, <1>3, <5>2, EndsWithNothing DEF UntouchedInv
        <5>3. ASSUME s \notin spoilt
              PROVE  Holds(local[s], written[s])
          <6>1. Others(<<>>) /\ <<>> \in Seq(Lines) /\ local[s] \o <<>> = local[s]
            BY <1>2 DEF Others
          <6>2. EndsWith(local[s], written[s])
            BY <5>1, <5>2, <5>3
          <6> QED
            BY <1>2, <6>1, <6>2, HoldsConcat
        <5> QED
          BY <5>3
      <4> QED
        BY <4>1, <4>2
    <3>4. (EchoedInv(s) /\ CopiedInv(s))'
      BY <1>1, <2>1, <3>3 DEF EchoedInv, Holds, CopiedInv, CopyDone
    <3> QED
      BY <3>1, <3>2, <3>4 DEF StreamInv
  <2>2. CASE gw[s] # None /\ local' = [local EXCEPT ![s] = @ \o Echoed(gw[s])]
    <3> DEFINE tail == gw[s] \o <<Blank>>
    <3>1. gw[s] \in Seq(Lines) /\ tail \in Seq(Lines) /\ <<Blank>> \in Seq(Lines)
      BY <1>2, <2>2, BlankIsOld DEF TypeOK
    <3>2. local'[s] = local[s] \o tail
      BY <2>2, <3>1, EchoedIsConcat DEF TypeOK, StreamTypeOK
    <3>3. NotLater(tail) /\ (Others(gw[s]) => Others(tail))
      BY <1>3, <2>2, <3>1, BlankIsOld, OthersConcat, NotLaterConcat
    <3>4. NotLater(local[s] \o tail)
      BY <1>2, <1>3, <3>1, <3>3, NotLaterConcat
    <3>5. ~Started => Others(local[s] \o tail)
      BY <1>2, <1>3, <2>2, <3>1, <3>3, OthersConcat DEF UntouchedInv
    <3>6. (NotLater(local[s]) /\ (gw[s] # None => NotLater(gw[s])) /\ UntouchedInv(s))'
      BY <1>1, <1>3, <3>2, <3>4, <3>5 DEF NotLater, Others, UntouchedInv, Started
    <3>7. (OwnFileInv(s) /\ WrittenInv(s))'
      BY <1>1, <1>3, <1>5 DEF OwnFileInv, WrittenInv, Started, Others
    <3>8. s \notin spoilt => Holds(local[s] \o tail, written[s])
      <4>1. CASE ~Started
        BY <1>2, <1>3, <2>2, <3>1, <3>3, <4>1, EndsWithNothing, HoldsConcat DEF UntouchedInv
      <4>2. CASE Started /\ s \in direct
        BY <1>1, <1>2, <1>3, <1>5, <2>2, <3>1, <3>3, <4>2, HoldsConcat DEF WrittenInv
      <4>3. CASE Started /\ s \notin direct
        <5>1. ASSUME s \notin spoilt
              PROVE  Holds(local[s] \o tail, written[s])
          <6>1. gw[s] = written[s] /\ Others(local[s])
            BY <1>1, <1>3, <1>5, <4>3, <5>1 DEF WrittenInv
          <6> QED
            BY <1>2, <3>1, <6>1, BlankIsOld, ConcatHolds
        <5> QED
          BY <5>1
      <4> QED
        BY <4>1, <4>2, <4>3
    <3>9. (EchoedInv(s) /\ CopiedInv(s))'
      <4>1. Holds(local[s] \o tail, written[s]) => Holds(local[s], written[s])'
        BY <1>1, <3>2 DEF Holds
      <4> QED
        BY <1>1, <3>8, <4>1 DEF EchoedInv, CopiedInv, CopyDone
    <3> QED
      BY <3>6, <3>7, <3>9 DEF StreamInv
  <2> QED
    BY <1>5, <2>1, <2>2 DEF Echo, PrintAndFlush
<1> QED
  BY <1>4, <1>5

(* What concerns the lines before they are copied depends on these         *)
(* variables only.                                                         *)
LEMMA LinesUnchanged ==
    ASSUME NEW s \in Streams, StreamInv(s),
           UNCHANGED <<gw, local, written, launches, ran, direct, spoilt>>,
           EchoDone(s) => EchoDone(s)', pc' # "down" => pc # "down"
    PROVE  /\ (NotLater(local[s]) /\ (gw[s] # None => NotLater(gw[s])) /\ UntouchedInv(s))'
           /\ (OwnFileInv(s) /\ WrittenInv(s))'
<1>1. (NotLater(local[s]) /\ (gw[s] # None => NotLater(gw[s])) /\ UntouchedInv(s))'
  BY DEF StreamInv, NotLater, Others, UntouchedInv, Started
<1>2. (OwnFileInv(s) /\ WrittenInv(s))'
  BY DEF StreamInv, OwnFileInv, WrittenInv, Started, Others, EndsWith
<1> QED
  BY <1>1, <1>2

(* The stream t is copied.                                                 *)
LEMMA CopyLines ==
    ASSUME IInv, NEW t \in Streams, NEW s \in Streams,
           \/ t = "stdout" /\ pc = "copyout" /\ CopyOutput(t, "copyerr")
           \/ t = "stderr" /\ pc = "copyerr" /\ CopyOutput(t, "finish")
    PROVE  StreamInv(s)'
<1>1. /\ UNCHANGED <<gw, local, written, launches, ran, direct, spoilt, requested, dc>>
      /\ pc' \in {"copyerr", "finish"} /\ pc \in {"copyout", "copyerr"} /\ lost \subseteq lost'
      /\ ran # None
  BY DEF CopyOutput, Goto, taskVars, IInv, PhaseInv, Collecting
<1>2. EchoDone(s) /\ EchoDone(s)'
  BY <1>1 DEF EchoDone
<1>3. StreamInv(s)
  BY DEF IInv, LinesInv, StreamInv
<1>4. /\ (NotLater(local[s]) /\ (gw[s] # None => NotLater(gw[s])) /\ UntouchedInv(s))'
      /\ (OwnFileInv(s) /\ WrittenInv(s))'
  BY <1>1, <1>2, <1>3, LinesUnchanged
<1>5. EchoedInv(s)'
  BY <1>1, <1>2, <1>3 DEF StreamInv, EchoedInv, Holds
<1>6. CASE s # t
  <2>1. output'[s] = output[s] /\ (CopyDone(s)' <=> CopyDone(s))
    <3>1. output'[s] = output[s]
      BY <1>6 DEF CopyOutput, Copy, IInv, TypeOK, StreamTypeOK
    <3>2. CopyDone(s)' <=> CopyDone(s)
      BY <1>6 DEF CopyOutput, Goto, CopyDone, Streams
    <3> QED
      BY <3>1, <3>2
  <2>2. CopiedInv(s)'
    BY <1>1, <1>3, <2>1 DEF StreamInv, CopiedInv
  <2> QED
    BY <1>4, <1>5, <2>2 DEF StreamInv
<1>7. CASE s = t
  <2>1. s \in requested \ lost' => output'[s] = local[s]
    BY <1>7 DEF CopyOutput, Copy, IInv, TypeOK, StreamTypeOK
  <2>2. CopiedInv(s)'
    BY <1>1, <2>1 DEF CopiedInv
  <2> QED
    BY <1>4, <1>5, <2>2 DEF StreamInv
<1> QED
  BY <1>6, <1>7

(* With DC-API the local files are copied once more.                       *)
LEMMA FinishLines ==
    ASSUME IInv, Finish, NEW s \in Streams
    PROVE  StreamInv(s)'
<1>1. /\ UNCHANGED <<gw, local, written, launches, ran, direct, spoilt, requested, lost, output>>
      /\ pc' = "finished" /\ pc = "finish" /\ (DcApi => dc' = local)
  BY DEF Finish, taskVars, historyVars
<1>2. EchoDone(s) /\ EchoDone(s)' /\ CopyDone(s) /\ CopyDone(s)'
  BY <1>1 DEF EchoDone, CopyDone
<1>3. StreamInv(s)
  BY DEF IInv, LinesInv, StreamInv
<1>4. /\ (NotLater(local[s]) /\ (gw[s] # None => NotLater(gw[s])) /\ UntouchedInv(s))'
      /\ (OwnFileInv(s) /\ WrittenInv(s))'
  BY <1>1, <1>2, <1>3, LinesUnchanged
<1>5. EchoedInv(s)'
  BY <1>1, <1>2, <1>3 DEF StreamInv, EchoedInv, Holds
<1>6. CopiedInv(s)'
  BY <1>1, <1>2, <1>3 DEF StreamInv, CopiedInv
<1> QED
  BY <1>4, <1>5, <1>6 DEF StreamInv

LEMMA CollectLines ==
    ASSUME IInv, Collect, NEW s \in Streams
    PROVE  StreamInv(s)'
<1>1. "stderr" \in Streams /\ "stdout" \in Streams
  BY DEF Streams
<1>2. CASE EchoStderr
  BY <1>1, <1>2, EchoLines DEF EchoStderr
<1>3. CASE EchoStdout
  BY <1>1, <1>3, EchoLines DEF EchoStdout
<1>4. CASE CopyStdout
  BY <1>1, <1>4, CopyLines DEF CopyStdout
<1>5. CASE CopyStderr
  BY <1>1, <1>5, CopyLines DEF CopyStderr
<1> QED
  BY <1>2, <1>3, <1>4, <1>5, FinishLines DEF Collect

(* The task truncates the files it can open: what they held is of earlier  *)
(* launches.                                                               *)
LEMMA StartLines ==
    ASSUME IInv, NEW opened \in SUBSET Streams, TaskStarts(opened), NEW s \in Streams
    PROVE  StreamInv(s)'
<1> USE DEF IInv
<1>1. pc = "task" /\ pc' = "task" /\ ~Started
  BY DEF TaskStarts, progVars, PhaseInv, Preparing, Collecting, ScriptInv, Started, TypeOK,
         LauncherTypeOK
<1>2. UNCHANGED <<local, written, launches, spoilt>> /\ direct' = Streams \ opened
  BY DEF TaskStarts
<1>3. gw'[s] = IF s \in opened THEN <<>> ELSE gw[s]
  BY DEF TaskStarts, Truncated
<1>4. /\ NotLater(local[s]) /\ (gw[s] # None => NotLater(gw[s]))
      /\ written[s] = <<>> /\ Others(local[s]) /\ (gw[s] # None => Others(gw[s]))
  BY <1>1 DEF LinesInv, StreamInv, UntouchedInv
<1>5. <<>> # None
  <2>1. <<>> \in Seq(Lines)
    OBVIOUS
  <2> QED
    BY <2>1
<1>6. EndsWith(local[s], written[s])
  BY <1>4, EndsWithNothing DEF TypeOK, StreamTypeOK
<1>7. (/\ NotLater(local[s]) /\ (gw[s] # None => NotLater(gw[s]))
       /\ Others(local[s]) /\ (gw[s] # None => Others(gw[s])))'
  BY <1>2, <1>3, <1>4 DEF NotLater, Others
<1>8. (NotLater(local[s]) /\ (gw[s] # None => NotLater(gw[s])) /\ UntouchedInv(s))'
  BY <1>2, <1>4, <1>7 DEF UntouchedInv
<1>9. (OwnFileInv(s) /\ WrittenInv(s))'
  <2>1. s \notin direct' => gw'[s] = <<>>
    BY <1>2, <1>3
  <2>2. EndsWith(local[s], written[s])'
    BY <1>2, <1>6 DEF EndsWith
  <2> QED
    BY <1>2, <1>4, <1>5, <1>7, <2>1, <2>2 DEF OwnFileInv, WrittenInv
<1>10. (EchoedInv(s) /\ CopiedInv(s))'
  BY <1>1 DEF EchoedInv, CopiedInv, EchoDone, CopyDone
<1> QED
  BY <1>8, <1>9, <1>10 DEF StreamInv

(* A line is added to the file of the task, or to the launcher's.          *)
LEMMA WriteLines ==
    ASSUME IInv, NEW t \in Streams, TaskWrites(t), NEW s \in Streams
    PROVE  StreamInv(s)'
<1> USE DEF IInv
<1> DEFINE line == <<launches, Len(written[t]) + 1>>
<1>1. pc = "task" /\ pc' = "task" /\ Started /\ Started'
  BY DEF TaskWrites, progVars, PhaseInv, Preparing, Collecting, ScriptInv, Started, TypeOK,
         LauncherTypeOK
<1>2. UNCHANGED <<launches, spoilt, direct>>
  BY DEF TaskWrites, taskVars
<1>3. line \in Lines /\ line[1] = launches /\ launches \in Nat
  BY DEF TypeOK, StreamTypeOK, TaskTypeOK, Lines
<1>4. /\ local[s] \in Seq(Lines) /\ written[s] \in Seq(Lines)
      /\ gw[s] # None => gw[s] \in Seq(Lines)
  BY DEF TypeOK, StreamTypeOK
<1>5. ~EchoDone(s) /\ ~EchoDone(s)' /\ ~CopyDone(s)'
  BY <1>1 DEF EchoDone, CopyDone
<1>6. /\ NotLater(local[s]) /\ (gw[s] # None => NotLater(gw[s]))
      /\ OwnFileInv(s) /\ WrittenInv(s)
  BY DEF LinesInv, StreamInv
<1>7. (UntouchedInv(s) /\ EchoedInv(s) /\ CopiedInv(s))'
  BY <1>1, <1>5 DEF UntouchedInv, EchoedInv, CopiedInv
<1>8. CASE s # t
  <2>1. written'[s] = written[s] /\ local'[s] = local[s] /\ gw'[s] = gw[s]
    BY <1>8 DEF TaskWrites, TypeOK, StreamTypeOK
  <2>2. (NotLater(local[s]) /\ (gw[s] # None => NotLater(gw[s])))'
    BY <1>2, <1>6, <2>1 DEF NotLater
  <2>3. (OwnFileInv(s) /\ WrittenInv(s))'
    BY <1>1, <1>2, <1>5, <1>6, <2>1 DEF OwnFileInv, WrittenInv, Others, EndsWith
  <2> QED
    BY <1>7, <2>2, <2>3 DEF StreamInv
<1>9. CASE s = t /\ s \in direct
  <2>1. /\ written'[s] = Append(written[s], line) /\ local'[s] = Append(local[s], line)
        /\ gw'[s] = gw[s]
    BY <1>9 DEF TaskWrites, TypeOK, StreamTypeOK
  <2>2. (NotLater(local[s]) /\ (gw[s] # None => NotLater(gw[s])))'
    <3>1. NotLater(Append(local[s], line))
      BY <1>3, <1>4, <1>6 DEF NotLater
    <3> QED
      BY <1>2, <1>6, <2>1, <3>1 DEF NotLater
  <2>3. OwnFileInv(s)'
    BY <1>2, <1>9 DEF OwnFileInv
  <2>4. WrittenInv(s)'
    <3>1. ASSUME s \notin spoilt
          PROVE  EndsWith(local[s], written[s])'
      <4>1. EndsWith(local[s], written[s])
        BY <1>1, <1>5, <1>6, <1>9, <3>1 DEF WrittenInv
      <4>2. EndsWith(Append(local[s], line), Append(written[s], line))
        BY <1>3, <1>4, <4>1, EndsWithAppend
      <4> QED
        BY <1>2, <2>1, <4>2 DEF EndsWith
    <3>2. s \notin spoilt => (gw[s] # None => Others(gw[s]))'
      BY <1>1, <1>2, <1>6, <1>9, <2>1 DEF WrittenInv, Others
    <3> QED
      BY <1>2, <1>9, <3>1, <3>2 DEF WrittenInv
  <2> QED
    BY <1>7, <2>2, <2>3, <2>4 DEF StreamInv
<1>10. CASE s = t /\ s \notin direct
  <2>1. gw[s] # None
    BY <1>1, <1>6, <1>10 DEF OwnFileInv
  <2>2. /\ written'[s] = Append(written[s], line) /\ gw'[s] = Append(gw[s], line)
        /\ local'[s] = local[s]
    BY <1>10 DEF TaskWrites, TypeOK, StreamTypeOK
  <2>3. Append(gw[s], line) \in Seq(Lines) /\ NotLater(Append(gw[s], line))
    BY <1>3, <1>4, <1>6, <2>1 DEF NotLater
  <2>4. (NotLater(local[s]) /\ (gw[s] # None => NotLater(gw[s])))'
    BY <1>2, <1>6, <2>2, <2>3 DEF NotLater
  <2>5. (OwnFileInv(s) /\ WrittenInv(s))'
    BY <1>1, <1>2, <1>5, <1>6, <1>10, <2>2, <2>3 DEF OwnFileInv, WrittenInv, Others
  <2> QED
    BY <1>7, <2>4, <2>5 DEF StreamInv
<1> QED
  BY <1>8, <1>9, <1>10

LEMMA EndLines ==
    ASSUME IInv, NEW code \in {0, 3, ErrExec}, TaskEnds(code), NEW s \in Streams
    PROVE  StreamInv(s)'
<1>1. /\ pc = "task" /\ pc' = "echoerr"
      /\ UNCHANGED <<gw, local, written, launches, ran, direct, spoilt, lost>>
  BY DEF TaskEnds, fileVars, historyVars
<1>2. StreamInv(s)
  BY DEF IInv, LinesInv, StreamInv
<1>3. ~EchoDone(s) /\ ~EchoDone(s)' /\ ~CopyDone(s)'
  BY <1>1 DEF EchoDone, CopyDone
<1>4. (EchoedInv(s) /\ CopiedInv(s))'
  BY <1>1, <1>3 DEF EchoedInv, CopiedInv
<1> QED
  BY <1>1, <1>2, <1>3, <1>4, LinesUnchanged DEF StreamInv

(* What a survivor writes is of no launch; its stream is exempt.           *)
LEMMA SurvivorLines ==
    ASSUME IInv, NEW t \in Streams, SurvivorWrites(t), NEW s \in Streams
    PROVE  StreamInv(s)'
<1>1. /\ UNCHANGED <<pc, local, output, dc, written, launches, ran, direct, lost, requested>>
      /\ spoilt' = spoilt \cup {t} /\ gw[t] # None
  BY DEF SurvivorWrites, progVars, taskVars
<1>2. StreamInv(s)
  BY DEF IInv, LinesInv, StreamInv
<1>3. (EchoedInv(s) /\ CopiedInv(s))'
  BY <1>1, <1>2 DEF StreamInv, EchoedInv, CopiedInv, EchoDone, CopyDone, Holds
<1>4. CASE s # t
  <2>1. gw'[s] = gw[s]
    BY <1>4 DEF SurvivorWrites, IInv, TypeOK, StreamTypeOK
  <2>2. (NotLater(local[s]) /\ (gw[s] # None => NotLater(gw[s])) /\ UntouchedInv(s))'
    BY <1>1, <1>2, <2>1 DEF StreamInv, NotLater, UntouchedInv, Others, Started
  <2>3. (OwnFileInv(s) /\ WrittenInv(s))'
    BY <1>1, <1>2, <2>1 DEF StreamInv, OwnFileInv, WrittenInv, Others, Started, EchoDone, EndsWith
  <2> QED
    BY <1>3, <2>2, <2>3 DEF StreamInv
<1>5. CASE s = t
  <2>1. gw[s] \in Seq(Lines) /\ launches \in Nat \ {0}
    BY <1>1, <1>5 DEF IInv, TypeOK, StreamTypeOK, TaskTypeOK
  <2>2. PICK i \in Nat \ {0} : gw' = [gw EXCEPT ![s] = Overwritten(gw[s], i)]
    BY <1>5, <2>1, SurvivorOverwrites
  <2> DEFINE new == Overwritten(gw[s], i)
  <2>3. gw'[s] = new
    BY <2>2 DEF IInv, TypeOK, StreamTypeOK
  <2>4. /\ new \in Seq(Lines)
        /\ NotLater(gw[s]) => NotLater(new)
        /\ Others(gw[s]) => Others(new)
    BY <2>1, OverwrittenLines
  <2> HIDE DEF new
  <2>5. NotLater(gw[s]) /\ NotLater(local[s]) /\ UntouchedInv(s)
    BY <1>1, <1>2, <1>5 DEF StreamInv
  <2>6. new # None
    BY <2>1, <2>4, OverwrittenLines DEF new
  <2>7. NotLater(new) /\ (~Started => written[s] = <<>> /\ Others(local[s]) /\ Others(new))
    BY <1>1, <1>5, <2>4, <2>5 DEF UntouchedInv
  <2>8. (NotLater(local[s]) /\ (gw[s] # None => NotLater(gw[s])) /\ UntouchedInv(s))'
    BY <1>1, <2>3, <2>5, <2>7 DEF NotLater, UntouchedInv, Others, Started
  <2>9. (OwnFileInv(s) /\ WrittenInv(s))'
    BY <1>1, <1>5, <2>3, <2>6 DEF OwnFileInv, WrittenInv
  <2> QED
    BY <1>3, <2>8, <2>9 DEF StreamInv
<1> QED
  BY <1>4, <1>5

(* The next launch has a number no line has yet.                           *)
LEMMA RestartLines ==
    ASSUME IInv, Restart, NEW s \in Streams
    PROVE  StreamInv(s)'
<1>1. /\ UNCHANGED <<gw, local, output, dc>> /\ launches' = launches + 1 /\ ran' = None
      /\ pc' = "dcfiles" /\ written' = Nothing
  BY DEF Restart, fileVars
<1>2. /\ NotLater(local[s]) /\ (gw[s] # None => NotLater(gw[s]))
      /\ local[s] \in Seq(Lines) /\ (gw[s] # None => gw[s] \in Seq(Lines))
      /\ launches \in Nat
  BY DEF IInv, LinesInv, StreamInv, TypeOK, StreamTypeOK, TaskTypeOK
<1>3. ASSUME NEW lines \in Seq(Lines), NotLater(lines)
      PROVE  \A i \in 1..Len(lines) : lines[i][1] <= launches + 1 /\ lines[i][1] # launches + 1
  <2>1. \A i \in 1..Len(lines) : lines[i][1] \in Nat /\ lines[i][1] <= launches
    <3>1. \A i \in 1..Len(lines) : lines[i] \in Lines
      OBVIOUS
    <3> QED
      BY <1>3, <3>1 DEF NotLater, Lines
  <2> QED
    BY <1>2, <2>1
<1>4. (NotLater(local[s]) /\ Others(local[s]))'
  BY <1>1, <1>2, <1>3 DEF NotLater, Others
<1>5. (gw[s] # None => NotLater(gw[s]) /\ Others(gw[s]))'
  BY <1>1, <1>2, <1>3 DEF NotLater, Others
<1>6. UntouchedInv(s)'
  BY <1>1, <1>4, <1>5 DEF UntouchedInv, Nothing
<1>7. (OwnFileInv(s) /\ WrittenInv(s) /\ EchoedInv(s) /\ CopiedInv(s))'
  BY <1>1 DEF OwnFileInv, WrittenInv, EchoedInv, CopiedInv, Started
<1> QED
  BY <1>4, <1>5, <1>6, <1>7 DEF StreamInv

LEMMA CrashLines ==
    ASSUME IInv, Crash, NEW s \in Streams
    PROVE  StreamInv(s)'
<1>1. UNCHANGED <<gw, local, written, launches, ran>> /\ pc' = "down"
  BY DEF Crash, historyVars
<1>2. StreamInv(s)
  BY DEF IInv, LinesInv, StreamInv
<1>3. (NotLater(local[s]) /\ (gw[s] # None => NotLater(gw[s])) /\ UntouchedInv(s))'
  BY <1>1, <1>2 DEF StreamInv, NotLater, Others, UntouchedInv, Started
<1>4. (OwnFileInv(s) /\ WrittenInv(s) /\ EchoedInv(s) /\ CopiedInv(s))'
  BY <1>1 DEF OwnFileInv, WrittenInv, EchoedInv, CopiedInv, EchoDone, CopyDone
<1> QED
  BY <1>3, <1>4 DEF StreamInv

LEMMA LinesStep == IInv /\ Next => LinesInv'
<1> SUFFICES ASSUME IInv, Next, NEW s \in Streams
             PROVE  StreamInv(s)'
  BY DEF LinesInv, StreamInv
<1>1. CASE Prepare \/ Collect
  BY <1>1, PrepareLines, CollectLines
<1>2. CASE TaskNext
  BY <1>2, StartLines, WriteLines, EndLines DEF TaskNext
<1>3. CASE Crash \/ Restart
  BY <1>3, CrashLines, RestartLines
<1>4. CASE SurvivorEnds
  <2>1. UNCHANGED <<pc, gw, local, output, dc, written, launches, ran, direct, spoilt, lost, requested>>
    BY <1>4 DEF SurvivorEnds, progVars, fileVars, historyVars
  <2>2. StreamInv(s)
    BY DEF IInv, LinesInv, StreamInv
  <2>3. (EchoedInv(s) /\ CopiedInv(s))'
    BY <2>1, <2>2 DEF StreamInv, EchoedInv, CopiedInv, EchoDone, CopyDone, Holds
  <2>4. EchoDone(s) => EchoDone(s)'
    BY <2>1 DEF EchoDone
  <2> QED
    BY <2>1, <2>2, <2>3, <2>4, LinesUnchanged DEF StreamInv
<1>5. ASSUME NEW t \in Streams, SurvivorWrites(t)
      PROVE  StreamInv(s)'
  BY <1>5, SurvivorLines
<1> QED
  BY <1>1, <1>2, <1>3, <1>4, <1>5 DEF Next, LauncherNext

-----------------------------------------------------------------------------
(***************************************************************************)
(* The invariant is inductive.                                             *)
(***************************************************************************)
LEMMA InvInit == Init => IInv
<1> SUFFICES ASSUME Init
             PROVE  IInv
  OBVIOUS
<1>1. PhaseInv
  BY DEF Init, PhaseInv, Preparing, Collecting
<1>2. ScriptInv
  BY DEF Init, ScriptInv, RunsWholeScript
<1>3. LinesInv
  BY DEF Init, LinesInv, StreamInv, Nothing, NotLater, Others, UntouchedInv, OwnFileInv, WrittenInv,
         EchoedInv, CopiedInv, EchoDone, CopyDone, Started
<1> QED
  BY <1>1, <1>2, <1>3, TypeInit DEF IInv

LEMMA InvStutter == IInv /\ UNCHANGED vars => IInv'
<1> SUFFICES ASSUME IInv, UNCHANGED vars
             PROVE  IInv'
  OBVIOUS
<1> USE DEF IInv, vars, progVars, fileVars, taskVars, historyVars
<1>1. TypeOK'
  BY TypesUnchanged DEF TypeOK, streamVars, countVars
<1>2. PhaseInv'
  BY DEF PhaseInv
<1>3. ScriptInv'
  BY DEF ScriptInv, RunsWholeScript, Started
<1>4. ASSUME NEW s \in Streams
      PROVE  StreamInv(s)'
  <2>1. StreamInv(s) /\ (EchoDone(s) => EchoDone(s)')
    BY DEF LinesInv, StreamInv, EchoDone
  <2>2. (EchoedInv(s) /\ CopiedInv(s))'
    BY <2>1 DEF StreamInv, EchoedInv, CopiedInv, EchoDone, CopyDone, Holds
  <2> QED
    BY <2>1, <2>2, LinesUnchanged DEF StreamInv
<1>5. LinesInv'
  BY <1>4 DEF LinesInv, StreamInv
<1> QED
  BY <1>1, <1>2, <1>3, <1>5

LEMMA InvStep == IInv /\ [Next]_vars => IInv'
BY TypeStep, PhaseStep, ScriptStep, LinesStep, InvStutter DEF IInv

LEMMA Invariance == Spec => []IInv
<1> QED
  BY InvInit, InvStep, PTL DEF Spec

(* Every variable keeps its type, in every launch (main of gw_launcher.C). *)
THEOREM TypeCorrect == Spec => []TypeOK
<1>1. IInv => TypeOK
  BY DEF IInv
<1> QED
  BY <1>1, Invariance, PTL

(* A finished work unit reports EXIT_FAILURE exactly if no task was        *)
(* started in its last launch (gw_finish in the preparation of main).      *)
THEOREM FailuresAreReported == Spec => []FailureReported
<1>1. IInv => FailureReported
  BY DEF IInv, PhaseInv, FailureReported
<1> QED
  BY <1>1, Invariance, PTL

(* No launch runs a half-written gw_tmp.sh, a script other than the one it *)
(* has chosen, or one beside a half-unpacked archive, whatever an earlier  *)
(* launch left in the slot directory.                                      *)
THEOREM WholeScriptIsRun == Spec => []RunsWholeScript
<1>1. IInv => RunsWholeScript
  BY DEF IInv, ScriptInv
<1> QED
  BY <1>1, Invariance, PTL

(* The output files of a finished work unit hold every line its task has   *)
(* written, once and in order, for any number of launches and lines.       *)
THEOREM OutputIsComplete == Spec => []OutputHasAllLines
<1>1. ASSUME IInv, pc = "finished", ran # None, NEW s \in Streams \ (spoilt \cup lost)
      PROVE  /\ s \in requested => Holds(output[s], written[s])
             /\ DcApi => Holds(dc[s], written[s])
  <2>1. EchoDone(s) /\ CopyDone(s)
    BY <1>1 DEF EchoDone, CopyDone
  <2>2. Holds(local[s], written[s])
    BY <1>1, <2>1 DEF IInv, LinesInv, StreamInv, EchoedInv
  <2>3. CopiedInv(s)
    BY <1>1 DEF IInv, LinesInv, StreamInv
  <2>4. (s \in requested => output[s] = local[s]) /\ (DcApi => dc[s] = local[s])
    BY <1>1, <2>1, <2>3 DEF CopiedInv
  <2> QED
    BY <2>2, <2>4
<1>2. IInv => OutputHasAllLines
  BY <1>1 DEF OutputHasAllLines
<1> QED
  BY <1>2, Invariance, PTL
=============================================================================
