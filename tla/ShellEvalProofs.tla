--------------------------- MODULE ShellEvalProofs ---------------------------
(***************************************************************************)
(* What ShellEval keeps, for scripts of any kind of commands, nested to    *)
(* any depth, with any redirections.                                       *)
(***************************************************************************)
EXTENDS ShellEval, RedirectionsProofs, FiniteSetTheorems

-----------------------------------------------------------------------------
(***************************************************************************)
(* Types.                                                                  *)
(***************************************************************************)
Contents == [UserFds -> Files \cup {Closed}]
Nexts == {"simple", "not", "and", "or", "semi", "if", "tail", "group", "never"}

Trees == [fn : {"evaltree"}, next : Nexts, before : Contents, exit : BOOLEAN,
          tested : BOOLEAN, check : BOOLEAN, strict : BOOLEAN]
WhileFrames == [fn : {"evalloop"}, at : {"test", "body"}, until : BOOLEAN, status : Nat,
                tested : BOOLEAN]
ForFrames == [fn : {"evalfor"}, tested : BOOLEAN]
InputFrames == [fn : {"evalstring", "dotcmd"}, special : BOOLEAN, before : Contents]
FunctionFrames == [fn : {"evalfun"}, before : Contents]
TrapFrames == [fn : {"dotrap"}, status : Nat]
ExitFrames == [fn : {"exitshell"}, status : Nat]
Frames == UNION {Trees, WhileFrames, ForFrames, InputFrames, FunctionFrames,
                 TrapFrames, ExitFrames}

Flags == {"exit", "tested"}
Skips == {"break", "cont", "func", "file", "eval"}
Acts == {"eval", "out", "leave", "back", "read", "raise", "ended"}

ScalarsOK ==
    /\ act \in Acts /\ flags \in SUBSET Flags /\ exitstatus \in Nat
    /\ evalskip \in SUBSET Skips
    /\ skipcount \in Int /\ loopnest \in Int /\ funcnest \in Int /\ inputs \in Int
    /\ eflag \in BOOLEAN /\ exittrap \in BOOLEAN
    /\ base \in Nat /\ due \in {"no", "yes", "string", "tested"}

TypeOK == stack \in Seq(Frames) /\ io \in Ios /\ ScalarsOK

-----------------------------------------------------------------------------
(***************************************************************************)
(* Stacks.                                                                 *)
(***************************************************************************)
LEMMA PushIs ==
    ASSUME NEW S, NEW s \in Seq(S), NEW f \in S
    PROVE  /\ <<f>> \o s \in Seq(S) /\ Len(<<f>> \o s) = Len(s) + 1
           /\ (<<f>> \o s)[1] = f
           /\ \A i \in 1..Len(s) : (<<f>> \o s)[i + 1] = s[i]
           /\ Head(<<f>> \o s) = f /\ Tail(<<f>> \o s) = s
<1> DEFINE t == <<f>> \o s
<1>1. t \in Seq(S) /\ Len(t) = Len(s) + 1 /\ t[1] = f /\ \A i \in 1..Len(s) : t[i + 1] = s[i]
  OBVIOUS
<1>2. Head(t) = f /\ Tail(t) \in Seq(S) /\ Len(Tail(t)) = Len(s)
  BY <1>1
<1>3. \A i \in 1..Len(s) : Tail(t)[i] = s[i]
  <2> HIDE DEF t
  <2> QED
    BY <1>1
<1> HIDE DEF t
<1>4. Tail(t) = s
  BY <1>2, <1>3
<1> QED
  BY <1>1, <1>2, <1>4 DEF t

LEMMA PushTwo ==
    ASSUME NEW S, NEW s \in Seq(S), NEW f \in S, NEW g \in S
    PROVE  <<g, f>> \o s = <<g>> \o (<<f>> \o s)
OBVIOUS

LEMMA PopIs ==
    ASSUME NEW S, NEW s \in Seq(S), s # <<>>
    PROVE  /\ Len(s) \in Nat \ {0} /\ Head(s) = s[1] /\ Head(s) \in S
           /\ Tail(s) \in Seq(S) /\ Len(Tail(s)) = Len(s) - 1
           /\ \A i \in 1..Len(Tail(s)) : Tail(s)[i] = s[i + 1]
           /\ s = <<Head(s)>> \o Tail(s)
<1>1. /\ Len(s) \in Nat \ {0} /\ Head(s) = s[1] /\ Head(s) \in S
      /\ Tail(s) \in Seq(S) /\ Len(Tail(s)) = Len(s) - 1
      /\ \A i \in 1..Len(Tail(s)) : Tail(s)[i] = s[i + 1]
  OBVIOUS
<1> DEFINE t == <<Head(s)>> \o Tail(s)
<1>2. t \in Seq(S) /\ Len(t) = Len(s) /\ \A i \in 1..Len(s) : t[i] = s[i]
  OBVIOUS
<1>3. s = t
  <2> HIDE DEF t
  <2> QED
    BY <1>2
<1> QED
  BY <1>1, <1>3

-----------------------------------------------------------------------------
(***************************************************************************)
(* What evaluating a node does to the stack and the counters: it ends at   *)
(* once, calls evaltree, forks, enters a loop, an input or a function, or  *)
(* raises an exception.                                                    *)
(***************************************************************************)
NewTree(f) ==
    /\ f \in Trees
    /\ "exit" \in flags => f.exit
    /\ f.check => f.next = "simple"
    /\ f.strict => f.check /\ \A i \in DOMAIN stack : ~Tests(stack[i])

SkipKept == UNCHANGED <<evalskip, skipcount>>
SkipBegins ==
    \/ skipcount' \in 1..loopnest /\ \E kind \in {"break", "cont"} : evalskip' = {kind}
    \/ skipcount' = skipcount /\ evalskip' = {"file"}
    \/ skipcount' = skipcount /\ evalskip' = {"func"} /\ funcnest > 0

NodeEnds(f) ==
    /\ act' = "out" /\ NewTree(f) /\ stack' = <<f>> \o stack
    /\ SkipKept \/ SkipBegins
    /\ UNCHANGED <<loopnest, funcnest, inputs, base, due>>

NodeCalls(f) ==
    /\ act' = "eval" /\ NewTree(f) /\ stack' = <<f>> \o stack
    /\ SkipKept
    /\ UNCHANGED <<loopnest, funcnest, inputs, base, due>>

NodeForks(f) ==
    /\ act' = "eval" /\ NewTree(f) /\ stack' = <<f>> \o stack
    /\ "exit" \in flags' /\ base' = Len(stack) + 1 /\ inputs' = 0
    /\ SkipKept
    /\ UNCHANGED <<loopnest, funcnest, due>>

NodeLoops(f, g) ==
    /\ act' = "eval" /\ NewTree(f) /\ g \in WhileFrames \cup ForFrames
    /\ stack' = <<g, f>> \o stack
    /\ loopnest' = loopnest + 1
    /\ SkipKept
    /\ UNCHANGED <<funcnest, inputs, base, due>>

NodeReads(f, g) ==
    /\ act' = "read" /\ NewTree(f) /\ g \in InputFrames
    /\ g.special \/ "prefix" \in Kinds
    /\ stack' = <<g, f>> \o stack
    /\ inputs' = inputs + 1
    /\ SkipKept
    /\ UNCHANGED <<loopnest, funcnest, base, due>>

NodeRuns(f, g) ==
    /\ act' = "eval" /\ NewTree(f) /\ g \in FunctionFrames
    /\ stack' = <<g, f>> \o stack
    /\ funcnest' = funcnest + 1
    /\ SkipKept
    /\ UNCHANGED <<loopnest, inputs, base, due>>

NodeRaises ==
    /\ act' \in {"raise", "ended"} /\ (act' = "ended" => ~exittrap)
    /\ stack' = stack /\ SkipKept
    /\ UNCHANGED <<loopnest, funcnest, inputs, base, due, exittrap>>

NodeDone ==
    \/ \E f \in Trees : NodeEnds(f) \/ NodeCalls(f) \/ NodeForks(f)
    \/ \E f \in Trees, g \in Frames : NodeLoops(f, g) \/ NodeReads(f, g) \/ NodeRuns(f, g)
    \/ NodeRaises

LEMMA TreeIsNew ==
    ASSUME NEW next \in Nexts, NEW check \in BOOLEAN, check => next = "simple"
    PROVE  NewTree(Tree(next, check)) /\ Tree(next, check) \in Trees
<1> DEFINE ex == "exit" \in flags
           te == "tested" \in flags
           st == check /\ ~\E i \in DOMAIN stack : Tests(stack[i])
           f == [fn |-> "evaltree", next |-> next, before |-> Untouched, exit |-> ex,
                 tested |-> te, check |-> check, strict |-> st]
<1>1. ex \in BOOLEAN /\ te \in BOOLEAN /\ st \in BOOLEAN /\ Untouched \in Contents
  BY DEF Contents, Untouched
<1>2. st => check /\ \A i \in DOMAIN stack : ~Tests(stack[i])
  OBVIOUS
<1>3. Tree(next, check) = f
  BY DEF Tree
<1> HIDE DEF te, st
<1>4. f \in Trees
  BY <1>1 DEF Trees
<1>5. /\ f.exit = ex /\ f.check = check /\ f.next = next /\ f.strict = st
  OBVIOUS
<1> HIDE DEF f
<1>6. "exit" \in flags => f.exit
  BY <1>5
<1>7. f.check => f.next = "simple"
  BY <1>5
<1>8. f.strict => f.check /\ \A i \in DOMAIN stack : ~Tests(stack[i])
  BY <1>2, <1>5
<1> QED
  BY <1>3, <1>4, <1>6, <1>7, <1>8 DEF NewTree

LEMMA NodeIsNew ==
    ASSUME NEW next \in Nexts
    PROVE  NewTree(Node(next)) /\ Node(next) \in Trees
BY TreeIsNew DEF Node

LEMMA CommandIsNew ==
    ASSUME eflag \in BOOLEAN
    PROVE  NewTree(Command) /\ Command \in Trees
BY TreeIsNew DEF Command, Checks, Nexts

(* The descriptors a frame has to restore.                                 *)
LEMMA BeforeTypes ==
    ASSUME io \in Ios, NEW list \in Redirs
    PROVE  Before(list) \in Contents
<1>1. UserFds \subseteq Fds
  BY FdSets
<1>2. \A d \in UserFds : io.fds[d] \in Files \cup {Closed}
  BY <1>1 DEF Ios, FdTables
<1> QED
  BY <1>2 DEF Before, Contents

LEMMA EvaluateIs ==
    ASSUME TypeOK, Evaluate
    PROVE  act = "eval" /\ NodeDone
<1> USE DEF Kind, SkipKept
<1>1. ASSUME NEW k \in {"not", "and", "or", "semi", "if"}, Compound(k)
      PROVE  act = "eval" /\ NodeDone
  <2>1. k \in Nexts
    BY DEF Nexts
  <2>2. NodeCalls(Node(k)) /\ Node(k) \in Trees
    BY <1>1, <2>1, NodeIsNew DEF Compound, Call, NodeCalls, skipVars, levelVars
  <2> QED
    BY <1>1, <2>2 DEF NodeDone, Compound
<1>2. CASE Trivial
  <2>1. NodeEnds(Node("tail")) /\ Node("tail") \in Trees
    BY <1>2, NodeIsNew DEF Trivial, Done, Push, NodeEnds, Nexts, skipVars, levelVars
  <2> QED
    BY <1>2, <2>1 DEF NodeDone, Trivial
<1>3. CASE Case
  <2>1. Node("tail") \in Trees /\ NewTree(Node("tail"))
    BY NodeIsNew DEF Nexts
  <2>2. NodeEnds(Node("tail")) \/ NodeCalls(Node("tail"))
    BY <1>3, <2>1 DEF Case, Call, Done, Push, NodeEnds, NodeCalls, skipVars, levelVars
  <2> QED
    BY <1>3, <2>1, <2>2 DEF NodeDone, Case
<1>4. CASE For
  <2> DEFINE g == [fn |-> "evalfor", tested |-> "tested" \in flags]
  <2>1. Node("tail") \in Trees /\ NewTree(Node("tail"))
    BY NodeIsNew DEF Nexts
  <2>2. g \in ForFrames
    BY DEF ForFrames
  <2>3. g \in Frames
    BY <2>2 DEF Frames
  <2> HIDE DEF g
  <2>4. NodeEnds(Node("tail")) \/ NodeLoops(Node("tail"), g)
    BY <1>4, <2>1, <2>2 DEF For, Call, Done, Push, NodeEnds, NodeLoops, levelVars, g
  <2> QED
    BY <1>4, <2>1, <2>3, <2>4 DEF NodeDone, For
<1>5. ASSUME NEW until \in BOOLEAN, While(until)
      PROVE  act = "eval" /\ NodeDone
  <2> DEFINE g == [fn |-> "evalloop", at |-> "test", until |-> until, status |-> 0,
                   tested |-> "tested" \in flags]
  <2>1. Node("tail") \in Trees /\ NewTree(Node("tail"))
    BY NodeIsNew DEF Nexts
  <2>2. g \in WhileFrames
    BY DEF WhileFrames
  <2>3. g \in Frames
    BY <2>2 DEF Frames
  <2> HIDE DEF g
  <2>4. NodeLoops(Node("tail"), g)
    BY <1>5, <2>1, <2>2 DEF While, Call, NodeLoops, levelVars, g
  <2> QED
    BY <1>5, <2>1, <2>3, <2>4 DEF NodeDone, While
<1>6. ASSUME NEW k \in Processes, ForkParent(k)
      PROVE  act = "eval" /\ NodeDone
  <2> DEFINE f == IF k = "pipe" THEN Command ELSE Node("tail")
  <2>1. f \in Trees /\ NewTree(f)
    BY NodeIsNew, CommandIsNew DEF Nexts, TypeOK, ScalarsOK
  <2> HIDE DEF f
  <2>2. NodeEnds(f)
    BY <1>6, <2>1 DEF ForkParent, Done, Push, NodeEnds, skipVars, levelVars, f
  <2> QED
    BY <1>6, <2>1, <2>2 DEF NodeDone, ForkParent
<1>7. ASSUME NEW k \in Processes, ForkChild(k)
      PROVE  act = "eval" /\ NodeDone
  <2>1. Node("never") \in Trees /\ NewTree(Node("never"))
    BY NodeIsNew DEF Nexts
  <2>2. "exit" \in flags'
    BY <1>7 DEF ForkChild, Call, ChildFlags
  <2>3. NodeForks(Node("never"))
    BY <1>7, <2>1, <2>2 DEF ForkChild, Call, NodeForks, skipVars
  <2> QED
    BY <1>7, <2>1, <2>3 DEF NodeDone, ForkChild
<1>8. ASSUME NEW list \in Redirs, Group(list)
      PROVE  act = "eval" /\ NodeDone
  <2> DEFINE f == [Node("group") EXCEPT !.before = Before(list)]
  <2>1. Node("group") \in Trees /\ NewTree(Node("group"))
    BY NodeIsNew DEF Nexts
  <2>2. Before(list) \in Contents
    BY BeforeTypes DEF TypeOK
  <2>3. f \in Trees /\ NewTree(f)
    <3>1. f \in Trees
      BY <2>1, <2>2 DEF Trees
    <3>2. f.exit = Node("group").exit /\ f.check = Node("group").check
          /\ f.strict = Node("group").strict /\ f.next = Node("group").next
      BY <2>1 DEF Trees
    <3> HIDE DEF f
    <3> QED
      BY <2>1, <3>1, <3>2 DEF NewTree
  <2> HIDE DEF f
  <2>4. NodeEnds(Node("group")) \/ NodeCalls(f)
    BY <1>8, <2>1, <2>3 DEF Group, Call, Done, Push, NodeEnds, NodeCalls, skipVars, levelVars, f
  <2> QED
    BY <1>8, <2>1, <2>3, <2>4 DEF NodeDone, Group
<1>9. ASSUME NEW list \in Redirs, SubshellInPlace(list)
      PROVE  act = "eval" /\ NodeDone
  <2>1. Node("never") \in Trees /\ NewTree(Node("never"))
    BY NodeIsNew DEF Nexts
  <2>2. NodeCalls(Node("never"))
    BY <1>9, <2>1 DEF SubshellInPlace, Call, NodeCalls, skipVars, levelVars
  <2> QED
    BY <1>9, <2>1, <2>2 DEF NodeDone, SubshellInPlace
<1> QED
  BY <1>1, <1>2, <1>3, <1>4, <1>5, <1>6, <1>7, <1>8, <1>9 DEF Evaluate

LEMMA EvaluateCommandIs ==
    ASSUME TypeOK, EvaluateCommand
    PROVE  act = "eval" /\ NodeDone
<1> USE DEF Kind, SkipKept
<1>0. Command \in Trees /\ NewTree(Command)
  BY CommandIsNew DEF TypeOK, ScalarsOK
<1>1. ASSUME NEW list \in Redirs, Plain(list)
      PROVE  act = "eval" /\ NodeDone
  <2>1. NodeEnds(Command)
    BY <1>0, <1>1 DEF Plain, Done, Push, NodeEnds, skipVars, levelVars
  <2> QED
    BY <1>0, <1>1, <2>1 DEF NodeDone, Plain
<1>2. ASSUME NEW list \in Redirs, Fails(list)
      PROVE  act = "eval" /\ NodeDone
  <2>1. NodeRaises
    BY <1>2 DEF Fails, NodeRaises, skipVars, levelVars, trapVars
  <2> QED
    BY <1>2, <2>1 DEF NodeDone, Fails
<1>3. ASSUME NEW list \in Redirs, ExecBuiltin(list)
      PROVE  act = "eval" /\ NodeDone
  <2>1. NodeEnds(Command)
    BY <1>0, <1>3 DEF ExecBuiltin, Done, Push, NodeEnds, skipVars, levelVars
  <2> QED
    BY <1>0, <1>3, <2>1 DEF NodeDone, ExecBuiltin
<1>4. ASSUME NEW list \in Redirs, CallFunction(list)
      PROVE  act = "eval" /\ NodeDone
  <2> DEFINE g == [fn |-> "evalfun", before |-> Before(list)]
  <2>1. g \in FunctionFrames
    BY BeforeTypes DEF FunctionFrames, TypeOK
  <2>2. g \in Frames
    BY <2>1 DEF Frames
  <2> HIDE DEF g
  <2>3. NodeRuns(Command, g)
    BY <1>0, <1>4, <2>1 DEF CallFunction, Call, NodeRuns, levelVars, g
  <2> QED
    BY <1>0, <1>4, <2>2, <2>3 DEF NodeDone, CallFunction
<1>5. ASSUME NEW list \in Redirs, NEW fn \in {"evalstring", "dotcmd"}, NEW special \in BOOLEAN,
             RunInput(fn, list, special)
      PROVE  act = "eval" /\ NodeDone
  <2> DEFINE g == [fn |-> fn, special |-> special, before |-> Before(list)]
  <2>1. g \in InputFrames
    BY BeforeTypes DEF InputFrames, TypeOK
  <2>2. g \in Frames
    BY <2>1 DEF Frames
  <2>3. g.special = special
    OBVIOUS
  <2>4. stack' = <<g, Command>> \o stack
    BY <1>5 DEF RunInput
  <2> HIDE DEF g
  <2>5. NodeReads(Command, g)
    BY <1>0, <1>5, <2>1, <2>3, <2>4 DEF RunInput, NodeReads, skipVars, levelVars
  <2> QED
    BY <1>0, <1>5, <2>2, <2>5 DEF NodeDone, RunInput
<1>6. ASSUME NEW kind \in {"break", "cont"}, NEW n \in 1..MaxCount, Break(kind, n)
      PROVE  act = "eval" /\ NodeDone
  <2>1. SkipKept \/ SkipBegins
    <3>1. loopnest \in Int /\ n \in Nat
      BY EvalAssumption DEF TypeOK, ScalarsOK
    <3>2. Limited(n) > 0 => Limited(n) \in 1..loopnest
      BY <3>1 DEF Limited
    <3> QED
      BY <1>6, <3>2 DEF Break, SkipBegins
  <2>2. NodeEnds(Command)
    BY <1>0, <1>6, <2>1 DEF Break, Done, Push, NodeEnds, levelVars
  <2> QED
    BY <1>0, <1>6, <2>2 DEF NodeDone, Break
<1>7. CASE ExecInPlace
  <2>1. NodeRaises
    BY <1>7 DEF ExecInPlace, Replaces, NodeRaises, skipVars, levelVars, trapVars
  <2> QED
    BY <1>7, <2>1 DEF NodeDone, ExecInPlace
<1>8. CASE ReturnBuiltin
  <2>1. SkipBegins
    BY <1>8 DEF ReturnBuiltin, SkipBegins
  <2>2. NodeEnds(Command)
    BY <1>0, <1>8, <2>1 DEF ReturnBuiltin, Done, Push, NodeEnds, levelVars
  <2> QED
    BY <1>0, <1>8, <2>2 DEF NodeDone, ReturnBuiltin
<1>9. CASE ExitBuiltin
  <2>1. NodeRaises
    BY <1>9 DEF ExitBuiltin, NodeRaises, skipVars, levelVars, trapVars
  <2> QED
    BY <1>9, <2>1 DEF NodeDone, ExitBuiltin
<1>10. CASE SetBuiltin
  <2>1. NodeEnds(Command)
    BY <1>0, <1>10 DEF SetBuiltin, Done, Push, NodeEnds, skipVars, levelVars
  <2> QED
    BY <1>0, <1>10, <2>1 DEF NodeDone, SetBuiltin
<1>11. CASE TrapBuiltin
  <2>1. NodeEnds(Command)
    BY <1>0, <1>11 DEF TrapBuiltin, Done, Push, NodeEnds, skipVars, levelVars
  <2> QED
    BY <1>0, <1>11, <2>1 DEF NodeDone, TrapBuiltin
<1> QED
  BY <1>1, <1>2, <1>3, <1>4, <1>5, <1>6, <1>7, <1>8, <1>9, <1>10, <1>11 DEF EvaluateCommand

-----------------------------------------------------------------------------
(***************************************************************************)
(* The invariants.                                                         *)
(***************************************************************************)
HasIn(s, fn) == \E i \in DOMAIN s : s[i].fn = fn
Has(fn) == HasIn(stack, fn)

\* Frames that evaltree, through evalcommand, has called.
OnTree == {"evalloop", "evalfor", "evalfun", "evalstring", "dotcmd", "dotrap"}

\* Who calls whom.
WellCalled(s) ==
    \A i \in DOMAIN s :
        /\ s[i].fn \in OnTree => i < Len(s) /\ s[i + 1].fn = "evaltree"
        /\ s[i].fn = "exitshell" => i = Len(s)

\* And what is on top when.
StackInv ==
    /\ WellCalled(stack)
    /\ act \in {"out", "leave"} => IsTop("evaltree")
    /\ act = "read" => Reading

\* Skipping reaches an evaluation only through a trap.
SkippingInv == act \in {"eval", "read"} /\ evalskip # {} => Has("dotrap")

\* No `command' with eval or . behind it.
NoPrefix == "prefix" \notin Kinds

\* All handlers between an error and the end are those that pass it on.
Passing == {f \in Frames : f.fn \in {"evalstring", "dotcmd"} => f.special}
SpecialInv == stack \in Seq(Passing)

\* The evaltree a child calls first exits when it is over.
ForkFrame(s) ==
    Len(s) > base => s[Len(s) - base].fn = "evaltree" /\ s[Len(s) - base].exit

ForkInv ==
    act \notin {"raise", "ended"} /\ base > 0 =>
        /\ Len(stack) >= base
        /\ Len(stack) = base => act = "eval" /\ "exit" \in flags
        /\ ForkFrame(stack)

\* The frames of some routines from a height on.
FramesOf(s, k, fns) == {i \in DOMAIN s : Len(s) - i >= k /\ s[i].fn \in fns}
LoopsIn(s) == Cardinality(FramesOf(s, 0, Loops))
FunctionsIn(s) == Cardinality(FramesOf(s, 0, {"evalfun"}))
InputsIn(s, b) == Cardinality(FramesOf(s, b - 1, Readers))

\* Counters are right, funcnest even on the way to a handler.
CountInv ==
    /\ act \notin {"raise", "ended"} => loopnest = LoopsIn(stack) /\ inputs = InputsIn(stack, base)
    /\ act # "ended" => funcnest = FunctionsIn(stack)

SkipTarget ==
    act \notin {"raise", "ended"} /\ due = "no" =>
        /\ evalskip \cap {"break", "cont"} # {} => skipcount \in 1..loopnest
        /\ "func" \in evalskip => funcnest > 0

\* While set -e has not fired there is one reason to skip, which has its target.
SkipInv ==
    /\ SkipTarget
    /\ "eval" \in evalskip => due # "no"
    /\ due = "no" => \E what \in Skips : evalskip \subseteq {what}

\* A command that set -e watches is inside nothing that looks at its status.
NoTests(s) == \A i \in DOMAIN s : ~Tests(s[i])
StrictIn(s) ==
    \A i \in DOMAIN s : s[i].fn = "evaltree" =>
        /\ s[i].check => s[i].next = "simple"
        /\ s[i].strict => /\ s[i].check
                          /\ \A j \in DOMAIN s : j > i => ~Tests(s[j])
StrictInv == StrictIn(stack)

\* Strings and dot files that were started under set -e.
UnderE(s) == \A i \in DOMAIN s : s[i].fn \in {"evalstring", "dotcmd"} => s[i + 1].check

\* Once it has fired there are only returns, to nothing that looks at the status.
Returning ==
    /\ act \in {"out", "leave", "back"}
    /\ exitstatus # 0
    /\ UnderE(stack)
    /\ NoTests(stack)
    /\ "eval" \in evalskip \/ (act = "out" /\ Top.check)

ErrexitInv ==
    due = "yes" /\ act \notin {"raise", "ended"} /\ ~Has("dotrap") /\ ~Has("exitshell")
        => Returning

-----------------------------------------------------------------------------
(***************************************************************************)
(* Type correctness.                                                       *)
(***************************************************************************)
LEMMA IoTypes ==
    ASSUME TypeOK, [Next]_vars
    PROVE  io' \in Ios
<1>1. io \in Ios
  BY DEF TypeOK
<1>2. \A list \in Redirs, push \in BOOLEAN : Redirect(io, list, push) \in Ios
  BY <1>1, RedirectTypes, RedirectionsAssumption
<1>3. \A list \in Redirs, drop \in BOOLEAN : PopRedir(Redirect(io, list, TRUE), drop) \in Ios
  BY <1>2, PopRedirTypes
<1>4. PopRedir(io, FALSE) \in Ios /\ ClearRedir(io) \in Ios
  BY <1>1, PopRedirTypes, ClearRedirTypes
<1>5. CASE UNCHANGED vars
  BY <1>1, <1>5 DEF vars
<1>6. CASE Evaluate
  BY <1>1, <1>2, <1>3, <1>6
  DEF Evaluate, Compound, Trivial, Case, For, While, ForkParent, ForkChild, Group,
      SubshellInPlace, RedirectAndUndo
<1>7. CASE EvaluateCommand
  BY <1>1, <1>2, <1>3, <1>7
  DEF EvaluateCommand, Plain, Fails, ExecBuiltin, CallFunction, RunInput, Break, ExecInPlace,
      ReturnBuiltin, ExitBuiltin, SetBuiltin, TrapBuiltin, RedirectAndUndo
<1>8. CASE Continue
  BY <1>1, <1>4, <1>8
  DEF Continue, OutErrexit, OutTrap, Leave, BackTail, BackNot, BackGroup, BackBinary, BackIf,
      BackLoop, BackFor, LoopSkips, BackFunction
<1>9. CASE ReadOrEnd
  BY <1>1, <1>4, <1>9
  DEF ReadOrEnd, Read, EvalstringEnds, DotEnds, TrapEnds, ScriptEnds, ExitTrapEnds
<1>10. CASE Raised
  BY <1>1, <1>4, <1>10
  DEF Raised, Unwind, UnwindFunction, UnwindBuiltin, UnwindExitTrap, UnwindMain
<1>11. CASE Signal \/ Ended
  BY <1>1, <1>11 DEF Signal, Ended, vars
<1> QED
  BY <1>5, <1>6, <1>7, <1>8, <1>9, <1>10, <1>11 DEF Next

LEMMA FrameKinds ==
    ASSUME NEW f \in Frames
    PROVE  /\ f.fn = "evaltree" => f \in Trees
           /\ f.fn = "evalloop" => f \in WhileFrames
           /\ f.fn = "evalfor" => f \in ForFrames
           /\ f.fn \in {"evalstring", "dotcmd"} => f \in InputFrames
           /\ f.fn = "evalfun" => f \in FunctionFrames
           /\ f.fn = "dotrap" => f \in TrapFrames
           /\ f.fn = "exitshell" => f \in ExitFrames
           /\ f.fn \in {"evaltree", "exitshell"} \cup OnTree
BY DEF Frames, Trees, WhileFrames, ForFrames, InputFrames, FunctionFrames, TrapFrames,
       ExitFrames, OnTree

LEMMA TopIs ==
    ASSUME TypeOK, stack # <<>>
    PROVE  /\ Top \in Frames /\ Top = stack[1] /\ Len(stack) \in Nat \ {0}
           /\ Tail(stack) \in Seq(Frames)
BY PopIs DEF TypeOK, Top

(* A frame that goes on with another call.                                 *)
LEMMA GoesOn ==
    ASSUME TypeOK, stack # <<>>
    PROVE  /\ Top.fn = "evaltree" =>
                 /\ [Top EXCEPT !.next = "tail"] \in Trees
                 /\ [Top EXCEPT !.next = "tail"].exit = Top.exit
                 /\ [Top EXCEPT !.next = "tail"].next = "tail"
                 /\ [Top EXCEPT !.next = "tail"].check = Top.check
                 /\ [Top EXCEPT !.next = "tail"].strict = Top.strict
           /\ Top.fn = "evalloop" =>
                 /\ [Top EXCEPT !.at = "body"] \in WhileFrames
                 /\ \A status \in Nat : [Top EXCEPT !.at = "test", !.status = status] \in WhileFrames
<1>1. Top \in Frames
  BY TopIs
<1>2. CASE Top.fn = "evaltree"
  <2>1. Top \in Trees
    BY <1>1, <1>2, FrameKinds
  <2> HIDE DEF Top
  <2>2. /\ [Top EXCEPT !.next = "tail"] \in Trees
        /\ [Top EXCEPT !.next = "tail"].exit = Top.exit
        /\ [Top EXCEPT !.next = "tail"].next = "tail"
        /\ [Top EXCEPT !.next = "tail"].check = Top.check
        /\ [Top EXCEPT !.next = "tail"].strict = Top.strict
    BY <2>1 DEF Trees, Nexts
  <2> QED
    BY <1>2, <2>2
<1>3. CASE Top.fn = "evalloop"
  <2>1. Top \in WhileFrames
    BY <1>1, <1>3, FrameKinds
  <2> HIDE DEF Top
  <2>2. /\ [Top EXCEPT !.at = "body"] \in WhileFrames
        /\ \A status \in Nat : [Top EXCEPT !.at = "test", !.status = status] \in WhileFrames
    BY <2>1 DEF WhileFrames
  <2> QED
    BY <1>3, <2>2
<1> QED
  BY <1>2, <1>3

\* Evaltree, or a loop, calls evaltree once more.
GoesOnWith(h) ==
    /\ stack # <<>> /\ stack' = <<h>> \o Tail(stack)
    /\ h \in Frames /\ h.fn = Top.fn
    /\ \/ /\ h.fn = "evaltree" /\ h.exit = Top.exit /\ h.check = Top.check
          /\ h.strict = Top.strict /\ h.next = "tail" /\ Top.next # "simple"
       \/ h.fn \in Loops

Pops == stack # <<>> /\ stack' = Tail(stack)

LEMMA BranchIs ==
    ASSUME TypeOK, BackBinary \/ BackIf
    PROVE  \/ act' = "out" /\ stack' = stack
           \/ act' = "eval" /\ evalskip = {} /\ \E h \in Frames : GoesOnWith(h)
<1> DEFINE h == [Top EXCEPT !.next = "tail"]
<1>1. stack # <<>> /\ Top.fn = "evaltree" /\ Top.next \in {"and", "or", "semi", "if"}
  BY DEF BackBinary, BackIf, Back, IsTop
<1>2. /\ h \in Trees /\ h.exit = Top.exit /\ h.next = "tail" /\ h.check = Top.check
      /\ h.strict = Top.strict
  BY <1>1, GoesOn
<1>3. h.fn = Top.fn /\ h \in Frames
  BY <1>1, <1>2 DEF Trees, Frames
<1>4. CASE act' = "out" /\ stack' = stack
  BY <1>4
<1>5. CASE ~(act' = "out" /\ stack' = stack)
  <2>1. act' = "eval" /\ evalskip = {} /\ stack' = <<h>> \o Tail(stack)
    BY <1>5 DEF BackBinary, BackIf, Stops, GoOut, CallOn
  <2> HIDE DEF h
  <2>2. GoesOnWith(h)
    BY <1>1, <1>2, <1>3, <2>1 DEF GoesOnWith
  <2> QED
    BY <1>3, <2>1, <2>2
<1> QED
  BY <1>4, <1>5

\* A loop goes on, or ends.
LoopGoesOn(h) == act' = "eval" /\ evalskip' = {} /\ loopnest' = loopnest /\ GoesOnWith(h)
LoopEnds == act' = "back" /\ loopnest' = loopnest - 1 /\ Pops

LEMMA LoopIs ==
    ASSUME TypeOK, BackLoop \/ BackFor \/ LoopSkips
    PROVE  /\ act = "back" /\ stack # <<>> /\ Top.fn \in Loops
           /\ (\E h \in Frames : LoopGoesOn(h)) \/ LoopEnds
<1>1. act = "back" /\ stack # <<>> /\ Top.fn \in Loops
  BY DEF BackLoop, BackFor, LoopSkips, IsTop, Loops
<1>2. Top \in Frames /\ exitstatus \in Nat
  BY <1>1, TopIs DEF TypeOK, ScalarsOK
<1>3. CASE BackLoop
  <2> DEFINE g == [Top EXCEPT !.at = "test", !.status = exitstatus]
             h == [Top EXCEPT !.at = "body"]
  <2>1. Top.fn = "evalloop" /\ evalskip = {} /\ evalskip' = evalskip
    BY <1>3 DEF BackLoop, IsTop
  <2>2. g \in WhileFrames /\ h \in WhileFrames
    BY <1>1, <1>2, <2>1, GoesOn
  <2>3. g.fn = "evalloop" /\ h.fn = "evalloop" /\ g \in Frames /\ h \in Frames
    BY <2>2 DEF WhileFrames, Frames
  <2>4. \/ act' = "eval" /\ loopnest' = loopnest /\ stack' = <<g>> \o Tail(stack)
        \/ act' = "eval" /\ loopnest' = loopnest /\ stack' = <<h>> \o Tail(stack)
        \/ LoopEnds
    BY <1>1, <1>3 DEF BackLoop, CallOn, EndLoop, Return, LoopEnds, Pops
  <2> HIDE DEF g, h
  <2> QED
    BY <1>1, <2>1, <2>3, <2>4 DEF LoopGoesOn, GoesOnWith
<1>4. CASE BackFor
  <2>1. \/ act' = "eval" /\ loopnest' = loopnest /\ stack' = <<Top>> \o Tail(stack)
        \/ LoopEnds
    BY <1>1, <1>4 DEF BackFor, CallOn, EndLoop, Return, LoopEnds, Pops
  <2>2. evalskip = {} /\ evalskip' = evalskip
    BY <1>4 DEF BackFor
  <2> QED
    BY <1>1, <1>2, <2>1, <2>2 DEF LoopGoesOn, GoesOnWith
<1>5. CASE LoopSkips
  <2> DEFINE g == [Top EXCEPT !.at = "test", !.status = LoopStatus]
  <2>1. Top.fn = "evalloop" => g \in WhileFrames
    <3> SUFFICES ASSUME Top.fn = "evalloop"
                 PROVE  g \in WhileFrames
      OBVIOUS
    <3>1. Top \in WhileFrames
      BY <1>2, FrameKinds
    <3>2. LoopStatus \in Nat
      BY <1>2, <3>1 DEF LoopStatus, WhileFrames
    <3> QED
      BY <1>1, <3>2, GoesOn
  <2>2. Top.fn = "evalloop" => g.fn = "evalloop" /\ g \in Frames
    BY <2>1 DEF WhileFrames, Frames
  <2>3. \/ act' = "eval" /\ loopnest' = loopnest /\ Top.fn = "evalloop"
           /\ stack' = <<g>> \o Tail(stack) /\ evalskip = {"cont"} /\ Reached
        \/ act' = "eval" /\ loopnest' = loopnest /\ stack' = <<Top>> \o Tail(stack)
           /\ evalskip = {"cont"} /\ Reached
        \/ LoopEnds
    BY <1>1, <1>5 DEF LoopSkips, CallOn, EndLoop, Return, LoopEnds, Pops
  <2>4. evalskip = {"cont"} /\ Reached => evalskip' = {}
    BY <1>5 DEF LoopSkips
  <2> HIDE DEF g
  <2> QED
    BY <1>1, <1>2, <2>2, <2>3, <2>4 DEF LoopGoesOn, GoesOnWith, Loops
<1> QED
  BY <1>1, <1>3, <1>4, <1>5

LEMMA StackTypes ==
    ASSUME TypeOK, StackInv, [Next]_vars
    PROVE  stack' \in Seq(Frames)
<1>1. stack \in Seq(Frames) /\ exitstatus \in Nat /\ Trees \subseteq Frames
  BY DEF TypeOK, ScalarsOK, Frames
<1>2. \A f \in Frames : <<f>> \o stack \in Seq(Frames)
  BY <1>1, PushIs
<1>3. \A f \in Frames, g \in Frames : <<g, f>> \o stack \in Seq(Frames)
  BY <1>1
<1>4. \A h \in Frames : stack # <<>> => <<h>> \o Tail(stack) \in Seq(Frames)
  BY TopIs, PushIs
<1>5. stack # <<>> => Tail(stack) \in Seq(Frames)
  BY TopIs
<1>6. \A status \in Nat :
          /\ [fn |-> "dotrap", status |-> status] \in Frames
          /\ <<[fn |-> "exitshell", status |-> status]>> \in Seq(Frames)
  <2>1. \A status \in Nat : /\ [fn |-> "dotrap", status |-> status] \in Frames
                            /\ [fn |-> "exitshell", status |-> status] \in Frames
    BY DEF TrapFrames, ExitFrames, Frames
  <2>2. \A f \in Frames : <<f>> \in Seq(Frames)
    OBVIOUS
  <2> QED
    BY <2>1, <2>2
<1> <<>> \in Seq(Frames)
  OBVIOUS
<1>7. CASE UNCHANGED vars
  BY <1>1, <1>7 DEF vars, evalVars
<1>8. CASE Evaluate \/ EvaluateCommand
  <2>1. NodeDone
    BY <1>8, EvaluateIs, EvaluateCommandIs
  <2> QED
    BY <1>1, <1>2, <1>3, <2>1
    DEF NodeDone, NodeEnds, NodeCalls, NodeForks, NodeLoops, NodeReads, NodeRuns, NodeRaises
<1>9. CASE Continue
  <2>1. CASE OutErrexit \/ BackTail \/ BackNot \/ BackGroup
    BY <1>1, <2>1 DEF OutErrexit, BackTail, BackNot, BackGroup, GoOut
  <2>2. CASE OutTrap
    BY <1>1, <1>2, <1>6, <2>2 DEF OutTrap, Push
  <2>3. CASE Leave \/ BackFunction
    BY <1>1, <1>5, <2>3 DEF Leave, BackFunction, IsTop, StackInv
  <2>4. CASE BackBinary \/ BackIf
    BY <1>1, <1>4, <2>4, BranchIs DEF GoesOnWith
  <2>5. CASE BackLoop \/ BackFor \/ LoopSkips
    BY <1>4, <1>5, <2>5, LoopIs DEF LoopGoesOn, LoopEnds, Pops, GoesOnWith
  <2> QED
    BY <1>9, <2>1, <2>2, <2>3, <2>4, <2>5 DEF Continue
<1>10. CASE ReadOrEnd
  <2>1. CASE Read \/ ExitTrapEnds
    BY <1>1, <2>1 DEF Read, ExitTrapEnds
  <2>2. CASE EvalstringEnds \/ DotEnds \/ TrapEnds
    BY <1>5, <2>2 DEF EvalstringEnds, DotEnds, TrapEnds, InputEnds, IsTop
  <2>3. CASE ScriptEnds
    BY <1>1, <1>6, <2>3 DEF ScriptEnds, ExitShell
  <2> QED
    BY <1>10, <2>1, <2>2, <2>3 DEF ReadOrEnd
<1>11. CASE Raised
  <2>1. CASE Unwind \/ UnwindFunction \/ UnwindBuiltin \/ UnwindExitTrap
    BY <1>1, <1>5, <2>1 DEF Unwind, UnwindFunction, UnwindBuiltin, UnwindExitTrap, IsTop
  <2>2. CASE UnwindMain
    <3>1. exitstatus' \in Nat
      BY <1>1, <2>2 DEF UnwindMain
    <3>2. \/ stack' = stack \/ stack' = <<>>
          \/ stack' = <<[fn |-> "exitshell", status |-> exitstatus']>>
      BY <2>2 DEF UnwindMain, ExitShell
    <3> QED
      BY <1>1, <1>6, <3>1, <3>2
  <2> QED
    BY <1>11, <2>1, <2>2 DEF Raised
<1>12. CASE Signal \/ Ended
  BY <1>1, <1>12 DEF Signal, Ended, vars, evalVars
<1> QED
  BY <1>7, <1>8, <1>9, <1>10, <1>11, <1>12 DEF Next

LEMMA EflagTypes ==
    ASSUME TypeOK, StackInv, [Next]_vars
    PROVE  eflag' \in BOOLEAN
<1>1. eflag \in BOOLEAN
  BY DEF TypeOK, ScalarsOK
<1>2. CASE UNCHANGED vars
  BY <1>1, <1>2 DEF vars
<1>3. CASE Evaluate
  BY <1>1, <1>3
  DEF Evaluate, Compound, Trivial, Case, For, While, ForkParent, ForkChild, Group,
      SubshellInPlace
<1>4. CASE EvaluateCommand
  BY <1>1, <1>4
  DEF EvaluateCommand, Plain, Fails, ExecBuiltin, CallFunction, RunInput, Break, ExecInPlace,
      ReturnBuiltin, ExitBuiltin, SetBuiltin, TrapBuiltin
<1>5. CASE Continue
  BY <1>1, <1>5
  DEF Continue, OutErrexit, OutTrap, Leave, BackTail, BackNot, BackGroup, BackBinary, BackIf,
      BackLoop, BackFor, LoopSkips, BackFunction
<1>6. CASE ReadOrEnd
  BY <1>1, <1>6
  DEF ReadOrEnd, Read, EvalstringEnds, DotEnds, TrapEnds, ScriptEnds, ExitTrapEnds, ExitShell
<1>7. CASE Raised
  BY <1>1, <1>7
  DEF Raised, Unwind, UnwindFunction, UnwindBuiltin, UnwindExitTrap, UnwindMain, ExitShell
<1>8. CASE Signal \/ Ended
  BY <1>1, <1>8
  DEF Signal, Ended, vars
<1> QED
  BY <1>2, <1>3, <1>4, <1>5, <1>6, <1>7, <1>8 DEF Next

LEMMA ExittrapTypes ==
    ASSUME TypeOK, StackInv, [Next]_vars
    PROVE  exittrap' \in BOOLEAN
<1>1. exittrap \in BOOLEAN
  BY DEF TypeOK, ScalarsOK
<1>2. CASE UNCHANGED vars
  BY <1>1, <1>2 DEF vars, trapVars
<1>3. CASE Evaluate
  BY <1>1, <1>3
  DEF Evaluate, Compound, Trivial, Case, For, While, ForkParent, ForkChild, Group,
      SubshellInPlace, trapVars
<1>4. CASE EvaluateCommand
  BY <1>1, <1>4
  DEF EvaluateCommand, Plain, Fails, ExecBuiltin, CallFunction, RunInput, Break, ExecInPlace,
      ReturnBuiltin, ExitBuiltin, SetBuiltin, TrapBuiltin, trapVars
<1>5. CASE Continue
  BY <1>1, <1>5
  DEF Continue, OutErrexit, OutTrap, Leave, BackTail, BackNot, BackGroup, BackBinary, BackIf,
      BackLoop, BackFor, LoopSkips, BackFunction, trapVars
<1>6. CASE ReadOrEnd
  BY <1>1, <1>6
  DEF ReadOrEnd, Read, EvalstringEnds, DotEnds, TrapEnds, ScriptEnds, ExitTrapEnds, ExitShell, trapVars
<1>7. CASE Raised
  BY <1>1, <1>7
  DEF Raised, Unwind, UnwindFunction, UnwindBuiltin, UnwindExitTrap, UnwindMain, ExitShell, trapVars
<1>8. CASE Signal \/ Ended
  BY <1>1, <1>8
  DEF Signal, Ended, vars, trapVars
<1> QED
  BY <1>2, <1>3, <1>4, <1>5, <1>6, <1>7, <1>8 DEF Next

LEMMA ActTypes ==
    ASSUME TypeOK, StackInv, [Next]_vars
    PROVE  act' \in Acts
<1>1. act \in Acts
  BY DEF TypeOK, ScalarsOK
<1>2. CASE UNCHANGED vars
  BY <1>1, <1>2 DEF vars, evalVars, Acts
<1>3. CASE Evaluate
  BY <1>1, <1>3
  DEF Evaluate, Compound, Trivial, Case, For, While, ForkParent, ForkChild, Group,
      SubshellInPlace, Done, Call, evalVars, Acts
<1>4. CASE EvaluateCommand
  BY <1>1, <1>4
  DEF EvaluateCommand, Plain, Fails, ExecBuiltin, CallFunction, RunInput, Break, ExecInPlace,
      ReturnBuiltin, ExitBuiltin, SetBuiltin, TrapBuiltin, Done, Call, evalVars, Acts
<1>5. CASE Continue
  BY <1>1, <1>5
  DEF Continue, OutErrexit, OutTrap, Leave, BackTail, BackNot, BackGroup, BackBinary, BackIf,
      BackLoop, BackFor, LoopSkips, BackFunction, GoOut, CallOn, EndLoop, Return, evalVars, Acts
<1>6. CASE ReadOrEnd
  BY <1>1, <1>6
  DEF ReadOrEnd, Read, EvalstringEnds, DotEnds, TrapEnds, ScriptEnds, ExitTrapEnds, ExitShell, evalVars, Acts
<1>7. CASE Raised
  BY <1>1, <1>7
  DEF Raised, Unwind, UnwindFunction, UnwindBuiltin, UnwindExitTrap, UnwindMain, ExitShell, evalVars, Acts
<1>8. CASE Signal \/ Ended
  BY <1>1, <1>8
  DEF Signal, Ended, vars, evalVars, Acts
<1> QED
  BY <1>2, <1>3, <1>4, <1>5, <1>6, <1>7, <1>8 DEF Next

LEMMA DueTypes ==
    ASSUME TypeOK, StackInv, [Next]_vars
    PROVE  due' \in {"no", "yes", "string", "tested"}
<1>1. due \in {"no", "yes", "string", "tested"}
  BY DEF TypeOK, ScalarsOK
<1>2. CASE UNCHANGED vars
  BY <1>1, <1>2 DEF vars
<1>3. CASE Evaluate
  BY <1>1, <1>3
  DEF Evaluate, Compound, Trivial, Case, For, While, ForkParent, ForkChild, Group,
      SubshellInPlace
<1>4. CASE EvaluateCommand
  BY <1>1, <1>4
  DEF EvaluateCommand, Plain, Fails, ExecBuiltin, CallFunction, RunInput, Break, ExecInPlace,
      ReturnBuiltin, ExitBuiltin, SetBuiltin, TrapBuiltin
<1>5. CASE Continue
  BY <1>1, <1>5
  DEF Continue, OutErrexit, OutTrap, Leave, BackTail, BackNot, BackGroup, BackBinary, BackIf,
      BackLoop, BackFor, LoopSkips, BackFunction
<1>6. CASE ReadOrEnd
  BY <1>1, <1>6
  DEF ReadOrEnd, Read, EvalstringEnds, DotEnds, TrapEnds, ScriptEnds, ExitTrapEnds, ExitShell
<1>7. CASE Raised
  BY <1>1, <1>7
  DEF Raised, Unwind, UnwindFunction, UnwindBuiltin, UnwindExitTrap, UnwindMain, ExitShell
<1>8. CASE Signal \/ Ended
  BY <1>1, <1>8
  DEF Signal, Ended, vars
<1> QED
  BY <1>2, <1>3, <1>4, <1>5, <1>6, <1>7, <1>8 DEF Next

LEMMA BaseTypes ==
    ASSUME TypeOK, StackInv, [Next]_vars
    PROVE  base' \in Nat
<1>1. base \in Nat /\ Len(stack) + 1 \in Nat /\ 0 \in Nat
  BY DEF TypeOK, ScalarsOK
<1>2. CASE UNCHANGED vars
  BY <1>1, <1>2 DEF vars, levelVars
<1>3. CASE Evaluate
  BY <1>1, <1>3
  DEF Evaluate, Compound, Trivial, Case, For, While, ForkParent, ForkChild, Group,
      SubshellInPlace, levelVars
<1>4. CASE EvaluateCommand
  BY <1>1, <1>4
  DEF EvaluateCommand, Plain, Fails, ExecBuiltin, CallFunction, RunInput, Break, ExecInPlace,
      ReturnBuiltin, ExitBuiltin, SetBuiltin, TrapBuiltin, levelVars
<1>5. CASE Continue
  BY <1>1, <1>5
  DEF Continue, OutErrexit, OutTrap, Leave, BackTail, BackNot, BackGroup, BackBinary, BackIf,
      BackLoop, BackFor, LoopSkips, BackFunction, levelVars
<1>6. CASE ReadOrEnd
  BY <1>1, <1>6
  DEF ReadOrEnd, Read, EvalstringEnds, DotEnds, TrapEnds, ScriptEnds, ExitTrapEnds, ExitShell, levelVars
<1>7. CASE Raised
  BY <1>1, <1>7
  DEF Raised, Unwind, UnwindFunction, UnwindBuiltin, UnwindExitTrap, UnwindMain, ExitShell, levelVars
<1>8. CASE Signal \/ Ended
  BY <1>1, <1>8
  DEF Signal, Ended, vars, levelVars
<1> QED
  BY <1>2, <1>3, <1>4, <1>5, <1>6, <1>7, <1>8 DEF Next

LEMMA FlagTypes ==
    ASSUME TypeOK, StackInv, [Next]_vars
    PROVE  flags' \in SUBSET Flags
<1>1. flags \in SUBSET Flags /\ {} \in SUBSET Flags
  BY DEF TypeOK, ScalarsOK
<1>2. Tested \in SUBSET Flags /\ {"tested"} \in SUBSET Flags /\ \A k \in Processes : ChildFlags(k) \in SUBSET Flags
  BY DEF Tested, ChildFlags, Flags
<1>3. /\ FlagsOf(Top) \in SUBSET Flags
      /\ FlagsOf([exit |-> FALSE, tested |-> Top.tested]) \in SUBSET Flags
  BY DEF FlagsOf, Flags
<1>4. CASE UNCHANGED vars
  BY <1>1, <1>4 DEF vars, evalVars
<1>5. CASE Evaluate
  BY <1>1, <1>2, <1>5
  DEF Evaluate, Compound, Trivial, Case, For, While, ForkParent, ForkChild, Group,
      SubshellInPlace, Done, Call, evalVars
<1>6. CASE EvaluateCommand
  BY <1>1, <1>2, <1>6
  DEF EvaluateCommand, Plain, Fails, ExecBuiltin, CallFunction, RunInput, Break, ExecInPlace,
      ReturnBuiltin, ExitBuiltin, SetBuiltin, TrapBuiltin, Done, Call, evalVars
<1>7. CASE Continue
  BY <1>1, <1>2, <1>3, <1>7
  DEF Continue, OutErrexit, OutTrap, Leave, BackTail, BackNot, BackGroup, BackBinary, BackIf,
      BackLoop, BackFor, LoopSkips, BackFunction, GoOut, CallOn, EndLoop, Return, evalVars
<1>8. CASE ReadOrEnd
  BY <1>1, <1>8
  DEF ReadOrEnd, Read, EvalstringEnds, DotEnds, TrapEnds, ScriptEnds, ExitTrapEnds, ExitShell, evalVars
<1>9. CASE Raised
  BY <1>1, <1>9
  DEF Raised, Unwind, UnwindFunction, UnwindBuiltin, UnwindExitTrap, UnwindMain, ExitShell, evalVars
<1>10. CASE Signal \/ Ended
  BY <1>1, <1>10
  DEF Signal, Ended, vars, evalVars
<1> QED
  BY <1>4, <1>5, <1>6, <1>7, <1>8, <1>9, <1>10 DEF Next

LEMMA StatusTypes ==
    ASSUME TypeOK, StackInv, [Next]_vars
    PROVE  exitstatus' \in Nat
<1>1. exitstatus \in Nat /\ Statuses \subseteq Nat /\ 0 \in Nat /\ 1 \in Nat /\ 2 \in Nat
  BY EvalAssumption DEF TypeOK, ScalarsOK
<1>2. /\ act = "back" /\ IsTop("evalloop") => Top.status \in Nat /\ LoopStatus \in Nat
      /\ IsTop("dotrap") \/ IsTop("exitshell") => Top.status \in Nat
  <2>1. IsTop("evalloop") \/ IsTop("dotrap") \/ IsTop("exitshell") => Top.status \in Nat
    <3>1. stack # <<>> => Top \in Frames
      BY TopIs
    <3> QED
      BY <3>1, FrameKinds DEF IsTop, WhileFrames, TrapFrames, ExitFrames
  <2> QED
    BY <1>1, <2>1 DEF LoopStatus
<1>3. CASE UNCHANGED vars
  BY <1>1, <1>3 DEF vars, evalVars
<1>4. CASE Evaluate
  BY <1>1, <1>4
  DEF Evaluate, Compound, Trivial, Case, For, While, ForkParent, ForkChild, Group,
      SubshellInPlace, evalVars
<1>5. CASE EvaluateCommand
  BY <1>1, <1>5
  DEF EvaluateCommand, Plain, Fails, ExecBuiltin, CallFunction, RunInput, Break, ExecInPlace,
      ReturnBuiltin, ExitBuiltin, SetBuiltin, TrapBuiltin, evalVars
<1>6. CASE Continue
  BY <1>1, <1>2, <1>6
  DEF Continue, OutErrexit, OutTrap, Leave, BackTail, BackNot, BackGroup, BackBinary, BackIf,
      BackLoop, BackFor, LoopSkips, BackFunction, IsTop, evalVars
<1>7. CASE ReadOrEnd
  BY <1>1, <1>2, <1>7
  DEF ReadOrEnd, Read, EvalstringEnds, DotEnds, TrapEnds, ScriptEnds, ExitTrapEnds,
      ExitShell, InputEnds, evalVars
<1>8. CASE Raised
  BY <1>1, <1>2, <1>8
  DEF Raised, Unwind, UnwindFunction, UnwindBuiltin, UnwindExitTrap, UnwindMain, ExitShell, IsTop, evalVars
<1>9. CASE Signal \/ Ended
  BY <1>1, <1>9
  DEF Signal, Ended, vars, evalVars
<1> QED
  BY <1>3, <1>4, <1>5, <1>6, <1>7, <1>8, <1>9 DEF Next

LEMMA SkipTypes ==
    ASSUME TypeOK, StackInv, [Next]_vars
    PROVE  evalskip' \in SUBSET Skips
<1>1. evalskip \in SUBSET Skips
  BY DEF TypeOK, ScalarsOK
<1>2. CASE UNCHANGED vars
  BY <1>1, <1>2 DEF vars, skipVars, Skips
<1>3. CASE Evaluate
  BY <1>1, <1>3
  DEF Evaluate, Compound, Trivial, Case, For, While, ForkParent, ForkChild, Group,
      SubshellInPlace, skipVars, Skips
<1>4. CASE EvaluateCommand
  BY <1>1, <1>4
  DEF EvaluateCommand, Plain, Fails, ExecBuiltin, CallFunction, RunInput, Break, ExecInPlace,
      ReturnBuiltin, ExitBuiltin, SetBuiltin, TrapBuiltin, skipVars, Skips
<1>5. CASE Continue
  BY <1>1, <1>5
  DEF Continue, OutErrexit, OutTrap, Leave, BackTail, BackNot, BackGroup, BackBinary, BackIf,
      BackLoop, BackFor, LoopSkips, BackFunction, FunctionSkip, skipVars, Skips
<1>6. CASE ReadOrEnd
  BY <1>1, <1>6
  DEF ReadOrEnd, Read, EvalstringEnds, DotEnds, TrapEnds, ScriptEnds, ExitTrapEnds, ExitShell, Skip, skipVars, Skips
<1>7. CASE Raised
  BY <1>1, <1>7
  DEF Raised, Unwind, UnwindFunction, UnwindBuiltin, UnwindExitTrap, UnwindMain, ExitShell, FunctionSkip, skipVars, Skips
<1>8. CASE Signal \/ Ended
  BY <1>1, <1>8
  DEF Signal, Ended, vars, skipVars, Skips
<1> QED
  BY <1>2, <1>3, <1>4, <1>5, <1>6, <1>7, <1>8 DEF Next

LEMMA SkipcountTypes ==
    ASSUME TypeOK, StackInv, [Next]_vars
    PROVE  skipcount' \in Int
<1>1. skipcount \in Int /\ skipcount - 1 \in Int
  BY DEF TypeOK, ScalarsOK
<1>2. \A n \in 1..MaxCount : Limited(n) \in Int
  BY EvalAssumption DEF Limited, TypeOK, ScalarsOK
<1>3. CASE UNCHANGED vars
  BY <1>1, <1>3 DEF vars, skipVars
<1>4. CASE Evaluate
  BY <1>1, <1>4
  DEF Evaluate, Compound, Trivial, Case, For, While, ForkParent, ForkChild, Group,
      SubshellInPlace, skipVars
<1>5. CASE EvaluateCommand
  BY <1>1, <1>2, <1>5
  DEF EvaluateCommand, Plain, Fails, ExecBuiltin, CallFunction, RunInput, Break, ExecInPlace,
      ReturnBuiltin, ExitBuiltin, SetBuiltin, TrapBuiltin, skipVars
<1>6. CASE Continue
  BY <1>1, <1>6
  DEF Continue, OutErrexit, OutTrap, Leave, BackTail, BackNot, BackGroup, BackBinary, BackIf,
      BackLoop, BackFor, LoopSkips, BackFunction, skipVars
<1>7. CASE ReadOrEnd
  BY <1>1, <1>7
  DEF ReadOrEnd, Read, EvalstringEnds, DotEnds, TrapEnds, ScriptEnds, ExitTrapEnds,
      ExitShell, skipVars
<1>8. CASE Raised
  BY <1>1, <1>8
  DEF Raised, Unwind, UnwindFunction, UnwindBuiltin, UnwindExitTrap, UnwindMain, ExitShell, skipVars
<1>9. CASE Signal \/ Ended
  BY <1>1, <1>9
  DEF Signal, Ended, vars, skipVars
<1> QED
  BY <1>3, <1>4, <1>5, <1>6, <1>7, <1>8, <1>9 DEF Next

LEMMA LoopnestTypes ==
    ASSUME TypeOK, StackInv, [Next]_vars
    PROVE  loopnest' \in Int
<1>1. loopnest \in Int /\ loopnest + 1 \in Int /\ loopnest - 1 \in Int /\ 0 \in Int
  BY DEF TypeOK, ScalarsOK
<1>2. CASE UNCHANGED vars
  BY <1>1, <1>2 DEF vars, skipVars
<1>3. CASE Evaluate
  BY <1>1, <1>3
  DEF Evaluate, Compound, Trivial, Case, For, While, ForkParent, ForkChild, Group,
      SubshellInPlace, skipVars
<1>4. CASE EvaluateCommand
  BY <1>1, <1>4
  DEF EvaluateCommand, Plain, Fails, ExecBuiltin, CallFunction, RunInput, Break, ExecInPlace,
      ReturnBuiltin, ExitBuiltin, SetBuiltin, TrapBuiltin, skipVars
<1>5. CASE Continue
  BY <1>1, <1>5
  DEF Continue, OutErrexit, OutTrap, Leave, BackTail, BackNot, BackGroup, BackBinary, BackIf,
      BackLoop, BackFor, LoopSkips, BackFunction, EndLoop, skipVars
<1>6. CASE ReadOrEnd
  BY <1>1, <1>6
  DEF ReadOrEnd, Read, EvalstringEnds, DotEnds, TrapEnds, ScriptEnds, ExitTrapEnds,
      ExitShell, skipVars
<1>7. CASE Raised
  BY <1>1, <1>7
  DEF Raised, Unwind, UnwindFunction, UnwindBuiltin, UnwindExitTrap, UnwindMain, ExitShell, NoLoops, skipVars
<1>8. CASE Signal \/ Ended
  BY <1>1, <1>8
  DEF Signal, Ended, vars, skipVars
<1> QED
  BY <1>2, <1>3, <1>4, <1>5, <1>6, <1>7, <1>8 DEF Next

LEMMA FuncnestTypes ==
    ASSUME TypeOK, StackInv, [Next]_vars
    PROVE  funcnest' \in Int
<1>1. funcnest \in Int /\ funcnest + 1 \in Int /\ funcnest - 1 \in Int
  BY DEF TypeOK, ScalarsOK
<1>2. CASE UNCHANGED vars
  BY <1>1, <1>2 DEF vars, skipVars
<1>3. CASE Evaluate
  BY <1>1, <1>3
  DEF Evaluate, Compound, Trivial, Case, For, While, ForkParent, ForkChild, Group,
      SubshellInPlace, skipVars
<1>4. CASE EvaluateCommand
  BY <1>1, <1>4
  DEF EvaluateCommand, Plain, Fails, ExecBuiltin, CallFunction, RunInput, Break, ExecInPlace,
      ReturnBuiltin, ExitBuiltin, SetBuiltin, TrapBuiltin, skipVars
<1>5. CASE Continue
  BY <1>1, <1>5
  DEF Continue, OutErrexit, OutTrap, Leave, BackTail, BackNot, BackGroup, BackBinary, BackIf,
      BackLoop, BackFor, LoopSkips, BackFunction, skipVars
<1>6. CASE ReadOrEnd
  BY <1>1, <1>6
  DEF ReadOrEnd, Read, EvalstringEnds, DotEnds, TrapEnds, ScriptEnds, ExitTrapEnds,
      ExitShell, skipVars
<1>7. CASE Raised
  BY <1>1, <1>7
  DEF Raised, Unwind, UnwindFunction, UnwindBuiltin, UnwindExitTrap, UnwindMain, ExitShell, skipVars
<1>8. CASE Signal \/ Ended
  BY <1>1, <1>8
  DEF Signal, Ended, vars, skipVars
<1> QED
  BY <1>2, <1>3, <1>4, <1>5, <1>6, <1>7, <1>8 DEF Next

LEMMA InputsTypes ==
    ASSUME TypeOK, StackInv, [Next]_vars
    PROVE  inputs' \in Int
<1>1. inputs \in Int /\ inputs + 1 \in Int /\ inputs - 1 \in Int /\ 0 \in Int /\ 0 + 1 \in Int
  BY DEF TypeOK, ScalarsOK
<1>2. CASE UNCHANGED vars
  BY <1>1, <1>2 DEF vars
<1>3. CASE Evaluate
  BY <1>1, <1>3
  DEF Evaluate, Compound, Trivial, Case, For, While, ForkParent, ForkChild, Group,
      SubshellInPlace
<1>4. CASE EvaluateCommand
  BY <1>1, <1>4
  DEF EvaluateCommand, Plain, Fails, ExecBuiltin, CallFunction, RunInput, Break, ExecInPlace,
      ReturnBuiltin, ExitBuiltin, SetBuiltin, TrapBuiltin
<1>5. CASE Continue
  BY <1>1, <1>5
  DEF Continue, OutErrexit, OutTrap, Leave, BackTail, BackNot, BackGroup, BackBinary, BackIf,
      BackLoop, BackFor, LoopSkips, BackFunction
<1>6. CASE ReadOrEnd
  BY <1>1, <1>6
  DEF ReadOrEnd, Read, EvalstringEnds, DotEnds, TrapEnds, ScriptEnds, ExitTrapEnds,
      ExitShell
<1>7. CASE Raised
  BY <1>1, <1>7
  DEF Raised, Unwind, UnwindFunction, UnwindBuiltin, UnwindExitTrap, UnwindMain, ExitShell
<1>8. CASE Signal \/ Ended
  BY <1>1, <1>8
  DEF Signal, Ended, vars
<1> QED
  BY <1>2, <1>3, <1>4, <1>5, <1>6, <1>7, <1>8 DEF Next

LEMMA TypesKept ==
    ASSUME TypeOK, StackInv, [Next]_vars
    PROVE  TypeOK'
BY IoTypes, StackTypes, EflagTypes, ExittrapTypes, ActTypes, DueTypes, BaseTypes, FlagTypes,
   StatusTypes, SkipTypes, SkipcountTypes, LoopnestTypes, FuncnestTypes, InputsTypes
DEF TypeOK, ScalarsOK

-----------------------------------------------------------------------------
(***************************************************************************)
(* The callers on the stack.                                               *)
(***************************************************************************)
LEMMA PushCalled ==
    ASSUME NEW s \in Seq(Frames), WellCalled(s), NEW f \in Frames,
           f.fn = "exitshell" => s = <<>>,
           f.fn \in OnTree => s # <<>> /\ s[1].fn = "evaltree"
    PROVE  WellCalled(<<f>> \o s)
<1> DEFINE t == <<f>> \o s
<1>1. /\ t \in Seq(Frames) /\ Len(t) = Len(s) + 1 /\ t[1] = f
      /\ \A i \in 1..Len(s) : t[i + 1] = s[i]
  BY PushIs
<1> DOMAIN t = 1..Len(t)
  BY <1>1
<1> HIDE DEF t
<1> SUFFICES ASSUME NEW i \in 1..Len(t)
             PROVE  /\ t[i].fn \in OnTree => i < Len(t) /\ t[i + 1].fn = "evaltree"
                    /\ t[i].fn = "exitshell" => i = Len(t)
  BY DEF WellCalled, t
<1>2. CASE i = 1
  <2>1. s # <<>> => Len(s) >= 1 /\ t[2] = s[1]
    BY <1>1
  <2>2. s = <<>> => Len(s) = 0
    OBVIOUS
  <2> QED
    BY <1>1, <1>2, <2>1, <2>2
<1>3. CASE i # 1
  <2>1. i - 1 \in 1..Len(s) /\ t[i] = s[i - 1] /\ i - 1 \in DOMAIN s
    BY <1>1, <1>3
  <2>2. i - 1 < Len(s) => t[i + 1] = s[(i - 1) + 1]
    BY <1>1, <1>3
  <2>3. /\ s[i - 1].fn \in OnTree => i - 1 < Len(s) /\ s[(i - 1) + 1].fn = "evaltree"
        /\ s[i - 1].fn = "exitshell" => i - 1 = Len(s)
    BY <2>1 DEF WellCalled
  <2> QED
    BY <1>1, <2>1, <2>2, <2>3
<1> QED
  BY <1>2, <1>3

LEMMA PopCalled ==
    ASSUME NEW s \in Seq(Frames), s # <<>>, WellCalled(s)
    PROVE  WellCalled(Tail(s))
<1> DEFINE t == Tail(s)
<1>1. /\ t \in Seq(Frames) /\ Len(t) = Len(s) - 1 /\ Len(s) \in Nat \ {0}
      /\ \A i \in 1..Len(t) : t[i] = s[i + 1]
  BY PopIs
<1> DOMAIN t = 1..Len(t)
  BY <1>1
<1> HIDE DEF t
<1> SUFFICES ASSUME NEW i \in 1..Len(t)
             PROVE  /\ t[i].fn \in OnTree => i < Len(t) /\ t[i + 1].fn = "evaltree"
                    /\ t[i].fn = "exitshell" => i = Len(t)
  BY DEF WellCalled, t
<1>2. i + 1 \in DOMAIN s /\ t[i] = s[i + 1]
  BY <1>1
<1>3. /\ s[i + 1].fn \in OnTree => i + 1 < Len(s) /\ s[(i + 1) + 1].fn = "evaltree"
      /\ s[i + 1].fn = "exitshell" => i + 1 = Len(s)
  BY <1>2 DEF WellCalled
<1>4. i < Len(t) => t[i + 1] = s[(i + 1) + 1]
  BY <1>1
<1> QED
  BY <1>1, <1>2, <1>3, <1>4

(* What is under the frame on top.                                         *)
LEMMA UnderTop ==
    ASSUME TypeOK, StackInv, stack # <<>>, Top.fn \in OnTree
    PROVE  Tail(stack) # <<>> /\ Head(Tail(stack)).fn = "evaltree"
<1>1. Top = stack[1] /\ 1 \in DOMAIN stack
  BY TopIs DEF TypeOK
<1>2. 1 < Len(stack) /\ stack[2].fn = "evaltree"
  BY <1>1 DEF StackInv, WellCalled
<1>3. Len(Tail(stack)) = Len(stack) - 1 /\ \A i \in 1..Len(Tail(stack)) : Tail(stack)[i] = stack[i + 1]
  BY PopIs DEF TypeOK
<1>4. Tail(stack)[1] = stack[2] /\ Len(Tail(stack)) > 0
  BY <1>2, <1>3
<1>5. Tail(stack) # <<>> /\ Head(Tail(stack)) = Tail(stack)[1]
  <2> DEFINE t == Tail(stack)
  <2>1. t \in Seq(Frames)
    BY TopIs
  <2>2. Len(t) > 0
    BY <1>4
  <2> HIDE DEF t
  <2>3. t # <<>> /\ Head(t) = t[1]
    BY <2>1, <2>2
  <2> QED
    BY <2>3 DEF t
<1> QED
  BY <1>2, <1>4, <1>5

LEMMA ReplaceCalled ==
    ASSUME TypeOK, StackInv, NEW h \in Frames, GoesOnWith(h)
    PROVE  WellCalled(stack')
<1>1. stack # <<>> /\ h.fn = Top.fn /\ stack' = <<h>> \o Tail(stack)
  BY DEF GoesOnWith
<1>2. h.fn # "exitshell"
  BY DEF GoesOnWith, Loops
<1>3. Tail(stack) \in Seq(Frames) /\ WellCalled(Tail(stack))
  BY <1>1, TopIs, PopCalled DEF TypeOK, StackInv
<1>4. h.fn \in OnTree => Tail(stack) # <<>> /\ Tail(stack)[1].fn = "evaltree"
  BY <1>1, <1>3, UnderTop
<1> QED
  BY <1>1, <1>2, <1>3, <1>4, PushCalled

LEMMA ExitCalled ==
    /\ WellCalled(<<>>)
    /\ \A status : LET s == <<[fn |-> "exitshell", status |-> status]>>
                   IN  WellCalled(s) /\ Head(s).fn = "exitshell"
<1>1. WellCalled(<<>>)
  BY DEF WellCalled
<1>2. ASSUME NEW status
      PROVE  LET s == <<[fn |-> "exitshell", status |-> status]>>
             IN  WellCalled(s) /\ Head(s).fn = "exitshell"
  <2> DEFINE g == [fn |-> "exitshell", status |-> status]
  <2>1. g.fn = "exitshell"
    OBVIOUS
  <2> HIDE DEF g
  <2>2. WellCalled(<<g>>) /\ Head(<<g>>) = g
    BY <2>1 DEF WellCalled, OnTree
  <2> QED
    BY <2>1, <2>2 DEF g
<1> QED
  BY <1>1, <1>2

LEMMA StackInvKept ==
    ASSUME TypeOK, StackInv, [Next]_vars
    PROVE  StackInv'
<1>1. stack \in Seq(Frames) /\ WellCalled(stack) /\ Trees \subseteq Frames
  BY DEF TypeOK, StackInv, Frames
<1>2. stack # <<>> => WellCalled(Tail(stack)) /\ Tail(stack) \in Seq(Frames)
  BY <1>1, PopCalled, TopIs
<1>3. \A f \in Frames : /\ <<f>> \o stack # <<>> /\ Head(<<f>> \o stack) = f
                        /\ <<f>> \o stack \in Seq(Frames)
  BY <1>1, PushIs
<1>4. \A f \in Trees : f.fn = "evaltree" /\ WellCalled(<<f>> \o stack)
  <2>1. \A f \in Trees : f.fn = "evaltree" /\ f.fn \notin OnTree
    BY DEF Trees, OnTree
  <2> QED
    BY <1>1, <2>1, PushCalled
<1>5. CASE UNCHANGED vars
  BY <1>1, <1>5 DEF vars, evalVars, StackInv, IsTop, Reading, Top
<1>6. CASE Evaluate \/ EvaluateCommand
  <2>1. NodeDone
    BY <1>6, EvaluateIs, EvaluateCommandIs
  <2>2. CASE \E f \in Trees : NodeEnds(f) \/ NodeCalls(f) \/ NodeForks(f)
    BY <1>1, <1>3, <1>4, <2>2
    DEF NodeEnds, NodeCalls, NodeForks, StackInv, IsTop, Top
  <2>3. ASSUME NEW f \in Trees, NEW g \in Frames, NodeLoops(f, g) \/ NodeReads(f, g) \/ NodeRuns(f, g)
        PROVE  StackInv'
    <3> DEFINE t == <<f>> \o stack
    <3>1. stack' = <<g>> \o t
      BY <1>1, <2>3, PushTwo DEF NodeLoops, NodeReads, NodeRuns
    <3>2. t \in Seq(Frames) /\ WellCalled(t) /\ t # <<>> /\ t[1].fn = "evaltree"
      BY <1>1, <1>3, <1>4, PushIs
    <3> HIDE DEF t
    <3>3. g.fn \in OnTree /\ g.fn # "exitshell"
      BY <2>3 DEF NodeLoops, NodeReads, NodeRuns, WhileFrames, ForFrames, InputFrames, FunctionFrames, OnTree
    <3>4. WellCalled(stack')
      BY <3>1, <3>2, <3>3, PushCalled
    <3>5. Head(stack') = g
      BY <3>1, <3>2, PushIs
    <3>6. act' \in {"eval", "read"} /\ (act' = "read" => g.fn \in Readers)
      BY <2>3 DEF NodeLoops, NodeReads, NodeRuns, InputFrames, Readers
    <3> QED
      BY <3>4, <3>5, <3>6 DEF StackInv, Reading, Top
  <2>4. CASE NodeRaises
    BY <1>1, <2>4 DEF NodeRaises, StackInv
  <2> QED
    BY <2>1, <2>2, <2>3, <2>4 DEF NodeDone
<1>7. CASE Continue
  <2>1. CASE OutErrexit \/ BackTail \/ BackNot \/ BackGroup
    BY <1>1, <2>1 DEF OutErrexit, BackTail, BackNot, BackGroup, GoOut, Back, StackInv, IsTop, Top
  <2>2. CASE OutTrap
    <3> DEFINE g == [fn |-> "dotrap", status |-> exitstatus]
    <3>1. g \in Frames /\ g.fn = "dotrap"
      BY DEF TypeOK, ScalarsOK, TrapFrames, Frames
    <3>2. stack # <<>> /\ stack[1].fn = "evaltree"
      BY <2>2, TopIs DEF OutTrap, StackInv, IsTop
    <3> HIDE DEF g
    <3>3. WellCalled(<<g>> \o stack)
      BY <1>1, <3>1, <3>2, PushCalled
    <3>4. CASE traps
      <4>1. stack' = <<g>> \o stack /\ act' = "read"
        BY <2>2, <3>4 DEF OutTrap, Push, g
      <4> QED
        BY <1>3, <3>1, <3>3, <4>1 DEF StackInv, Reading, Top, Readers
    <3>5. CASE ~traps
      BY <1>1, <2>2, <3>2, <3>5, TopIs DEF OutTrap, StackInv, IsTop, Top
    <3> QED
      BY <3>4, <3>5
  <2>3. CASE Leave
    <3>1. stack # <<>>
      BY <2>3 DEF Leave, StackInv, IsTop
    <3> QED
      BY <1>1, <1>2, <2>3, <3>1 DEF Leave, StackInv
  <2>4. CASE BackFunction
    <3>1. stack # <<>> /\ Top.fn \in OnTree
      BY <2>4 DEF BackFunction, IsTop, OnTree
    <3> QED
      BY <1>2, <2>4, <3>1, UnderTop DEF BackFunction, StackInv, IsTop, Top
  <2>5. CASE BackBinary \/ BackIf
    <3>1. CASE act' = "out" /\ stack' = stack
      BY <1>1, <2>5, <3>1 DEF BackBinary, BackIf, Back, StackInv, IsTop, Top
    <3>2. CASE act' = "eval" /\ \E h \in Frames : GoesOnWith(h)
      BY <3>2, ReplaceCalled DEF StackInv
    <3> QED
      BY <2>5, <3>1, <3>2, BranchIs
  <2>6. CASE BackLoop \/ BackFor \/ LoopSkips
    <3>1. ASSUME NEW h \in Frames, LoopGoesOn(h)
          PROVE  StackInv'
      BY <3>1, ReplaceCalled DEF StackInv, LoopGoesOn
    <3>2. CASE LoopEnds
      BY <1>2, <3>2 DEF LoopEnds, Pops, StackInv
    <3> QED
      BY <2>6, <3>1, <3>2, LoopIs
  <2> QED
    BY <1>7, <2>1, <2>2, <2>3, <2>4, <2>5, <2>6 DEF Continue
<1>8. CASE ReadOrEnd
  <2>1. CASE Read
    BY <1>1, <2>1 DEF Read, StackInv
  <2>2. CASE ExitTrapEnds
    BY <1>1, <2>2 DEF ExitTrapEnds, StackInv
  <2>3. CASE EvalstringEnds \/ DotEnds \/ TrapEnds
    <3>1. stack # <<>> /\ Top.fn \in OnTree
      BY <2>3 DEF EvalstringEnds, DotEnds, TrapEnds, InputEnds, IsTop, OnTree
    <3>2. stack' = Tail(stack) /\ act' \in {"out", "leave", "raise"}
      BY <2>3 DEF EvalstringEnds, DotEnds, TrapEnds
    <3> QED
      BY <1>2, <3>1, <3>2, UnderTop DEF StackInv, IsTop, Top
  <2>4. CASE ScriptEnds
    BY <2>4, ExitCalled DEF ScriptEnds, ExitShell, StackInv, Reading, Top, Readers
  <2> QED
    BY <1>8, <2>1, <2>2, <2>3, <2>4 DEF ReadOrEnd
<1>9. CASE Raised
  <2>1. CASE Unwind \/ UnwindFunction
    <3>1. stack # <<>>
      BY <2>1 DEF Unwind, UnwindFunction, IsTop
    <3> QED
      BY <1>2, <2>1, <3>1 DEF Unwind, UnwindFunction, StackInv
  <2>2. CASE UnwindBuiltin
    <3>1. stack # <<>> /\ Top.fn \in OnTree
      BY <2>2 DEF UnwindBuiltin, IsTop, OnTree
    <3>2. stack' = Tail(stack) /\ act' \in {"out", "raise"}
      BY <2>2 DEF UnwindBuiltin
    <3> QED
      BY <1>2, <3>1, <3>2, UnderTop DEF StackInv, IsTop, Top
  <2>3. CASE UnwindExitTrap
    BY <1>1, <2>3 DEF UnwindExitTrap, StackInv
  <2>4. CASE UnwindMain
    <3>1. CASE act' = "read" /\ UNCHANGED <<stack, exittrap>>
      BY <1>1, <2>4, <3>1 DEF UnwindMain, StackInv, Reading
    <3>2. CASE ExitShell(exitstatus', 0)
      BY <3>2, ExitCalled DEF ExitShell, StackInv, Reading, Top, Readers
    <3> QED
      BY <2>4, <3>1, <3>2 DEF UnwindMain
  <2> QED
    BY <1>9, <2>1, <2>2, <2>3, <2>4 DEF Raised
<1>10. CASE Signal \/ Ended
  BY <1>1, <1>10 DEF Signal, Ended, vars, evalVars, StackInv, IsTop, Reading, Top
<1> QED
  BY <1>5, <1>6, <1>7, <1>8, <1>9, <1>10 DEF Next

BaseInv == TypeOK /\ StackInv

LEMMA InitBase == Init => BaseInv
<1> SUFFICES ASSUME Init
             PROVE  BaseInv
  OBVIOUS
<1>1. io \in Ios /\ stack = <<>> /\ stack \in Seq(Frames)
  BY NewIoTypes DEF Init
<1>2. ScalarsOK
  <2>1. act \in Acts /\ flags \in SUBSET Flags /\ evalskip \in SUBSET Skips
    BY DEF Init, Acts
  <2>2. eflag \in BOOLEAN /\ exittrap \in BOOLEAN /\ due \in {"no", "yes", "string", "tested"}
    BY DEF Init
  <2>3. /\ exitstatus \in Nat /\ skipcount \in Int /\ loopnest \in Int /\ funcnest \in Int
        /\ inputs \in Int /\ base \in Nat
    BY DEF Init
  <2> QED
    BY <2>1, <2>2, <2>3 DEF ScalarsOK
<1>3. StackInv
  BY <1>1, ExitCalled DEF Init, StackInv, Reading
<1> QED
  BY <1>1, <1>2, <1>3 DEF BaseInv, TypeOK

LEMMA BaseKept == BaseInv /\ [Next]_vars => BaseInv'
BY TypesKept, StackInvKept DEF BaseInv

(* Every variable keeps its type: the stack holds frames of the routines   *)
(* that may be on it, the statuses are natural numbers, and io is a table  *)
(* of descriptors with a list of what is to be undone.  With it goes the   *)
(* order of the C stack: which routine was called by which.                *)
THEOREM TypeCorrect == Spec => []BaseInv
BY InitBase, BaseKept, PTL DEF Spec

-----------------------------------------------------------------------------
(***************************************************************************)
(* What is on the stack.                                                   *)
(***************************************************************************)
LEMMA HasInPush ==
    ASSUME NEW s \in Seq(Frames), NEW f \in Frames, NEW fn
    PROVE  HasIn(<<f>> \o s, fn) <=> f.fn = fn \/ HasIn(s, fn)
<1> DEFINE t == <<f>> \o s
<1>1. /\ t \in Seq(Frames) /\ Len(t) = Len(s) + 1 /\ t[1] = f
      /\ \A i \in 1..Len(s) : t[i + 1] = s[i]
  BY PushIs
<1>2. DOMAIN t = 1..(Len(s) + 1) /\ DOMAIN s = 1..Len(s) /\ Len(s) \in Nat
  BY <1>1
<1> HIDE DEF t
<1>3. ASSUME HasIn(t, fn), f.fn # fn
      PROVE  HasIn(s, fn)
  <2>1. PICK i \in 1..(Len(s) + 1) : t[i].fn = fn
    BY <1>2, <1>3 DEF HasIn
  <2>2. i # 1
    BY <1>1, <1>3, <2>1
  <2>3. i - 1 \in 1..Len(s) /\ t[(i - 1) + 1] = s[i - 1] /\ (i - 1) + 1 = i
    BY <1>1, <1>2, <2>2
  <2> QED
    BY <1>2, <2>1, <2>3 DEF HasIn
<1>4. ASSUME HasIn(s, fn)
      PROVE  HasIn(t, fn)
  <2>1. PICK i \in 1..Len(s) : s[i].fn = fn
    BY <1>2, <1>4 DEF HasIn
  <2>2. i + 1 \in DOMAIN t /\ t[i + 1] = s[i]
    BY <1>1, <1>2
  <2> QED
    BY <2>1, <2>2 DEF HasIn
<1>5. f.fn = fn => HasIn(t, fn)
  <2>1. 1 \in DOMAIN t
    BY <1>2
  <2> QED
    BY <1>1, <2>1 DEF HasIn
<1> QED
  BY <1>3, <1>4, <1>5 DEF t

LEMMA HasInPop ==
    ASSUME NEW s \in Seq(Frames), s # <<>>, NEW fn
    PROVE  HasIn(s, fn) <=> Head(s).fn = fn \/ HasIn(Tail(s), fn)
<1>1. s = <<Head(s)>> \o Tail(s) /\ Head(s) \in Frames /\ Tail(s) \in Seq(Frames)
  BY PopIs
<1> DEFINE f == Head(s)
           t == Tail(s)
<1> HIDE DEF f, t
<1>2. HasIn(<<f>> \o t, fn) <=> f.fn = fn \/ HasIn(t, fn)
  BY <1>1, HasInPush DEF f, t
<1> QED
  BY <1>1, <1>2 DEF f, t

LEMMA WithinIsHas ==
    ASSUME TypeOK, NEW fn
    PROVE  Within(fn) <=> Has(fn)
<1> DEFINE I == {i \in DOMAIN stack : stack[i].fn \in {fn}}
<1>1. IsFiniteSet(DOMAIN stack)
  BY FS_Interval DEF TypeOK
<1>2. IsFiniteSet(I)
  BY <1>1, FS_Subset
<1>3. Cardinality(I) \in Nat /\ (Cardinality(I) = 0 <=> I = {})
  <2> HIDE DEF I
  <2> QED
    BY <1>2, FS_CardinalityType, FS_EmptySet
<1>4. Within(fn) <=> I # {}
  BY <1>3 DEF Within, Count
<1> QED
  BY <1>4 DEF Has, HasIn

LEMMA HasKept ==
    ASSUME TypeOK, NEW fn
    PROVE  /\ \A f \in Frames : stack' = <<f>> \o stack => (Has(fn)' <=> f.fn = fn \/ Has(fn))
           /\ \A f \in Frames, g \in Frames :
                  stack' = <<g, f>> \o stack => (Has(fn)' <=> g.fn = fn \/ f.fn = fn \/ Has(fn))
           /\ Pops => (Has(fn) <=> Top.fn = fn \/ Has(fn)')
           /\ \A h \in Frames : GoesOnWith(h) => (Has(fn)' <=> Has(fn))
           /\ stack' = stack => (Has(fn)' <=> Has(fn))
<1>1. stack \in Seq(Frames)
  BY DEF TypeOK
<1>2. ASSUME NEW f \in Frames, stack' = <<f>> \o stack
      PROVE  Has(fn)' <=> f.fn = fn \/ Has(fn)
  BY <1>1, <1>2, HasInPush DEF Has
<1>3. ASSUME NEW f \in Frames, NEW g \in Frames, stack' = <<g, f>> \o stack
      PROVE  Has(fn)' <=> g.fn = fn \/ f.fn = fn \/ Has(fn)
  <2> DEFINE t == <<f>> \o stack
  <2>1. stack' = <<g>> \o t /\ t \in Seq(Frames)
    BY <1>1, <1>3, PushTwo, PushIs
  <2>2. HasIn(t, fn) <=> f.fn = fn \/ HasIn(stack, fn)
    BY <1>1, HasInPush
  <2> HIDE DEF t
  <2>3. HasIn(<<g>> \o t, fn) <=> g.fn = fn \/ HasIn(t, fn)
    BY <2>1, HasInPush
  <2> QED
    BY <2>1, <2>2, <2>3 DEF Has
<1>4. ASSUME stack # <<>>
      PROVE  HasIn(stack, fn) <=> Top.fn = fn \/ HasIn(Tail(stack), fn)
  BY <1>1, <1>4, HasInPop DEF Top
<1>5. Pops => (Has(fn) <=> Top.fn = fn \/ Has(fn)')
  BY <1>4 DEF Pops, Has
<1>6. ASSUME NEW h \in Frames, GoesOnWith(h)
      PROVE  Has(fn)' <=> Has(fn)
  <2>1. stack # <<>> /\ stack' = <<h>> \o Tail(stack) /\ h.fn = Top.fn
    BY <1>6 DEF GoesOnWith
  <2>2. Tail(stack) \in Seq(Frames)
    BY <2>1, TopIs
  <2>3. HasIn(stack', fn) <=> h.fn = fn \/ HasIn(Tail(stack), fn)
    BY <2>1, <2>2, HasInPush
  <2> QED
    BY <1>4, <2>1, <2>3 DEF Has
<1>7. stack' = stack => (Has(fn)' <=> Has(fn))
  BY DEF Has
<1> QED
  BY <1>2, <1>3, <1>5, <1>6, <1>7

LEMMA ContinueGoesOn ==
    ASSUME TypeOK, Continue
    PROVE  act' \notin {"ended"}
<1>1. CASE OutErrexit \/ OutTrap \/ Leave \/ BackTail \/ BackNot \/ BackGroup \/ BackFunction
  BY <1>1 DEF OutErrexit, OutTrap, Leave, BackTail, BackNot, BackGroup, BackFunction, GoOut
<1>2. CASE BackBinary \/ BackIf
  BY <1>2, BranchIs
<1>3. CASE BackLoop \/ BackFor \/ LoopSkips
  BY <1>3, LoopIs DEF LoopGoesOn, LoopEnds
<1> QED
  BY <1>1, <1>2, <1>3 DEF Continue

-----------------------------------------------------------------------------
(***************************************************************************)
(* The EXIT trap.                                                          *)
(***************************************************************************)
Served == act = "ended" /\ exittrap => Has("exitshell")

LEMMA ServedKept ==
    ASSUME BaseInv, Served, [Next]_vars
    PROVE  Served'
<1>0. TypeOK
  BY DEF BaseInv
<1>1. CASE UNCHANGED vars
  BY <1>0, <1>1, HasKept DEF vars, evalVars, trapVars, Served
<1>2. CASE Evaluate \/ EvaluateCommand
  BY <1>0, <1>2, EvaluateIs, EvaluateCommandIs
  DEF NodeDone, NodeEnds, NodeCalls, NodeForks, NodeLoops, NodeReads, NodeRuns, NodeRaises, Served
<1>3. CASE Continue
  BY <1>0, <1>3, ContinueGoesOn DEF Served
<1>4. CASE ReadOrEnd
  <2>1. CASE Read \/ EvalstringEnds \/ DotEnds \/ TrapEnds
    BY <2>1 DEF Read, EvalstringEnds, DotEnds, TrapEnds, Served
  <2>2. CASE ScriptEnds
    BY <2>2 DEF ScriptEnds, ExitShell, Served
  <2>3. CASE ExitTrapEnds
    <3>1. Top.fn = "exitshell" /\ stack # <<>> /\ stack' = stack
      BY <2>3 DEF ExitTrapEnds, InputEnds, IsTop
    <3>2. Has("exitshell")
      BY <1>0, <3>1, HasInPop DEF Has, Top, TypeOK
    <3> QED
      BY <1>0, <3>1, <3>2, HasKept DEF Served
  <2> QED
    BY <1>4, <2>1, <2>2, <2>3 DEF ReadOrEnd
<1>5. CASE Raised
  <2>1. CASE Unwind \/ UnwindFunction \/ UnwindBuiltin
    BY <2>1 DEF Unwind, UnwindFunction, UnwindBuiltin, Served
  <2>2. CASE UnwindExitTrap
    <3>1. Top.fn = "exitshell" /\ stack # <<>> /\ stack' = stack
      BY <2>2 DEF UnwindExitTrap, IsTop
    <3>2. Has("exitshell")
      BY <1>0, <3>1, HasInPop DEF Has, Top, TypeOK
    <3> QED
      BY <1>0, <3>1, <3>2, HasKept DEF Served
  <2>3. CASE UnwindMain
    BY <2>3 DEF UnwindMain, ExitShell, Served
  <2> QED
    BY <1>5, <2>1, <2>2, <2>3 DEF Raised
<1>6. CASE Signal
  BY <1>6 DEF Signal, evalVars, Served
<1>7. CASE Ended
  BY <1>0, <1>7, HasKept DEF Ended, vars, evalVars, trapVars, Served
<1> QED
  BY <1>1, <1>2, <1>3, <1>4, <1>5, <1>6, <1>7 DEF Next

(* A shell that has a trap for its end does not end without running it,    *)
(* whichever way it ends: exitshell (ash.c:13045) is the only way out that *)
(* a shell with such a trap can take, exec in place of the shell is not.   *)
THEOREM ExitTrapIsServed == Spec => []ExitTrapServed
<1>1. Init => Served
  BY DEF Init, Served
<1>2. BaseInv /\ Served /\ [Next]_vars => Served'
  BY ServedKept
<1>3. BaseInv /\ Served => ExitTrapServed
  BY WithinIsHas DEF BaseInv, Served, ExitTrapServed
<1> QED
  BY <1>1, <1>2, <1>3, TypeCorrect, PTL DEF Spec

-----------------------------------------------------------------------------
(***************************************************************************)
(* Skipping.                                                               *)
(***************************************************************************)
LEMMA SkippingKept ==
    ASSUME BaseInv, SkippingInv, [Next]_vars
    PROVE  SkippingInv'
<1>0. TypeOK
  BY DEF BaseInv
<1>1. CASE UNCHANGED vars
  BY <1>0, <1>1, HasKept DEF vars, evalVars, skipVars, SkippingInv
<1>2. CASE Evaluate \/ EvaluateCommand
  <2>1. act = "eval" /\ NodeDone
    BY <1>0, <1>2, EvaluateIs, EvaluateCommandIs
  <2>2. act' \in {"eval", "read"} => evalskip' = evalskip
    BY <2>1
    DEF NodeDone, NodeEnds, NodeCalls, NodeForks, NodeLoops, NodeReads, NodeRuns, NodeRaises, SkipKept
  <2>3. Has("dotrap") => Has("dotrap")'
    <3>1. Trees \subseteq Frames
      BY DEF Frames
    <3> QED
      BY <1>0, <2>1, <3>1, HasKept
      DEF NodeDone, NodeEnds, NodeCalls, NodeForks, NodeLoops, NodeReads, NodeRuns, NodeRaises
  <2> QED
    BY <2>1, <2>2, <2>3 DEF SkippingInv
<1>3. CASE Continue
  <2>1. CASE OutErrexit \/ Leave \/ BackTail \/ BackNot \/ BackGroup \/ BackFunction
    BY <2>1 DEF OutErrexit, Leave, BackTail, BackNot, BackGroup, BackFunction, GoOut, SkippingInv
  <2>2. CASE OutTrap
    <3> DEFINE g == [fn |-> "dotrap", status |-> exitstatus]
    <3>1. g \in Frames /\ g.fn = "dotrap"
      BY <1>0 DEF TypeOK, ScalarsOK, TrapFrames, Frames
    <3>2. act' \in {"eval", "read"} => stack' = <<g>> \o stack
      BY <2>2 DEF OutTrap, Push
    <3> HIDE DEF g
    <3> QED
      BY <1>0, <3>1, <3>2, HasKept DEF SkippingInv
  <2>3. CASE BackBinary \/ BackIf
    <3>1. evalskip' = evalskip
      BY <2>3 DEF BackBinary, BackIf, skipVars
    <3> QED
      BY <1>0, <2>3, <3>1, BranchIs DEF SkippingInv
  <2>4. CASE BackLoop \/ BackFor \/ LoopSkips
    BY <1>0, <2>4, LoopIs DEF LoopGoesOn, LoopEnds, SkippingInv
  <2> QED
    BY <1>3, <2>1, <2>2, <2>3, <2>4 DEF Continue
<1>4. CASE ReadOrEnd
  <2>1. CASE Read
    <3>1. stack' = stack /\ evalskip' = evalskip /\ (act = "read" \/ evalskip = {})
      BY <2>1 DEF Read, skipVars
    <3> QED
      BY <1>0, <3>1, HasKept DEF SkippingInv
  <2>2. CASE EvalstringEnds \/ DotEnds \/ TrapEnds \/ ScriptEnds \/ ExitTrapEnds
    BY <2>2 DEF EvalstringEnds, DotEnds, TrapEnds, ScriptEnds, ExitTrapEnds, SkippingInv
  <2> QED
    BY <1>4, <2>1, <2>2 DEF ReadOrEnd
<1>5. CASE Raised
  BY <1>5 DEF Raised, Unwind, UnwindFunction, UnwindBuiltin, UnwindExitTrap, UnwindMain, SkippingInv
<1>6. CASE Signal
  BY <1>0, <1>6, HasKept DEF Signal, evalVars, skipVars, SkippingInv
<1>7. CASE Ended
  BY <1>0, <1>7, HasKept DEF Ended, vars, evalVars, skipVars, SkippingInv
<1> QED
  BY <1>1, <1>2, <1>3, <1>4, <1>5, <1>6, <1>7 DEF Next

(* Between a break, continue or return, or a failure under set -e, and the *)
(* routine that ends the skipping no node is evaluated but in the action   *)
(* of a trap: every routine that calls evaltree looks at evalskip first.   *)
THEOREM SkippedIsNotEvaluated == Spec => []NothingWhileSkipping
<1>1. Init => SkippingInv
  BY DEF Init, SkippingInv
<1>2. BaseInv /\ SkippingInv /\ [Next]_vars => SkippingInv'
  BY SkippingKept
<1>3. BaseInv /\ SkippingInv => NothingWhileSkipping
  BY WithinIsHas DEF BaseInv, SkippingInv, NothingWhileSkipping
<1> QED
  BY <1>1, <1>2, <1>3, TypeCorrect, PTL DEF Spec

-----------------------------------------------------------------------------
(***************************************************************************)
(* Subshells.                                                              *)
(***************************************************************************)
LEMMA SpecialKept ==
    ASSUME NoPrefix, BaseInv, SpecialInv, [Next]_vars
    PROVE  SpecialInv'
<1>0. TypeOK /\ stack \in Seq(Passing)
  BY DEF BaseInv, SpecialInv
<1>1. stack # <<>> => Top \in Passing /\ Tail(stack) \in Seq(Passing)
  BY <1>0, PopIs DEF Top
<1>2. \A f \in Passing : <<f>> \o stack \in Seq(Passing)
  BY <1>0, PushIs
<1>3. \A f \in Passing, g \in Passing : <<g, f>> \o stack \in Seq(Passing)
  BY <1>0
<1>4. \A h \in Passing : stack # <<>> => <<h>> \o Tail(stack) \in Seq(Passing)
  BY <1>1, PushIs
<1>5. Trees \subseteq Passing
  BY DEF Trees, Frames, Passing
<1>6. ASSUME NEW h \in Frames, GoesOnWith(h)
      PROVE  SpecialInv'
  <2>1. h \in Passing
    BY <1>6 DEF GoesOnWith, Loops, Passing
  <2> QED
    BY <1>4, <1>6, <2>1 DEF GoesOnWith, SpecialInv
<1>7. ASSUME NEW status \in Nat
      PROVE  /\ [fn |-> "dotrap", status |-> status] \in Passing
             /\ <<[fn |-> "exitshell", status |-> status]>> \in Seq(Passing)
             /\ <<>> \in Seq(Passing)
  <2>1. /\ [fn |-> "dotrap", status |-> status] \in Passing
        /\ [fn |-> "exitshell", status |-> status] \in Passing
    BY DEF TrapFrames, ExitFrames, Frames, Passing
  <2> QED
    BY <2>1
<1>8. CASE UNCHANGED vars
  BY <1>0, <1>8 DEF vars, evalVars, SpecialInv
<1>9. CASE Evaluate \/ EvaluateCommand
  <2>1. NodeDone
    BY <1>0, <1>9, EvaluateIs, EvaluateCommandIs
  <2>2. ASSUME NEW f \in Trees, NEW g \in Frames, NodeLoops(f, g) \/ NodeReads(f, g) \/ NodeRuns(f, g)
        PROVE  g \in Passing
    BY <2>2
    DEF NodeLoops, NodeReads, NodeRuns, NoPrefix, WhileFrames, ForFrames, FunctionFrames, Passing
  <2> QED
    BY <1>0, <1>2, <1>3, <1>5, <2>1, <2>2
    DEF NodeDone, NodeEnds, NodeCalls, NodeForks, NodeLoops, NodeReads, NodeRuns, NodeRaises, SpecialInv
<1>10. CASE Continue
  <2>1. CASE OutErrexit \/ BackTail \/ BackNot \/ BackGroup
    BY <1>0, <2>1 DEF OutErrexit, BackTail, BackNot, BackGroup, GoOut, SpecialInv
  <2>2. CASE OutTrap
    BY <1>0, <1>2, <1>7, <2>2 DEF OutTrap, Push, SpecialInv, TypeOK, ScalarsOK
  <2>3. CASE Leave \/ BackFunction
    BY <1>0, <1>1, <2>3 DEF Leave, BackFunction, IsTop, BaseInv, StackInv, SpecialInv
  <2>4. CASE BackBinary \/ BackIf
    BY <1>0, <1>6, <2>4, BranchIs DEF SpecialInv
  <2>5. CASE BackLoop \/ BackFor \/ LoopSkips
    BY <1>0, <1>1, <1>6, <2>5, LoopIs DEF LoopGoesOn, LoopEnds, Pops, SpecialInv
  <2> QED
    BY <1>10, <2>1, <2>2, <2>3, <2>4, <2>5 DEF Continue
<1>11. CASE ReadOrEnd
  <2>1. CASE Read \/ ExitTrapEnds
    BY <1>0, <2>1 DEF Read, ExitTrapEnds, SpecialInv
  <2>2. CASE EvalstringEnds \/ DotEnds \/ TrapEnds
    BY <1>1, <2>2 DEF EvalstringEnds, DotEnds, TrapEnds, InputEnds, IsTop, SpecialInv
  <2>3. CASE ScriptEnds
    BY <1>0, <1>7, <2>3 DEF ScriptEnds, ExitShell, SpecialInv, TypeOK, ScalarsOK
  <2> QED
    BY <1>11, <2>1, <2>2, <2>3 DEF ReadOrEnd
<1>12. CASE Raised
  <2>1. CASE Unwind \/ UnwindFunction \/ UnwindBuiltin \/ UnwindExitTrap
    BY <1>0, <1>1, <2>1 DEF Unwind, UnwindFunction, UnwindBuiltin, UnwindExitTrap, IsTop, SpecialInv
  <2>2. CASE UnwindMain
    <3>1. exitstatus' \in Nat
      BY <1>0, <2>2 DEF UnwindMain, TypeOK, ScalarsOK
    <3>2. \/ stack' = stack \/ stack' = <<>>
          \/ stack' = <<[fn |-> "exitshell", status |-> exitstatus']>>
      BY <2>2 DEF UnwindMain, ExitShell
    <3> QED
      BY <1>0, <1>7, <3>1, <3>2 DEF SpecialInv
  <2> QED
    BY <1>12, <2>1, <2>2 DEF Raised
<1>13. CASE Signal \/ Ended
  BY <1>0, <1>13 DEF Signal, Ended, vars, evalVars, SpecialInv
<1> QED
  BY <1>8, <1>9, <1>10, <1>11, <1>12, <1>13 DEF Next

(* Without `command eval' an exception that is under way goes on to the    *)
(* end.                                                                    *)
LEMMA RaisedPasses ==
    ASSUME BaseInv, SpecialInv, UnwindBuiltin
    PROVE  act' = "raise" /\ io' = io
<1>1. Top \in Passing
  BY PopIs DEF UnwindBuiltin, IsTop, SpecialInv, Top
<1> QED
  BY <1>1 DEF UnwindBuiltin, IsTop, Passing

LEMMA ForkMoves ==
    ASSUME TypeOK, base > 0
    PROVE  /\ \A f \in Frames :
                  Len(stack) >= base /\ ForkFrame(stack)
                  /\ (Len(stack) = base => f.fn = "evaltree" /\ f.exit)
                  => /\ Len(<<f>> \o stack) > base
                     /\ ForkFrame(<<f>> \o stack)
           /\ \A f \in Frames, g \in Frames :
                  Len(stack) >= base /\ ForkFrame(stack)
                  /\ (Len(stack) = base => f.fn = "evaltree" /\ f.exit)
                  => /\ Len(<<g, f>> \o stack) > base
                     /\ ForkFrame(<<g, f>> \o stack)
           /\ Pops /\ Len(stack) > base /\ ForkFrame(stack)
                  => \/ Top.fn = "evaltree" /\ Top.exit
                     \/ Len(stack') > base /\ ForkFrame(stack')
<1>1. stack \in Seq(Frames) /\ base \in Nat \ {0} /\ Len(stack) \in Nat
  BY DEF TypeOK, ScalarsOK
<1>2. ASSUME NEW s \in Seq(Frames), NEW f \in Frames, Len(s) >= base, ForkFrame(s),
             Len(s) = base => f.fn = "evaltree" /\ f.exit
      PROVE  Len(<<f>> \o s) > base /\ ForkFrame(<<f>> \o s)
  <2> DEFINE t == <<f>> \o s
  <2>1. /\ Len(s) \in Nat /\ Len(t) = Len(s) + 1 /\ t[1] = f
        /\ \A i \in 1..Len(s) : t[i + 1] = s[i]
    BY <1>2, PushIs
  <2> HIDE DEF t
  <2>2. CASE Len(s) = base
    BY <1>1, <1>2, <2>1, <2>2 DEF ForkFrame, t
  <2>3. CASE Len(s) > base
    <3>1. Len(s) - base \in 1..Len(s) /\ Len(t) - base = (Len(s) - base) + 1
      BY <1>1, <2>1, <2>3
    <3>2. t[Len(t) - base] = s[Len(s) - base]
      BY <2>1, <3>1
    <3> QED
      BY <1>1, <1>2, <2>1, <2>3, <3>2 DEF ForkFrame, t
  <2> QED
    BY <1>1, <1>2, <2>1, <2>2, <2>3
<1>3. ASSUME NEW f \in Frames, NEW g \in Frames, Len(stack) >= base, ForkFrame(stack),
             Len(stack) = base => f.fn = "evaltree" /\ f.exit
      PROVE  Len(<<g, f>> \o stack) > base /\ ForkFrame(<<g, f>> \o stack)
  <2> DEFINE t == <<f>> \o stack
  <2>1. t \in Seq(Frames) /\ Len(t) > base /\ ForkFrame(t)
    BY <1>1, <1>2, <1>3, PushIs
  <2>2. <<g, f>> \o stack = <<g>> \o t
    BY <1>1, PushTwo
  <2> HIDE DEF t
  <2>3. Len(<<g>> \o t) > base /\ ForkFrame(<<g>> \o t)
    BY <1>1, <1>2, <2>1
  <2> QED
    BY <2>2, <2>3
<1>4. ASSUME Pops, Len(stack) > base, ForkFrame(stack), ~(Top.fn = "evaltree" /\ Top.exit)
      PROVE  Len(stack') > base /\ ForkFrame(stack')
  <2>1. /\ stack' = Tail(stack) /\ Top = stack[1] /\ Len(stack') = Len(stack) - 1
        /\ \A i \in 1..Len(stack') : stack'[i] = stack[i + 1]
    BY <1>1, <1>4, PopIs DEF Pops, Top
  <2>2. Len(stack) - base # 1
    BY <1>1, <1>4, <2>1 DEF ForkFrame
  <2>3. Len(stack') > base /\ Len(stack') - base \in 1..Len(stack')
        /\ (Len(stack') - base) + 1 = Len(stack) - base
    BY <1>1, <1>4, <2>1, <2>2
  <2>4. stack'[Len(stack') - base] = stack[Len(stack) - base]
    BY <2>1, <2>3
  <2> QED
    BY <1>1, <1>4, <2>3, <2>4 DEF ForkFrame
<1> QED
  BY <1>1, <1>2, <1>3, <1>4

LEMMA ForkKept ==
    ASSUME NoPrefix, BaseInv, SpecialInv, ForkInv, [Next]_vars
    PROVE  ForkInv'
<1>0. TypeOK /\ StackInv /\ stack \in Seq(Frames) /\ base \in Nat /\ Len(stack) \in Nat
  BY DEF BaseInv, TypeOK, ScalarsOK
<1> SUFFICES ASSUME act' \notin {"raise", "ended"}, base' > 0
             PROVE  /\ Len(stack') >= base'
                    /\ Len(stack') = base' => act' = "eval" /\ "exit" \in flags'
                    /\ ForkFrame(stack)'
  BY DEF ForkInv
\* The steps that leave the stack alone.
<1>1. ASSUME base' = base, act \notin {"raise", "ended"}, stack' = stack, act # "eval"
      PROVE  ForkInv'
  BY <1>0, <1>1 DEF ForkInv, ForkFrame
\* Those that take a frame away.
<1>2. ASSUME base' = base, act \notin {"raise", "ended", "eval"}, Pops,
             ~(Top.fn = "evaltree" /\ Top.exit)
      PROVE  ForkInv'
  <2>1. Len(stack) > base /\ ForkFrame(stack)
    BY <1>0, <1>2 DEF ForkInv
  <2>2. Len(stack') > base /\ ForkFrame(stack')
    BY <1>0, <1>2, <2>1, ForkMoves
  <2>3. Len(stack') \in Nat
    BY <1>0, <1>2, TopIs DEF Pops
  <2> QED
    BY <1>0, <1>2, <2>2, <2>3 DEF ForkInv, ForkFrame
\* Those that let the routine on top go on.
<1>3. ASSUME base' = base, act \notin {"raise", "ended", "eval"}, NEW h \in Frames, GoesOnWith(h)
      PROVE  ForkInv'
  <2>1. Len(stack) > base /\ ForkFrame(stack)
    BY <1>0, <1>3 DEF ForkInv
  <2>2. /\ stack' = <<h>> \o Tail(stack) /\ stack # <<>> /\ Top = stack[1]
        /\ Tail(stack) \in Seq(Frames) /\ Len(Tail(stack)) = Len(stack) - 1
        /\ \A i \in 1..Len(Tail(stack)) : Tail(stack)[i] = stack[i + 1]
    BY <1>0, <1>3, PopIs DEF GoesOnWith, Top
  <2>3. /\ Len(stack') = Len(stack) /\ stack'[1] = h
        /\ \A i \in 1..(Len(stack) - 1) : stack'[i + 1] = stack[i + 1]
    BY <1>0, <2>2, PushIs
  <2>4. h.fn = Top.fn /\ (Top.fn = "evaltree" /\ Top.exit => h.exit)
    BY <1>3 DEF GoesOnWith, Loops
  <2>5. CASE Len(stack) - base = 1
    BY <1>0, <1>3, <2>1, <2>2, <2>3, <2>4, <2>5 DEF ForkInv, ForkFrame
  <2>6. CASE Len(stack) - base # 1
    <3>1. (Len(stack) - base) - 1 \in 1..(Len(stack) - 1)
          /\ ((Len(stack) - base) - 1) + 1 = Len(stack) - base
      BY <1>0, <2>1, <2>6
    <3>2. stack'[Len(stack) - base] = stack[Len(stack) - base]
      BY <1>0, <2>3, <3>1
    <3> QED
      BY <1>0, <1>3, <2>1, <2>3, <3>2 DEF ForkInv, ForkFrame
  <2> QED
    BY <2>5, <2>6
<1>4. CASE UNCHANGED vars
  BY <1>0, <1>4 DEF vars, evalVars, levelVars, ForkInv, ForkFrame
<1>5. CASE Evaluate \/ EvaluateCommand
  <2>1. act = "eval" /\ NodeDone
    BY <1>0, <1>5, EvaluateIs, EvaluateCommandIs
  <2>2. base > 0 => Len(stack) >= base /\ ForkFrame(stack) /\ (Len(stack) = base => "exit" \in flags)
    BY <2>1 DEF ForkInv
  <2>3. ASSUME NEW f \in Trees, NodeEnds(f) \/ NodeCalls(f)
        PROVE  ForkInv'
    <3>1. f \in Frames /\ f.fn = "evaltree" /\ ("exit" \in flags => f.exit)
          /\ stack' = <<f>> \o stack /\ base' = base
      BY <2>3 DEF NodeEnds, NodeCalls, NewTree, Trees, Frames
    <3>2. Len(stack') > base /\ ForkFrame(stack')
      BY <1>0, <2>2, <3>1, ForkMoves
    <3>3. Len(stack') \in Nat
      BY <1>0, <3>1, PushIs
    <3> QED
      BY <1>0, <3>1, <3>2, <3>3 DEF ForkInv, ForkFrame
  <2>4. ASSUME NEW f \in Trees, NodeForks(f)
        PROVE  ForkInv'
    <3>1. Len(stack') = base' /\ base' \in Nat
      BY <1>0, <2>4, PushIs DEF NodeForks, Frames
    <3> QED
      BY <2>4, <3>1 DEF NodeForks, ForkInv, ForkFrame
  <2>5. ASSUME NEW f \in Trees, NEW g \in Frames, NodeLoops(f, g) \/ NodeReads(f, g) \/ NodeRuns(f, g)
        PROVE  ForkInv'
    <3>1. f \in Frames /\ f.fn = "evaltree" /\ ("exit" \in flags => f.exit)
          /\ stack' = <<g, f>> \o stack /\ base' = base
      BY <2>5 DEF NodeLoops, NodeReads, NodeRuns, NewTree, Trees, Frames
    <3>2. Len(stack') > base /\ ForkFrame(stack')
      BY <1>0, <2>2, <3>1, ForkMoves
    <3>3. Len(stack') \in Nat
      BY <1>0, <3>1
    <3> QED
      BY <1>0, <3>1, <3>2, <3>3 DEF ForkInv, ForkFrame
  <2>6. CASE NodeRaises
    BY <2>6 DEF NodeRaises
  <2> QED
    BY <2>1, <2>3, <2>4, <2>5, <2>6 DEF NodeDone, ForkInv
<1>6. CASE Continue
  <2>0. base' = base /\ act \notin {"raise", "ended", "eval"}
    BY <1>6 DEF Continue, OutErrexit, OutTrap, Leave, BackTail, BackNot, BackGroup, BackBinary,
                BackIf, BackLoop, BackFor, LoopSkips, BackFunction, Back, levelVars
  <2>1. CASE OutErrexit \/ BackTail \/ BackNot \/ BackGroup
    BY <1>1, <2>0, <2>1 DEF OutErrexit, BackTail, BackNot, BackGroup, GoOut, ForkInv
  <2>2. CASE OutTrap
    <3> DEFINE g == [fn |-> "dotrap", status |-> exitstatus]
    <3>1. g \in Frames
      BY <1>0 DEF TypeOK, ScalarsOK, TrapFrames, Frames
    <3>2. CASE stack' = stack
      BY <1>1, <2>0, <3>2 DEF ForkInv
    <3>3. CASE stack' = <<g>> \o stack
      <4> HIDE DEF g
      <4>1. Len(stack) > base /\ ForkFrame(stack)
        BY <1>0, <2>0 DEF ForkInv
      <4>2. Len(stack') > base /\ ForkFrame(stack') /\ Len(stack') \in Nat
        BY <1>0, <2>0, <3>1, <3>3, <4>1, ForkMoves, PushIs
      <4> QED
        BY <1>0, <2>0, <4>2 DEF ForkFrame
    <3> QED
      BY <2>2, <3>2, <3>3 DEF OutTrap, Push, ForkInv
  <2>3. CASE Leave
    <3>1. ~Top.exit /\ Pops
      BY <1>0, <2>3 DEF Leave, StackInv, IsTop, Pops
    <3> QED
      BY <1>2, <2>0, <3>1 DEF ForkInv
  <2>4. CASE BackFunction
    BY <1>2, <2>0, <2>4 DEF BackFunction, IsTop, Pops, ForkInv
  <2>5. CASE BackBinary \/ BackIf
    BY <1>0, <1>1, <1>3, <2>0, <2>5, BranchIs DEF ForkInv
  <2>6. CASE BackLoop \/ BackFor \/ LoopSkips
    BY <1>0, <1>2, <1>3, <2>0, <2>6, LoopIs DEF LoopGoesOn, LoopEnds, Loops, ForkInv
  <2> QED
    BY <1>6, <2>1, <2>2, <2>3, <2>4, <2>5, <2>6 DEF Continue, ForkInv
<1>7. CASE ReadOrEnd
  <2>0. act \in {"read", "back"}
    BY <1>7 DEF ReadOrEnd, Read, EvalstringEnds, DotEnds, TrapEnds, ScriptEnds, ExitTrapEnds, InputEnds
  <2>1. CASE Read
    BY <1>1, <2>0, <2>1 DEF Read, levelVars, ForkInv
  <2>2. CASE EvalstringEnds \/ DotEnds \/ TrapEnds
    <3>1. Pops /\ Top.fn # "evaltree" /\ base' = base
      BY <2>2 DEF EvalstringEnds, DotEnds, TrapEnds, InputEnds, IsTop, Pops, levelVars
    <3> QED
      BY <1>2, <2>0, <3>1 DEF ForkInv
  <2>3. CASE ScriptEnds
    <3>1. stack = <<>> /\ base' = base
      BY <2>3 DEF ScriptEnds, levelVars
    <3> QED
      BY <1>0, <2>0, <3>1 DEF ForkInv
  <2>4. CASE ExitTrapEnds
    BY <2>4 DEF ExitTrapEnds
  <2> QED
    BY <1>7, <2>1, <2>2, <2>3, <2>4 DEF ReadOrEnd, ForkInv
<1>8. CASE Raised
  BY <1>0, <1>8, RaisedPasses
  DEF Raised, Unwind, UnwindFunction, UnwindExitTrap, UnwindMain
<1>9. CASE Signal \/ Ended
  BY <1>0, <1>9 DEF Signal, Ended, vars, evalVars, levelVars, ForkInv, ForkFrame
<1> QED
  BY <1>4, <1>5, <1>6, <1>7, <1>8, <1>9 DEF Next, ForkInv

(* The child of a fork evaluates its own part of the script: it is the     *)
(* evaltree it calls first that exits, and no exception takes it back into *)
(* the stack it has inherited (ash.c:7934-7951).                           *)
THEOREM SubshellsStay ==
    ASSUME NoPrefix
    PROVE  Spec => []SubshellStays
<1> DEFINE Inv == BaseInv /\ SpecialInv /\ ForkInv
<1>1. Init => Inv
  BY InitBase DEF Init, SpecialInv, ForkInv
<1>2. Inv /\ [Next]_vars => Inv'
  BY BaseKept, SpecialKept, ForkKept
<1>3. Inv => SubshellStays
  <2> SUFFICES ASSUME Inv
               PROVE  SubshellStays
    OBVIOUS
  <2>1. base \in Nat /\ Len(stack) \in Nat
    BY DEF BaseInv, TypeOK, ScalarsOK
  <2>2. base > 0 \/ base = 0
    BY <2>1
  <2> QED
    BY <2>1, <2>2 DEF ForkInv, SubshellStays
<1> QED
  BY <1>1, <1>2, <1>3, PTL DEF Spec

-----------------------------------------------------------------------------
(***************************************************************************)
(* Counting.                                                               *)
(***************************************************************************)
LEMMA FramesFinite ==
    ASSUME NEW s \in Seq(Frames), NEW k, NEW fns
    PROVE  IsFiniteSet(FramesOf(s, k, fns)) /\ Cardinality(FramesOf(s, k, fns)) \in Nat
<1>1. IsFiniteSet(DOMAIN s)
  BY FS_Interval
<1>2. IsFiniteSet(FramesOf(s, k, fns))
  BY <1>1, FS_Subset DEF FramesOf
<1> QED
  BY <1>2, FS_CardinalityType

LEMMA CountPush ==
    ASSUME NEW s \in Seq(Frames), NEW f \in Frames, NEW k \in Int, NEW fns
    PROVE  Cardinality(FramesOf(<<f>> \o s, k, fns))
           = Cardinality(FramesOf(s, k, fns))
             + (IF Len(s) >= k /\ f.fn \in fns THEN 1 ELSE 0)
<1> DEFINE t == <<f>> \o s
           I == FramesOf(s, k, fns)
           J == {i \in 2..(Len(s) + 1) : i - 1 \in I}
           T == FramesOf(t, k, fns)
           up == [i \in I |-> i + 1]
<1>1. /\ Len(s) \in Nat /\ Len(t) = Len(s) + 1 /\ t[1] = f
      /\ \A i \in 1..Len(s) : t[i + 1] = s[i]
      /\ DOMAIN t = 1..(Len(s) + 1) /\ DOMAIN s = 1..Len(s)
  BY PushIs
<1>2. I \subseteq 1..Len(s)
  BY <1>1 DEF FramesOf
<1>3. IsFiniteSet(I) /\ Cardinality(I) \in Nat
  BY FramesFinite
<1>4. T = J \cup (IF Len(s) >= k /\ f.fn \in fns THEN {1} ELSE {})
  <2> HIDE DEF t
  <2>1. \A i \in DOMAIN t : i \in T <=> Len(t) - i >= k /\ t[i].fn \in fns
    BY DEF FramesOf
  <2>2. \A i \in DOMAIN s : i \in I <=> Len(s) - i >= k /\ s[i].fn \in fns
    BY DEF FramesOf
  <2>3. 1 \in T <=> Len(s) >= k /\ f.fn \in fns
    BY <1>1, <2>1
  <2>4. ASSUME NEW i \in 2..(Len(s) + 1)
        PROVE  i \in T <=> i - 1 \in I
    <3>1. i - 1 \in 1..Len(s) /\ (i - 1) + 1 = i /\ Len(t) - i = Len(s) - (i - 1) /\ i \in DOMAIN t
      BY <1>1
    <3>2. t[i] = s[i - 1]
      BY <1>1, <3>1
    <3> QED
      BY <1>1, <2>1, <2>2, <3>1, <3>2
  <2>5. T \subseteq 1..(Len(s) + 1)
    BY <1>1 DEF FramesOf
  <2>6. J \subseteq 2..(Len(s) + 1) /\ \A i \in 2..(Len(s) + 1) : i \in J <=> i - 1 \in I
    OBVIOUS
  <2>7. \A i \in 1..(Len(s) + 1) : i = 1 \/ i \in 2..(Len(s) + 1)
    BY <1>1
  <2>8. 1 \notin J /\ 1 \in 1..(Len(s) + 1) /\ 2..(Len(s) + 1) \subseteq 1..(Len(s) + 1)
    BY <1>1
  <2> HIDE DEF T, I, J
  <2>9. ASSUME NEW i
        PROVE  i \in T <=> i \in J \/ (i = 1 /\ Len(s) >= k /\ f.fn \in fns)
    BY <2>3, <2>4, <2>5, <2>6, <2>7, <2>8
  <2> QED
    BY <2>9
<1> HIDE DEF t, I, T
<1>5. up \in Bijection(I, J)
  <2>1. up \in [I -> J]
    BY <1>1, <1>2
  <2>2. \A i, j \in I : up[i] = up[j] => i = j
    BY <1>2
  <2>3. \A j \in J : \E i \in I : up[i] = j
    <3> TAKE j \in J
    <3>1. j - 1 \in I /\ up[j - 1] = j
      BY <1>1
    <3> QED
      BY <3>1
  <2> QED
    BY <2>1, <2>2, <2>3 DEF Bijection, Injection, Surjection, IsInjective
<1> HIDE DEF up
<1>6. IsFiniteSet(J) /\ Cardinality(J) = Cardinality(I)
  <2> HIDE DEF J
  <2> QED
    BY <1>3, <1>5, FS_Bijection DEF ExistsBijection
<1>7. 1 \notin J
  OBVIOUS
<1> HIDE DEF J
<1>8. CASE Len(s) >= k /\ f.fn \in fns
  BY <1>3, <1>4, <1>6, <1>7, <1>8, FS_AddElement DEF t, I, T
<1>9. CASE ~(Len(s) >= k /\ f.fn \in fns)
  BY <1>3, <1>4, <1>6, <1>9 DEF t, I, T
<1> QED
  BY <1>8, <1>9

LEMMA EmptyCounts ==
    ASSUME NEW k
    PROVE  LoopsIn(<<>>) = 0 /\ FunctionsIn(<<>>) = 0 /\ InputsIn(<<>>, k) = 0
<1>1. \A m, fns : FramesOf(<<>>, m, fns) = {}
  BY DEF FramesOf
<1> QED
  BY <1>1, FS_EmptySet DEF LoopsIn, FunctionsIn, InputsIn

One(f, fns) == IF f.fn \in fns THEN 1 ELSE 0

\* Changes of the counts.
CountsGrow(b, f) ==
    /\ LoopsIn(stack') = LoopsIn(stack) + One(f, Loops)
    /\ FunctionsIn(stack') = FunctionsIn(stack) + One(f, {"evalfun"})
    /\ Len(stack) >= b - 1 => InputsIn(stack', b) = InputsIn(stack, b) + One(f, Readers)

LEMMA CountMoves ==
    ASSUME TypeOK, NEW b \in Nat
    PROVE  /\ LoopsIn(stack) \in Nat /\ FunctionsIn(stack) \in Nat /\ InputsIn(stack, b) \in Nat
           /\ \A f \in Frames : stack' = <<f>> \o stack => CountsGrow(b, f)
           /\ \A f \in Trees, g \in Frames : stack' = <<g, f>> \o stack => CountsGrow(b, g)
           /\ Pops => /\ LoopsIn(stack') = LoopsIn(stack) - One(Top, Loops)
                      /\ FunctionsIn(stack') = FunctionsIn(stack) - One(Top, {"evalfun"})
                      /\ Len(stack) >= b =>
                            InputsIn(stack', b) = InputsIn(stack, b) - One(Top, Readers)
           /\ \A h \in Frames : GoesOnWith(h) =>
                 /\ LoopsIn(stack') = LoopsIn(stack)
                 /\ FunctionsIn(stack') = FunctionsIn(stack)
                 /\ Len(stack) >= b => InputsIn(stack', b) = InputsIn(stack, b)
<1>0. stack \in Seq(Frames) /\ Len(stack) \in Nat /\ b - 1 \in Int /\ 0 \in Int
  BY DEF TypeOK
<1>1. ASSUME NEW s \in Seq(Frames)
      PROVE  LoopsIn(s) \in Nat /\ FunctionsIn(s) \in Nat /\ InputsIn(s, b) \in Nat /\ Len(s) \in Nat
  BY FramesFinite DEF LoopsIn, FunctionsIn, InputsIn
<1>2. ASSUME NEW s \in Seq(Frames), NEW f \in Frames
      PROVE  /\ LoopsIn(<<f>> \o s) = LoopsIn(s) + One(f, Loops)
             /\ FunctionsIn(<<f>> \o s) = FunctionsIn(s) + One(f, {"evalfun"})
             /\ Len(s) >= b - 1 => InputsIn(<<f>> \o s, b) = InputsIn(s, b) + One(f, Readers)
  <2>1. LoopsIn(<<f>> \o s) = LoopsIn(s) + One(f, Loops)
    BY <1>0, CountPush DEF LoopsIn, One
  <2>2. FunctionsIn(<<f>> \o s) = FunctionsIn(s) + One(f, {"evalfun"})
    BY <1>0, CountPush DEF FunctionsIn, One
  <2>3. Len(s) >= b - 1 => InputsIn(<<f>> \o s, b) = InputsIn(s, b) + One(f, Readers)
    BY <1>0, CountPush DEF InputsIn, One
  <2> QED
    BY <2>1, <2>2, <2>3
<1>3. ASSUME NEW f \in Frames, stack' = <<f>> \o stack
      PROVE  CountsGrow(b, f)
  BY <1>0, <1>2, <1>3 DEF CountsGrow
<1>4. ASSUME NEW f \in Trees, NEW g \in Frames, stack' = <<g, f>> \o stack
      PROVE  CountsGrow(b, g)
  <2> DEFINE t == <<f>> \o stack
  <2>1. f \in Frames /\ f.fn = "evaltree"
    BY DEF Trees, Frames
  <2>2. stack' = <<g>> \o t /\ t \in Seq(Frames) /\ Len(t) = Len(stack) + 1
    BY <1>0, <1>4, <2>1, PushTwo, PushIs
  <2>3. /\ LoopsIn(t) = LoopsIn(stack) + 0 /\ FunctionsIn(t) = FunctionsIn(stack) + 0
        /\ Len(stack) >= b - 1 => InputsIn(t, b) = InputsIn(stack, b) + 0
    BY <1>0, <1>2, <2>1 DEF One, Loops, Readers
  <2> HIDE DEF t
  <2>4. /\ LoopsIn(stack') = LoopsIn(t) + One(g, Loops)
        /\ FunctionsIn(stack') = FunctionsIn(t) + One(g, {"evalfun"})
        /\ Len(t) >= b - 1 => InputsIn(stack', b) = InputsIn(t, b) + One(g, Readers)
    BY <1>2, <2>2
  <2> QED
    BY <1>0, <1>1, <2>2, <2>3, <2>4 DEF CountsGrow
<1>5. ASSUME stack # <<>>
      PROVE  LET t == Tail(stack) IN
             /\ t \in Seq(Frames) /\ Len(t) = Len(stack) - 1
             /\ LoopsIn(stack) = LoopsIn(t) + One(Top, Loops)
             /\ FunctionsIn(stack) = FunctionsIn(t) + One(Top, {"evalfun"})
             /\ Len(stack) >= b => InputsIn(stack, b) = InputsIn(t, b) + One(Top, Readers)
  <2> DEFINE t == Tail(stack)
  <2>1. stack = <<Top>> \o t /\ Top \in Frames /\ t \in Seq(Frames) /\ Len(t) = Len(stack) - 1
    BY <1>0, <1>5, PopIs DEF Top
  <2> HIDE DEF t
  <2>2. /\ LoopsIn(<<Top>> \o t) = LoopsIn(t) + One(Top, Loops)
        /\ FunctionsIn(<<Top>> \o t) = FunctionsIn(t) + One(Top, {"evalfun"})
        /\ Len(t) >= b - 1 => InputsIn(<<Top>> \o t, b) = InputsIn(t, b) + One(Top, Readers)
    BY <1>2, <2>1
  <2>3. Len(t) >= b - 1 <=> Len(stack) >= b
    BY <1>0, <2>1
  <2>4. /\ LoopsIn(stack) = LoopsIn(t) + One(Top, Loops)
        /\ FunctionsIn(stack) = FunctionsIn(t) + One(Top, {"evalfun"})
        /\ Len(stack) >= b => InputsIn(stack, b) = InputsIn(t, b) + One(Top, Readers)
    BY <2>1, <2>2, <2>3
  <2> QED
    BY <2>1, <2>4 DEF t
<1>6. \A f, fns : One(f, fns) \in {0, 1}
  BY DEF One
<1>7. ASSUME Pops
      PROVE  /\ LoopsIn(stack') = LoopsIn(stack) - One(Top, Loops)
             /\ FunctionsIn(stack') = FunctionsIn(stack) - One(Top, {"evalfun"})
             /\ Len(stack) >= b => InputsIn(stack', b) = InputsIn(stack, b) - One(Top, Readers)
  <2> DEFINE t == Tail(stack)
  <2>1. stack' = t /\ stack # <<>>
    BY <1>7 DEF Pops
  <2>2. /\ t \in Seq(Frames) /\ Len(t) = Len(stack) - 1
        /\ LoopsIn(stack) = LoopsIn(t) + One(Top, Loops)
        /\ FunctionsIn(stack) = FunctionsIn(t) + One(Top, {"evalfun"})
        /\ Len(stack) >= b => InputsIn(stack, b) = InputsIn(t, b) + One(Top, Readers)
    BY <1>5, <2>1
  <2> HIDE DEF t
  <2>3. LoopsIn(t) \in Nat /\ FunctionsIn(t) \in Nat /\ InputsIn(t, b) \in Nat
    BY <1>1, <2>2
  <2> QED
    BY <1>6, <2>1, <2>2, <2>3
<1>8. ASSUME NEW h \in Frames, GoesOnWith(h)
      PROVE  /\ LoopsIn(stack') = LoopsIn(stack)
             /\ FunctionsIn(stack') = FunctionsIn(stack)
             /\ Len(stack) >= b => InputsIn(stack', b) = InputsIn(stack, b)
  <2> DEFINE t == Tail(stack)
  <2>1. stack # <<>> /\ stack' = <<h>> \o t /\ h.fn = Top.fn
    BY <1>8 DEF GoesOnWith
  <2>2. \A fns : One(h, fns) = One(Top, fns)
    BY <2>1 DEF One
  <2>3. /\ t \in Seq(Frames) /\ Len(t) = Len(stack) - 1
        /\ LoopsIn(stack) = LoopsIn(t) + One(Top, Loops)
        /\ FunctionsIn(stack) = FunctionsIn(t) + One(Top, {"evalfun"})
        /\ Len(stack) >= b => InputsIn(stack, b) = InputsIn(t, b) + One(Top, Readers)
    BY <1>5, <2>1
  <2> HIDE DEF t
  <2>4. /\ LoopsIn(stack') = LoopsIn(t) + One(h, Loops)
        /\ FunctionsIn(stack') = FunctionsIn(t) + One(h, {"evalfun"})
        /\ Len(t) >= b - 1 => InputsIn(stack', b) = InputsIn(t, b) + One(h, Readers)
    BY <1>2, <2>1, <2>3
  <2> QED
    BY <1>0, <2>2, <2>3, <2>4
<1> QED
  BY <1>0, <1>1, <1>3, <1>4, <1>7, <1>8

LEMMA CountKept ==
    ASSUME NoPrefix, BaseInv, SpecialInv, ForkInv, CountInv, [Next]_vars
    PROVE  CountInv'
<1>0. /\ TypeOK /\ StackInv /\ stack \in Seq(Frames) /\ base \in Nat /\ Len(stack) \in Nat
      /\ loopnest \in Int /\ funcnest \in Int /\ inputs \in Int
  BY DEF BaseInv, TypeOK, ScalarsOK
<1>1. /\ LoopsIn(stack) \in Nat /\ FunctionsIn(stack) \in Nat /\ InputsIn(stack, base) \in Nat
      /\ \A f \in Frames : stack' = <<f>> \o stack => CountsGrow(base, f)
      /\ \A f \in Trees, g \in Frames : stack' = <<g, f>> \o stack => CountsGrow(base, g)
      /\ Pops => /\ LoopsIn(stack') = LoopsIn(stack) - One(Top, Loops)
                 /\ FunctionsIn(stack') = FunctionsIn(stack) - One(Top, {"evalfun"})
                 /\ Len(stack) >= base =>
                       InputsIn(stack', base) = InputsIn(stack, base) - One(Top, Readers)
      /\ \A h \in Frames : GoesOnWith(h) =>
            /\ LoopsIn(stack') = LoopsIn(stack)
            /\ FunctionsIn(stack') = FunctionsIn(stack)
            /\ Len(stack) >= base => InputsIn(stack', base) = InputsIn(stack, base)
  BY <1>0, CountMoves
<1>2. act \notin {"raise", "ended"} =>
        Len(stack) >= base /\ loopnest = LoopsIn(stack) /\ inputs = InputsIn(stack, base)
  BY <1>0 DEF ForkInv, CountInv
<1>3. act # "ended" => funcnest = FunctionsIn(stack)
  BY DEF CountInv
\* The steps that keep all three.
<1>4. ASSUME UNCHANGED <<loopnest, funcnest, inputs, base>>, act # "ended",
             act = "raise" => act' = "raise",
             \/ stack' = stack
             \/ \E h \in Frames : GoesOnWith(h)
             \/ Pops /\ One(Top, Loops) = 0 /\ One(Top, {"evalfun"}) = 0
                     /\ One(Top, Readers) = 0
      PROVE  CountInv'
  <2>1. FunctionsIn(stack') = FunctionsIn(stack) /\ LoopsIn(stack') = LoopsIn(stack)
    BY <1>1, <1>4
  <2>2. act # "raise" => InputsIn(stack', base) = InputsIn(stack, base)
    BY <1>1, <1>2, <1>4
  <2> QED
    BY <1>2, <1>3, <1>4, <2>1, <2>2 DEF CountInv
<1>5. CASE UNCHANGED vars
  BY <1>5 DEF vars, evalVars, skipVars, levelVars, CountInv
<1>6. CASE Evaluate \/ EvaluateCommand
  <2>1. act = "eval" /\ NodeDone
    BY <1>0, <1>6, EvaluateIs, EvaluateCommandIs
  <2>2. ASSUME NEW f \in Trees
        PROVE  /\ f \in Frames
               /\ One(f, Loops) = 0 /\ One(f, {"evalfun"}) = 0 /\ One(f, Readers) = 0
    BY DEF Trees, Frames, One, Loops, Readers
  <2>3. ASSUME NEW f \in Trees, NodeEnds(f) \/ NodeCalls(f)
        PROVE  CountInv'
    <3>1. CountsGrow(base, f) /\ UNCHANGED <<loopnest, funcnest, inputs, base>>
      BY <1>1, <2>2, <2>3 DEF NodeEnds, NodeCalls
    <3> QED
      BY <1>0, <1>1, <1>2, <1>3, <2>1, <2>2, <3>1 DEF CountsGrow, CountInv
  <2>4. ASSUME NEW f \in Trees, NodeForks(f)
        PROVE  CountInv'
    <3>1. CountsGrow(base, f)
      BY <1>1, <2>2, <2>4 DEF NodeForks
    <3>2. base' = Len(stack) + 1 /\ stack' = <<f>> \o stack /\ inputs' = 0
          /\ UNCHANGED <<loopnest, funcnest>>
      BY <2>4 DEF NodeForks
    <3>3. FramesOf(stack, Len(stack), Readers) = {}
      BY <1>0 DEF FramesOf
    <3>4. Cardinality(FramesOf(<<f>> \o stack, Len(stack), Readers))
          = Cardinality(FramesOf(stack, Len(stack), Readers)) + 0
      BY <1>0, <2>2, CountPush DEF One
    <3>5. Cardinality(FramesOf(stack, Len(stack), Readers)) = 0
      BY <3>3, FS_EmptySet
    <3>6. (Len(stack) + 1) - 1 = Len(stack)
      BY <1>0
    <3>7. InputsIn(stack', base') = 0
      BY <3>2, <3>4, <3>5, <3>6 DEF InputsIn
    <3> QED
      BY <1>0, <1>1, <1>2, <1>3, <2>1, <2>2, <3>1, <3>2, <3>7 DEF CountsGrow, CountInv
  <2>5. ASSUME NEW f \in Trees, NEW g \in Frames, NodeLoops(f, g)
        PROVE  CountInv'
    <3>1. One(g, Loops) = 1 /\ One(g, {"evalfun"}) = 0 /\ One(g, Readers) = 0
      BY <2>5 DEF NodeLoops, WhileFrames, ForFrames, One, Loops, Readers
    <3>2. CountsGrow(base, g) /\ loopnest' = loopnest + 1 /\ UNCHANGED <<funcnest, inputs, base>>
      BY <1>1, <2>5 DEF NodeLoops
    <3> QED
      BY <1>0, <1>1, <1>2, <1>3, <2>1, <3>1, <3>2 DEF CountsGrow, CountInv
  <2>6. ASSUME NEW f \in Trees, NEW g \in Frames, NodeReads(f, g)
        PROVE  CountInv'
    <3>1. One(g, Loops) = 0 /\ One(g, {"evalfun"}) = 0 /\ One(g, Readers) = 1
      BY <2>6 DEF NodeReads, InputFrames, One, Loops, Readers
    <3>2. CountsGrow(base, g) /\ inputs' = inputs + 1 /\ UNCHANGED <<funcnest, loopnest, base>>
      BY <1>1, <2>6 DEF NodeReads
    <3> QED
      BY <1>0, <1>1, <1>2, <1>3, <2>1, <3>1, <3>2 DEF CountsGrow, CountInv
  <2>7. ASSUME NEW f \in Trees, NEW g \in Frames, NodeRuns(f, g)
        PROVE  CountInv'
    <3>1. One(g, Loops) = 0 /\ One(g, {"evalfun"}) = 1 /\ One(g, Readers) = 0
      BY <2>7 DEF NodeRuns, FunctionFrames, One, Loops, Readers
    <3>2. CountsGrow(base, g) /\ funcnest' = funcnest + 1 /\ UNCHANGED <<inputs, loopnest, base>>
      BY <1>1, <2>7 DEF NodeRuns
    <3> QED
      BY <1>0, <1>1, <1>2, <1>3, <2>1, <3>1, <3>2 DEF CountsGrow, CountInv
  <2>8. CASE NodeRaises
    BY <1>3, <2>1, <2>8 DEF NodeRaises, CountInv
  <2> QED
    BY <2>1, <2>3, <2>4, <2>5, <2>6, <2>7, <2>8 DEF NodeDone
<1>7. CASE Continue
  <2>0. UNCHANGED base /\ act \notin {"raise", "ended", "eval"}
    BY <1>7 DEF Continue, OutErrexit, OutTrap, Leave, BackTail, BackNot, BackGroup, BackBinary,
                BackIf, BackLoop, BackFor, LoopSkips, BackFunction, Back, levelVars
  <2>1. CASE OutErrexit \/ BackTail \/ BackNot \/ BackGroup
    BY <1>4, <2>0, <2>1 DEF OutErrexit, BackTail, BackNot, BackGroup, GoOut, skipVars, levelVars
  <2>2. CASE OutTrap
    <3> DEFINE g == [fn |-> "dotrap", status |-> exitstatus]
    <3>1. g \in Frames /\ g.fn = "dotrap"
      BY <1>0 DEF TypeOK, ScalarsOK, TrapFrames, Frames
    <3>2. CASE stack' = stack /\ inputs' = inputs
      BY <1>4, <2>0, <2>2, <3>2 DEF OutTrap, skipVars
    <3>3. CASE stack' = <<g>> \o stack /\ inputs' = inputs + 1
      <4> HIDE DEF g
      <4>1. One(g, Loops) = 0 /\ One(g, {"evalfun"}) = 0 /\ One(g, Readers) = 1
        BY <3>1 DEF One, Loops, Readers
      <4>2. CountsGrow(base, g) /\ UNCHANGED <<loopnest, funcnest, base>>
        BY <1>1, <2>0, <2>2, <3>1, <3>3 DEF OutTrap, skipVars
      <4> QED
        BY <1>0, <1>1, <1>2, <1>3, <2>0, <3>3, <4>1, <4>2 DEF CountsGrow, CountInv
    <3> QED
      BY <2>2, <3>2, <3>3 DEF OutTrap, Push
  <2>3. CASE Leave
    <3>1. IsTop("evaltree")
      BY <1>0, <2>3 DEF Leave, StackInv
    <3>2. One(Top, Loops) = 0 /\ One(Top, {"evalfun"}) = 0 /\ One(Top, Readers) = 0
      BY <3>1 DEF IsTop, One, Loops, Readers
    <3>3. stack' = stack \/ Pops
      BY <2>3, <3>1 DEF Leave, IsTop, Pops
    <3> QED
      BY <1>4, <2>0, <2>3, <3>2, <3>3 DEF Leave, skipVars
  <2>4. CASE BackFunction
    <3>1. Pops /\ One(Top, Loops) = 0 /\ One(Top, {"evalfun"}) = 1 /\ One(Top, Readers) = 0
          /\ funcnest' = funcnest - 1 /\ UNCHANGED <<loopnest, inputs, base>>
      BY <2>0, <2>4 DEF BackFunction, IsTop, Pops, One, Loops, Readers
    <3> QED
      BY <1>0, <1>1, <1>2, <1>3, <2>0, <3>1 DEF CountInv
  <2>5. CASE BackBinary \/ BackIf
    <3>1. UNCHANGED <<loopnest, funcnest, inputs>>
      BY <2>5 DEF BackBinary, BackIf, skipVars
    <3> QED
      BY <1>0, <1>4, <2>0, <2>5, <3>1, BranchIs
  <2>6. CASE BackLoop \/ BackFor \/ LoopSkips
    <3>1. UNCHANGED <<funcnest, inputs>> /\ Top.fn \in Loops
      BY <1>0, <2>6, LoopIs DEF BackLoop, BackFor, LoopSkips
    <3>2. CASE \E h \in Frames : LoopGoesOn(h)
      BY <1>4, <2>0, <3>1, <3>2 DEF LoopGoesOn
    <3>3. CASE LoopEnds
      <4>1. One(Top, Loops) = 1 /\ One(Top, {"evalfun"}) = 0 /\ One(Top, Readers) = 0
        BY <3>1 DEF One, Loops, Readers
      <4> QED
        BY <1>0, <1>1, <1>2, <1>3, <2>0, <3>1, <3>3, <4>1 DEF LoopEnds, CountInv
    <3> QED
      BY <1>0, <2>6, <3>2, <3>3, LoopIs
  <2> QED
    BY <1>7, <2>1, <2>2, <2>3, <2>4, <2>5, <2>6 DEF Continue
<1>8. CASE ReadOrEnd
  <2>0. act \in {"read", "back"}
    BY <1>8 DEF ReadOrEnd, Read, EvalstringEnds, DotEnds, TrapEnds, ScriptEnds, ExitTrapEnds, InputEnds
  <2>1. CASE Read
    BY <1>4, <2>0, <2>1 DEF Read, skipVars, levelVars
  <2>2. CASE EvalstringEnds \/ DotEnds \/ TrapEnds
    <3>1. Pops /\ Top.fn \in {"evalstring", "dotcmd", "dotrap"}
          /\ inputs' = inputs - 1 /\ UNCHANGED <<loopnest, funcnest, base>>
      BY <2>2 DEF EvalstringEnds, DotEnds, TrapEnds, InputEnds, IsTop, Pops, levelVars
    <3>2. One(Top, Loops) = 0 /\ One(Top, {"evalfun"}) = 0 /\ One(Top, Readers) = 1
      BY <3>1 DEF One, Loops, Readers
    <3> QED
      BY <1>0, <1>1, <1>2, <1>3, <2>0, <3>1, <3>2 DEF CountInv
  <2>3. CASE ScriptEnds
    <3>1. stack = <<>> /\ UNCHANGED <<loopnest, funcnest, base>>
      BY <2>3 DEF ScriptEnds, levelVars
    <3>2. CASE act' = "ended"
      BY <3>2 DEF CountInv
    <3>3. CASE act' # "ended"
      <4> DEFINE g == [fn |-> "exitshell", status |-> exitstatus]
      <4>1. stack' = <<g>> /\ inputs' = inputs + 1
        BY <2>3, <3>3 DEF ScriptEnds, ExitShell
      <4>2. g \in Frames /\ g.fn = "exitshell"
        BY <1>0 DEF TypeOK, ScalarsOK, ExitFrames, Frames
      <4> HIDE DEF g
      <4>3. One(g, Loops) = 0 /\ One(g, {"evalfun"}) = 0 /\ One(g, Readers) = 1
        BY <4>2 DEF One, Loops, Readers
      <4>4. stack' = <<g>> \o stack
        BY <3>1, <4>1
      <4>5. CountsGrow(base, g)
        BY <1>1, <4>2, <4>4
      <4> QED
        BY <1>0, <1>1, <1>2, <1>3, <2>0, <3>1, <4>1, <4>3, <4>5 DEF CountsGrow, CountInv
    <3> QED
      BY <3>2, <3>3
  <2>4. CASE ExitTrapEnds
    BY <2>4 DEF ExitTrapEnds, CountInv
  <2> QED
    BY <1>8, <2>1, <2>2, <2>3, <2>4 DEF ReadOrEnd
<1>9. CASE Raised
  <2>0. act = "raise"
    BY <1>9 DEF Raised, Unwind, UnwindFunction, UnwindBuiltin, UnwindExitTrap, UnwindMain
  <2>1. CASE Unwind
    <3>1. Pops /\ One(Top, {"evalfun"}) = 0 /\ UNCHANGED <<funcnest, act>>
      BY <2>1 DEF Unwind, Pops, One, skipVars
    <3> QED
      BY <1>0, <1>1, <1>3, <2>0, <3>1 DEF CountInv
  <2>2. CASE UnwindFunction
    <3>1. Pops /\ One(Top, {"evalfun"}) = 1 /\ funcnest' = funcnest - 1 /\ act' = act
      BY <2>2 DEF UnwindFunction, IsTop, Pops, One
    <3> QED
      BY <1>0, <1>1, <1>3, <2>0, <3>1 DEF CountInv
  <2>3. CASE UnwindBuiltin
    <3>1. act' = "raise"
      BY <2>3, RaisedPasses
    <3>2. Pops /\ One(Top, {"evalfun"}) = 0 /\ UNCHANGED funcnest
      BY <2>3 DEF UnwindBuiltin, IsTop, Pops, One, skipVars
    <3> QED
      BY <1>0, <1>1, <1>3, <2>0, <3>1, <3>2 DEF CountInv
  <2>4. CASE UnwindExitTrap
    BY <2>4 DEF UnwindExitTrap, CountInv
  <2>5. CASE UnwindMain
    <3>1. stack = <<>> /\ base' = 0 /\ loopnest' = 0 /\ funcnest' = funcnest /\ funcnest = 0
      BY <1>3, <2>0, <2>5, EmptyCounts DEF UnwindMain, NoLoops
    <3>2. CASE act' = "ended"
      BY <3>2 DEF CountInv
    <3>3. CASE act' = "read" /\ stack' = <<>> /\ inputs' = 0
      BY <3>1, <3>3, EmptyCounts DEF CountInv
    <3>4. CASE act' # "ended" /\ ~(stack' = <<>> /\ inputs' = 0)
      <4> DEFINE g == [fn |-> "exitshell", status |-> exitstatus']
      <4>1. stack' = <<g>> /\ inputs' = 1
        BY <2>5, <3>1, <3>4 DEF UnwindMain, ExitShell
      <4>2. g \in Frames /\ g.fn = "exitshell"
        <5>1. exitstatus' \in Nat
          BY <1>0, <2>5 DEF UnwindMain, TypeOK, ScalarsOK
        <5> QED
          BY <5>1 DEF ExitFrames, Frames
      <4> HIDE DEF g
      <4>3. One(g, Loops) = 0 /\ One(g, {"evalfun"}) = 0 /\ One(g, Readers) = 1
        BY <4>2 DEF One, Loops, Readers
      <4>4. stack' = <<g>> \o stack /\ Len(stack) = 0
        BY <3>1, <4>1
      <4>5. /\ LoopsIn(stack') = LoopsIn(stack) + One(g, Loops)
            /\ FunctionsIn(stack') = FunctionsIn(stack) + One(g, {"evalfun"})
            /\ InputsIn(stack', 0) = InputsIn(stack, 0) + One(g, Readers)
        <5>1. 0 \in Nat /\ Len(stack) >= 0 - 1
          BY <4>4
        <5>2. CountsGrow(0, g)
          BY <1>0, <4>2, <4>4, <5>1, CountMoves
        <5> QED
          BY <5>1, <5>2 DEF CountsGrow
      <4>6. LoopsIn(stack) = 0 /\ FunctionsIn(stack) = 0 /\ InputsIn(stack, 0) = 0
        BY <3>1, EmptyCounts
      <4> QED
        BY <3>1, <4>1, <4>3, <4>5, <4>6 DEF CountInv
    <3> QED
      BY <2>5, <3>2, <3>3, <3>4 DEF UnwindMain, ExitShell
  <2> QED
    BY <1>9, <2>1, <2>2, <2>3, <2>4, <2>5 DEF Raised
<1>10. CASE Signal
  BY <1>4, <1>10 DEF Signal, evalVars, skipVars, levelVars
<1>11. CASE Ended
  BY <1>11 DEF Ended, vars, evalVars, skipVars, levelVars, CountInv
<1> QED
  BY <1>5, <1>6, <1>7, <1>8, <1>9, <1>10, <1>11 DEF Next

LEMMA CountIsFrames ==
    ASSUME TypeOK
    PROVE  /\ \A fns : Count(fns) = Cardinality(FramesOf(stack, 0, fns))
           /\ Cardinality({i \in DOMAIN stack : Own(i) /\ stack[i].fn \in Readers})
              = InputsIn(stack, base)
<1>1. DOMAIN stack = 1..Len(stack) /\ Len(stack) \in Nat
  BY DEF TypeOK
<1>2. ASSUME NEW fns
      PROVE  {i \in DOMAIN stack : stack[i].fn \in fns} = FramesOf(stack, 0, fns)
  BY <1>1 DEF FramesOf
<1>3. {i \in DOMAIN stack : Own(i) /\ stack[i].fn \in Readers} = FramesOf(stack, base - 1, Readers)
  BY DEF FramesOf, Own
<1> QED
  BY <1>2, <1>3 DEF Count, InputsIn

LEMMA InitCounts == Init => SpecialInv /\ ForkInv /\ CountInv
<1> SUFFICES ASSUME Init
             PROVE  SpecialInv /\ ForkInv /\ CountInv
  OBVIOUS
<1>1. stack = <<>> /\ base = 0 /\ loopnest = 0 /\ funcnest = 0 /\ inputs = 0
  BY DEF Init
<1> QED
  BY <1>1, EmptyCounts DEF SpecialInv, ForkInv, CountInv

(* The counters that break, return and the input stack work with (ash.c:   *)
(* loopnest, funcnest, g_parsefile) agree with the C stack whenever a      *)
(* command is evaluated, whichever way loops, functions, strings and files *)
(* were left, in the shell and in the children of its forks.               *)
THEOREM CountersAreRight ==
    ASSUME NoPrefix
    PROVE  Spec => []CountersMatchStack
<1> DEFINE Inv == BaseInv /\ SpecialInv /\ ForkInv /\ CountInv
<1>1. Init => Inv
  BY InitBase, InitCounts
<1>2. Inv /\ [Next]_vars => Inv'
  BY BaseKept, SpecialKept, ForkKept, CountKept
<1>3. Inv => CountersMatchStack
  <2> SUFFICES ASSUME Inv
               PROVE  CountersMatchStack
    OBVIOUS
  <2> QED
    BY CountIsFrames DEF BaseInv, CountInv, LoopsIn, FunctionsIn, CountersMatchStack
<1> QED
  BY <1>1, <1>2, <1>3, PTL DEF Spec

LEMMA SkipKeptAll ==
    ASSUME NoPrefix, BaseInv, SpecialInv, SkipInv, [Next]_vars
    PROVE  SkipInv'
<1>0. /\ TypeOK /\ loopnest \in Int /\ funcnest \in Int /\ skipcount \in Int
      /\ evalskip \subseteq Skips /\ evalskip' \subseteq Skips
  BY BaseKept DEF BaseInv, TypeOK, ScalarsOK
\* Nothing is skipped afterwards, or it does not matter.
<1>1. ASSUME evalskip' = {} \/ due' \in {"yes", "string", "tested"}
      PROVE  SkipInv'
  BY <1>1 DEF SkipInv, SkipTarget, Skips
\* Less is skipped afterwards, in the same loops.
<1>2. ASSUME due' = due, evalskip' \subseteq evalskip, skipcount' = skipcount,
             act' \notin {"raise", "ended"} => act \notin {"raise", "ended"} /\ loopnest' >= loopnest,
             loopnest' \in Int,
             act' \notin {"raise", "ended"} /\ "func" \in evalskip' => funcnest' >= funcnest,
             funcnest' \in Int
      PROVE  SkipInv'
  <2>1. "eval" \in evalskip' => due' # "no"
    BY <1>2 DEF SkipInv
  <2>2. due' = "no" => \E what \in Skips : evalskip' \subseteq {what}
    BY <1>2 DEF SkipInv
  <2>3. SkipTarget'
    <3> SUFFICES ASSUME act' \notin {"raise", "ended"}, due' = "no"
                 PROVE  /\ evalskip' \cap {"break", "cont"} # {} => skipcount' \in 1..loopnest'
                        /\ "func" \in evalskip' => funcnest' > 0
      BY DEF SkipTarget
    <3>1. /\ evalskip \cap {"break", "cont"} # {} => skipcount \in 1..loopnest
          /\ "func" \in evalskip => funcnest > 0
      BY <1>2 DEF SkipInv, SkipTarget
    <3>2. evalskip' \cap {"break", "cont"} # {} => skipcount' \in 1..loopnest'
      BY <1>0, <1>2, <3>1
    <3> QED
      BY <1>0, <1>2, <3>1, <3>2
  <2> QED
    BY <2>1, <2>2, <2>3 DEF SkipInv
<1>3. CASE UNCHANGED vars
  BY <1>0, <1>2, <1>3 DEF vars, evalVars, skipVars
<1>4. CASE Evaluate \/ EvaluateCommand
  <2>1. act = "eval" /\ NodeDone
    BY <1>0, <1>4, EvaluateIs, EvaluateCommandIs
  <2>2. due' = due /\ loopnest' \in {loopnest, loopnest + 1} /\ funcnest' \in {funcnest, funcnest + 1}
    BY <2>1 DEF NodeDone, NodeEnds, NodeCalls, NodeForks, NodeLoops, NodeReads, NodeRuns, NodeRaises
  <2>3. SkipKept \/ (SkipBegins /\ loopnest' = loopnest /\ funcnest' = funcnest)
    BY <2>1 DEF NodeDone, NodeEnds, NodeCalls, NodeForks, NodeLoops, NodeReads, NodeRuns, NodeRaises
  <2>4. CASE SkipKept
    <3>1. loopnest' >= loopnest /\ loopnest' \in Int /\ funcnest' >= funcnest /\ funcnest' \in Int
      BY <1>0, <2>2
    <3>2. evalskip' = evalskip /\ skipcount' = skipcount
      BY <2>4 DEF SkipKept
    <3> QED
      BY <1>2, <2>1, <2>2, <3>1, <3>2
  <2>5. CASE SkipBegins /\ loopnest' = loopnest /\ funcnest' = funcnest
    <3>1. "eval" \notin evalskip' /\ \E what \in Skips : evalskip' \subseteq {what}
      BY <2>5 DEF SkipBegins, Skips
    <3>2. evalskip' \cap {"break", "cont"} # {} => skipcount' \in 1..loopnest'
      BY <2>5 DEF SkipBegins
    <3>3. "func" \in evalskip' => funcnest' > 0
      BY <2>5 DEF SkipBegins
    <3> QED
      BY <3>1, <3>2, <3>3 DEF SkipInv, SkipTarget
  <2> QED
    BY <2>3, <2>4, <2>5
<1>5. CASE Continue
  <2>1. CASE OutErrexit
    BY <1>0, <1>1, <2>1 DEF OutErrexit, TypeOK, ScalarsOK
  <2>2. CASE OutTrap \/ Leave \/ BackTail \/ BackNot \/ BackGroup \/ BackBinary \/ BackIf
    <3>1. UNCHANGED <<evalskip, skipcount, loopnest, funcnest, due>> /\ act \notin {"raise", "ended"}
      BY <2>2 DEF OutTrap, Leave, BackTail, BackNot, BackGroup, BackBinary, BackIf, Back, skipVars
    <3> QED
      BY <1>0, <1>2, <3>1
  <2>3. CASE BackFunction
    <3>1. /\ UNCHANGED <<skipcount, loopnest, due>> /\ act \notin {"raise", "ended"}
          /\ evalskip' \subseteq evalskip /\ "func" \notin evalskip' /\ funcnest' = funcnest - 1
      BY <2>3 DEF BackFunction, FunctionSkip
    <3> QED
      BY <1>0, <1>2, <3>1
  <2>4. CASE BackLoop \/ BackFor
    BY <1>1, <2>4 DEF BackLoop, BackFor
  <2>5. CASE LoopSkips
    <3>1. CASE due # "no"
      BY <1>0, <1>1, <2>5, <3>1 DEF LoopSkips, TypeOK, ScalarsOK
    <3>2. CASE due = "no"
      <4>1. PICK what \in Skips : evalskip = {what}
        BY <2>5, <3>2 DEF LoopSkips, SkipInv
      <4>2. act = "back" /\ due' = due /\ funcnest' = funcnest
        BY <2>5 DEF LoopSkips
      <4>3. CASE what \in {"break", "cont"}
        <5>1. CASE Reached
          BY <1>1, <2>5, <4>1, <4>3, <5>1 DEF LoopSkips
        <5>2. CASE ~Reached
          <6>1. skipcount' = skipcount - 1 /\ evalskip' = evalskip /\ loopnest' = loopnest - 1
            BY <2>5, <4>1, <4>3, <5>2 DEF LoopSkips, EndLoop
          <6>2. skipcount \in 1..loopnest /\ skipcount > 1
            <7>1. evalskip \cap {"break", "cont"} # {}
              BY <4>1, <4>3
            <7>2. skipcount \in 1..loopnest
              BY <3>2, <4>2, <7>1 DEF SkipInv, SkipTarget
            <7> QED
              BY <1>0, <5>2, <7>2 DEF Reached
          <6>3. skipcount' \in 1..loopnest'
            BY <1>0, <6>1, <6>2
          <6> QED
            BY <4>1, <4>2, <4>3, <6>1, <6>3 DEF SkipInv, SkipTarget, Skips
        <5> QED
          BY <5>1, <5>2
      <4>4. CASE what \notin {"break", "cont"}
        <5>1. evalskip' = evalskip
          BY <2>5, <4>1, <4>4 DEF LoopSkips
        <5>2. evalskip \cap {"break", "cont"} = {}
          BY <4>1, <4>4
        <5> QED
          BY <3>2, <4>1, <4>2, <5>1, <5>2 DEF SkipInv, SkipTarget
      <4> QED
        BY <4>3, <4>4
    <3> QED
      BY <3>1, <3>2
  <2> QED
    BY <1>5, <2>1, <2>2, <2>3, <2>4, <2>5 DEF Continue
<1>6. CASE ReadOrEnd
  <2>1. CASE Read \/ EvalstringEnds \/ DotEnds
    <3>1. UNCHANGED <<skipcount, loopnest, funcnest, due>> /\ act \notin {"raise", "ended"}
          /\ evalskip' \subseteq evalskip
      BY <2>1 DEF Read, EvalstringEnds, DotEnds, InputEnds, Skip, skipVars
    <3> QED
      BY <1>0, <1>2, <3>1
  <2>2. CASE TrapEnds
    <3>1. CASE "eval" \in Skip
      <4>1. due' = due /\ due # "no"
        BY <2>2, <3>1 DEF TrapEnds, Skip, SkipInv
      <4> QED
        BY <1>0, <1>1, <4>1 DEF TypeOK, ScalarsOK
    <3>2. CASE "eval" \notin Skip
      BY <1>1, <2>2, <3>2 DEF TrapEnds
    <3> QED
      BY <3>1, <3>2
  <2>3. CASE ScriptEnds \/ ExitTrapEnds
    BY <1>1, <2>3 DEF ScriptEnds, ExitTrapEnds
  <2> QED
    BY <1>6, <2>1, <2>2, <2>3 DEF ReadOrEnd
<1>7. CASE Raised
  <2>1. CASE Unwind \/ UnwindFunction \/ UnwindBuiltin \/ UnwindExitTrap
    <3>1. act' \in {"raise", "ended"}
      BY <2>1, RaisedPasses DEF Unwind, UnwindFunction, UnwindExitTrap
    <3>2. UNCHANGED <<skipcount, due>> /\ evalskip' \subseteq evalskip
          /\ loopnest' = loopnest /\ funcnest' \in {funcnest, funcnest - 1}
      BY <2>1 DEF Unwind, UnwindFunction, UnwindBuiltin, UnwindExitTrap, FunctionSkip, skipVars
    <3>3. funcnest' \in Int
      BY <1>0, <3>2
    <3> QED
      BY <1>0, <1>2, <3>1, <3>2, <3>3
  <2>2. CASE UnwindMain
    BY <1>1, <2>2 DEF UnwindMain
  <2> QED
    BY <1>7, <2>1, <2>2 DEF Raised
<1>8. CASE Signal
  <2>1. UNCHANGED <<act, evalskip, skipcount, loopnest, funcnest, due>>
    BY <1>8 DEF Signal, evalVars, skipVars
  <2> QED
    BY <1>0, <1>2, <2>1
<1>9. CASE Ended
  BY <1>0, <1>2, <1>9 DEF Ended, vars, evalVars, skipVars
<1> QED
  BY <1>3, <1>4, <1>5, <1>6, <1>7, <1>8, <1>9 DEF Next

(* A break, continue or return that is on its way has the loops, or the    *)
(* function, it is to end around it: breakcmd limits its operand by        *)
(* loopnest, returncmd looks at funcnest, and both are what is on the      *)
(* stack.  So skipping cannot run on to the end of the script.             *)
THEOREM SkippingEnds ==
    ASSUME NoPrefix
    PROVE  Spec => []SkipHasTarget
<1> DEFINE Inv == BaseInv /\ SpecialInv /\ ForkInv /\ CountInv /\ SkipInv
<1>1. Init => Inv
  <2> SUFFICES ASSUME Init
               PROVE  SkipInv
    BY InitBase, InitCounts
  <2> QED
    BY DEF Init, SkipInv, SkipTarget, Skips
<1>2. Inv /\ [Next]_vars => Inv'
  BY BaseKept, SpecialKept, ForkKept, CountKept, SkipKeptAll
<1>3. Inv => SkipHasTarget
  <2> SUFFICES ASSUME Inv, act \notin {"raise", "ended"}, due = "no"
               PROVE  /\ evalskip \cap {"break", "cont"} # {} => skipcount \in 1..Count(Loops)
                      /\ "func" \in evalskip => Within("evalfun")
    BY DEF SkipHasTarget
  <2>1. loopnest = Count(Loops) /\ funcnest = Count({"evalfun"})
    BY CountIsFrames DEF BaseInv, CountInv, LoopsIn, FunctionsIn
  <2> QED
    BY <2>1 DEF SkipInv, SkipTarget, Within
<1> QED
  BY <1>1, <1>2, <1>3, PTL DEF Spec

-----------------------------------------------------------------------------
(***************************************************************************)
(* set -e.                                                                 *)
(***************************************************************************)
LEMMA StrictPush ==
    ASSUME NEW s \in Seq(Frames), StrictIn(s), NEW f \in Frames,
           f.fn = "evaltree" =>
               /\ f.check => f.next = "simple"
               /\ f.strict => f.check /\ NoTests(s)
    PROVE  StrictIn(<<f>> \o s)
<1> DEFINE t == <<f>> \o s
<1>1. /\ t \in Seq(Frames) /\ Len(t) = Len(s) + 1 /\ t[1] = f
      /\ \A i \in 1..Len(s) : t[i + 1] = s[i]
      /\ DOMAIN s = 1..Len(s) /\ Len(s) \in Nat
  BY PushIs
<1>2. DOMAIN t = 1..(Len(s) + 1)
  BY <1>1
<1> HIDE DEF t
<1>3. ASSUME NEW j \in DOMAIN t, j > 1
      PROVE  j - 1 \in DOMAIN s /\ t[j] = s[j - 1]
  <2>1. j - 1 \in 1..Len(s) /\ (j - 1) + 1 = j
    BY <1>1, <1>2, <1>3
  <2> QED
    BY <1>1, <2>1
<1> SUFFICES ASSUME NEW i \in DOMAIN t, t[i].fn = "evaltree"
             PROVE  /\ t[i].check => t[i].next = "simple"
                    /\ t[i].strict => /\ t[i].check
                                      /\ \A j \in DOMAIN t : j > i => ~Tests(t[j])
  BY DEF StrictIn, t
<1>4. CASE i = 1
  BY <1>1, <1>3, <1>4 DEF NoTests
<1>5. CASE i > 1
  <2>1. i - 1 \in DOMAIN s /\ t[i] = s[i - 1]
    BY <1>3, <1>5
  <2>2. /\ s[i - 1].check => s[i - 1].next = "simple"
        /\ s[i - 1].strict => /\ s[i - 1].check
                              /\ \A j \in DOMAIN s : j > i - 1 => ~Tests(s[j])
    BY <2>1 DEF StrictIn
  <2>3. ASSUME NEW j \in DOMAIN t, j > i
        PROVE  j - 1 \in DOMAIN s /\ t[j] = s[j - 1] /\ j - 1 > i - 1
    BY <1>2, <1>3, <1>5, <2>3
  <2> QED
    BY <2>1, <2>2, <2>3
<1> QED
  BY <1>2, <1>4, <1>5

LEMMA StrictPop ==
    ASSUME NEW s \in Seq(Frames), s # <<>>
    PROVE  /\ StrictIn(s) => StrictIn(Tail(s))
           /\ NoTests(s) => NoTests(Tail(s))
           /\ UnderE(s) /\ WellCalled(s) => UnderE(Tail(s))
<1> DEFINE t == Tail(s)
<1>1. /\ t \in Seq(Frames) /\ Len(t) = Len(s) - 1 /\ Len(s) \in Nat \ {0}
      /\ \A i \in 1..Len(t) : t[i] = s[i + 1]
  BY PopIs
<1>2. DOMAIN t = 1..(Len(s) - 1) /\ DOMAIN s = 1..Len(s)
  BY <1>1
<1> HIDE DEF t
<1>3. ASSUME NEW i \in DOMAIN t
      PROVE  i + 1 \in DOMAIN s /\ t[i] = s[i + 1] /\ i \in Int
  BY <1>1, <1>2
<1>4. NoTests(s) => NoTests(t)
  BY <1>3 DEF NoTests
<1>5. ASSUME StrictIn(s)
      PROVE  StrictIn(t)
  <2> SUFFICES ASSUME NEW i \in DOMAIN t, t[i].fn = "evaltree"
               PROVE  /\ t[i].check => t[i].next = "simple"
                      /\ t[i].strict => /\ t[i].check
                                        /\ \A j \in DOMAIN t : j > i => ~Tests(t[j])
    BY DEF StrictIn
  <2>1. /\ s[i + 1].check => s[i + 1].next = "simple"
        /\ s[i + 1].strict => /\ s[i + 1].check
                              /\ \A j \in DOMAIN s : j > i + 1 => ~Tests(s[j])
    BY <1>3, <1>5 DEF StrictIn
  <2>2. ASSUME NEW j \in DOMAIN t, j > i
        PROVE  j + 1 \in DOMAIN s /\ t[j] = s[j + 1] /\ j + 1 > i + 1
    BY <1>3, <2>2
  <2> QED
    BY <1>3, <2>1, <2>2
<1>6. ASSUME UnderE(s), WellCalled(s)
      PROVE  UnderE(t)
  <2> SUFFICES ASSUME NEW i \in DOMAIN t, t[i].fn \in {"evalstring", "dotcmd"}
               PROVE  t[i + 1].check
    BY DEF UnderE
  <2>1. s[i + 1].fn \in {"evalstring", "dotcmd"} /\ i + 1 \in DOMAIN s
    BY <1>3
  <2>2. s[(i + 1) + 1].check /\ i + 1 < Len(s)
    BY <1>6, <2>1 DEF UnderE, WellCalled, OnTree
  <2>3. i + 1 \in 1..Len(t)
    BY <1>1, <1>2, <2>2
  <2>4. t[i + 1] = s[(i + 1) + 1]
    BY <1>1, <2>3
  <2> QED
    BY <2>2, <2>4
<1> QED
  BY <1>4, <1>5, <1>6 DEF t

LEMMA StrictKept ==
    ASSUME BaseInv, StrictInv, [Next]_vars
    PROVE  StrictInv'
<1>0. TypeOK /\ StackInv /\ stack \in Seq(Frames)
  BY DEF BaseInv, TypeOK
<1>1. ASSUME stack' = stack
      PROVE  StrictInv'
  BY <1>1 DEF StrictInv
<1>2. ASSUME Pops
      PROVE  StrictInv'
  BY <1>0, <1>2, StrictPop DEF Pops, StrictInv
\* Only evaltree can be watched.
<1>3. ASSUME NEW f \in Frames, f.fn # "evaltree", stack' = <<f>> \o stack
      PROVE  StrictInv'
  BY <1>0, <1>3, StrictPush DEF StrictInv
<1>4. ASSUME NEW f \in Trees, NewTree(f)
      PROVE  f \in Frames /\ StrictIn(<<f>> \o stack)
  <2>1. f \in Frames /\ (f.check => f.next = "simple") /\ (f.strict => f.check /\ NoTests(stack))
    BY <1>4 DEF NewTree, NoTests, Frames
  <2> QED
    BY <1>0, <2>1, StrictPush DEF StrictInv
<1>5. ASSUME NEW h \in Frames, GoesOnWith(h)
      PROVE  StrictInv'
  <2>1. /\ stack # <<>> /\ stack' = <<h>> \o Tail(stack)
        /\ Top = stack[1] /\ 1 \in DOMAIN stack /\ Tail(stack) \in Seq(Frames)
    BY <1>0, <1>5, TopIs DEF GoesOnWith
  <2>2. StrictIn(Tail(stack))
    BY <1>0, <2>1, StrictPop DEF StrictInv
  <2>3. h.fn = "evaltree" => ~h.check /\ ~h.strict
    <3>1. Top.fn = "evaltree" =>
            /\ Top.check => Top.next = "simple"
            /\ Top.strict => Top.check
      BY <2>1 DEF StrictInv, StrictIn
    <3>2. h.fn = "evaltree" =>
            h.check = Top.check /\ h.strict = Top.strict /\ Top.next # "simple" /\ Top.fn = "evaltree"
      BY <1>5 DEF GoesOnWith, Loops
    <3> QED
      BY <3>1, <3>2
  <2> QED
    BY <2>1, <2>2, <2>3, StrictPush DEF StrictInv
<1>6. ASSUME NEW status \in Nat
      PROVE  /\ [fn |-> "dotrap", status |-> status] \in Frames
             /\ StrictIn(<<>>)
             /\ StrictIn(<<[fn |-> "exitshell", status |-> status]>>)
  <2>1. [fn |-> "dotrap", status |-> status] \in Frames
    BY DEF TrapFrames, Frames
  <2>2. StrictIn(<<>>)
    BY DEF StrictIn
  <2>3. StrictIn(<<[fn |-> "exitshell", status |-> status]>>)
    <3> DEFINE g == [fn |-> "exitshell", status |-> status]
    <3>1. g.fn # "evaltree"
      OBVIOUS
    <3> HIDE DEF g
    <3>2. StrictIn(<<g>>)
      BY <3>1 DEF StrictIn
    <3> QED
      BY <3>2 DEF g
  <2> QED
    BY <2>1, <2>2, <2>3
<1>7. CASE UNCHANGED vars
  BY <1>1, <1>7 DEF vars, evalVars
<1>8. CASE Evaluate \/ EvaluateCommand
  <2>1. NodeDone
    BY <1>0, <1>8, EvaluateIs, EvaluateCommandIs
  <2>2. ASSUME NEW f \in Trees, NodeEnds(f) \/ NodeCalls(f) \/ NodeForks(f)
        PROVE  StrictInv'
    BY <1>4, <2>2 DEF NodeEnds, NodeCalls, NodeForks, StrictInv
  <2>3. ASSUME NEW f \in Trees, NEW g \in Frames, NodeLoops(f, g) \/ NodeReads(f, g) \/ NodeRuns(f, g)
        PROVE  StrictInv'
    <3> DEFINE t == <<f>> \o stack
    <3>1. NewTree(f) /\ stack' = <<g, f>> \o stack /\ g.fn # "evaltree"
      BY <2>3
      DEF NodeLoops, NodeReads, NodeRuns, WhileFrames, ForFrames, InputFrames, FunctionFrames
    <3>2. StrictIn(t) /\ t \in Seq(Frames) /\ stack' = <<g>> \o t
      BY <1>0, <1>4, <3>1, PushIs, PushTwo
    <3> HIDE DEF t
    <3> QED
      BY <3>1, <3>2, StrictPush DEF StrictInv
  <2>4. CASE NodeRaises
    BY <1>1, <2>4 DEF NodeRaises
  <2> QED
    BY <2>1, <2>2, <2>3, <2>4 DEF NodeDone
<1>9. CASE Continue
  <2>1. CASE OutErrexit \/ BackTail \/ BackNot \/ BackGroup
    BY <1>1, <2>1 DEF OutErrexit, BackTail, BackNot, BackGroup, GoOut
  <2>2. CASE OutTrap
    <3> DEFINE g == [fn |-> "dotrap", status |-> exitstatus]
    <3>1. g \in Frames /\ g.fn # "evaltree"
      BY <1>0, <1>6 DEF TypeOK, ScalarsOK
    <3>2. stack' = stack \/ stack' = <<g>> \o stack
      BY <2>2 DEF OutTrap, Push
    <3> HIDE DEF g
    <3> QED
      BY <1>1, <1>3, <3>1, <3>2
  <2>3. CASE Leave
    <3>1. stack' = stack \/ Pops
      BY <1>0, <2>3 DEF Leave, StackInv, IsTop, Pops
    <3> QED
      BY <1>1, <1>2, <3>1
  <2>4. CASE BackFunction
    BY <1>2, <2>4 DEF BackFunction, IsTop, Pops
  <2>5. CASE BackBinary \/ BackIf
    BY <1>0, <1>1, <1>5, <2>5, BranchIs
  <2>6. CASE BackLoop \/ BackFor \/ LoopSkips
    BY <1>0, <1>2, <1>5, <2>6, LoopIs DEF LoopGoesOn, LoopEnds
  <2> QED
    BY <1>9, <2>1, <2>2, <2>3, <2>4, <2>5, <2>6 DEF Continue
<1>10. CASE ReadOrEnd
  <2>1. CASE Read \/ ExitTrapEnds
    BY <1>1, <2>1 DEF Read, ExitTrapEnds
  <2>2. CASE EvalstringEnds \/ DotEnds \/ TrapEnds
    BY <1>2, <2>2 DEF EvalstringEnds, DotEnds, TrapEnds, InputEnds, IsTop, Pops
  <2>3. CASE ScriptEnds
    BY <1>0, <1>6, <2>3 DEF ScriptEnds, ExitShell, StrictInv, TypeOK, ScalarsOK
  <2> QED
    BY <1>10, <2>1, <2>2, <2>3 DEF ReadOrEnd
<1>11. CASE Raised
  <2>1. CASE Unwind \/ UnwindFunction \/ UnwindBuiltin
    BY <1>2, <2>1 DEF Unwind, UnwindFunction, UnwindBuiltin, IsTop, Pops
  <2>2. CASE UnwindExitTrap
    BY <1>1, <2>2 DEF UnwindExitTrap
  <2>3. CASE UnwindMain
    <3>1. exitstatus' \in Nat
      BY <1>0, <2>3 DEF UnwindMain, TypeOK, ScalarsOK
    <3> QED
      BY <1>1, <1>6, <2>3, <3>1 DEF UnwindMain, ExitShell, StrictInv
  <2> QED
    BY <1>11, <2>1, <2>2, <2>3 DEF Raised
<1>12. CASE Signal \/ Ended
  BY <1>1, <1>12 DEF Signal, Ended, vars, evalVars
<1> QED
  BY <1>7, <1>8, <1>9, <1>10, <1>11, <1>12 DEF Next

\* No trap is running, and set -e has fired.
Quiet == due = "yes" /\ act \notin {"raise", "ended"} /\ ~Has("dotrap") /\ ~Has("exitshell")

LEMMA ErrexitKept ==
    ASSUME NoPrefix, BaseInv, SpecialInv, StrictInv, ErrexitInv, [Next]_vars
    PROVE  ErrexitInv'
<1>0. TypeOK /\ StackInv /\ stack \in Seq(Frames) /\ WellCalled(stack)
  BY DEF BaseInv, TypeOK, StackInv
<1> SUFFICES ASSUME due' = "yes", act' \notin {"raise", "ended"},
                    ~Has("dotrap")', ~Has("exitshell")'
             PROVE  Returning'
  BY DEF ErrexitInv
<1>1. Quiet => Returning
  BY DEF Quiet, ErrexitInv
<1>2. /\ \A f \in Frames : stack' = <<f>> \o stack =>
            ~Has("dotrap") /\ ~Has("exitshell") /\ f.fn # "dotrap"
      /\ \A f \in Frames, g \in Frames : stack' = <<g, f>> \o stack =>
            ~Has("dotrap") /\ ~Has("exitshell")
      /\ Pops /\ Top.fn \notin {"dotrap", "exitshell"} => ~Has("dotrap") /\ ~Has("exitshell")
      /\ stack' = stack => ~Has("dotrap") /\ ~Has("exitshell")
      /\ \A h \in Frames : GoesOnWith(h) => ~Has("dotrap") /\ ~Has("exitshell")
  BY <1>0, HasKept
<1>3. stack # <<>> => Top = stack[1] /\ 1 \in DOMAIN stack /\ Top \in Frames
  BY <1>0, TopIs
\* Returns that keep the status.
<1>4. ASSUME stack' = stack \/ Pops, Returning, act' \in {"leave", "back", "out"},
             "eval" \in evalskip', exitstatus' # 0
      PROVE  Returning'
  <2>1. UnderE(stack') /\ NoTests(stack')
    BY <1>0, <1>4, StrictPop DEF Returning, Pops
  <2> QED
    BY <1>4, <2>1 DEF Returning
<1>5. CASE UNCHANGED vars
  BY <1>1, <1>2, <1>5 DEF vars, evalVars, skipVars, Quiet, Returning, Top
<1>6. CASE Evaluate \/ EvaluateCommand
  <2>1. act = "eval" /\ NodeDone
    BY <1>0, <1>6, EvaluateIs, EvaluateCommandIs
  <2>2. due = "yes" /\ ~Has("dotrap") /\ ~Has("exitshell")
    <3>1. Trees \subseteq Frames
      BY DEF Frames
    <3> QED
      BY <1>2, <2>1, <3>1
      DEF NodeDone, NodeEnds, NodeCalls, NodeForks, NodeLoops, NodeReads, NodeRuns, NodeRaises
  <2> QED
    BY <1>1, <2>1, <2>2 DEF Quiet, Returning
<1>7. CASE Continue
  <2>1. CASE OutErrexit
    <3>1. /\ stack' = stack /\ act' = "leave" /\ act = "out" /\ Top.check /\ exitstatus' = exitstatus
          /\ exitstatus # 0 /\ "eval" \in evalskip'
      BY <2>1 DEF OutErrexit, Fired
    <3>2. stack # <<>> /\ Top.fn = "evaltree"
      BY <1>0, <3>1 DEF StackInv, IsTop
    <3>3. CASE due = "yes"
      BY <1>1, <1>2, <1>4, <3>1, <3>3 DEF Quiet
    <3>4. CASE due # "yes"
      <4>1. Top.strict /\ StringsUnderE
        BY <2>1, <3>4 DEF OutErrexit
      <4>2. UnderE(stack)
        BY <4>1 DEF StringsUnderE, UnderE
      <4>3. Top.next = "simple" /\ \A j \in DOMAIN stack : j > 1 => ~Tests(stack[j])
        BY <1>3, <3>2, <4>1 DEF StrictInv, StrictIn
      <4>4. ~Tests(Top)
        BY <3>2, <4>3 DEF Tests
      <4>5. \A j \in DOMAIN stack : j = 1 \/ j > 1
        BY <1>0
      <4>6. NoTests(stack)
        BY <1>3, <3>2, <4>3, <4>4, <4>5 DEF NoTests
      <4> QED
        BY <3>1, <4>2, <4>6 DEF Returning
    <3> QED
      BY <3>3, <3>4
  <2>2. CASE OutTrap
    <3> DEFINE g == [fn |-> "dotrap", status |-> exitstatus]
    <3>1. g \in Frames /\ g.fn = "dotrap"
      BY <1>0 DEF TypeOK, ScalarsOK, TrapFrames, Frames
    <3>2. (stack' = stack /\ act' = "leave") \/ stack' = <<g>> \o stack
      BY <2>2 DEF OutTrap, Push
    <3>3. stack' = stack /\ act' = "leave" /\ act = "out"
          /\ UNCHANGED <<evalskip, due, exitstatus>> /\ ~Fired
      BY <1>2, <2>2, <3>1, <3>2 DEF OutTrap, skipVars
    <3> HIDE DEF g
    <3>4. Returning
      BY <1>1, <1>2, <3>3 DEF Quiet
    <3>5. "eval" \in evalskip
      BY <3>3, <3>4 DEF Returning, Fired
    <3> QED
      BY <1>4, <3>3, <3>4, <3>5 DEF Returning
  <2>3. CASE Leave
    <3>1. act' = "back" /\ Pops /\ Top.fn = "evaltree" /\ UNCHANGED <<evalskip, due, exitstatus>>
          /\ (act = "leave" \/ (act = "out" /\ ~Fired))
      BY <1>0, <2>3 DEF Leave, StackInv, IsTop, Pops, skipVars
    <3>2. Returning
      BY <1>1, <1>2, <3>1 DEF Quiet
    <3>3. "eval" \in evalskip
      BY <3>1, <3>2 DEF Returning, Fired
    <3> QED
      BY <1>4, <3>1, <3>2, <3>3 DEF Returning
  <2>4. CASE BackTail \/ BackNot \/ BackGroup \/ BackBinary \/ BackIf
    <3>1. act = "back" /\ stack # <<>> /\ Top.fn = "evaltree" /\ due' = due /\ evalskip' = evalskip
      BY <2>4 DEF BackTail, BackNot, BackGroup, BackBinary, BackIf, Back, IsTop, skipVars
    <3>2. ~Has("dotrap") /\ ~Has("exitshell")
      BY <1>0, <1>2, <2>4, BranchIs DEF BackTail, BackNot, BackGroup, GoOut
    <3>3. Returning /\ "eval" \in evalskip
      BY <1>1, <3>1, <3>2 DEF Quiet, Returning
    <3>4. Top.next \notin {"not", "and", "or", "if"}
      BY <1>3, <3>1, <3>3 DEF Returning, NoTests, Tests
    <3>5. stack' = stack /\ act' = "out" /\ exitstatus' = exitstatus
      BY <2>4, <3>3, <3>4 DEF BackTail, BackNot, BackGroup, BackBinary, BackIf, Back, GoOut, Stops
    <3> QED
      BY <1>4, <3>1, <3>3, <3>5 DEF Returning
  <2>5. CASE BackLoop \/ BackFor \/ LoopSkips
    <3>1. act = "back" /\ stack # <<>> /\ Top.fn \in Loops /\ due' = due
      BY <1>0, <2>5, LoopIs DEF BackLoop, BackFor, LoopSkips
    <3>2. ~Has("dotrap") /\ ~Has("exitshell")
      BY <1>0, <1>2, <2>5, <3>1, LoopIs DEF LoopGoesOn, LoopEnds, Loops
    <3>3. Returning /\ "eval" \in evalskip
      BY <1>1, <3>1, <3>2 DEF Quiet, Returning
    <3>4. LoopSkips
      BY <2>5, <3>3 DEF BackLoop, BackFor
    <3>5. evalskip \notin {{"break"}, {"cont"}} /\ evalskip # {"cont"}
      BY <3>3
    <3>6. evalskip' = evalskip /\ Pops /\ act' = "back"
      BY <3>1, <3>4, <3>5 DEF LoopSkips, EndLoop, Return, Pops
    <3>7. Top.fn = "evalloop" => Top.at = "body"
      <4>1. Top.fn = "evalloop" => Top \in WhileFrames
        BY <1>3, <3>1, FrameKinds
      <4>2. Top.fn = "evalloop" => Top.at # "test"
        BY <1>3, <3>1, <3>3 DEF Returning, NoTests, Tests
      <4> QED
        BY <4>1, <4>2 DEF WhileFrames
    <3>8. exitstatus' = exitstatus
      BY <3>1, <3>4, <3>5, <3>7 DEF LoopSkips, LoopStatus, Loops
    <3> QED
      BY <1>4, <3>3, <3>6, <3>8 DEF Returning
  <2>6. CASE BackFunction
    <3>1. act = "back" /\ Pops /\ Top.fn = "evalfun" /\ UNCHANGED <<exitstatus, due>> /\ act' = "out"
          /\ evalskip' = evalskip \ {"func"}
      BY <2>6 DEF BackFunction, FunctionSkip, IsTop, Pops
    <3>2. Returning /\ "eval" \in evalskip
      BY <1>1, <1>2, <3>1 DEF Quiet, Returning
    <3> QED
      BY <1>4, <3>1, <3>2 DEF Returning
  <2> QED
    BY <1>7, <2>1, <2>2, <2>3, <2>4, <2>5, <2>6 DEF Continue
<1>8. CASE ReadOrEnd
  <2>1. CASE Read
    BY <1>1, <1>2, <2>1 DEF Read, Quiet, Returning
  <2>2. CASE EvalstringEnds \/ DotEnds
    <3>1. Pops /\ Top.fn \in {"evalstring", "dotcmd"} /\ UNCHANGED <<exitstatus, due>>
          /\ act \in {"read", "back"} /\ act' = "out"
      BY <2>2 DEF EvalstringEnds, DotEnds, InputEnds, IsTop, Pops
    <3>2. Returning
      BY <1>1, <1>2, <3>1 DEF Quiet
    <3>3. UnderE(stack') /\ NoTests(stack')
      BY <1>0, <3>1, <3>2, StrictPop DEF Returning, Pops
    <3>4. Top' = stack[2] /\ stack[2].check
      <4>1. stack[1].fn \in {"evalstring", "dotcmd"} /\ 1 \in DOMAIN stack
        BY <1>3, <3>1 DEF Pops
      <4>2. stack[1 + 1].check /\ 1 < Len(stack)
        BY <1>0, <3>2, <4>1 DEF Returning, UnderE, WellCalled, OnTree
      <4>3. /\ Tail(stack) \in Seq(Frames) /\ Len(Tail(stack)) = Len(stack) - 1
            /\ \A i \in 1..Len(Tail(stack)) : Tail(stack)[i] = stack[i + 1]
        BY <1>0, <3>1, PopIs DEF Pops
      <4>4. Tail(stack)[1] = stack[2] /\ Tail(stack) # <<>>
        <5> DEFINE t == Tail(stack)
        <5>1. t \in Seq(Frames) /\ Len(t) > 0 /\ t[1] = stack[2]
          BY <1>0, <4>2, <4>3
        <5> HIDE DEF t
        <5>2. t # <<>>
          BY <5>1
        <5> QED
          BY <5>1, <5>2 DEF t
      <4>5. Head(Tail(stack)) = Tail(stack)[1]
        BY <4>3, <4>4, PopIs
      <4> QED
        BY <3>1, <4>2, <4>4, <4>5 DEF Pops, Top
    <3> QED
      BY <3>1, <3>2, <3>3, <3>4 DEF Returning
  <2>3. CASE TrapEnds
    <3>1. due = "yes" /\ "eval" \in Skip
      BY <2>3 DEF TrapEnds
    <3> QED
      BY <2>3, <3>1 DEF TrapEnds
  <2>4. CASE ScriptEnds
    <3> DEFINE g == [fn |-> "exitshell", status |-> exitstatus]
    <3>1. stack' = <<g>>
      BY <2>4 DEF ScriptEnds, ExitShell
    <3>2. g.fn = "exitshell"
      OBVIOUS
    <3> HIDE DEF g
    <3>3. HasIn(<<g>>, "exitshell")
      BY <3>2 DEF HasIn
    <3> QED
      BY <3>1, <3>3 DEF Has
  <2>5. CASE ExitTrapEnds
    BY <2>5 DEF ExitTrapEnds
  <2> QED
    BY <1>8, <2>1, <2>2, <2>3, <2>4, <2>5 DEF ReadOrEnd
<1>9. CASE Raised
  <2>1. CASE Unwind \/ UnwindFunction \/ UnwindBuiltin \/ UnwindExitTrap
    BY <2>1, RaisedPasses DEF Unwind, UnwindFunction, UnwindExitTrap
  <2>2. CASE UnwindMain
    <3> DEFINE g == [fn |-> "exitshell", status |-> exitstatus']
    <3>1. stack' = <<g>>
      BY <2>2 DEF UnwindMain, ExitShell
    <3>2. g.fn = "exitshell"
      OBVIOUS
    <3> HIDE DEF g
    <3>3. HasIn(<<g>>, "exitshell")
      BY <3>2 DEF HasIn
    <3> QED
      BY <3>1, <3>3 DEF Has
  <2> QED
    BY <1>9, <2>1, <2>2 DEF Raised
<1>10. CASE Signal
  <2>1. UNCHANGED <<stack, act, evalskip, exitstatus, due>>
    BY <1>10 DEF Signal, evalVars, skipVars
  <2> QED
    BY <1>1, <1>2, <2>1 DEF Quiet, Returning, Top
<1>11. CASE Ended
  BY <1>11 DEF Ended, vars, evalVars
<1> QED
  BY <1>5, <1>6, <1>7, <1>8, <1>9, <1>10, <1>11 DEF Next

(* After a command has failed under set -e where its status is not tested  *)
(* (evaltree, ash.c:7841-7846), and where no string or dot file around it  *)
(* was started outside of set -e, nothing is evaluated any more but the    *)
(* action of a trap: the status is kept and evalskip is not cleared on any *)
(* way back to the end of the shell.                                       *)
THEOREM ErrexitIsFinal ==
    ASSUME NoPrefix
    PROVE  Spec => []ErrexitStops
<1> DEFINE Inv == BaseInv /\ SpecialInv /\ StrictInv /\ ErrexitInv
<1>1. Init => Inv
  <2> SUFFICES ASSUME Init
               PROVE  StrictInv /\ ErrexitInv
    BY InitBase, InitCounts
  <2> QED
    BY DEF Init, StrictInv, StrictIn, ErrexitInv
<1>2. Inv /\ [Next]_vars => Inv'
  BY BaseKept, SpecialKept, StrictKept, ErrexitKept
<1>3. Inv => ErrexitStops
  <2> SUFFICES ASSUME Inv
               PROVE  ErrexitStops
    OBVIOUS
  <2>1. \A fn : Within(fn) <=> Has(fn)
    BY WithinIsHas DEF BaseInv
  <2> QED
    BY <2>1 DEF ErrexitInv, Returning, ErrexitStops
<1> QED
  BY <1>1, <1>2, <1>3, PTL DEF Spec

-----------------------------------------------------------------------------
(***************************************************************************)
(* The redirections of the frames on the C stack.                          *)
(***************************************************************************)
RunsInput == {"evalfun", "evalstring", "dotcmd"}
AtRest == {"out", "leave", "dotrap"}

\* The redirections of the frame are in force.  above is the routine it has
\* called, or what happens next when it is on top.
InForce(f, above) ==
    \/ f.fn \in RunsInput
    \/ f.fn = "evaltree" /\ f.next = "group" /\ above \notin AtRest

\* A subshell that is evaluated by the shell itself is the last thing it does.
EvaluatedInPlace(f) == f.fn = "evaltree" /\ f.next = "never" /\ f.exit

\* What is below frame f when its own level is hi.
OneLevel(fds, f, above, hi, lo) ==
    /\ InForce(f, above) => Remembers(fds, f.before, hi, lo)
    /\ ~InForce(f, above) => \/ lo = hi
                             \/ EvaluatedInPlace(f) /\ lo.redirlist = hi.redirlist
    /\ above \in RunsInput => f.fn = "evaltree" /\ f.next = "simple"

Above(s, a, k) == IF k = Len(s) THEN a ELSE Nth(s, k + 1).fn

StillHeld(rest, tabs) == \A h \in HighFds : Holds(rest, h) => Holds(tabs, h)

\* T[k] is the level the k-th frame from below runs its commands in.
Stacked(s, a, q, T) ==
    /\ T \in [0..Len(s) -> Levels]
    /\ T[Len(s)] = Level(q)
    /\ \A k \in 0..Len(s) : Len(T[k].redirlist) <= k
    /\ \A j, k \in 0..Len(s) : j <= k => StillHeld(T[j].redirlist, T[k].redirlist)
    /\ \A k \in 1..Len(s) : OneLevel(q.fds, Nth(s, k), Above(s, a, k), T[k], T[k - 1])

\* Neither the use nor the place of a frame changes.
SameUse(f, a, b) ==
    /\ InForce(f, a) <=> InForce(f, b)
    /\ b \in RunsInput => f.fn = "evaltree" /\ f.next = "simple"

LEMMA OneLevelStays ==
    ASSUME NEW fds, NEW new, NEW f, NEW a, NEW b, NEW hi \in Levels, NEW lo,
           OneLevel(fds, f, a, hi, lo), SameUse(f, a, b),
           \A h \in HighFds : Holds(hi.redirlist, h) => new[h] = fds[h]
    PROVE  OneLevel(new, f, b, hi, lo)
BY RemembersStays DEF OneLevel, SameUse

LEMMA SameStacked ==
    ASSUME NEW s \in Seq(Frames), NEW a, NEW b, NEW q \in Ios, NEW r, NEW T,
           Stacked(s, a, q, T), TablesKept(q, r),
           s # <<>> => SameUse(Head(s), a, b)
    PROVE  Stacked(s, b, r, T)
<1>1. Len(s) \in Nat /\ (s # <<>> => Nth(s, Len(s)) = Head(s))
  BY NthTail
<1>2. T \in [0..Len(s) -> Levels] /\ Level(r) = Level(q)
  BY DEF Stacked, TablesKept, Level
<1>3. ASSUME NEW k \in 1..Len(s)
      PROVE  OneLevel(r.fds, Nth(s, k), Above(s, b, k), T[k], T[k - 1])
  <2>1. /\ OneLevel(q.fds, Nth(s, k), Above(s, a, k), T[k], T[k - 1])
        /\ \A h \in HighFds : Holds(T[k].redirlist, h) => Holds(q.redirlist, h)
        /\ k \in 0..Len(s) /\ k - 1 \in 0..Len(s)
    <3>1. k \in 0..Len(s) /\ k - 1 \in 0..Len(s) /\ Len(s) \in 0..Len(s) /\ k <= Len(s)
      BY <1>1
    <3>2. StillHeld(T[k].redirlist, T[Len(s)].redirlist) /\ T[Len(s)].redirlist = q.redirlist
      <4>1. T[Len(s)] = Level(q)
        BY DEF Stacked
      <4>2. T[Len(s)].redirlist = q.redirlist
        BY <4>1 DEF Level
      <4>3. StillHeld(T[k].redirlist, T[Len(s)].redirlist)
        BY <3>1 DEF Stacked
      <4> QED
        BY <4>2, <4>3
    <3>3. \A h \in HighFds : Holds(T[k].redirlist, h) => Holds(q.redirlist, h)
      BY <3>2 DEF StillHeld
    <3> QED
      BY <3>1, <3>3 DEF Stacked
  <2>2. \A h \in HighFds : Holds(T[k].redirlist, h) => r.fds[h] = q.fds[h]
    BY <2>1 DEF TablesKept
  <2>3. SameUse(Nth(s, k), Above(s, a, k), Above(s, b, k))
    <3>1. CASE k = Len(s)
      <4>1. s # <<>>
        BY <3>1
      <4> QED
        BY <1>1, <3>1, <4>1 DEF Above
    <3>2. CASE k # Len(s)
      BY <2>1, <3>2 DEF Above, OneLevel, SameUse
    <3> QED
      BY <3>1, <3>2
  <2>4. T[k] \in Levels
    BY <1>2, <2>1
  <2> QED
    BY <2>1, <2>2, <2>3, <2>4, OneLevelStays
<1> QED
  BY <1>2, <1>3 DEF Stacked, TablesKept

\* A frame is pushed, with a level of its own or not.
Entered(n, q, r) ==
    /\ r \in Ios /\ Level(r) \in Levels /\ Len(r.redirlist) <= n + 1
    /\ \A h \in HighFds : Holds(q.redirlist, h) => Holds(r.redirlist, h) /\ r.fds[h] = q.fds[h]

LEMMA PushStacked ==
    ASSUME NEW s \in Seq(Frames), NEW f \in Frames, NEW a, NEW b, NEW q \in Ios, NEW r, NEW T,
           Stacked(s, a, q, T), Entered(Len(s), q, r),
           s # <<>> => SameUse(Head(s), a, f.fn),
           OneLevel(r.fds, f, b, Level(r), Level(q))
    PROVE  \E U : Stacked(<<f>> \o s, b, r, U)
<1> DEFINE n == Len(s)
           t == <<f>> \o s
           U == [k \in 0..(n + 1) |-> IF k = n + 1 THEN Level(r) ELSE T[k]]
<1>1. /\ n \in Nat /\ Len(t) = n + 1 /\ Nth(t, n + 1) = f
      /\ \A k \in 1..n : Nth(t, k) = Nth(s, k)
      /\ s # <<>> => Nth(s, n) = Head(s)
  BY NthPush, NthTail
<1>2. /\ T \in [0..n -> Levels] /\ T[n] = Level(q) /\ Level(r) \in Levels
      /\ \A k \in 0..n : Len(T[k].redirlist) <= k
      /\ \A j, k \in 0..n : j <= k => StillHeld(T[j].redirlist, T[k].redirlist)
      /\ \A k \in 1..n : OneLevel(q.fds, Nth(s, k), Above(s, a, k), T[k], T[k - 1])
      /\ r.redirlist = Level(r).redirlist /\ q.redirlist = Level(q).redirlist
  BY DEF Stacked, Entered, Level
<1> HIDE DEF t
<1>3. /\ U \in [0..(n + 1) -> Levels] /\ U[n + 1] = Level(r)
      /\ \A k \in 0..n : U[k] = T[k]
  BY <1>1, <1>2
<1> HIDE DEF n, U
<1>4. \A k \in 0..n : StillHeld(T[k].redirlist, q.redirlist)
  <2>1. \A k \in 0..n : k <= n /\ n \in 0..n
    BY <1>1
  <2> QED
    BY <1>2, <2>1
<1>7. ASSUME NEW k \in 0..(n + 1)
      PROVE  /\ Len(U[k].redirlist) <= k
             /\ \A j \in 0..(n + 1) : j <= k => StillHeld(U[j].redirlist, U[k].redirlist)
  <2>1. CASE k = n + 1
    <3>1. Len(U[k].redirlist) <= k /\ U[k].redirlist = r.redirlist
      BY <1>2, <1>3, <2>1 DEF Entered, n
    <3>2. ASSUME NEW j \in 0..(n + 1)
          PROVE  StillHeld(U[j].redirlist, r.redirlist)
      <4>1. CASE j = n + 1
        BY <1>2, <1>3, <4>1 DEF StillHeld
      <4>2. CASE j # n + 1
        <5>1. j \in 0..n
          BY <1>1, <4>2
        <5>2. StillHeld(T[j].redirlist, q.redirlist) /\ U[j] = T[j]
          BY <1>3, <1>4, <5>1
        <5> QED
          BY <5>2 DEF StillHeld, Entered
      <4> QED
        BY <4>1, <4>2
    <3> QED
      BY <3>1, <3>2
  <2>2. CASE k # n + 1
    <3>1. k \in 0..n /\ \A j \in 0..(n + 1) : j <= k => j \in 0..n
      BY <1>1, <2>2
    <3> QED
      BY <1>2, <1>3, <3>1
  <2> QED
    BY <2>1, <2>2
<1>5. ASSUME NEW k \in 1..(n + 1)
      PROVE  OneLevel(r.fds, Nth(t, k), Above(t, b, k), U[k], U[k - 1])
  <2>1. CASE k = n + 1
    <3>1. Above(t, b, k) = b /\ Nth(t, k) = f
      BY <1>1, <2>1 DEF Above
    <3>2. U[k] = Level(r) /\ U[k - 1] = Level(q)
      <4>1. k - 1 = n /\ n \in 0..n
        BY <1>1, <2>1
      <4> QED
        BY <1>2, <1>3, <2>1, <4>1
    <3> QED
      BY <3>1, <3>2
  <2>2. CASE k # n + 1
    <3>1. k \in 1..n /\ k \in 0..n /\ k - 1 \in 0..n /\ Nth(t, k) = Nth(s, k)
      BY <1>1, <2>2
    <3>2. SameUse(Nth(s, k), Above(s, a, k), Above(t, b, k))
      <4>1. CASE k = n
        <5>1. s # <<>> /\ Nth(s, k) = Head(s)
          BY <1>1, <3>1, <4>1 DEF n
        <5>2. Above(s, a, k) = a /\ Above(t, b, k) = f.fn
          BY <1>1, <2>2, <4>1 DEF Above, n
        <5> QED
          BY <5>1, <5>2
      <4>2. CASE k # n
        <5>1. k + 1 \in 1..n
          BY <1>1, <3>1, <4>2
        <5>2. Nth(t, k + 1) = Nth(s, k + 1)
          BY <1>1, <5>1
        <5>3. Above(s, a, k) = Nth(s, k + 1).fn /\ Above(t, b, k) = Nth(s, k + 1).fn
          BY <1>1, <2>2, <4>2, <5>2 DEF Above, n
        <5>4. OneLevel(q.fds, Nth(s, k), Above(s, a, k), T[k], T[k - 1])
          BY <1>2, <3>1
        <5> QED
          BY <5>3, <5>4 DEF OneLevel, SameUse
      <4> QED
        BY <4>1, <4>2
    <3>3. OneLevel(q.fds, Nth(s, k), Above(s, a, k), T[k], T[k - 1]) /\ T[k] \in Levels
      BY <1>2, <3>1
    <3>4. \A h \in HighFds : Holds(T[k].redirlist, h) => r.fds[h] = q.fds[h]
      BY <1>4, <3>1 DEF StillHeld, Entered
    <3>5. OneLevel(r.fds, Nth(s, k), Above(t, b, k), T[k], T[k - 1])
      BY <3>2, <3>3, <3>4, OneLevelStays
    <3>6. U[k] = T[k] /\ U[k - 1] = T[k - 1]
      BY <1>3, <3>1
    <3> QED
      BY <3>1, <3>5, <3>6
  <2> QED
    BY <2>1, <2>2
<1>6. Stacked(t, b, r, U)
  BY <1>1, <1>3, <1>5, <1>7 DEF Stacked
<1> QED
  BY <1>6 DEF t

\* A frame is popped, and its level left.
LEMMA PopStacked ==
    ASSUME NEW s \in Seq(Frames), s # <<>>, NEW a, NEW b, NEW q \in Ios, NEW r \in Ios, NEW T,
           Stacked(s, a, q, T),
           Level(r) = T[Len(s) - 1],
           \A h \in HighFds : Holds(r.redirlist, h) => r.fds[h] = q.fds[h],
           b \notin RunsInput,
           Tail(s) # <<>> => (InForce(Head(Tail(s)), Head(s).fn) <=> InForce(Head(Tail(s)), b))
    PROVE  \E U : Stacked(Tail(s), b, r, U)
<1> DEFINE n == Len(s) - 1
           t == Tail(s)
           U == [k \in 0..n |-> T[k]]
<1>1. /\ n \in Nat /\ Len(s) = n + 1 /\ Len(t) = n /\ t \in Seq(Frames)
      /\ Nth(s, n + 1) = Head(s)
      /\ \A k \in 1..n : Nth(t, k) = Nth(s, k)
  BY NthTail
<1>2. t # <<>> => Nth(t, n) = Head(t)
  BY <1>1, NthTail
<1>3. /\ T \in [0..(n + 1) -> Levels] /\ T[n] = Level(r)
      /\ \A k \in 0..(n + 1) : Len(T[k].redirlist) <= k
      /\ \A j, k \in 0..(n + 1) : j <= k => StillHeld(T[j].redirlist, T[k].redirlist)
      /\ \A k \in 1..(n + 1) : OneLevel(q.fds, Nth(s, k), Above(s, a, k), T[k], T[k - 1])
      /\ r.redirlist = Level(r).redirlist
  BY <1>1 DEF Stacked, Level
<1> HIDE DEF n
<1>4. U \in [0..n -> Levels] /\ \A k \in 0..n : U[k] = T[k] /\ U[k] \in Levels
  <2>1. \A k \in 0..n : k \in 0..(n + 1)
    BY <1>1
  <2>2. \A k \in 0..n : T[k] \in Levels
    BY <1>3, <2>1
  <2> QED
    BY <2>2
<1> HIDE DEF t, U
<1>5. ASSUME NEW k \in 1..n
      PROVE  OneLevel(r.fds, Nth(t, k), Above(t, b, k), U[k], U[k - 1])
  <2>1. /\ k \in 1..(n + 1) /\ k \in 0..n /\ k - 1 \in 0..n /\ k <= n /\ n \in 0..(n + 1)
        /\ k \in 0..(n + 1) /\ k # n + 1 /\ Nth(t, k) = Nth(s, k)
    BY <1>1
  <2>2. Above(s, a, k) = Nth(s, k + 1).fn
    BY <1>1, <2>1 DEF Above
  <2>3. OneLevel(q.fds, Nth(s, k), Above(s, a, k), T[k], T[k - 1]) /\ T[k] \in Levels
    BY <1>3, <2>1
  <2>4. SameUse(Nth(s, k), Above(s, a, k), Above(t, b, k))
    <3>1. CASE k = n
      <4>1. t # <<>> /\ Nth(s, k) = Head(t) /\ Nth(s, k + 1) = Head(s)
        BY <1>1, <1>2, <2>1, <3>1
      <4>2. Above(t, b, k) = b
        BY <1>1, <3>1 DEF Above
      <4> QED
        BY <2>2, <4>1, <4>2 DEF SameUse, t
    <3>2. CASE k # n
      <4>1. k + 1 \in 1..n
        BY <1>1, <2>1, <3>2
      <4>2. Nth(t, k + 1) = Nth(s, k + 1)
        BY <1>1, <4>1
      <4>3. Above(t, b, k) = Nth(s, k + 1).fn
        BY <1>1, <3>2, <4>2 DEF Above
      <4> QED
        BY <2>2, <2>3, <4>3 DEF OneLevel, SameUse
    <3> QED
      BY <3>1, <3>2
  <2>5. \A h \in HighFds : Holds(T[k].redirlist, h) => r.fds[h] = q.fds[h]
    <3>1. StillHeld(T[k].redirlist, T[n].redirlist) /\ T[n].redirlist = r.redirlist
      BY <1>3, <2>1
    <3> QED
      BY <3>1 DEF StillHeld
  <2>6. OneLevel(r.fds, Nth(s, k), Above(t, b, k), T[k], T[k - 1])
    BY <2>3, <2>4, <2>5, OneLevelStays
  <2> QED
    BY <1>4, <2>1, <2>6
<1>6. \A j, k \in 0..n : j <= k => StillHeld(U[j].redirlist, U[k].redirlist)
  <2>1. \A k \in 0..n : k \in 0..(n + 1)
    BY <1>1
  <2> QED
    BY <1>3, <1>4, <2>1
<1>7. \A k \in 0..n : Len(U[k].redirlist) <= k
  <2>1. \A k \in 0..n : k \in 0..(n + 1)
    BY <1>1
  <2> QED
    BY <1>3, <1>4, <2>1
<1>8. U[n] = Level(r)
  BY <1>1, <1>3, <1>4
<1>9. Stacked(t, b, r, U)
  BY <1>1, <1>4, <1>5, <1>6, <1>7, <1>8 DEF Stacked
<1> QED
  BY <1>9 DEF t

\* The redirections of the frames can be undone one after the other.
Undoable(s, a, q) == \E T : Stacked(s, a, q, T)

LEMMA UndoableIs ==
    ASSUME NEW s \in Seq(Frames), NEW a, NEW q, Undoable(s, a, q)
    PROVE  /\ Level(q) \in Levels /\ q.nullredirs \in Nat
           /\ Len(q.redirlist) <= Len(s) /\ Len(s) \in Nat
<1>1. PICK T : Stacked(s, a, q, T)
  BY DEF Undoable
<1>2. Len(s) \in Nat /\ Len(s) \in 0..Len(s)
  OBVIOUS
<1>3. T[Len(s)] \in Levels /\ T[Len(s)] = Level(q) /\ Len(T[Len(s)].redirlist) <= Len(s)
  BY <1>1, <1>2 DEF Stacked
<1> QED
  BY <1>2, <1>3 DEF Level, Levels

LEMMA EmptyUndoable ==
    ASSUME NEW a, NEW q \in Ios, q.redirlist = <<>>, q.nullredirs \in Nat
    PROVE  Undoable(<<>>, a, q)
<1> DEFINE T == [k \in 0..0 |-> Level(q)]
<1>1. Level(q) \in Levels /\ Level(q).redirlist = <<>>
  BY DEF Level, Levels, Ios
<1>2. T \in [0..0 -> Levels] /\ T[0] = Level(q) /\ \A k \in 0..0 : k = 0 /\ T[k] = Level(q)
  BY <1>1
<1> HIDE DEF T
<1>3. Len(<<>>) = 0 /\ 1..0 = {}
  OBVIOUS
<1>4. \A k \in 0..0 : Len(T[k].redirlist) <= k
  BY <1>1, <1>2
<1>5. \A j, k \in 0..0 : j <= k => StillHeld(T[j].redirlist, T[k].redirlist)
  BY <1>2 DEF StillHeld
<1>6. Stacked(<<>>, a, q, T)
  BY <1>2, <1>3, <1>4, <1>5 DEF Stacked
<1> QED
  BY <1>6 DEF Undoable

LEMMA SameUndoable ==
    ASSUME NEW s \in Seq(Frames), NEW a, NEW b, NEW q \in Ios, NEW r,
           Undoable(s, a, q), TablesKept(q, r),
           s # <<>> => SameUse(Head(s), a, b)
    PROVE  Undoable(s, b, r)
BY SameStacked DEF Undoable

\* A frame without redirections is pushed.
LEMMA PushUndoable ==
    ASSUME NEW s \in Seq(Frames), NEW f \in Frames, NEW a, NEW b, NEW q \in Ios, NEW r,
           Undoable(s, a, q), TablesKept(q, r),
           f.fn \notin RunsInput, b \notin RunsInput, ~InForce(f, b),
           a \in AtRest <=> f.fn \in AtRest
    PROVE  Undoable(<<f>> \o s, b, r)
<1>1. PICK T : Stacked(s, a, q, T)
  BY DEF Undoable
<1>2. Level(r) = Level(q) /\ Level(q) \in Levels /\ Len(q.redirlist) <= Len(s) /\ Len(s) \in Nat
  BY UndoableIs DEF TablesKept, Level
<1>3. Entered(Len(s), q, r)
  <2>1. q.redirlist \in Seq(Tabs) /\ Len(q.redirlist) \in Nat
    BY DEF Ios
  <2> QED
    BY <1>2, <2>1 DEF Entered, TablesKept
<1>4. s # <<>> => SameUse(Head(s), a, f.fn)
  BY DEF SameUse, InForce
<1>5. OneLevel(r.fds, f, b, Level(r), Level(q))
  BY <1>2 DEF OneLevel
<1>6. \E U : Stacked(<<f>> \o s, b, r, U)
  BY <1>1, <1>3, <1>4, <1>5, PushStacked
<1> QED
  BY <1>6 DEF Undoable

\* A subshell is evaluated by the shell itself.
LEMMA InPlaceUndoable ==
    ASSUME NEW s \in Seq(Frames), NEW f \in Frames, NEW a, NEW b, NEW q \in Ios, NEW r \in Ios,
           Undoable(s, a, q), EvaluatedInPlace(f),
           r.redirlist = q.redirlist, r.nullredirs = q.nullredirs + 1, HighKept(q.fds, r.fds),
           a \notin AtRest, b \notin RunsInput
    PROVE  Undoable(<<f>> \o s, b, r)
<1>1. PICK T : Stacked(s, a, q, T)
  BY DEF Undoable
<1>2. q.nullredirs \in Nat /\ Len(q.redirlist) <= Len(s) /\ Len(s) \in Nat
  BY UndoableIs
<1>3. q.redirlist \in Seq(Tabs) /\ Len(q.redirlist) \in Nat
  BY DEF Ios
<1>4. Level(r) \in Levels
  BY <1>2, <1>3 DEF Level, Levels
<1>5. Entered(Len(s), q, r)
  BY <1>2, <1>3, <1>4 DEF Entered, HighKept
<1>6. f.fn = "evaltree" /\ ~InForce(f, b)
  BY DEF EvaluatedInPlace, InForce, RunsInput
<1>7. s # <<>> => SameUse(Head(s), a, f.fn)
  BY <1>6 DEF SameUse, InForce, AtRest, RunsInput
<1>8. OneLevel(r.fds, f, b, Level(r), Level(q))
  BY <1>6 DEF OneLevel, Level
<1>9. \E U : Stacked(<<f>> \o s, b, r, U)
  BY <1>1, <1>5, <1>7, <1>8, PushStacked
<1> QED
  BY <1>9 DEF Undoable

\* A frame with redirections is pushed.
LEMMA EnterUndoable ==
    ASSUME NEW s \in Seq(Frames), NEW f \in Frames, NEW a, NEW b, NEW q \in Ios, NEW r,
           Undoable(s, a, q), NewLevel(q, r, f.before),
           InForce(f, b), b \notin RunsInput, a \notin AtRest,
           f.fn \in RunsInput => s # <<>> /\ Head(s).fn = "evaltree" /\ Head(s).next = "simple"
    PROVE  Undoable(<<f>> \o s, b, r)
<1>1. PICK T : Stacked(s, a, q, T)
  BY DEF Undoable
<1>2. Len(q.redirlist) <= Len(s) /\ Len(s) \in Nat
  BY UndoableIs
<1>3. Entered(Len(s), q, r)
  <2>1. q.redirlist \in Seq(Tabs) /\ Len(q.redirlist) \in Nat
    BY DEF Ios
  <2>2. r.redirlist \in Seq(Tabs) /\ Len(r.redirlist) \in Nat
    BY DEF Ios, NewLevel
  <2> QED
    BY <1>2, <2>1, <2>2 DEF Entered, NewLevel
<1>4. f.fn \notin AtRest
  BY DEF InForce, RunsInput, AtRest
<1>5. s # <<>> => SameUse(Head(s), a, f.fn)
  BY <1>4 DEF SameUse, InForce
<1>6. OneLevel(r.fds, f, b, Level(r), Level(q))
  BY DEF OneLevel, NewLevel
<1>7. \E U : Stacked(<<f>> \o s, b, r, U)
  BY <1>1, <1>3, <1>5, <1>6, PushStacked
<1> QED
  BY <1>7 DEF Undoable

\* A frame without redirections is popped.
LEMMA PopUndoable ==
    ASSUME NEW s \in Seq(Frames), s # <<>>, NEW a, NEW b, NEW q \in Ios,
           Undoable(s, a, q),
           ~InForce(Head(s), a), ~EvaluatedInPlace(Head(s)),
           b \notin RunsInput, Head(s).fn \in AtRest <=> b \in AtRest
    PROVE  Undoable(Tail(s), b, q)
<1>1. PICK T : Stacked(s, a, q, T)
  BY DEF Undoable
<1>2. Len(s) \in Nat \ {0} /\ Nth(s, Len(s)) = Head(s) /\ Len(s) \in 1..Len(s)
  BY NthTail
<1>3. T[Len(s)] = Level(q) /\ OneLevel(q.fds, Head(s), a, T[Len(s)], T[Len(s) - 1])
  BY <1>1, <1>2 DEF Stacked, Above
<1>4. Level(q) = T[Len(s) - 1]
  BY <1>3 DEF OneLevel
<1>5. Tail(s) # <<>> => (InForce(Head(Tail(s)), Head(s).fn) <=> InForce(Head(Tail(s)), b))
  BY DEF InForce
<1>6. \E U : Stacked(Tail(s), b, q, U)
  BY <1>1, <1>4, <1>5, PopStacked
<1> QED
  BY <1>6 DEF Undoable

\* What popredir does for the frame on top.
LEMMA TopRestores ==
    ASSUME NEW s \in Seq(Frames), s # <<>>, NEW a, NEW q \in Ios, HighInv(q.fds, q.redirlist),
           NEW T, Stacked(s, a, q, T), InForce(Head(s), a)
    PROVE  OldLevel(q, PopRedir(q, FALSE), T[Len(s) - 1], Head(s).before)
<1>1. Len(s) \in Nat \ {0} /\ Nth(s, Len(s)) = Head(s) /\ Len(s) \in 1..Len(s)
  BY NthTail
<1>2. T[Len(s)] = Level(q) /\ OneLevel(q.fds, Head(s), a, T[Len(s)], T[Len(s) - 1])
  BY <1>1 DEF Stacked, Above
<1>3. T[Len(s) - 1] \in Levels
  <2>1. Len(s) - 1 \in 0..Len(s)
    BY <1>1
  <2> QED
    BY <2>1 DEF Stacked
<1>4. Remembers(q.fds, Head(s).before, Level(q), T[Len(s) - 1])
  BY <1>2 DEF OneLevel
<1> QED
  BY <1>3, <1>4, PopRestores

\* A function, a string or a file is left.
LEMMA LeaveUndoable ==
    ASSUME NEW s \in Seq(Frames), s # <<>>, NEW a, NEW b, NEW q \in Ios,
           HighInv(q.fds, q.redirlist), Undoable(s, a, q),
           Head(s).fn \in RunsInput, b \notin RunsInput
    PROVE  /\ Undoable(Tail(s), b, PopRedir(q, FALSE))
           /\ \A d \in UserFds : Head(s).before[d] # Closed =>
                  PopRedir(q, FALSE).fds[d] = Head(s).before[d]
<1>1. PICK T : Stacked(s, a, q, T)
  BY DEF Undoable
<1>2. InForce(Head(s), a)
  BY DEF InForce
<1>3. OldLevel(q, PopRedir(q, FALSE), T[Len(s) - 1], Head(s).before)
  BY <1>1, <1>2, TopRestores
<1>4. Tail(s) # <<>> => Head(Tail(s)).fn = "evaltree" /\ Head(Tail(s)).next = "simple"
  <2> DEFINE n == Len(s) - 1
             t == Tail(s)
  <2>1. /\ n \in Nat /\ Len(s) = n + 1 /\ Len(t) = n /\ t \in Seq(Frames)
        /\ Nth(s, n + 1) = Head(s)
        /\ \A k \in 1..n : Nth(t, k) = Nth(s, k)
    BY NthTail
  <2> HIDE DEF t, n
  <2>2. ASSUME t # <<>>
        PROVE  n \in 1..n /\ Nth(t, n) = Head(t)
    <3>1. Len(t) \in Nat \ {0} /\ Nth(t, Len(t)) = Head(t)
      BY <2>1, <2>2, NthTail
    <3> QED
      BY <2>1, <3>1
  <2>3. ASSUME t # <<>>
        PROVE  Head(t).fn = "evaltree" /\ Head(t).next = "simple"
    <3>1. n \in 1..Len(s) /\ n # Len(s) /\ Nth(s, n) = Head(t)
      BY <2>1, <2>2, <2>3
    <3>2. Above(s, a, n) = Head(s).fn
      BY <2>1, <3>1 DEF Above
    <3>3. OneLevel(q.fds, Nth(s, n), Above(s, a, n), T[n], T[n - 1])
      BY <1>1, <3>1 DEF Stacked
    <3> QED
      BY <3>1, <3>2, <3>3 DEF OneLevel
  <2> QED
    BY <2>3 DEF t
<1>5. Tail(s) # <<>> => (InForce(Head(Tail(s)), Head(s).fn) <=> InForce(Head(Tail(s)), b))
  BY <1>4 DEF InForce, RunsInput
<1>6. \E U : Stacked(Tail(s), b, PopRedir(q, FALSE), U)
  BY <1>1, <1>3, <1>5, PopStacked DEF OldLevel
<1> QED
  BY <1>3, <1>6 DEF Undoable, OldLevel

\* The commands of a group are over.
LEMMA GroupUndoable ==
    ASSUME NEW s \in Seq(Frames), s # <<>>, NEW a, NEW q \in Ios,
           HighInv(q.fds, q.redirlist), Undoable(s, a, q),
           Head(s).fn = "evaltree", Head(s).next = "group", a \notin AtRest
    PROVE  /\ Undoable(s, "out", PopRedir(q, FALSE))
           /\ \A d \in UserFds : Head(s).before[d] # Closed =>
                  PopRedir(q, FALSE).fds[d] = Head(s).before[d]
<1> DEFINE r == PopRedir(q, FALSE)
<1>1. PICK T : Stacked(s, a, q, T)
  BY DEF Undoable
<1>2. InForce(Head(s), a)
  BY DEF InForce
<1>3. OldLevel(q, r, T[Len(s) - 1], Head(s).before)
  BY <1>1, <1>2, TopRestores
<1> HIDE DEF r
<1>4. "evaltree" \notin RunsInput /\ "evaltree" \notin AtRest
  BY DEF RunsInput, AtRest
<1>5. \E U : Stacked(Tail(s), "evaltree", r, U)
  BY <1>1, <1>3, <1>4, PopStacked DEF OldLevel
<1>6. Head(s) \in Frames /\ Tail(s) \in Seq(Frames) /\ s = <<Head(s)>> \o Tail(s)
  BY PopIs
<1>7. Undoable(Tail(s), "evaltree", r)
  BY <1>5 DEF Undoable
<1>8. TablesKept(r, r) /\ r \in Ios
  BY <1>3 DEF OldLevel, TablesKept
<1>9. "out" \notin RunsInput /\ ~InForce(Head(s), "out")
  BY DEF InForce, RunsInput, AtRest
<1>10. Undoable(<<Head(s)>> \o Tail(s), "out", r)
  BY <1>4, <1>6, <1>7, <1>8, <1>9, PushUndoable
<1> QED
  BY <1>3, <1>6, <1>10 DEF OldLevel, r

\* A frame goes on as another one.
LEMMA ReplaceUndoable ==
    ASSUME NEW s \in Seq(Frames), s # <<>>, NEW a, NEW b, NEW q \in Ios, NEW h \in Frames,
           HighInv(q.fds, q.redirlist), Undoable(s, a, q),
           ~InForce(Head(s), a), ~EvaluatedInPlace(Head(s)),
           h.fn = Head(s).fn, h.fn \notin RunsInput, ~InForce(h, b), b \notin RunsInput
    PROVE  Undoable(<<h>> \o Tail(s), b, q)
<1>1. Undoable(Tail(s), h.fn, q)
  BY PopUndoable
<1>2. TablesKept(q, q) /\ Tail(s) \in Seq(Frames)
  BY PopIs DEF TablesKept
<1> QED
  BY <1>1, <1>2, PushUndoable

\* There is a high descriptor for each that nested commands may save, and one
\* more to open a file with.
EnoughDescriptors == MaxOpen > FirstSaved + (MaxStack - 1) * FirstSaved

\* While an exception is under way the levels are not undone: reset does it.
UndoInv ==
    /\ HighInv(io.fds, io.redirlist)
    /\ act \notin {"raise", "ended"} => Undoable(stack, act, io)

LEMMA HighIoKept ==
    ASSUME TypeOK, HighInv(io.fds, io.redirlist), [Next]_vars
    PROVE  HighInv(io'.fds, io'.redirlist)
<1> DEFINE High(q) == q \in Ios /\ HighInv(q.fds, q.redirlist)
<1>1. High(io)
  BY DEF TypeOK
<1>2. ASSUME NEW list \in Redirs
      PROVE  High(Redirect(io, list, TRUE)) /\ High(Redirect(io, list, FALSE))
  <2>1. list \in Seq(Redirection)
    BY RedirectionsAssumption
  <2>2. High(Redirect(io, list, TRUE))
    BY <1>1, <2>1, RedirectTypes, RedirectHigh
  <2> DEFINE r == Redirect(io, list, FALSE)
  <2>3. r \in Ios /\ r.redirlist = io.redirlist /\ HighKept(io.fds, r.fds)
    BY <1>1, <2>1, RedirectInPlace
  <2> HIDE DEF r
  <2>4. High(r)
    BY <1>1, <2>3 DEF HighInv, HighKept
  <2> QED
    BY <2>2, <2>4 DEF r
<1>3. ASSUME NEW q, High(q), NEW drop \in BOOLEAN
      PROVE  High(PopRedir(q, drop)) /\ High(ClearRedir(q))
  BY <1>3, PopRedirTypes, PopHigh, ClearRedirTypes, ClearHigh
<1>4. /\ \A list \in Redirs, drop \in BOOLEAN : High(PopRedir(Redirect(io, list, TRUE), drop))
      /\ High(PopRedir(io, FALSE)) /\ High(ClearRedir(io))
  BY <1>1, <1>2, <1>3
<1> HIDE DEF High
<1>5. High(io')
  <2>1. CASE UNCHANGED vars
    BY <1>1, <2>1 DEF vars
  <2>2. CASE Evaluate
    BY <1>1, <1>2, <1>4, <2>2
    DEF Evaluate, Compound, Trivial, Case, For, While, ForkParent, ForkChild, Group,
        SubshellInPlace, RedirectAndUndo
  <2>3. CASE EvaluateCommand
    BY <1>1, <1>2, <1>4, <2>3
    DEF EvaluateCommand, Plain, Fails, ExecBuiltin, CallFunction, RunInput, Break, ExecInPlace,
        ReturnBuiltin, ExitBuiltin, SetBuiltin, TrapBuiltin, RedirectAndUndo
  <2>4. CASE Continue
    BY <1>1, <1>4, <2>4
    DEF Continue, OutErrexit, OutTrap, Leave, BackTail, BackNot, BackGroup, BackBinary, BackIf,
        BackLoop, BackFor, LoopSkips, BackFunction
  <2>5. CASE ReadOrEnd
    BY <1>1, <1>4, <2>5
    DEF ReadOrEnd, Read, EvalstringEnds, DotEnds, TrapEnds, ScriptEnds, ExitTrapEnds
  <2>6. CASE Raised
    BY <1>1, <1>4, <2>6
    DEF Raised, Unwind, UnwindFunction, UnwindBuiltin, UnwindExitTrap, UnwindMain
  <2>7. CASE Signal \/ Ended
    BY <1>1, <2>7 DEF Signal, Ended, vars
  <2> QED
    BY <2>1, <2>2, <2>3, <2>4, <2>5, <2>6, <2>7 DEF Next
<1> QED
  BY <1>5 DEF High

\* Frames of evaltree that evaluation pushes.
LEMMA NodeFrames ==
    ASSUME eflag \in BOOLEAN
    PROVE  /\ \A next \in Nexts : /\ Node(next) \in Trees /\ Node(next).next = next
                                  /\ Node(next).exit = ("exit" \in flags)
           /\ Command \in Trees /\ Command.next = "simple"
<1>1. /\ \A next \in Nexts : Node(next) \in Trees
      /\ Command \in Trees
  BY NodeIsNew, CommandIsNew
<1>2. /\ \A next : Node(next).next = next /\ Node(next).exit = ("exit" \in flags)
      /\ Command.next = "simple"
  BY DEF Node, Command, Tree
<1> QED
  BY <1>1, <1>2

LEMMA PushesUndoable ==
    ASSUME TypeOK, HighInv(io.fds, io.redirlist), Undoable(stack, "eval", io)
    PROVE  /\ TablesKept(io, io)
           /\ \A f \in Trees, b \in {"eval", "out"} : \A r :
                 TablesKept(io, r) /\ (b = "eval" => f.next # "group")
                     => Undoable(<<f>> \o stack, b, r)
           /\ \A f \in Trees, g \in WhileFrames \cup ForFrames :
                 f.next # "group" => Undoable(<<g, f>> \o stack, "eval", io)
<1>1. stack \in Seq(Frames) /\ io \in Ios
  BY DEF TypeOK
<1>2. \A f \in Trees : f.fn = "evaltree" /\ f \in Frames
  BY DEF Trees, Frames
<1>3. /\ "eval" \notin RunsInput /\ "out" \notin RunsInput /\ "evaltree" \notin RunsInput
      /\ "eval" \notin AtRest /\ "out" \in AtRest /\ "evaltree" \notin AtRest
  BY DEF RunsInput, AtRest
<1>4. ASSUME NEW f \in Trees, NEW b \in {"eval", "out"}, NEW r, TablesKept(io, r),
             b = "eval" => f.next # "group"
      PROVE  Undoable(<<f>> \o stack, b, r)
  <2>1. ~InForce(f, b) /\ f.fn \notin RunsInput /\ b \notin RunsInput
        /\ ("eval" \in AtRest <=> f.fn \in AtRest)
    BY <1>2, <1>3, <1>4 DEF InForce
  <2>2. f \in Frames
    BY <1>2
  <2> QED
    BY <1>1, <1>4, <2>1, <2>2, PushUndoable
<1>5. TablesKept(io, io)
  BY <1>1 DEF TablesKept
<1>6. ASSUME NEW f \in Trees, f.next # "group", NEW g \in WhileFrames \cup ForFrames
      PROVE  Undoable(<<g, f>> \o stack, "eval", io)
  <2> DEFINE t == <<f>> \o stack
  <2>1. Undoable(t, "eval", io)
    BY <1>4, <1>5, <1>6
  <2>2. t \in Seq(Frames) /\ <<g, f>> \o stack = <<g>> \o t
    <3>1. f \in Frames /\ g \in Frames
      BY <1>2 DEF Frames
    <3> QED
      BY <1>1, <3>1, PushIs, PushTwo
  <2> HIDE DEF t
  <2>3. g \in Frames /\ g.fn \in {"evalloop", "evalfor"}
    BY DEF Frames, WhileFrames, ForFrames
  <2>4. g.fn \notin RunsInput /\ ~InForce(g, "eval") /\ ("eval" \in AtRest <=> g.fn \in AtRest)
    BY <2>3 DEF InForce, RunsInput, AtRest
  <2>5. Undoable(<<g>> \o t, "eval", io)
    BY <1>1, <1>3, <1>5, <2>1, <2>2, <2>3, <2>4, PushUndoable
  <2> QED
    BY <2>2, <2>5
<1> QED
  BY <1>4, <1>5, <1>6

LEMMA RedirectEnters ==
    ASSUME TypeOK, HighInv(io.fds, io.redirlist), NEW a, Undoable(stack, a, io),
           EnoughDescriptors, Room, NEW list \in Redirs, ~RedirectFails(io, list)
    PROVE  NewLevel(io, Redirect(io, list, TRUE), Before(list))
<1>1. /\ io \in Ios /\ stack \in Seq(Frames) /\ list \in Seq(Redirection)
      /\ io.redirlist \in Seq(Tabs)
  BY RedirectionsAssumption DEF TypeOK, Ios
<1>2. io.nullredirs \in Nat /\ Len(io.redirlist) <= Len(stack) /\ Len(stack) \in Nat
  BY <1>1, UndoableIs
<1>3. RoomFor(io.redirlist)
  <2> DEFINE depth == MaxStack - 1
  <2>1. MaxStack \in Nat /\ Len(stack) + 2 <= MaxStack /\ Len(io.redirlist) \in Nat
    BY <1>1, EvalAssumption DEF Room
  <2>2. depth \in Nat /\ Len(io.redirlist) < depth
    BY <1>2, <2>1
  <2>3. MaxOpen > FirstSaved + depth * FirstSaved
    BY DEF EnoughDescriptors
  <2> HIDE DEF depth
  <2> QED
    BY <1>1, <2>2, <2>3, EnoughRoom
<1>4. NewLevel(io, Redirect(io, list, TRUE), Needs(io.fds, list))
  BY <1>1, <1>2, <1>3, RedirectPushes
<1>5. Before(list) = Needs(io.fds, list)
  BY DEF Before, Needs
<1> QED
  BY <1>4, <1>5

\* Redirections of a command that is over leave the levels as they were.
LEMMA RedirectReturns ==
    ASSUME TypeOK, HighInv(io.fds, io.redirlist), NEW a, Undoable(stack, a, io),
           NEW list \in Redirs, NEW drop \in BOOLEAN
    PROVE  TablesKept(io, PopRedir(Redirect(io, list, TRUE), drop))
<1>1. io \in Ios /\ stack \in Seq(Frames) /\ list \in Seq(Redirection)
  BY RedirectionsAssumption DEF TypeOK
<1>2. io.nullredirs \in Nat
  BY <1>1, UndoableIs
<1> QED
  BY <1>1, <1>2, RedirectAndPop

LEMMA EvaluateUndo ==
    ASSUME TypeOK, UndoInv, EnoughDescriptors, Evaluate
    PROVE  Undoable(stack', act', io')
<1> USE DEF Kind
<1>1. /\ act = "eval" /\ stack \in Seq(Frames) /\ io \in Ios /\ HighInv(io.fds, io.redirlist)
      /\ eflag \in BOOLEAN
  BY EvaluateIs DEF TypeOK, UndoInv, ScalarsOK
<1>2. Undoable(stack, "eval", io)
  BY <1>1 DEF UndoInv
<1>3. /\ \A next \in Nexts : /\ Node(next) \in Trees /\ Node(next).next = next
                             /\ Node(next).exit = ("exit" \in flags)
      /\ Command \in Trees /\ Command.next = "simple"
  BY <1>1, NodeFrames
<1>4. /\ TablesKept(io, io)
      /\ \A f \in Trees, b \in {"eval", "out"} : \A r :
            TablesKept(io, r) /\ (b = "eval" => f.next # "group")
                => Undoable(<<f>> \o stack, b, r)
      /\ \A f \in Trees, g \in WhileFrames \cup ForFrames :
            f.next # "group" => Undoable(<<g, f>> \o stack, "eval", io)
  BY <1>1, <1>2, PushesUndoable
<1>5. ASSUME NEW k \in {"not", "and", "or", "semi", "if"}, Compound(k)
      PROVE  Undoable(stack', act', io')
  <2>1. stack' = <<Node(k)>> \o stack /\ act' = "eval" /\ io' = io
    BY <1>5 DEF Compound, Call
  <2>2. Node(k) \in Trees /\ Node(k).next # "group"
    BY <1>3 DEF Nexts
  <2> QED
    BY <1>4, <2>1, <2>2
<1>6. Node("tail") \in Trees /\ Node("tail").next # "group"
  BY <1>3 DEF Nexts
<1>7. CASE Trivial
  <2>1. stack' = <<Node("tail")>> \o stack /\ act' = "out" /\ io' = io
    BY <1>7 DEF Trivial, Done, Push
  <2> QED
    BY <1>4, <1>6, <2>1
<1>8. CASE Case
  <2>1. stack' = <<Node("tail")>> \o stack /\ act' \in {"eval", "out"} /\ io' = io
    BY <1>8 DEF Case, Call, Done, Push
  <2> QED
    BY <1>4, <1>6, <2>1
<1>9. CASE For
  <2> DEFINE g == [fn |-> "evalfor", tested |-> "tested" \in flags]
  <2>1. g \in ForFrames
    BY DEF ForFrames
  <2>2. \/ stack' = <<Node("tail")>> \o stack /\ act' = "out" /\ io' = io
        \/ stack' = <<g, Node("tail")>> \o stack /\ act' = "eval" /\ io' = io
    BY <1>9 DEF For, Call, Done, Push
  <2> HIDE DEF g
  <2> QED
    BY <1>4, <1>6, <2>1, <2>2
<1>10. ASSUME NEW until \in BOOLEAN, While(until)
      PROVE  Undoable(stack', act', io')
  <2> DEFINE g == [fn |-> "evalloop", at |-> "test", until |-> until, status |-> 0,
                   tested |-> "tested" \in flags]
  <2>1. g \in WhileFrames
    BY DEF WhileFrames
  <2>2. stack' = <<g, Node("tail")>> \o stack /\ act' = "eval" /\ io' = io
    BY <1>10 DEF While, Call
  <2> HIDE DEF g
  <2> QED
    BY <1>4, <1>6, <2>1, <2>2
<1>11. ASSUME NEW k \in Processes, ForkParent(k)
      PROVE  Undoable(stack', act', io')
  <2> DEFINE f == IF k = "pipe" THEN Command ELSE Node("tail")
  <2>1. f \in Trees
    BY <1>3, <1>6
  <2>2. stack' = <<f>> \o stack /\ act' = "out" /\ io' = io
    BY <1>11 DEF ForkParent, Done, Push
  <2> HIDE DEF f
  <2> QED
    BY <1>4, <2>1, <2>2
<1>12. Node("never") \in Trees /\ Node("never").next = "never"
       /\ Node("never").exit = ("exit" \in flags)
  BY <1>3 DEF Nexts
<1>13. ASSUME NEW k \in Processes, ForkChild(k)
      PROVE  Undoable(stack', act', io')
  <2>1. stack' = <<Node("never")>> \o stack /\ act' = "eval" /\ io' = io
    BY <1>13 DEF ForkChild, Call
  <2> QED
    BY <1>4, <1>12, <2>1
<1>14. ASSUME NEW list \in Redirs, Group(list)
      PROVE  Undoable(stack', act', io')
  <2> DEFINE f == [Node("group") EXCEPT !.before = Before(list)]
  <2>1. Node("group") \in Trees /\ Node("group").next = "group" /\ Before(list) \in Contents
    BY <1>1, <1>3, BeforeTypes DEF Nexts
  <2>2. f \in Trees /\ f.fn = "evaltree" /\ f.next = "group" /\ f.before = Before(list)
    BY <2>1 DEF Trees
  <2>3. CASE RedirectFails(io, list)
    <3>1. /\ stack' = <<Node("group")>> \o stack /\ act' = "out"
          /\ io' = PopRedir(Redirect(io, list, TRUE), FALSE)
      BY <1>14, <2>3 DEF Group, Done, Push, RedirectAndUndo
    <3>2. TablesKept(io, io')
      BY <1>1, <1>2, <3>1, RedirectReturns
    <3> QED
      BY <1>4, <2>1, <3>1, <3>2
  <2>4. CASE ~RedirectFails(io, list)
    <3>1. stack' = <<f>> \o stack /\ act' = "eval" /\ io' = Redirect(io, list, TRUE) /\ Room
      BY <1>14, <2>4 DEF Group, Call
    <3> HIDE DEF f
    <3>2. NewLevel(io, io', f.before)
      BY <1>1, <1>2, <2>2, <2>4, <3>1, RedirectEnters
    <3>3. InForce(f, "eval") /\ "eval" \notin RunsInput /\ "eval" \notin AtRest
          /\ f.fn \notin RunsInput
      BY <2>2 DEF InForce, RunsInput, AtRest
    <3>4. f \in Frames
      BY <2>2 DEF Frames
    <3> QED
      BY <1>1, <1>2, <3>1, <3>2, <3>3, <3>4, EnterUndoable
  <2> QED
    BY <2>3, <2>4
<1>15. ASSUME NEW list \in Redirs, SubshellInPlace(list)
      PROVE  Undoable(stack', act', io')
  <2> DEFINE f == Node("never")
  <2>1. /\ stack' = <<f>> \o stack /\ act' = "eval" /\ "exit" \in flags
        /\ io' = Redirect(io, list, FALSE)
    BY <1>15 DEF SubshellInPlace, Call, Replaces
  <2>2. f \in Frames /\ EvaluatedInPlace(f)
    BY <1>12, <2>1 DEF EvaluatedInPlace, Trees, Frames
  <2>3. list \in Seq(Redirection)
    BY RedirectionsAssumption
  <2>4. /\ io' \in Ios /\ io'.redirlist = io.redirlist
        /\ io'.nullredirs = io.nullredirs + 1 /\ HighKept(io.fds, io'.fds)
    BY <1>1, <2>1, <2>3, RedirectInPlace
  <2>5. "eval" \notin RunsInput /\ "eval" \notin AtRest
    BY DEF RunsInput, AtRest
  <2> HIDE DEF f
  <2> QED
    BY <1>1, <1>2, <2>1, <2>2, <2>4, <2>5, InPlaceUndoable
<1> QED
  BY <1>5, <1>7, <1>8, <1>9, <1>10, <1>11, <1>13, <1>14, <1>15 DEF Evaluate

LEMMA EvaluateCommandUndo ==
    ASSUME TypeOK, UndoInv, EnoughDescriptors, EvaluateCommand
    PROVE  act' \notin {"raise", "ended"} => Undoable(stack', act', io')
<1> USE DEF Kind
<1>1. /\ act = "eval" /\ stack \in Seq(Frames) /\ io \in Ios /\ HighInv(io.fds, io.redirlist)
      /\ eflag \in BOOLEAN
  BY EvaluateCommandIs DEF TypeOK, UndoInv, ScalarsOK
<1>2. Undoable(stack, "eval", io)
  BY <1>1 DEF UndoInv
<1>3. Command \in Trees /\ Command.next = "simple" /\ Command.fn = "evaltree" /\ Command \in Frames
  <2>1. Command \in Trees /\ Command.next = "simple"
    BY <1>1, NodeFrames
  <2> QED
    BY <2>1 DEF Trees, Frames
<1>4. /\ TablesKept(io, io)
      /\ \A f \in Trees, b \in {"eval", "out"} : \A r :
            TablesKept(io, r) /\ (b = "eval" => f.next # "group")
                => Undoable(<<f>> \o stack, b, r)
  BY <1>1, <1>2, PushesUndoable
<1>5. ASSUME TablesKept(io, io'), act' = "out", stack' = <<Command>> \o stack
      PROVE  Undoable(stack', act', io')
  BY <1>3, <1>4, <1>5
<1>6. ASSUME NEW list \in Redirs, Plain(list)
      PROVE  Undoable(stack', act', io')
  <2>1. /\ stack' = <<Command>> \o stack /\ act' = "out"
        /\ io' = PopRedir(Redirect(io, list, TRUE), FALSE)
    BY <1>6 DEF Plain, Done, Push, RedirectAndUndo
  <2> QED
    BY <1>1, <1>2, <1>5, <2>1, RedirectReturns
<1>7. ASSUME NEW list \in Redirs, ExecBuiltin(list)
      PROVE  Undoable(stack', act', io')
  <2>1. /\ stack' = <<Command>> \o stack /\ act' = "out"
        /\ io' = PopRedir(Redirect(io, list, TRUE), TRUE)
    BY <1>7 DEF ExecBuiltin, Done, Push
  <2> QED
    BY <1>1, <1>2, <1>5, <2>1, RedirectReturns
\* The input or the function on top of the command that runs it.
<1>8. ASSUME NEW list \in Redirs, NEW g \in Frames, NEW b \in {"eval", "read"},
             g.fn \in RunsInput, g.before = Before(list), Room, ~RedirectFails(io, list)
      PROVE  Undoable(<<g, Command>> \o stack, b, Redirect(io, list, TRUE))
  <2> DEFINE t == <<Command>> \o stack
             r == Redirect(io, list, TRUE)
  <2>1. Undoable(t, "eval", io)
    BY <1>3, <1>4
  <2>2. t \in Seq(Frames) /\ <<g, Command>> \o stack = <<g>> \o t /\ Head(t) = Command /\ t # <<>>
    BY <1>1, <1>3, PushIs, PushTwo
  <2>3. NewLevel(io, r, g.before)
    BY <1>1, <1>2, <1>8, RedirectEnters
  <2>4. InForce(g, b) /\ b \notin RunsInput /\ "eval" \notin AtRest
    BY <1>8 DEF InForce, RunsInput, AtRest
  <2> HIDE DEF t, r
  <2>5. Undoable(<<g>> \o t, b, r)
    BY <1>1, <1>3, <2>1, <2>2, <2>3, <2>4, EnterUndoable
  <2> QED
    BY <2>2, <2>5 DEF r
<1>9. ASSUME NEW list \in Redirs, CallFunction(list)
      PROVE  Undoable(stack', act', io')
  <2> DEFINE g == [fn |-> "evalfun", before |-> Before(list)]
  <2>1. g \in FunctionFrames
    BY <1>1, BeforeTypes DEF FunctionFrames
  <2>2. g \in Frames /\ g.fn \in RunsInput /\ g.before = Before(list)
    BY <2>1 DEF Frames, RunsInput
  <2>3. stack' = <<g, Command>> \o stack
    BY <1>9 DEF CallFunction, Call
  <2> HIDE DEF g
  <2>4. io' = Redirect(io, list, TRUE) /\ act' = "eval" /\ Room /\ ~RedirectFails(io, list)
    BY <1>9 DEF CallFunction, Call
  <2> QED
    BY <1>8, <2>2, <2>3, <2>4
<1>10. ASSUME NEW list \in Redirs, NEW fn \in {"evalstring", "dotcmd"}, NEW special \in BOOLEAN,
              RunInput(fn, list, special)
      PROVE  Undoable(stack', act', io')
  <2> DEFINE g == [fn |-> fn, special |-> special, before |-> Before(list)]
  <2>1. g \in InputFrames
    BY <1>1, BeforeTypes DEF InputFrames
  <2>2. g \in Frames /\ g.fn \in RunsInput /\ g.before = Before(list)
    BY <2>1 DEF Frames, RunsInput
  <2>3. stack' = <<g, Command>> \o stack
    BY <1>10 DEF RunInput
  <2> HIDE DEF g
  <2>4. io' = Redirect(io, list, TRUE) /\ act' = "read" /\ Room /\ ~RedirectFails(io, list)
    BY <1>10 DEF RunInput
  <2> QED
    BY <1>8, <2>2, <2>3, <2>4
<1>11. ASSUME NEW kind \in {"break", "cont"}, NEW n \in 1..MaxCount, Break(kind, n)
      PROVE  Undoable(stack', act', io')
  <2>1. stack' = <<Command>> \o stack /\ act' = "out" /\ io' = io
    BY <1>11 DEF Break, Done, Push
  <2> QED
    BY <1>4, <1>5, <2>1
<1>12. ASSUME ReturnBuiltin \/ SetBuiltin \/ TrapBuiltin
      PROVE  Undoable(stack', act', io')
  <2>1. stack' = <<Command>> \o stack /\ act' = "out" /\ io' = io
    BY <1>12 DEF ReturnBuiltin, SetBuiltin, TrapBuiltin, Done, Push
  <2> QED
    BY <1>4, <1>5, <2>1
<1>13. ASSUME ExecInPlace \/ ExitBuiltin \/ \E list \in Redirs : Fails(list)
      PROVE  act' \in {"raise", "ended"}
  BY <1>13 DEF ExecInPlace, ExitBuiltin, Fails
<1> QED
  BY <1>6, <1>7, <1>9, <1>10, <1>11, <1>12, <1>13 DEF EvaluateCommand

LEMMA ContinueUndo ==
    ASSUME BaseInv, UndoInv, Continue
    PROVE  act' \notin {"raise", "ended"} => Undoable(stack', act', io')
<1>1. /\ stack \in Seq(Frames) /\ io \in Ios /\ HighInv(io.fds, io.redirlist)
      /\ TypeOK /\ StackInv
  BY DEF BaseInv, TypeOK, UndoInv
<1>2. /\ TablesKept(io, io)
      /\ act \notin {"raise", "ended"} => Undoable(stack, act, io)
  BY <1>1 DEF TablesKept, UndoInv
<1>3. stack # <<>> => Top = Head(stack) /\ Top \in Frames /\ Tail(stack) \in Seq(Frames)
  BY <1>1, PopIs DEF Top
<1>4. CASE OutErrexit
  <2>1. act = "out" /\ act' = "leave" /\ stack' = stack /\ io' = io
    BY <1>4 DEF OutErrexit
  <2>2. \A f : SameUse(f, "out", "leave")
    BY DEF SameUse, InForce, AtRest, RunsInput
  <2>3. Undoable(stack, "leave", io)
    BY <1>1, <1>2, <2>1, <2>2, SameUndoable
  <2> QED
    BY <2>1, <2>3
<1>5. CASE OutTrap
  <2> DEFINE f == [fn |-> "dotrap", status |-> exitstatus]
  <2>1. f \in Frames /\ f.fn = "dotrap"
    BY <1>1 DEF TrapFrames, Frames, TypeOK, ScalarsOK
  <2>2. /\ act = "out" /\ io' = io
        /\ \/ act' = "read" /\ stack' = <<f>> \o stack
           \/ act' = "leave" /\ stack' = stack
    BY <1>5 DEF OutTrap, Push
  <2> HIDE DEF f
  <2>3. Undoable(stack, "leave", io)
    <3>1. \A g : SameUse(g, "out", "leave")
      BY DEF SameUse, InForce, AtRest, RunsInput
    <3> QED
      BY <1>1, <1>2, <2>2, <3>1, SameUndoable
  <2>4. Undoable(<<f>> \o stack, "read", io)
    <3>1. /\ f.fn \notin RunsInput /\ "read" \notin RunsInput /\ ~InForce(f, "read")
          /\ "out" \in AtRest /\ f.fn \in AtRest
      BY <2>1 DEF RunsInput, AtRest, InForce
    <3> QED
      BY <1>1, <1>2, <2>1, <2>2, <3>1, PushUndoable
  <2> QED
    BY <2>2, <2>3, <2>4
<1>6. CASE Leave
  <2>1. /\ act \in {"out", "leave"} /\ stack # <<>> /\ Top.fn = "evaltree" /\ io' = io
        /\ act' = "raise" \/ (act' = "back" /\ stack' = Tail(stack) /\ ~Top.exit)
    BY <1>1, <1>6 DEF Leave, StackInv, IsTop
  <2>2. ASSUME ~Top.exit
        PROVE  Undoable(Tail(stack), "back", io)
    <3>1. /\ ~InForce(Top, act) /\ ~EvaluatedInPlace(Top) /\ "back" \notin RunsInput
          /\ Top.fn \notin AtRest /\ "back" \notin AtRest
      BY <2>1, <2>2 DEF InForce, EvaluatedInPlace, RunsInput, AtRest
    <3> QED
      BY <1>1, <1>2, <1>3, <2>1, <3>1, PopUndoable
  <2> QED
    BY <2>1, <2>2
<1>7. CASE BackGroup
  <2>1. /\ act = "back" /\ stack # <<>> /\ Top.fn = "evaltree" /\ Top.next = "group"
        /\ io' = PopRedir(io, FALSE) /\ act' = "out" /\ stack' = stack
    BY <1>7 DEF BackGroup, Back, IsTop, GoOut
  <2>2. "back" \notin AtRest
    BY DEF AtRest
  <2>3. Undoable(stack, "out", PopRedir(io, FALSE))
    BY <1>1, <1>2, <1>3, <2>1, <2>2, GroupUndoable
  <2> QED
    BY <2>1, <2>3
\* Frames of evaltree other than groups.
<1>8. ASSUME act = "back", stack # <<>>, Top.fn = "evaltree", Top.next # "group",
             act' = "out", stack' = stack, io' = io
      PROVE  Undoable(stack', act', io')
  <2>1. SameUse(Top, "back", "out")
    BY <1>8 DEF SameUse, InForce, RunsInput
  <2>2. Undoable(stack, "out", io)
    BY <1>1, <1>2, <1>3, <1>8, <2>1, SameUndoable
  <2> QED
    BY <1>8, <2>2
<1>9. CASE BackTail \/ BackNot
  <2>1. act = "back" /\ stack # <<>> /\ Top.fn = "evaltree" /\ Top.next # "group"
        /\ act' = "out" /\ stack' = stack /\ io' = io
    BY <1>9 DEF BackTail, BackNot, Back, IsTop, GoOut
  <2> QED
    BY <1>8, <2>1
<1>10. CASE BackBinary \/ BackIf
  <2>1. /\ act = "back" /\ stack # <<>> /\ Top.fn = "evaltree"
        /\ Top.next \in {"and", "or", "semi", "if"} /\ io' = io
    BY <1>10 DEF BackBinary, BackIf, Back, IsTop
  <2>2. CASE act' = "out" /\ stack' = stack
    BY <1>8, <2>1, <2>2
  <2>3. CASE act' = "eval" /\ \E h \in Frames : GoesOnWith(h)
    <3>1. PICK h \in Frames : GoesOnWith(h)
      BY <2>3
    <3>2. stack' = <<h>> \o Tail(stack) /\ h.fn = "evaltree" /\ h.next = "tail"
      BY <2>1, <3>1 DEF GoesOnWith, Loops
    <3>3. /\ ~InForce(Top, act) /\ ~EvaluatedInPlace(Top) /\ h.fn \notin RunsInput
          /\ ~InForce(h, "eval") /\ "eval" \notin RunsInput
      BY <2>1, <3>2 DEF InForce, EvaluatedInPlace, RunsInput
    <3>4. Undoable(<<h>> \o Tail(stack), "eval", io)
      BY <1>1, <1>2, <1>3, <2>1, <3>2, <3>3, ReplaceUndoable
    <3> QED
      BY <2>1, <2>3, <3>2, <3>4
  <2> QED
    BY <1>1, <1>10, <2>2, <2>3, BranchIs
<1>11. CASE BackLoop \/ BackFor \/ LoopSkips
  <2>1. act = "back" /\ stack # <<>> /\ Top.fn \in Loops /\ io' = io
    BY <1>1, <1>11, LoopIs DEF BackLoop, BackFor, LoopSkips
  <2>2. /\ ~InForce(Top, act) /\ ~EvaluatedInPlace(Top) /\ Top.fn \notin RunsInput
        /\ Top.fn \notin AtRest /\ "back" \notin AtRest /\ "back" \notin RunsInput
        /\ "eval" \notin RunsInput
    BY <2>1 DEF InForce, EvaluatedInPlace, RunsInput, AtRest, Loops
  <2>3. ASSUME NEW h \in Frames, LoopGoesOn(h)
        PROVE  Undoable(stack', act', io')
    <3>1. act' = "eval" /\ stack' = <<h>> \o Tail(stack) /\ h.fn = Top.fn
      BY <2>3 DEF LoopGoesOn, GoesOnWith
    <3>2. h.fn \notin RunsInput /\ ~InForce(h, "eval")
      BY <2>1, <2>2, <3>1 DEF InForce, Loops
    <3>3. Undoable(<<h>> \o Tail(stack), "eval", io)
      BY <1>1, <1>2, <1>3, <2>1, <2>2, <3>1, <3>2, ReplaceUndoable
    <3> QED
      BY <2>1, <3>1, <3>3
  <2>4. CASE LoopEnds
    <3>1. act' = "back" /\ stack' = Tail(stack)
      BY <2>4 DEF LoopEnds, Pops
    <3>2. Undoable(Tail(stack), "back", io)
      BY <1>1, <1>2, <1>3, <2>1, <2>2, PopUndoable
    <3> QED
      BY <2>1, <3>1, <3>2
  <2> QED
    BY <1>1, <1>11, <2>3, <2>4, LoopIs
<1>12. CASE BackFunction
  <2>1. /\ act = "back" /\ stack # <<>> /\ Top.fn = "evalfun"
        /\ act' = "out" /\ stack' = Tail(stack) /\ io' = PopRedir(io, FALSE)
    BY <1>12 DEF BackFunction, IsTop
  <2>2. Top.fn \in RunsInput /\ "out" \notin RunsInput
    BY <2>1 DEF RunsInput
  <2>3. Undoable(Tail(stack), "out", PopRedir(io, FALSE))
    BY <1>1, <1>2, <1>3, <2>1, <2>2, LeaveUndoable
  <2> QED
    BY <2>1, <2>3
<1> QED
  BY <1>4, <1>5, <1>6, <1>7, <1>9, <1>10, <1>11, <1>12 DEF Continue

\* exitshell is called: there is nothing on the C stack.
LEMMA ExitShellUndo ==
    ASSUME NEW a, NEW q \in Ios, HighInv(q.fds, q.redirlist), Undoable(<<>>, a, q),
           a \notin AtRest, NEW status \in Nat
    PROVE  Undoable(<<[fn |-> "exitshell", status |-> status]>>, "read", q)
<1> DEFINE f == [fn |-> "exitshell", status |-> status]
<1>1. f \in Frames /\ f.fn = "exitshell"
  BY DEF ExitFrames, Frames
<1> HIDE DEF f
<1>2. <<>> \in Seq(Frames) /\ <<f>> \o <<>> = <<f>>
  BY <1>1
<1>3. /\ f.fn \notin RunsInput /\ "read" \notin RunsInput /\ ~InForce(f, "read")
      /\ f.fn \notin AtRest
  BY <1>1 DEF RunsInput, AtRest, InForce
<1>4. TablesKept(q, q)
  BY DEF TablesKept
<1>5. Undoable(<<f>> \o <<>>, "read", q)
  BY <1>1, <1>2, <1>3, <1>4, PushUndoable
<1> QED
  BY <1>2, <1>5 DEF f

LEMMA ReadUndo ==
    ASSUME BaseInv, UndoInv, ReadOrEnd
    PROVE  act' \notin {"raise", "ended"} => Undoable(stack', act', io')
<1>1. /\ stack \in Seq(Frames) /\ io \in Ios /\ HighInv(io.fds, io.redirlist)
      /\ TypeOK /\ exitstatus \in Nat
  BY DEF BaseInv, TypeOK, UndoInv, ScalarsOK
<1>2. act \in {"read", "back"}
  BY DEF ReadOrEnd, Read, EvalstringEnds, DotEnds, TrapEnds, ScriptEnds, ExitTrapEnds, InputEnds
<1>3. TablesKept(io, io) /\ Undoable(stack, act, io)
  BY <1>1, <1>2 DEF TablesKept, UndoInv
<1>4. act \notin AtRest /\ act \notin RunsInput
  BY <1>2 DEF AtRest, RunsInput
<1>5. stack # <<>> => Top = Head(stack)
  BY DEF Top
<1>6. CASE Read
  <2>1. act' = "eval" /\ stack' = stack /\ io' = io
    BY <1>6 DEF Read
  <2>2. \A f : SameUse(f, act, "eval")
    BY <1>4 DEF SameUse, InForce, AtRest, RunsInput
  <2>3. Undoable(stack, "eval", io)
    BY <1>1, <1>3, <2>2, SameUndoable
  <2> QED
    BY <2>1, <2>3
<1>7. CASE EvalstringEnds \/ DotEnds
  <2>1. /\ stack # <<>> /\ Top.fn \in {"evalstring", "dotcmd"}
        /\ act' = "out" /\ stack' = Tail(stack) /\ io' = PopRedir(io, FALSE)
    BY <1>7 DEF EvalstringEnds, DotEnds, InputEnds, IsTop
  <2>2. Top.fn \in RunsInput /\ "out" \notin RunsInput
    BY <2>1 DEF RunsInput
  <2>3. Undoable(Tail(stack), "out", PopRedir(io, FALSE))
    BY <1>1, <1>3, <1>5, <2>1, <2>2, LeaveUndoable
  <2> QED
    BY <2>1, <2>3
<1>8. CASE TrapEnds
  <2>1. /\ stack # <<>> /\ Top.fn = "dotrap" /\ act' \in {"raise", "leave"}
        /\ stack' = Tail(stack) /\ io' = io
    BY <1>8 DEF TrapEnds, InputEnds, IsTop
  <2>2. /\ ~InForce(Top, act) /\ ~EvaluatedInPlace(Top) /\ "leave" \notin RunsInput
        /\ Top.fn \in AtRest /\ "leave" \in AtRest
    BY <2>1 DEF InForce, EvaluatedInPlace, RunsInput, AtRest
  <2>3. Undoable(Tail(stack), "leave", io)
    BY <1>1, <1>3, <1>5, <2>1, <2>2, PopUndoable
  <2> QED
    BY <2>1, <2>3
<1>9. CASE ScriptEnds
  <2>1. /\ stack = <<>> /\ io' = io
        /\ \/ act' = "read" /\ stack' = <<[fn |-> "exitshell", status |-> exitstatus]>>
           \/ act' = "ended"
    BY <1>9 DEF ScriptEnds, ExitShell
  <2>2. Undoable(<<[fn |-> "exitshell", status |-> exitstatus]>>, "read", io)
    BY <1>1, <1>3, <1>4, <2>1, ExitShellUndo
  <2> QED
    BY <2>1, <2>2
<1>10. CASE ExitTrapEnds
  BY <1>10 DEF ExitTrapEnds
<1> QED
  BY <1>6, <1>7, <1>8, <1>9, <1>10 DEF ReadOrEnd

LEMMA RaisedUndo ==
    ASSUME BaseInv, SpecialInv, UndoInv, Raised
    PROVE  act' \notin {"raise", "ended"} => Undoable(stack', act', io')
<1>1. CASE Unwind \/ UnwindFunction
  BY <1>1 DEF Unwind, UnwindFunction
<1>2. CASE UnwindBuiltin
  BY <1>2, RaisedPasses
<1>3. CASE UnwindExitTrap
  BY <1>3 DEF UnwindExitTrap
<1>4. CASE UnwindMain
  <2>1. io \in Ios /\ HighInv(io.fds, io.redirlist) /\ exitstatus \in Nat
    BY DEF BaseInv, TypeOK, ScalarsOK, UndoInv
  <2> DEFINE q == ClearRedir(io)
  <2>2. q \in Ios /\ HighInv(q.fds, q.redirlist)
    BY <2>1, ClearRedirTypes, ClearHigh
  <2>3. q.redirlist = <<>> /\ q.nullredirs = 0
    BY <2>1, ClearEffect
  <2>4. /\ exitstatus' \in Nat /\ stack = <<>> /\ io' = q
        /\ \/ act' = "read" /\ stack' = <<[fn |-> "exitshell", status |-> exitstatus']>>
           \/ act' = "ended"
           \/ act' = "read" /\ stack' = <<>>
    BY <1>4, <2>1 DEF UnwindMain, ExitShell
  <2> HIDE DEF q
  <2>5. Undoable(<<>>, "read", q)
    BY <2>2, <2>3, EmptyUndoable
  <2>6. \A status \in Nat : Undoable(<<[fn |-> "exitshell", status |-> status]>>, "read", q)
    BY <2>2, <2>5, ExitShellUndo DEF AtRest
  <2> QED
    BY <2>4, <2>5, <2>6
<1> QED
  BY <1>1, <1>2, <1>3, <1>4 DEF Raised

LEMMA UndoKept ==
    ASSUME NoPrefix, EnoughDescriptors, BaseInv, SpecialInv, UndoInv, [Next]_vars
    PROVE  UndoInv'
<1>1. TypeOK
  BY DEF BaseInv
<1>2. HighInv(io'.fds, io'.redirlist)
  BY <1>1, HighIoKept DEF UndoInv
<1>3. ASSUME stack' = stack, act' = act, io' = io
      PROVE  act' \notin {"raise", "ended"} => Undoable(stack', act', io')
  BY <1>3 DEF UndoInv
<1>4. act' \notin {"raise", "ended"} => Undoable(stack', act', io')
  <2>1. CASE UNCHANGED vars
    BY <1>3, <2>1 DEF vars, evalVars
  <2>2. CASE Evaluate
    BY <1>1, <2>2, EvaluateUndo
  <2>3. CASE EvaluateCommand
    BY <1>1, <2>3, EvaluateCommandUndo
  <2>4. CASE Continue
    BY <2>4, ContinueUndo
  <2>5. CASE ReadOrEnd
    BY <2>5, ReadUndo
  <2>6. CASE Raised
    BY <2>6, RaisedUndo
  <2>7. CASE Signal \/ Ended
    BY <1>3, <2>7 DEF Signal, Ended, vars, evalVars
  <2> QED
    BY <2>1, <2>2, <2>3, <2>4, <2>5, <2>6, <2>7 DEF Next
<1> QED
  BY <1>2, <1>4 DEF UndoInv

LEMMA InitUndo == Init => UndoInv
<1> SUFFICES ASSUME Init
             PROVE  UndoInv
  OBVIOUS
<1>1. io = NewIo /\ io \in Ios /\ stack = <<>>
  BY NewIoTypes DEF Init
<1>2. io.redirlist = <<>> /\ io.nullredirs = 0
  BY <1>1 DEF NewIo
<1>3. HighInv(io.fds, io.redirlist)
  <2>1. \A h \in HighFds : h \in Fds /\ h \notin FirstOpen
    BY FdSets, RedirectionsAssumption
  <2>2. \A h \in HighFds : io.fds[h] = Closed
    BY <1>1, <2>1 DEF NewIo
  <2> QED
    BY <1>2, <2>2 DEF HighInv, Apart, Holds
<1>4. Undoable(<<>>, act, io)
  BY <1>1, <1>2, EmptyUndoable
<1> QED
  BY <1>1, <1>3, <1>4 DEF UndoInv

(* What the frame on top gives back when its redirections end.             *)
LEMMA EndUndoes ==
    ASSUME BaseInv, UndoInv, BackGroup \/ BackFunction \/ EvalstringEnds \/ DotEnds
    PROVE  \A d \in UserFds : Top.before[d] # Closed => io'.fds[d] = Top.before[d]
<1>1. /\ stack \in Seq(Frames) /\ io \in Ios /\ HighInv(io.fds, io.redirlist)
      /\ stack # <<>> /\ Top = Head(stack) /\ act \in {"back", "read"}
      /\ io' = PopRedir(io, FALSE)
  BY DEF BaseInv, TypeOK, UndoInv, Top, BackGroup, BackFunction, EvalstringEnds, DotEnds,
         Back, IsTop, InputEnds
<1>2. Undoable(stack, act, io)
  BY <1>1 DEF UndoInv
<1>3. CASE BackGroup
  <2>1. Top.fn = "evaltree" /\ Top.next = "group" /\ act \notin AtRest
    BY <1>1, <1>3 DEF BackGroup, Back, IsTop, AtRest
  <2> QED
    BY <1>1, <1>2, <2>1, GroupUndoable
<1>4. CASE BackFunction \/ EvalstringEnds \/ DotEnds
  <2>1. Top.fn \in RunsInput /\ "out" \notin RunsInput
    BY <1>4 DEF BackFunction, EvalstringEnds, DotEnds, InputEnds, IsTop, RunsInput
  <2> QED
    BY <1>1, <1>2, <2>1, LeaveUndoable
<1> QED
  BY <1>3, <1>4

(* Whatever a group, a function, an eval string or a dot file does with    *)
(* descriptors (ash.c:5205, popredir): when it is left, each open one that *)
(* its own redirections named is what it was before.                       *)
THEOREM RedirectionsAreUndone ==
    ASSUME NoPrefix, EnoughDescriptors
    PROVE  Spec => RedirectionsUndone
<1> DEFINE Inv == BaseInv /\ SpecialInv /\ UndoInv
<1>1. Init => Inv
  BY InitBase, InitCounts, InitUndo
<1>2. Inv /\ [Next]_vars => Inv'
  BY BaseKept, SpecialKept, UndoKept
<1>3. Inv => (BackGroup \/ BackFunction \/ EvalstringEnds \/ DotEnds =>
                 \A d \in UserFds : Top.before[d] # Closed => io'.fds[d] = Top.before[d])
  BY EndUndoes
<1> QED
  BY <1>1, <1>2, <1>3, PTL DEF Spec, RedirectionsUndone
=============================================================================
