-------------------------- MODULE ShellJobsProofs --------------------------
(***************************************************************************)
(* Proofs about ShellJobs, for any number of processes, jobs and signals   *)
(* and pipelines of any length: the job table and the kernel agree, and    *)
(* each wait status gets to the command it is of.                          *)
(***************************************************************************)
EXTENDS ShellJobs, FiniteSetTheorems, TLAPS

-----------------------------------------------------------------------------
(***************************************************************************)
(* The list of current jobs.                                               *)
(***************************************************************************)
Precedes(list, s, t) == \E i, j \in DOMAIN list : i < j /\ list[i] = s /\ list[j] = t

(* Taking a job out of the list leaves the order of the others.            *)
LEMMA RemoveEffect ==
    ASSUME NEW S, NEW list \in Seq(S), IsInjective(list), NEW e, NEW rest,
           rest = RemoveFirst(list, e)
    PROVE  /\ rest \in Seq(S) /\ IsInjective(rest)
           /\ ToSet(rest) = ToSet(list) \ {e}
           /\ \A s, t : s # e /\ t # e /\ Precedes(list, s, t) => Precedes(rest, s, t)
<1>1. Len(list) \in Nat /\ DOMAIN list = 1..Len(list)
  OBVIOUS
<1>2. CASE ~\E i \in 1..Len(list) : list[i] = e
  <2>1. rest = list
    BY <1>2 DEF RemoveFirst
  <2> QED
    BY <1>1, <1>2, <2>1 DEF ToSet
<1>3. CASE \E i \in 1..Len(list) : list[i] = e
  <2>1. PICK k \in 1..Len(list) : list[k] = e
    BY <1>3
  <2>2. {i \in 1..Len(list) : list[i] = e} = {k}
    BY <1>1, <2>1 DEF IsInjective
  <2>3. SelectInSeq(list, LAMBDA v : v = e) = k
    BY <2>2 DEF SelectInSeq, Min
  <2>4. rest = SubSeq(list, 1, k - 1) \o SubSeq(list, k + 1, Len(list))
    BY <1>3, <2>3 DEF RemoveFirst, RemoveAt
  <2>5. /\ rest \in Seq(S) /\ Len(rest) = Len(list) - 1
        /\ \A i \in 1..(Len(list) - 1) : rest[i] = IF i < k THEN list[i] ELSE list[i + 1]
    <3> DEFINE a == SubSeq(list, 1, k - 1)
               b == SubSeq(list, k + 1, Len(list))
    <3>1. /\ a \in Seq(S) /\ Len(a) = k - 1
          /\ \A i \in 1..(k - 1) : a[i] = list[i]
      BY <1>1
    <3>2. /\ b \in Seq(S) /\ Len(b) = Len(list) - k
          /\ \A i \in 1..(Len(list) - k) : b[i] = list[i + k]
      <4>1. b \in Seq(S)
        BY <1>1
      <4>2. Len(b) = IF k + 1 <= Len(list) THEN Len(list) - (k + 1) + 1 ELSE 0
        BY <1>1
      <4>3. \A i \in 1..Len(b) : b[i] = list[(k + 1) + i - 1]
        BY <1>1, <4>1
      <4>4. \A i \in 1..(Len(list) - k) : (k + 1) + i - 1 = i + k
        BY <1>1
      <4>5. Len(b) = Len(list) - k
        <5>1. CASE k = Len(list)
          BY <1>1, <4>2, <5>1
        <5>2. CASE k + 1 <= Len(list)
          <6>1. Len(b) = Len(list) - (k + 1) + 1
            BY <4>2, <5>2
          <6>2. Len(list) - (k + 1) + 1 = Len(list) - k
            BY <1>1
          <6> QED
            BY <6>1, <6>2
        <5>3. k \in Int /\ Len(list) \in Int /\ k <= Len(list)
          BY <1>1
        <5>4. k = Len(list) \/ k + 1 <= Len(list)
          BY <5>3, Z3
        <5> QED
          BY <5>1, <5>2, <5>4
      <4> HIDE DEF b
      <4> QED
        BY <4>1, <4>3, <4>4, <4>5
    <3> HIDE DEF a, b
    <3>3. rest = a \o b
      BY <2>4 DEF a, b
    <3>4. rest \in Seq(S) /\ Len(rest) = Len(list) - 1
      <4>0. Len(rest) = Len(a) + Len(b)
        <5>1. a \in Seq(S) /\ b \in Seq(S)
          BY <3>1, <3>2
        <5> QED
          BY <3>3, <5>1
      <4>1. Len(rest) = (k - 1) + (Len(list) - k)
        <5>1. Len(a) = k - 1
          BY <3>1
        <5>2. Len(b) = Len(list) - k
          BY <3>2
        <5> QED
          BY <4>0, <5>1, <5>2
      <4>2. (k - 1) + (Len(list) - k) = Len(list) - 1
        BY <1>1
      <4>3. rest \in Seq(S)
        BY <3>1, <3>2, <3>3
      <4> QED
        BY <4>1, <4>2, <4>3
    <3>5. ASSUME NEW i \in 1..(Len(list) - 1)
          PROVE  rest[i] = IF i < k THEN list[i] ELSE list[i + 1]
      <4>1. CASE i < k
        BY <1>1, <3>1, <3>2, <3>3, <4>1
      <4>2. CASE ~(i < k)
        <5>1. rest[i] = b[i - (k - 1)] /\ i - (k - 1) \in 1..(Len(list) - k)
          BY <1>1, <3>1, <3>2, <3>3, <4>2
        <5>2. (i - (k - 1)) + k = i + 1
          BY <1>1
        <5> QED
          BY <3>2, <4>2, <5>1, <5>2
      <4> QED
        BY <4>1, <4>2
    <3> QED
      BY <3>4, <3>5
  <2> DEFINE to(i) == IF i < k THEN i ELSE i + 1
  <2>6. \A i \in DOMAIN rest : to(i) \in DOMAIN list /\ rest[i] = list[to(i)] /\ to(i) # k
    BY <1>1, <2>5
  <2>7. \A i, j \in DOMAIN rest : to(i) = to(j) => i = j
    BY <1>1, <2>5
  <2>8. \A i \in DOMAIN list : i # k => \E j \in DOMAIN rest : to(j) = i
    <3> TAKE i \in DOMAIN list
    <3>1. CASE i < k
      BY <1>1, <2>5, <3>1
    <3>2. CASE i > k
      <4>1. i - 1 \in DOMAIN rest /\ to(i - 1) = i
        BY <1>1, <2>5, <3>2
      <4> QED
        BY <4>1
    <3> QED
      BY <1>1, <3>1, <3>2
  <2>9. \A i, j \in DOMAIN rest : to(i) < to(j) => i < j
    BY <1>1, <2>5
  <2> HIDE DEF to
  <2>10. \A i \in DOMAIN list : i # k <=> list[i] # e
    BY <1>1, <2>1 DEF IsInjective
  <2>11. IsInjective(rest)
    BY <2>6, <2>7 DEF IsInjective
  <2>12. ToSet(rest) = ToSet(list) \ {e}
    BY <2>6, <2>8, <2>10 DEF ToSet
  <2>13. ASSUME NEW s, NEW t, s # e, t # e, Precedes(list, s, t)
         PROVE  Precedes(rest, s, t)
    <3>1. PICK i \in DOMAIN list, j \in DOMAIN list : i < j /\ list[i] = s /\ list[j] = t
      BY <2>13 DEF Precedes
    <3>2. PICK a \in DOMAIN rest : to(a) = i
      BY <2>8, <2>10, <2>13, <3>1
    <3>3. PICK b \in DOMAIN rest : to(b) = j
      BY <2>8, <2>10, <2>13, <3>1
    <3>4. a < b /\ rest[a] = s /\ rest[b] = t
      BY <2>6, <2>9, <3>1, <3>2, <3>3
    <3> QED
      BY <3>4 DEF Precedes
  <2> QED
    BY <2>5, <2>11, <2>12, <2>13
<1> QED
  BY <1>2, <1>3

InFront(e, rest) == <<e>> \o rest

(* A job put in front comes before all others.                             *)
LEMMA PutInFront ==
    ASSUME NEW S, NEW rest \in Seq(S), IsInjective(rest), NEW e \in S, e \notin ToSet(rest),
           NEW list, list = InFront(e, rest)
    PROVE  /\ list \in Seq(S) /\ IsInjective(list) /\ list # <<>> /\ list[1] = e
           /\ \A s : s \in ToSet(list) <=> s \in ToSet(rest) \/ s = e
           /\ \A s, t : Precedes(rest, s, t) => Precedes(list, s, t)
           /\ \A t \in ToSet(rest) : Precedes(list, e, t)
<1>1. /\ list \in Seq(S) /\ Len(list) = Len(rest) + 1 /\ list[1] = e /\ Len(rest) \in Nat
      /\ \A i \in 1..Len(rest) : list[i + 1] = rest[i]
      /\ DOMAIN list = 1..(Len(rest) + 1) /\ DOMAIN rest = 1..Len(rest)
  BY DEF InFront
<1>2. \A i \in DOMAIN list : i = 1 \/ (i - 1 \in DOMAIN rest /\ list[i] = rest[i - 1])
  BY <1>1
<1>3. \A i \in DOMAIN rest : i + 1 \in DOMAIN list /\ i + 1 # 1 /\ list[i + 1] = rest[i]
  BY <1>1
<1>4. IsInjective(list)
  <2> SUFFICES ASSUME NEW i \in DOMAIN list, NEW j \in DOMAIN list, list[i] = list[j]
               PROVE  i = j
    BY DEF IsInjective
  <2>1. CASE i = 1 \/ j = 1
    BY <1>1, <1>2, <2>1 DEF ToSet
  <2>2. CASE i # 1 /\ j # 1
    <3>1. i - 1 = j - 1
      BY <1>2, <2>2 DEF IsInjective
    <3> QED
      BY <1>1, <3>1
  <2> QED
    BY <2>1, <2>2
<1>5. ToSet(list) = ToSet(rest) \cup {e}
  <2>1. ToSet(list) \subseteq ToSet(rest) \cup {e}
    BY <1>1, <1>2 DEF ToSet
  <2>2. ToSet(rest) \subseteq ToSet(list)
    BY <1>3 DEF ToSet
  <2>3. e \in ToSet(list)
    BY <1>1 DEF ToSet
  <2> QED
    BY <2>1, <2>2, <2>3
<1>6. ASSUME NEW s, NEW t, Precedes(rest, s, t)
      PROVE  Precedes(list, s, t)
  <2>1. PICK i \in DOMAIN rest, j \in DOMAIN rest : i < j /\ rest[i] = s /\ rest[j] = t
    BY <1>6 DEF Precedes
  <2>2. i + 1 < j + 1
    BY <1>1, <2>1
  <2> QED
    BY <1>3, <2>1, <2>2 DEF Precedes
<1>7. ASSUME NEW t \in ToSet(rest)
      PROVE  Precedes(list, e, t)
  <2>1. PICK j \in DOMAIN rest : rest[j] = t
    BY DEF ToSet
  <2>2. 1 \in DOMAIN list /\ 1 < j + 1
    BY <1>1
  <2> QED
    BY <1>1, <1>3, <2>1, <2>2 DEF Precedes
<1> QED
  BY <1>1, <1>4, <1>5, <1>6, <1>7

(* A job at the front of the list stays where it is when it is put there.  *)
LEMMA FrontAgain ==
    ASSUME NEW S, NEW list \in Seq(S), IsInjective(list), list # <<>>
    PROVE  <<list[1]>> \o RemoveFirst(list, list[1]) = list
<1> DEFINE e == list[1]
           rest == SubSeq(list, 2, Len(list))
<1>1. Len(list) \in Nat /\ DOMAIN list = 1..Len(list) /\ 1 \in 1..Len(list)
  OBVIOUS
<1>2. {i \in 1..Len(list) : list[i] = e} = {1}
  BY <1>1 DEF IsInjective
<1> HIDE DEF e
<1>3. SelectInSeq(list, LAMBDA v : v = e) = 1
  BY <1>2 DEF SelectInSeq, Min
<1>4. \E i \in 1..Len(list) : list[i] = e
  BY <1>2
<1>5. RemoveFirst(list, e) = SubSeq(list, 1, 1 - 1) \o SubSeq(list, 1 + 1, Len(list))
  BY <1>3, <1>4 DEF RemoveFirst, RemoveAt
<1>6. 1 - 1 = 0 /\ 1 + 1 = 2
  OBVIOUS
<1>7. SubSeq(list, 1, 0) = <<>> /\ rest \in Seq(S)
  BY <1>1
<1>8. RemoveFirst(list, e) = rest
  BY <1>5, <1>6, <1>7
<1>9. <<e>> \o rest = list
  BY <1>1 DEF e
<1> QED
  BY <1>8, <1>9 DEF e

(* The first member of a set of places.                                    *)
LEMMA FirstPlace ==
    ASSUME NEW I, I \subseteq Nat, NEW k \in I, \A i \in I : k <= i
    PROVE  I # {} /\ Min(I) = k
<1>1. \A x \in I : (\A y \in I : x <= y) => x = k
  OBVIOUS
<1> QED
  BY <1>1 DEF Min

-----------------------------------------------------------------------------
(***************************************************************************)
(* The inductive invariant.                                                *)
(***************************************************************************)
States == {"idle", "fork", "reap", "fg", "waitone", "waitall", "after", "ended"}

SlotRecords == [state : {"free", "running", "done"}, waited : BOOLEAN, procs : Seq(Procs)]

TableTypes ==
    /\ pc \in States
    /\ iflag \in Interactive
    /\ jobtab \in Seq(SlotRecords) /\ Len(jobtab) <= MaxSlots
    /\ order \in Seq(Slots)
    /\ jobless \in Int
    /\ child \in [Pids -> WaitStatuses \cup {None, Alive}]
    /\ owner \in [Pids -> [job : 0..MaxSlots, last : BOOLEAN]]
    /\ truth \in [1..MaxSlots -> WaitStatuses \cup {None}]

\* The job of the slot still gets processes.
Forming(s) == pc = "fork" /\ s = cur

\* The table expects p as a child forked for the job of slot s.
Expects(s, p) == \E i \in DOMAIN jobtab[s].procs : jobtab[s].procs[i].pid = p /\ Awaited(s, i)

\* The job that is launched is in front, and none of its processes was reaped.
LaunchSound ==
    pc = "fork" =>
        /\ cur \in Slots /\ JobRunning(cur)
        /\ order # <<>> /\ order[1] = cur
        /\ left \in 1..MaxPipe
        /\ \A i \in DOMAIN jobtab[cur].procs : Awaited(cur, i)
        /\ \A p \in Pids : child[p] # None /\ owner[p].job = cur => ~owner[p].last

\* There is a job to wait for.
WaitSound == pc \in {"fg", "waitone"} => cur \in Slots /\ Used(cur)

\* A free slot is empty, a job that is done expects nobody, no process is
\* listed twice for one job, and every job that was launched has a process.
SlotSound(s) ==
    /\ jobtab[s].state = "free" => jobtab[s].procs = <<>>
    /\ JobDone(s) => \A i \in DOMAIN jobtab[s].procs : ~Awaited(s, i)
    /\ IsInjective(PidsOf(jobtab[s]))
    /\ pc # "ended" /\ Used(s) /\ ~Forming(s) => jobtab[s].procs # <<>>

\* The table expects the children of the shell and each for its own job.
KernelSound ==
    /\ \A s \in Slots : \A p \in Pids : Expects(s, p) => child[p] # None /\ owner[p].job = s
    /\ \A p \in Pids : child[p] # None /\ owner[p].job # 0 =>
          owner[p].job \in Slots /\ Expects(owner[p].job, p)

OrderSound == ToSet(order) = {s \in Slots : Used(s)} /\ IsInjective(order)

CountSound == jobless + (IF pc = "reap" THEN 1 ELSE 0) = Untracked

\* A running job may still list a process that was reaped and whose pid is now
\* another child's: then the job of that child is nearer to the front.
ShadowSound ==
    \A p \in Pids, s \in Slots :
        child[p] # None /\ JobRunning(s) /\ Lists(s, p) /\ owner[p].job # s =>
            owner[p].job # 0 /\ Precedes(order, owner[p].job, s)

\* The status of the last process of a job that was launched is the true one.
TruthSound(s) ==
    LET n == Len(jobtab[s].procs)
        p == jobtab[s].procs[n].pid
    IN  pc # "ended" /\ n > 0 /\ ~Forming(s) =>
            IF Awaited(s, n) THEN owner[p].last /\ (IsZombie(p) => truth[s] = child[p])
                             ELSE truth[s] = jobtab[s].procs[n].status

\* A child forked as the last one of its job is the last one the job lists.
LastSound ==
    \A p \in Pids : child[p] # None /\ owner[p].last =>
        /\ owner[p].job # 0
        /\ jobtab[owner[p].job].procs # <<>>
        /\ Last(jobtab[owner[p].job].procs).pid = p

Inv ==
    /\ TableTypes /\ LaunchSound /\ WaitSound
    /\ \A s \in Slots : SlotSound(s)
    /\ KernelSound /\ OrderSound /\ CountSound /\ ShadowSound
    /\ \A s \in Slots : TruthSound(s)
    /\ LastSound

-----------------------------------------------------------------------------
(***************************************************************************)
(* Steps that leave the jobs as they are.                                  *)
(***************************************************************************)
\* No process is started, reaped or forgotten; jobs may be marked as waited for.
TableKept ==
    /\ jobtab' \in Seq(SlotRecords) /\ Len(jobtab') = Len(jobtab)
    /\ \A s \in Slots : jobtab'[s].state = jobtab[s].state /\ jobtab'[s].procs = jobtab[s].procs
    /\ UNCHANGED <<iflag, order, jobless, child, owner, truth>>

\* The shell stays where it is, or goes to a place where no job is launched.
ControlKept ==
    /\ pc' \in States
    /\ pc' = "fork" => pc = "fork" /\ UNCHANGED <<cur, left>>
    /\ pc' # "ended" => pc # "ended" /\ (pc = "fork" => pc' = "fork")
    /\ pc' \in {"fg", "waitone"} => cur' \in Slots /\ Used(cur')
    /\ pc' = "reap" <=> pc = "reap"

LEMMA QuietStep ==
    ASSUME Inv, TableKept, ControlKept
    PROVE  Inv'
<1>1. Slots' = Slots
  BY DEF TableKept, Slots
<1>2. \A s \in Slots : /\ Used(s)' <=> Used(s)
                       /\ JobRunning(s)' <=> JobRunning(s)
                       /\ JobDone(s)' <=> JobDone(s)
                       /\ PidsOf(jobtab[s])' = PidsOf(jobtab[s])
                       /\ \A p : Lists(s, p)' <=> Lists(s, p)
                       /\ \A p : Expects(s, p)' <=> Expects(s, p)
                       /\ \A i : Awaited(s, i)' <=> Awaited(s, i)
  BY DEF TableKept, Used, JobRunning, JobDone, PidsOf, Lists, Expects, Awaited
<1>3. \A s \in Slots : pc' # "ended" => (Forming(s)' <=> Forming(s))
  BY DEF ControlKept, Forming
<1>4. TableTypes'
  BY <1>1 DEF Inv, TableTypes, TableKept, ControlKept
<1>5. LaunchSound'
  <2> SUFFICES ASSUME pc' = "fork"
               PROVE  LaunchSound'
    BY DEF LaunchSound
  <2>1. pc = "fork" /\ cur' = cur /\ left' = left
    BY DEF ControlKept
  <2>2. cur \in Slots
    BY <2>1 DEF Inv, LaunchSound
  <2> QED
    BY <1>1, <1>2, <2>1, <2>2 DEF Inv, LaunchSound, TableKept
<1>6. WaitSound'
  BY <1>1, <1>2 DEF WaitSound, ControlKept
<1>7. ASSUME NEW s \in Slots
      PROVE  SlotSound(s)'
  <2>1. SlotSound(s)
    BY DEF Inv
  <2> QED
    BY <1>2, <1>3, <2>1 DEF SlotSound, TableKept, ControlKept
<1>8. KernelSound'
  BY <1>1, <1>2 DEF Inv, KernelSound, TableKept
<1>9. OrderSound'
  BY <1>1, <1>2 DEF Inv, OrderSound, TableKept
<1>10. CountSound'
  BY DEF Inv, CountSound, Untracked, TableKept, ControlKept
<1>11. ShadowSound'
  BY <1>1, <1>2 DEF Inv, ShadowSound, TableKept, Precedes
<1>12. ASSUME NEW s \in Slots
       PROVE  TruthSound(s)'
  <2>1. TruthSound(s)
    BY DEF Inv
  <2> QED
    BY <1>2, <1>3, <2>1 DEF TruthSound, TableKept, ControlKept, IsZombie
<1>13. LastSound'
  <2> SUFFICES ASSUME NEW p \in Pids, child[p] # None, owner[p].last
               PROVE  /\ owner[p].job # 0
                      /\ jobtab'[owner[p].job].procs # <<>>
                      /\ Last(jobtab'[owner[p].job].procs).pid = p
    BY DEF LastSound, TableKept
  <2>1. owner[p].job # 0 /\ owner[p].job \in Slots
    BY DEF Inv, LastSound, KernelSound
  <2> QED
    BY <2>1 DEF Inv, LastSound, TableKept
<1> QED
  BY <1>1, <1>4, <1>5, <1>6, <1>7, <1>8, <1>9, <1>10, <1>11, <1>12, <1>13 DEF Inv

(* Changing one slot.                                                      *)
LEMMA SlotUpdate ==
    ASSUME NEW tab \in Seq(SlotRecords), NEW s \in 1..Len(tab), NEW r \in SlotRecords,
           NEW new, new = [tab EXCEPT ![s] = r]
    PROVE  /\ new \in Seq(SlotRecords) /\ Len(new) = Len(tab)
           /\ new[s] = r /\ \A t \in 1..Len(tab) : t # s => new[t] = tab[t]
OBVIOUS

(* Marking jobs as waited for changes nothing else.                        *)
LEMMA MarkingKeeps ==
    ASSUME NEW tab \in Seq(SlotRecords), NEW marked, marked = MarkWaited(tab)
    PROVE  /\ marked \in Seq(SlotRecords) /\ Len(marked) = Len(tab)
           /\ \A s \in 1..Len(tab) : /\ marked[s].state = tab[s].state
                                     /\ marked[s].procs = tab[s].procs
<1>1. DOMAIN tab = 1..Len(tab) /\ Len(tab) \in Nat /\ \A s \in 1..Len(tab) : tab[s] \in SlotRecords
  OBVIOUS
<1> DEFINE running == SelectInSeq(order, LAMBDA s : tab[s].state = "running")
           passed == IF running = 0 THEN Len(order) ELSE running - 1
           Passed(s) == \E i \in 1..passed : order[i] = s
<1>2. marked = [s \in DOMAIN tab |-> IF Passed(s) THEN [tab[s] EXCEPT !.waited = TRUE] ELSE tab[s]]
  BY DEF MarkWaited
<1> HIDE DEF Passed
<1>3. \A r \in SlotRecords : LET w == [r EXCEPT !.waited = TRUE]
                             IN  w \in SlotRecords /\ w.state = r.state /\ w.procs = r.procs
  BY DEF SlotRecords
<1>4. \A s \in 1..Len(tab) : /\ marked[s] \in SlotRecords
                             /\ marked[s].state = tab[s].state /\ marked[s].procs = tab[s].procs
  BY <1>1, <1>2, <1>3
<1>5. marked \in Seq(SlotRecords) /\ Len(marked) = Len(tab)
  <2>1. marked \in [1..Len(tab) -> SlotRecords]
    BY <1>1, <1>2, <1>4
  <2> QED
    BY <1>1, <2>1
<1> QED
  BY <1>4, <1>5

LEMMA TableUnchanged ==
    ASSUME Inv, UNCHANGED <<iflag, jobtab, order, jobless, child, owner, truth>>
    PROVE  TableKept
BY DEF Inv, TableTypes, TableKept

(* The least member of a set of numbers.                                   *)
LEMMA LeastElement ==
    ASSUME NEW T \in SUBSET Nat, T # {}
    PROVE  \E m \in T : \A n \in T : m <= n
<1>1. PICK m \in T : \A n \in T : <<n, m>> \notin OpToRel(<, Nat)
  BY NatLessThanWellFounded, WFMin
<1>2. \A n \in T : ~(n < m)
  BY <1>1 DEF OpToRel
<1> QED
  BY <1>2

(* `wait' is only ever given jobs of the list.                             *)
LEMMA NamedJobsAreUsed ==
    ASSUME Inv, NEW s, \/ s \in Slots /\ s \in NamedByNumber(s) \cup NamedBySign
                       \/ \E p \in Pids : s \in NamedByPid(p)
    PROVE  s \in Slots /\ Used(s)
<1>1. order \in Seq(Slots) /\ \A i \in 1..Len(order) : order[i] \in Slots /\ Used(order[i])
  <2>1. order \in Seq(Slots) /\ ToSet(order) = {t \in Slots : Used(t)}
    BY DEF Inv, TableTypes, OrderSound
  <2>2. DOMAIN order = 1..Len(order)
    BY <2>1
  <2> QED
    BY <2>1, <2>2 DEF ToSet
<1>2. Len(order) \in Nat
  BY <1>1
<1>3. CASE s \in Slots /\ s \in NamedByNumber(s)
  BY <1>3 DEF NamedByNumber
<1>4. CASE s \in NamedBySign
  <2>1. \A i \in 1..(IF Len(order) < 2 THEN Len(order) ELSE 2) : i \in 1..Len(order)
    BY <1>2
  <2> QED
    BY <1>1, <1>4, <2>1 DEF NamedBySign
<1>5. CASE \E p \in Pids : s \in NamedByPid(p)
  <2>1. PICK p \in Pids : s \in NamedByPid(p)
    BY <1>5
  <2> DEFINE last(t) == jobtab[t].procs # <<>> /\ Last(jobtab[t].procs).pid = p
             I == {i \in 1..Len(order) : last(order[i])}
             sure == SelectInSeq(order, last)
  <2>2. sure = IF I # {} THEN Min(I) ELSE 0
    BY DEF SelectInSeq
  <2>3. I # {} => sure \in I
    <3> SUFFICES ASSUME I # {}
                 PROVE  Min(I) \in I
      BY <2>2
    <3>1. I \in SUBSET Nat
      BY <1>2
    <3> HIDE DEF I
    <3> QED
      BY <3>1, LeastElement DEF Min
  <2>4. sure \in 0..Len(order)
    <3>1. \A i \in I : i \in 0..Len(order)
      BY <1>2
    <3>2. sure = 0 \/ sure \in I
      <4> HIDE DEF I, sure
      <4>1. CASE I # {}
        BY <2>3, <4>1
      <4>2. CASE I = {}
        BY <2>2, <4>2
      <4> QED
        BY <4>1, <4>2
    <3>3. 0 \in 0..Len(order)
      BY <1>2
    <3> HIDE DEF I, sure
    <3> QED
      BY <3>1, <3>2, <3>3
  <2>5. /\ s \in {order[i] : i \in 1..(IF sure = 0 THEN Len(order) ELSE sure - 1)}
                    \cup (IF sure = 0 THEN {} ELSE {order[sure]})
    BY <2>1 DEF NamedByPid
  <2> HIDE DEF sure
  <2> QED
    BY <1>1, <1>2, <2>4, <2>5
<1> QED
  BY <1>3, <1>4, <1>5

\* Forks do not fail.  pipe() may, in a shell that ends then: one that is not
\* interactive, with no builtin around the pipeline to catch the error.
Reliable ==
    /\ "fork" \notin Failures
    /\ "pipe" \in Failures => ~CommandCatches /\ TRUE \notin Interactive

\* Actions that leave the jobs as they are.
Quiet ==
    \/ WaitRefused \/ WaitAll \/ WaitUnknown \/ Exit
    \/ \E s \in Slots : s \in NamedByNumber(s) \cup NamedBySign /\ WaitFor(s)
    \/ \E p \in Pids : \E s \in NamedByPid(p) : WaitFor(s)
    \/ WaitOneDone \/ WaitAllDone
    \/ NoChildLeft \/ EndCommand \/ PipeFails \/ Spin \/ SignalNext \/ Ended

LEMMA WaitForKeeps ==
    ASSUME Inv, NEW s, WaitFor(s), s \in Slots, Used(s)
    PROVE  TableKept /\ ControlKept
<1>1. TableKept
  BY TableUnchanged DEF WaitFor, levelVars, tableVars, kernelVars
<1>2. Used(cur')
  BY DEF WaitFor
<1> QED
  BY <1>1, <1>2 DEF WaitFor, ControlKept, States

LEMMA QuietKeeps ==
    ASSUME Inv, Reliable, Quiet
    PROVE  TableKept /\ ControlKept
<1> USE DEF levelVars, tableVars, kernelVars, launchVars, signalVars, trapVars
<1>1. pc \in States /\ iflag \in Interactive
  BY DEF Inv, TableTypes
<1>2. CASE WaitRefused \/ WaitUnknown \/ Exit \/ WaitAllDone \/ EndCommand
  <2>1. TableKept
    BY <1>2, TableUnchanged DEF WaitRefused, WaitUnknown, Exit, WaitAllDone, EndCommand
  <2>2. ControlKept
    BY <1>2 DEF WaitRefused, WaitUnknown, Exit, WaitAllDone, EndCommand, ControlKept, States
  <2> QED
    BY <2>1, <2>2
<1>3. CASE WaitAll
  <2>1. jobtab \in Seq(SlotRecords)
    BY DEF Inv, TableTypes
  <2>2. jobtab' = MarkWaited(jobtab)
    BY <1>3 DEF WaitAll
  <2>3. TableKept
    BY <1>3, <2>1, <2>2, MarkingKeeps DEF WaitAll, TableKept, Slots
  <2>4. ControlKept
    BY <1>3 DEF WaitAll, ControlKept, States
  <2> QED
    BY <2>3, <2>4
<1>4. CASE \E s \in Slots : s \in NamedByNumber(s) \cup NamedBySign /\ WaitFor(s)
  BY <1>4, NamedJobsAreUsed, WaitForKeeps
<1>5. CASE \E p \in Pids : \E s \in NamedByPid(p) : WaitFor(s)
  BY <1>5, NamedJobsAreUsed, WaitForKeeps
<1>6. CASE WaitOneDone
  <2>1. jobtab \in Seq(SlotRecords) /\ cur \in Slots
    BY <1>6 DEF Inv, TableTypes, WaitSound, WaitOneDone
  <2>2. jobtab' = [jobtab EXCEPT ![cur].waited = TRUE]
    BY <1>6 DEF WaitOneDone
  <2>3. /\ jobtab' \in Seq(SlotRecords) /\ Len(jobtab') = Len(jobtab)
        /\ \A s \in Slots : jobtab'[s].state = jobtab[s].state /\ jobtab'[s].procs = jobtab[s].procs
    <3>1. jobtab' = [jobtab EXCEPT ![cur] = [jobtab[cur] EXCEPT !.waited = TRUE]]
      BY <2>2
    <3>2. jobtab[cur] \in SlotRecords
      BY <2>1 DEF Slots
    <3> DEFINE r == [jobtab[cur] EXCEPT !.waited = TRUE]
    <3>3. r \in SlotRecords /\ r.state = jobtab[cur].state /\ r.procs = jobtab[cur].procs
      BY <3>2 DEF SlotRecords
    <3> HIDE DEF r
    <3>4. jobtab' = [jobtab EXCEPT ![cur] = r]
      BY <3>1 DEF r
    <3> QED
      BY <2>1, <3>3, <3>4, SlotUpdate DEF Slots
  <2>4. TableKept
    BY <1>6, <2>3 DEF WaitOneDone, TableKept
  <2>5. ControlKept
    BY <1>6 DEF WaitOneDone, ControlKept, States
  <2> QED
    BY <2>4, <2>5
<1>7. CASE NoChildLeft
  <2>1. TableKept
    BY <1>7, TableUnchanged DEF NoChildLeft
  <2>2. ControlKept
    BY <1>7 DEF NoChildLeft, RaiseExsig, Raise, ToMain, StillWaiting, Waiting, ControlKept, States
  <2> QED
    BY <2>1, <2>2
<1>8. CASE PipeFails
  <2>1. TableKept
    BY <1>8, TableUnchanged DEF PipeFails
  <2>2. iflag = FALSE
    BY <1>1, <1>8, JobsAssumption DEF PipeFails, Reliable
  <2>3. pc' = "ended"
    BY <1>8, <2>2 DEF PipeFails, Error, Raise, ToMain, Reliable
  <2> QED
    BY <1>8, <2>1, <2>3 DEF PipeFails, ControlKept, States
<1>9. CASE Spin \/ Ended
  <2>1. UNCHANGED vars
    BY <1>9 DEF Spin, Ended
  <2>2. TableKept
    BY <2>1, TableUnchanged DEF vars
  <2>3. pc' = pc /\ cur' = cur /\ left' = left /\ jobtab' = jobtab
    BY <2>1 DEF vars
  <2>4. ControlKept
    BY <1>1, <2>3 DEF ControlKept, Inv, WaitSound, Used, Slots
  <2> QED
    BY <2>2, <2>4
<1>10. CASE SignalNext
  <2>1. PICK sig \in TrappedSignals \cup {SigInt} : SignalArrives(sig) \/ SignalWakes(sig)
    BY <1>10 DEF SignalNext
  <2>2. TableKept
    BY <2>1, TableUnchanged DEF SignalArrives, SignalWakes
  <2>3. CASE SignalWakes(sig)
    BY <2>2, <2>3
       DEF SignalWakes, RaiseExsig, Raise, ToMain, StillWaiting, Waiting, ControlKept, States
  <2>4. CASE SignalArrives(sig)
    <3>1. CASE UNCHANGED <<pc, cur, left>>
      <4>1. Used(cur') <=> Used(cur)
        BY <2>4, <3>1 DEF SignalArrives, Used
      <4> QED
        BY <1>1, <2>2, <3>1, <4>1 DEF ControlKept, Inv, WaitSound
    <3>2. CASE ~UNCHANGED <<pc, cur, left>>
      <4>1. pc \notin {"fork", "reap", "ended"} /\ pc' \in {"idle", "ended"}
        BY <2>4, <3>2 DEF SignalArrives, ToMain, Suppressed
      <4> QED
        BY <2>2, <4>1 DEF ControlKept, States
    <3> QED
      BY <3>1, <3>2
  <2> QED
    BY <2>1, <2>3, <2>4
<1> QED
  BY <1>2, <1>3, <1>4, <1>5, <1>6, <1>7, <1>8, <1>9, <1>10 DEF Quiet

-----------------------------------------------------------------------------
(***************************************************************************)
(* Reaping a child.                                                        *)
(***************************************************************************)
(* A job that expects a child is running, and is in the list.              *)
LEMMA ExpectingJobRuns ==
    ASSUME Inv, NEW s \in Slots, NEW p, Expects(s, p)
    PROVE  JobRunning(s) /\ Lists(s, p) /\ s \in ToSet(order)
<1>1. jobtab[s] \in SlotRecords
  BY DEF Inv, TableTypes, Slots
<1>2. jobtab[s].state \in {"free", "running", "done"}
  BY <1>1 DEF SlotRecords
<1>3. PICK i \in DOMAIN jobtab[s].procs : jobtab[s].procs[i].pid = p /\ Awaited(s, i)
  BY DEF Expects
<1>4. jobtab[s].procs # <<>>
  BY <1>3
<1>5. SlotSound(s)
  BY DEF Inv
<1>6. JobRunning(s)
  BY <1>2, <1>3, <1>4, <1>5 DEF SlotSound, JobRunning, JobDone
<1> QED
  BY <1>3, <1>6 DEF Inv, OrderSound, Used, JobRunning, Lists

(* While the shell waits, dowait finds a process in the job it was forked  *)
(* for, and one that was forked for no job in none.                        *)
LEMMA FindsOwner ==
    ASSUME Inv, pc \in {"fg", "waitone", "waitall", "reap"}, NEW p \in Pids, IsZombie(p)
    PROVE  Finders(p) = {owner[p].job}
<1> DEFINE Hit(s) == JobRunning(s) /\ Lists(s, p)
           I == {i \in 1..Len(order) : Hit(order[i])}
           sure == SelectInSeq(order, LAMBDA s : JobRunning(s) /\ Lists(s, p))
           before == IF sure = 0 THEN Len(order) ELSE sure - 1
           maybe == {s \in {order[i] : i \in 1..before} : JobRunning(s) /\ jobtab[s].procs = <<>>}
           o == owner[p].job
<1>1. order \in Seq(Slots) /\ Len(order) \in Nat /\ DOMAIN order = 1..Len(order)
  BY DEF Inv, TableTypes
<1>2. \A i \in 1..Len(order) : order[i] \in Slots /\ Used(order[i])
  BY <1>1 DEF Inv, OrderSound, ToSet
<1>3. child[p] # None
  BY DEF IsZombie
<1>4. sure = IF I # {} THEN Min(I) ELSE 0
  BY DEF SelectInSeq
<1>5. Finders(p) = maybe \cup {IF sure = 0 THEN 0 ELSE order[sure]}
  BY DEF Finders, SearchList
<1>6. \A s \in Slots : Used(s) => jobtab[s].procs # <<>>
  BY DEF Inv, SlotSound, Forming
<1>7. sure \in 0..Len(order) => maybe = {}
  <2> SUFFICES ASSUME sure \in 0..Len(order), NEW i \in 1..before
               PROVE  jobtab[order[i]].procs # <<>>
    OBVIOUS
  <2> HIDE DEF sure
  <2>1. i \in 1..Len(order)
    BY <1>1
  <2> QED
    BY <1>2, <1>6, <2>1
<1> HIDE DEF maybe, sure
<1>8. CASE o = 0
  <2>1. ASSUME NEW i \in I
        PROVE  FALSE
    <3>1. order[i] \in Slots /\ order[i] # o
      BY <1>2, <1>8 DEF Slots
    <3> QED
      BY <1>3, <1>8, <3>1 DEF Inv, ShadowSound
  <2>2. sure = 0
    BY <1>4, <2>1
  <2> QED
    BY <1>1, <1>5, <1>7, <1>8, <2>2
<1>9. CASE o # 0
  <2>1. o \in Slots /\ Expects(o, p)
    BY <1>3, <1>9 DEF Inv, KernelSound
  <2>2. Hit(o) /\ o \in ToSet(order)
    BY <2>1, ExpectingJobRuns
  <2>3. PICK k \in 1..Len(order) : order[k] = o
    BY <1>1, <2>2 DEF ToSet
  <2>4. ASSUME NEW i \in I
        PROVE  k <= i
    <3>1. CASE order[i] = o
      <4>1. i = k
        BY <1>1, <2>3, <3>1 DEF Inv, OrderSound, IsInjective
      <4> QED
        BY <1>1, <4>1
    <3>2. CASE order[i] # o
      <4>1. Precedes(order, o, order[i])
        BY <1>2, <1>3, <3>2 DEF Inv, ShadowSound
      <4>2. PICK a \in DOMAIN order, b \in DOMAIN order : a < b /\ order[a] = o /\ order[b] = order[i]
        BY <4>1 DEF Precedes
      <4>3. a = k /\ b = i
        BY <1>1, <2>3, <4>2 DEF Inv, OrderSound, IsInjective
      <4> QED
        BY <1>1, <4>2, <4>3
    <3> QED
      BY <3>1, <3>2
  <2>5. k \in I /\ I \subseteq Nat
    BY <1>1, <2>2, <2>3
  <2> HIDE DEF I
  <2>6. sure = k
    BY <1>4, <2>4, <2>5, FirstPlace
  <2>7. sure # 0 /\ sure \in 0..Len(order)
    BY <1>1, <2>6
  <2> QED
    BY <1>5, <1>7, <2>3, <2>6, <2>7
<1> QED
  BY <1>8, <1>9

\* The job of slot s gets the status of the child p; no other job does.
JobReaped(s, p) ==
    /\ jobtab' \in Seq(SlotRecords) /\ Len(jobtab') = Len(jobtab)
    /\ \A t \in Slots :
          /\ DOMAIN jobtab'[t].procs = DOMAIN jobtab[t].procs
          /\ Len(jobtab'[t].procs) = Len(jobtab[t].procs)
          /\ \A i \in DOMAIN jobtab[t].procs :
                /\ jobtab'[t].procs[i].pid = jobtab[t].procs[i].pid
                /\ jobtab'[t].procs[i].status =
                      IF t = s /\ jobtab[t].procs[i].pid = p THEN child[p]
                      ELSE jobtab[t].procs[i].status
          /\ t # s => jobtab'[t].state = jobtab[t].state
    /\ s # 0 => jobtab'[s].state =
                  IF \E i \in DOMAIN jobtab[s].procs : jobtab'[s].procs[i].status = Unreaped
                  THEN "running" ELSE "done"

\* The processes of a job, and the table, after p was reaped for slot s.
ProcsAfter(s, p) ==
    [i \in DOMAIN jobtab[s].procs |->
        IF jobtab[s].procs[i].pid = p THEN [pid |-> p, status |-> child[p]]
        ELSE jobtab[s].procs[i]]

TableAfter(s, p) ==
    [jobtab EXCEPT ![s].procs = ProcsAfter(s, p), ![s].state = StateOf(ProcsAfter(s, p))]

LEMMA ReapGivesStatus ==
    ASSUME Inv, pc \in {"fg", "waitone", "waitall", "reap"}, NEW p \in Pids, Reap(p)
    PROVE  /\ JobReaped(owner[p].job, p)
           /\ jobless' = IF owner[p].job = 0 THEN jobless - 1 ELSE jobless
<1> DEFINE s == owner[p].job
           procs == ProcsAfter(s, p)
           r == [[jobtab[s] EXCEPT !.procs = procs] EXCEPT !.state = StateOf(procs)]
           tab == TableAfter(s, p)
<1>0. \E t \in Finders(p) :
         IF t = 0 THEN jobless' = jobless - 1 /\ jobtab' = jobtab
         ELSE /\ jobtab' = IF pc = "waitall" THEN MarkWaited(TableAfter(t, p)) ELSE TableAfter(t, p)
              /\ jobless' = jobless
  BY DEF Reap, ProcsAfter, TableAfter
<1>1. IsZombie(p) /\ Finders(p) = {s}
  BY FindsOwner DEF Reap
<1>2. jobtab \in Seq(SlotRecords)
  BY DEF Inv, TableTypes
<1>3. CASE s = 0
  <2>1. jobless' = jobless - 1 /\ jobtab' = jobtab
    BY <1>0, <1>1, <1>3
  <2> QED
    BY <1>2, <1>3, <2>1 DEF JobReaped, Slots
<1>4. CASE s # 0
  <2>1. jobless' = jobless /\ jobtab' = IF pc = "waitall" THEN MarkWaited(tab) ELSE tab
    BY <1>0, <1>1, <1>4
  <2>2. s \in Slots
    BY <1>1, <1>4 DEF Inv, KernelSound, IsZombie
  <2>3. jobtab[s] \in SlotRecords /\ jobtab[s].procs \in Seq(Procs)
    <3>1. jobtab[s] \in SlotRecords
      BY <1>2, <2>2 DEF Slots
    <3> QED
      BY <3>1 DEF SlotRecords
  <2>4. child[p] \in WaitStatuses
    BY <1>1 DEF Inv, TableTypes, IsZombie
  <2>5. /\ procs \in Seq(Procs) /\ Len(procs) = Len(jobtab[s].procs)
        /\ DOMAIN procs = DOMAIN jobtab[s].procs
        /\ \A i \in DOMAIN jobtab[s].procs :
              /\ procs[i].pid = jobtab[s].procs[i].pid
              /\ procs[i].status = IF jobtab[s].procs[i].pid = p THEN child[p]
                                   ELSE jobtab[s].procs[i].status
    <3>1. \A i \in DOMAIN jobtab[s].procs : jobtab[s].procs[i] \in Procs
      BY <2>3
    <3>2. \A i \in DOMAIN jobtab[s].procs : procs[i] \in Procs
      BY <2>4, <3>1 DEF Procs, ProcsAfter
    <3>3. DOMAIN jobtab[s].procs = 1..Len(jobtab[s].procs) /\ Len(jobtab[s].procs) \in Nat
      BY <2>3
    <3>4. procs \in [1..Len(jobtab[s].procs) -> Procs]
      BY <3>2, <3>3 DEF ProcsAfter
    <3>5. procs \in Seq(Procs) /\ Len(procs) = Len(jobtab[s].procs)
      BY <3>3, <3>4
    <3> QED
      BY <3>5 DEF ProcsAfter
  <2> HIDE DEF procs
  <2>6. StateOf(procs) \in {"free", "running", "done"}
    BY DEF StateOf
  <2>7. /\ r \in SlotRecords /\ r.procs = procs /\ r.state = StateOf(procs)
    BY <2>3, <2>5, <2>6 DEF SlotRecords
  <2>8. tab = [jobtab EXCEPT ![s] = r]
    <3> DEFINE mid == [jobtab EXCEPT ![s].procs = procs]
    <3>1. mid = [jobtab EXCEPT ![s] = [jobtab[s] EXCEPT !.procs = procs]]
      OBVIOUS
    <3>2. s \in DOMAIN jobtab
      BY <1>2, <2>2 DEF Slots
    <3>3. mid[s] = [jobtab[s] EXCEPT !.procs = procs]
      BY <3>1, <3>2
    <3>4. tab = [mid EXCEPT ![s].state = StateOf(procs)]
      BY DEF TableAfter, procs
    <3>5. tab = [mid EXCEPT ![s] = [mid[s] EXCEPT !.state = StateOf(procs)]]
      BY <3>4
    <3>6. tab = [mid EXCEPT ![s] = r]
      BY <3>3, <3>5
    <3> QED
      BY <3>1, <3>2, <3>6
  <2> HIDE DEF r, tab
  <2>9. /\ tab \in Seq(SlotRecords) /\ Len(tab) = Len(jobtab)
        /\ tab[s] = r /\ \A t \in Slots : t # s => tab[t] = jobtab[t]
    BY <1>2, <2>2, <2>7, <2>8, SlotUpdate DEF Slots
  <2>10. /\ jobtab' \in Seq(SlotRecords) /\ Len(jobtab') = Len(tab)
         /\ \A t \in 1..Len(tab) : jobtab'[t].state = tab[t].state /\ jobtab'[t].procs = tab[t].procs
    BY <2>1, <2>9, MarkingKeeps
  <2>11. /\ jobtab' \in Seq(SlotRecords) /\ Len(jobtab') = Len(jobtab)
         /\ jobtab'[s].state = StateOf(procs) /\ jobtab'[s].procs = procs
         /\ \A t \in Slots : t # s => /\ jobtab'[t].state = jobtab[t].state
                                      /\ jobtab'[t].procs = jobtab[t].procs
    BY <2>2, <2>7, <2>9, <2>10 DEF Slots
  <2>12. JobReaped(s, p)
    BY <2>5, <2>11 DEF JobReaped, StateOf
  <2> QED
    BY <1>4, <2>1, <2>12
<1> QED
  BY <1>3, <1>4

(* What the other parts of the invariant see of a reaped child.            *)
LEMMA ReapEffect ==
    ASSUME Inv, NEW p \in Pids, IsZombie(p), JobReaped(owner[p].job, p), NEW t \in Slots
    PROVE  /\ Slots' = Slots
           /\ PidsOf(jobtab[t])' = PidsOf(jobtab[t])
           /\ \A q : Lists(t, q)' <=> Lists(t, q)
           /\ \A q : Expects(t, q)' <=> Expects(t, q) /\ q # p
           /\ Used(t)' <=> Used(t)
           /\ JobRunning(t)' => JobRunning(t)
           /\ \A i \in DOMAIN jobtab[t].procs : Awaited(t, i)' <=>
                 Awaited(t, i) /\ jobtab[t].procs[i].pid # p
           /\ t # owner[p].job => \A i \in DOMAIN jobtab[t].procs :
                 jobtab'[t].procs[i] = jobtab[t].procs[i] /\ (Awaited(t, i)' <=> Awaited(t, i))
<1> DEFINE s == owner[p].job
<1>1. child[p] \in WaitStatuses /\ child[p] # Unreaped /\ child[p] # None
  <2>1. child[p] \in WaitStatuses /\ child[p] # None
    BY DEF Inv, TableTypes, IsZombie
  <2> QED
    BY <2>1, JobsAssumption DEF Unreaped
<1>2. Slots' = Slots
  BY DEF JobReaped, Slots
<1>3. /\ DOMAIN jobtab'[t].procs = DOMAIN jobtab[t].procs
      /\ \A i \in DOMAIN jobtab[t].procs :
            /\ jobtab'[t].procs[i].pid = jobtab[t].procs[i].pid
            /\ jobtab'[t].procs[i].status =
                  IF t = s /\ jobtab[t].procs[i].pid = p THEN child[p]
                  ELSE jobtab[t].procs[i].status
  BY DEF JobReaped
<1>4. PidsOf(jobtab[t])' = PidsOf(jobtab[t]) /\ \A q : Lists(t, q)' <=> Lists(t, q)
  BY <1>3 DEF PidsOf, Lists
<1>5. \A i \in DOMAIN jobtab[t].procs : jobtab[t].procs[i].pid = p /\ Awaited(t, i) => t = s
  BY DEF Inv, KernelSound, Expects
<1>6. \A i \in DOMAIN jobtab[t].procs :
         Awaited(t, i)' <=> Awaited(t, i) /\ jobtab[t].procs[i].pid # p
  BY <1>1, <1>3, <1>5 DEF Awaited
<1>7. \A q : Expects(t, q)' <=> Expects(t, q) /\ q # p
  BY <1>3, <1>6 DEF Expects
<1>8. s = t => JobRunning(t)
  <2>1. s = t => Expects(t, p)
    BY <1>1 DEF Inv, KernelSound, Slots
  <2> QED
    BY <2>1, ExpectingJobRuns
<1>9. (Used(t)' <=> Used(t)) /\ (JobRunning(t)' => JobRunning(t))
  <2>1. CASE t # s
    BY <2>1 DEF JobReaped, Used, JobRunning
  <2>2. CASE t = s
    <3>1. Used(t)
      BY <1>8, <2>2 DEF Used, JobRunning
    <3>2. t # 0
      BY DEF Slots
    <3>3. Used(t)'
      BY <2>2, <3>2 DEF JobReaped, Used
    <3> QED
      BY <1>8, <2>2, <3>1, <3>3
  <2> QED
    BY <2>1, <2>2
<1>10. t # s => \A i \in DOMAIN jobtab[t].procs :
          jobtab'[t].procs[i] = jobtab[t].procs[i] /\ (Awaited(t, i)' <=> Awaited(t, i))
  <2> SUFFICES ASSUME t # s, NEW i \in DOMAIN jobtab[t].procs
               PROVE  jobtab'[t].procs[i] = jobtab[t].procs[i]
    BY DEF Awaited
  <2>1. jobtab[t] \in SlotRecords /\ jobtab'[t] \in SlotRecords
    BY <1>2 DEF Inv, TableTypes, JobReaped, Slots
  <2>2. jobtab[t].procs \in Seq(Procs) /\ jobtab'[t].procs \in Seq(Procs)
    BY <2>1 DEF SlotRecords
  <2>3. jobtab[t].procs[i] \in Procs /\ jobtab'[t].procs[i] \in Procs
    BY <1>3, <2>2
  <2> QED
    BY <1>3, <2>3 DEF Procs
<1> QED
  BY <1>2, <1>4, <1>6, <1>7, <1>9, <1>10

(* Reaping takes one from the untracked children, or none.                 *)
UntrackedPids == {p \in Pids : child[p] # None /\ owner[p].job = 0}

LEMMA UntrackedIsFinite == IsFiniteSet(UntrackedPids) /\ Untracked = Cardinality(UntrackedPids)
                           /\ Untracked \in Nat
<1>1. UntrackedPids \in SUBSET Pids /\ IsFiniteSet(Pids)
  BY JobsAssumption DEF UntrackedPids
<1>2. IsFiniteSet(UntrackedPids)
  BY <1>1, FS_Subset
<1> QED
  BY <1>2, FS_CardinalityType DEF Untracked, UntrackedPids

LEMMA ReapStep ==
    ASSUME Inv, NEW p \in Pids, WaitStep(p) \/ ReapMore(p)
    PROVE  /\ Inv' /\ IsZombie(p) /\ JobReaped(owner[p].job, p)
           /\ UNCHANGED <<pc, cur, shlvl>>
<1> DEFINE s == owner[p].job
<1>1. /\ Reap(p) /\ pc \in {"fg", "waitone", "waitall", "reap"} /\ IsZombie(p)
      /\ UNCHANGED <<pc, iflag, shlvl, order, cur, left, truth>>
      /\ child' = [child EXCEPT ![p] = None]
      /\ owner' = [owner EXCEPT ![p] = NoOwner]
  BY DEF WaitStep, ReapMore, StillWaiting, Waiting, Reap, levelVars, launchVars
<1>2. JobReaped(s, p) /\ jobless' = IF s = 0 THEN jobless - 1 ELSE jobless
  BY <1>1, ReapGivesStatus
<1>3. Slots' = Slots
  BY <1>2 DEF JobReaped, Slots
<1>4. /\ child \in [Pids -> WaitStatuses \cup {None, Alive}]
      /\ owner \in [Pids -> [job : 0..MaxSlots, last : BOOLEAN]]
  BY DEF Inv, TableTypes
<1>5. /\ \A q \in Pids : child'[q] # None => q # p /\ child[q] # None
      /\ \A q \in Pids : q # p => child'[q] = child[q] /\ owner'[q] = owner[q]
      /\ child'[p] = None
  BY <1>1, <1>4
<1>6. \A t \in Slots : Used(t)' <=> Used(t)
  BY <1>1, <1>2, ReapEffect
<1>7. TableTypes'
  <2>1. NoOwner \in [job : 0..MaxSlots, last : BOOLEAN]
    BY JobsAssumption DEF NoOwner
  <2>2. /\ child' \in [Pids -> WaitStatuses \cup {None, Alive}]
        /\ owner' \in [Pids -> [job : 0..MaxSlots, last : BOOLEAN]]
    BY <1>1, <1>4, <2>1
  <2>3. jobless' \in Int
    BY <1>2 DEF Inv, TableTypes
  <2> QED
    BY <1>1, <1>2, <1>3, <2>2, <2>3 DEF Inv, TableTypes, JobReaped
<1>8. LaunchSound'
  BY <1>1 DEF LaunchSound
<1>9. WaitSound'
  <2> SUFFICES ASSUME pc \in {"fg", "waitone"}
               PROVE  (cur \in Slots /\ Used(cur))'
    BY <1>1 DEF WaitSound
  <2>1. cur \in Slots /\ Used(cur)
    BY DEF Inv, WaitSound
  <2>2. Used(cur)'
    BY <1>1, <1>6, <2>1 DEF Used
  <2> QED
    BY <1>1, <1>3, <2>1, <2>2
<1>10. ASSUME NEW t \in Slots
       PROVE  SlotSound(t)'
  <2>1. SlotSound(t) /\ jobtab[t] \in SlotRecords
    BY DEF Inv, TableTypes, Slots
  <2>2. IsInjective(PidsOf(jobtab[t])')
    BY <1>1, <1>2, <2>1, ReapEffect DEF SlotSound
  <2>3. JobDone(t)' => \A i \in DOMAIN jobtab'[t].procs : ~Awaited(t, i)'
    <3>1. CASE t # s
      BY <1>1, <1>2, <2>1, <3>1, ReapEffect DEF JobReaped, SlotSound, JobDone
    <3>2. CASE t = s
      <4>1. t # 0
        BY DEF Slots
      <4> QED
        BY <1>2, <3>2, <4>1 DEF JobReaped, JobDone, Awaited
    <3> QED
      BY <3>1, <3>2
  <2>4. jobtab'[t].procs = <<>> <=> jobtab[t].procs = <<>>
    <3>1. jobtab[t].procs \in Seq(Procs)
      BY <2>1 DEF SlotRecords
    <3>2. jobtab'[t] \in SlotRecords
      BY <1>2, <1>3 DEF JobReaped, Slots
    <3>3. jobtab'[t].procs \in Seq(Procs) /\ Len(jobtab'[t].procs) = Len(jobtab[t].procs)
      BY <1>2, <3>2 DEF SlotRecords, JobReaped
    <3> QED
      BY <3>1, <3>3
  <2>5. (jobtab'[t].state = "free") <=> (jobtab[t].state = "free")
    BY <1>6 DEF Used
  <2>6. Forming(t)' <=> Forming(t)
    BY <1>1 DEF Forming
  <2> QED
    BY <1>1, <1>6, <2>1, <2>2, <2>3, <2>4, <2>5, <2>6 DEF SlotSound, JobDone, Used
<1>11. KernelSound'
  <2>1. ASSUME NEW t \in Slots, NEW q \in Pids, Expects(t, q)'
        PROVE  child'[q] # None /\ owner'[q].job = t
    <3>1. Expects(t, q) /\ q # p
      BY <1>1, <1>2, <2>1, ReapEffect
    <3> QED
      BY <1>5, <3>1 DEF Inv, KernelSound
  <2>2. ASSUME NEW q \in Pids, child'[q] # None, owner'[q].job # 0
        PROVE  owner'[q].job \in Slots /\ Expects(owner[q].job, q)'
    <3>1. q # p /\ owner'[q] = owner[q] /\ child[q] # None
      BY <1>5, <2>2
    <3>2. owner[q].job \in Slots /\ Expects(owner[q].job, q)
      BY <2>2, <3>1 DEF Inv, KernelSound
    <3>3. PICK t \in Slots : t = owner[q].job /\ Expects(t, q)
      BY <3>2
    <3>4. Expects(t, q)'
      BY <1>1, <1>2, <3>1, <3>3, ReapEffect
    <3>5. (owner[q].job)' = t
      BY <3>1, <3>3
    <3>6. Expects(owner[q].job, q)'
      BY <3>4, <3>5 DEF Expects, Awaited
    <3> QED
      BY <3>3, <3>5, <3>6
  <2> QED
    BY <1>3, <2>1, <2>2 DEF KernelSound
<1>12. OrderSound'
  <2>1. {t \in Slots' : Used(t)'} = {t \in Slots : Used(t)}
    BY <1>3, <1>6
  <2> QED
    BY <1>1, <2>1 DEF Inv, OrderSound
<1>13. CountSound'
  <2>1. UntrackedPids' = UntrackedPids \ {p}
    BY <1>5 DEF UntrackedPids
  <2>2. Untracked' = IF p \in UntrackedPids THEN Untracked - 1 ELSE Untracked
    <3>1. IsFiniteSet(UntrackedPids) /\ Untracked = Cardinality(UntrackedPids)
      BY UntrackedIsFinite
    <3>2. Untracked' = Cardinality(UntrackedPids \ {p})
      BY <2>1 DEF Untracked, UntrackedPids
    <3> QED
      BY <3>1, <3>2, FS_RemoveElement
  <2>3. p \in UntrackedPids <=> s = 0
    BY <1>1 DEF UntrackedPids, IsZombie
  <2>4. Untracked \in Nat /\ jobless \in Int /\ jobless + (IF pc = "reap" THEN 1 ELSE 0) = Untracked
    BY UntrackedIsFinite DEF Inv, CountSound, TableTypes
  <2> QED
    BY <1>1, <1>2, <2>2, <2>3, <2>4 DEF CountSound
<1>14. ShadowSound'
  <2> SUFFICES ASSUME NEW q \in Pids, NEW t \in Slots, child'[q] # None, JobRunning(t)',
                      Lists(t, q)', owner'[q].job # t
               PROVE  owner'[q].job # 0 /\ Precedes(order, owner'[q].job, t)
    BY <1>1, <1>3 DEF ShadowSound
  <2>1. JobRunning(t) /\ Lists(t, q)
    BY <1>1, <1>2, ReapEffect
  <2> QED
    BY <1>5, <2>1 DEF Inv, ShadowSound
<1>15. ASSUME NEW t \in Slots
       PROVE  TruthSound(t)'
  <2>0a. PICK n : n = Len(jobtab[t].procs)
    OBVIOUS
  <2>0b. PICK q : q = jobtab[t].procs[n].pid
    OBVIOUS
  <2> SUFFICES ASSUME n > 0
               PROVE  IF Awaited(t, n)'
                      THEN owner'[q].last /\ (IsZombie(q)' => truth[t] = child'[q])
                      ELSE truth[t] = jobtab'[t].procs[n].status
    <3>1. jobtab[t] \in SlotRecords
      BY DEF Inv, TableTypes, Slots
    <3>2. DOMAIN jobtab[t].procs = 1..n /\ n \in Nat
      BY <2>0a, <3>1 DEF SlotRecords
    <3>3. n > 0 => n \in DOMAIN jobtab[t].procs
      BY <3>2
    <3>4. Len(jobtab'[t].procs) = n /\ (n > 0 => jobtab'[t].procs[n].pid = q)
      BY <1>2, <2>0a, <2>0b, <3>3 DEF JobReaped
    <3> QED
      BY <1>1, <3>4 DEF TruthSound
  <2>1. jobtab[t] \in SlotRecords /\ TruthSound(t) /\ SlotSound(t)
    BY DEF Inv, TableTypes, Slots
  <2>2. DOMAIN jobtab[t].procs = 1..n /\ n \in Nat /\ jobtab[t].procs \in Seq(Procs)
    BY <2>0a, <2>1 DEF SlotRecords
  <2>3. n \in DOMAIN jobtab[t].procs /\ q \in Pids
    <3>1. n \in DOMAIN jobtab[t].procs /\ jobtab[t].procs[n] \in Procs
      BY <2>2
    <3> QED
      BY <2>0b, <3>1 DEF Procs
  <2>4. IF Awaited(t, n) THEN owner[q].last /\ (IsZombie(q) => truth[t] = child[q])
                         ELSE truth[t] = jobtab[t].procs[n].status
    BY <1>1, <2>0a, <2>0b, <2>1 DEF TruthSound, Forming
  <2>5. /\ Awaited(t, n)' <=> Awaited(t, n) /\ q # p
        /\ jobtab'[t].procs[n].status =
              IF t = s /\ q = p THEN child[p] ELSE jobtab[t].procs[n].status
    <3>1. Awaited(t, n)' <=> Awaited(t, n) /\ q # p
      BY <1>1, <1>2, <2>0b, <2>3, ReapEffect
    <3>2. jobtab'[t].procs[n].status =
              IF t = s /\ q = p THEN child[p] ELSE jobtab[t].procs[n].status
      BY <1>2, <2>0b, <2>3 DEF JobReaped
    <3> QED
      BY <3>1, <3>2
  <2>6. CASE q # p
    <3>1. owner'[q] = owner[q] /\ child'[q] = child[q]
      BY <1>5, <2>3, <2>6
    <3> QED
      BY <2>4, <2>5, <2>6, <3>1 DEF IsZombie
  <2>7. CASE q = p /\ Awaited(t, n)
    <3>1. Expects(t, p)
      BY <2>0b, <2>3, <2>7 DEF Expects
    <3>2. t = s
      BY <3>1 DEF Inv, KernelSound
    <3>3. truth[t] = child[p]
      BY <1>1, <2>4, <2>7
    <3> QED
      BY <2>5, <2>7, <3>2, <3>3
  <2>8. CASE q = p /\ ~Awaited(t, n)
    <3>1. t # s
      <4> SUFFICES ASSUME t = s
                   PROVE  FALSE
        OBVIOUS
      <4>1. child[p] # None /\ s # 0
        BY <1>1 DEF IsZombie, Slots
      <4>2. Expects(t, p)
        BY <4>1 DEF Inv, KernelSound
      <4>3. PICK i \in DOMAIN jobtab[t].procs : jobtab[t].procs[i].pid = p /\ Awaited(t, i)
        BY <4>2 DEF Expects
      <4>4. i = n
        BY <2>0b, <2>1, <2>3, <2>8, <4>3 DEF SlotSound, PidsOf, IsInjective
      <4> QED
        BY <2>8, <4>3, <4>4
    <3> QED
      BY <2>4, <2>5, <2>8, <3>1
  <2>9. IF Awaited(t, n)'
        THEN owner'[q].last /\ (IsZombie(q)' => truth[t] = child'[q])
        ELSE truth[t] = jobtab'[t].procs[n].status
    BY <2>6, <2>7, <2>8
  <2> QED
    BY <2>9
<1>16. LastSound'
  <2> SUFFICES ASSUME NEW q \in Pids, child'[q] # None, owner'[q].last
               PROVE  /\ owner'[q].job # 0
                      /\ jobtab'[owner'[q].job].procs # <<>>
                      /\ Last(jobtab'[owner'[q].job].procs).pid = q
    BY DEF LastSound
  <2> DEFINE t == owner[q].job
  <2>1. q # p /\ owner'[q] = owner[q] /\ child[q] # None
    BY <1>5
  <2>2. t # 0 /\ t \in Slots /\ jobtab[t].procs # <<>> /\ Last(jobtab[t].procs).pid = q
    BY <2>1 DEF Inv, LastSound, KernelSound
  <2> HIDE DEF t
  <2>3. jobtab[t] \in SlotRecords /\ jobtab'[t] \in SlotRecords
    BY <1>2, <1>3, <2>2 DEF Inv, TableTypes, JobReaped, Slots
  <2>4. jobtab[t].procs \in Seq(Procs) /\ jobtab'[t].procs \in Seq(Procs)
    BY <2>3 DEF SlotRecords
  <2>5. Len(jobtab[t].procs) \in DOMAIN jobtab[t].procs
    BY <2>2, <2>4
  <2>6. /\ Len(jobtab'[t].procs) = Len(jobtab[t].procs)
        /\ jobtab'[t].procs[Len(jobtab[t].procs)].pid = q
    BY <1>2, <2>2, <2>5 DEF JobReaped, Last
  <2>7. jobtab'[t].procs # <<>>
    BY <2>2, <2>4, <2>6
  <2> QED
    BY <2>1, <2>2, <2>6, <2>7 DEF Last, t
<1> QED
  BY <1>1, <1>2, <1>3, <1>7, <1>8, <1>9, <1>10, <1>11, <1>12, <1>13, <1>14, <1>15, <1>16 DEF Inv

-----------------------------------------------------------------------------
(***************************************************************************)
(* A slot is freed, or taken for a new job.                                *)
(***************************************************************************)
\* Slot s has no process; the other slots, and the order of their jobs, stay.
SlotCleared(s) ==
    /\ jobtab' \in Seq(SlotRecords) /\ Len(jobtab') <= MaxSlots
    /\ Slots \subseteq Slots' /\ s \in Slots'
    /\ jobtab'[s].procs = <<>> /\ jobtab'[s].state \in {"free", "running"}
    /\ \A t \in Slots' : t # s => jobtab'[t] = IF t \in Slots THEN jobtab[t] ELSE EmptySlot
    /\ order' \in Seq(Slots') /\ IsInjective(order')
    /\ ToSet(order') = {t \in Slots' : Used(t)'}
    /\ \A t, u : t # s /\ u # s /\ Precedes(order, t, u) => Precedes(order', t, u)
    /\ UNCHANGED <<iflag, jobless, child, owner>>
    /\ truth' = [truth EXCEPT ![s] = None]

\* The job of the slot, if it is a new one, is about to be launched.
ControlMoves(s) ==
    /\ pc \notin {"fork", "reap", "ended"}
    /\ pc' \in States \ {"reap", "fg", "waitone"}
    /\ JobRunning(s)' => pc' = "fork"
    /\ pc' = "fork" => /\ cur' = s /\ JobRunning(s)' /\ left' \in 1..MaxPipe
                       /\ order' # <<>> /\ order'[1] = s

LEMMA ClearStep ==
    ASSUME Inv, NEW s, SlotCleared(s), ControlMoves(s),
           s \in Slots => \A p \in Pids : ~Expects(s, p)
    PROVE  Inv'
<1>1. \A t \in Slots' : t # s => IF t \in Slots THEN jobtab'[t] = jobtab[t]
                                                ELSE jobtab'[t] = EmptySlot
  BY DEF SlotCleared
<1>2. \A t \in Slots' : \A p :
         /\ Lists(t, p)' => t # s /\ t \in Slots /\ Lists(t, p)
         /\ Expects(t, p)' => t # s /\ t \in Slots /\ Expects(t, p)
  BY <1>1 DEF SlotCleared, Lists, Expects, Awaited, EmptySlot
<1>3. \A p \in Pids : child[p] # None => owner[p].job # s
  <2> SUFFICES ASSUME NEW p \in Pids, child[p] # None, owner[p].job = s
               PROVE  FALSE
    OBVIOUS
  <2>1. s # 0
    BY DEF SlotCleared, Slots
  <2> QED
    BY <2>1 DEF Inv, KernelSound
<1>4. TableTypes'
  <2>1. truth' \in [1..MaxSlots -> WaitStatuses \cup {None}]
    BY DEF Inv, TableTypes, SlotCleared
  <2> QED
    BY <2>1 DEF Inv, TableTypes, SlotCleared, ControlMoves
<1>5. LaunchSound'
  <2> SUFFICES ASSUME pc' = "fork"
               PROVE  LaunchSound'
    BY DEF LaunchSound
  <2>1. cur' = s /\ JobRunning(s)' /\ left' \in 1..MaxPipe /\ order' # <<>> /\ order'[1] = s
    BY DEF ControlMoves
  <2>2. \A p \in Pids : child'[p] # None /\ owner'[p].job = s => ~owner'[p].last
    BY <1>3 DEF SlotCleared
  <2>3. s \in Slots' /\ jobtab'[s].procs = <<>>
    BY DEF SlotCleared
  <2>4. JobRunning(cur)'
    BY <2>1 DEF JobRunning
  <2> QED
    BY <2>1, <2>2, <2>3, <2>4 DEF LaunchSound
<1>6. WaitSound'
  BY DEF WaitSound, ControlMoves
<1>7. ASSUME NEW t \in Slots'
      PROVE  SlotSound(t)' /\ TruthSound(t)'
  <2>1. CASE jobtab'[t].procs = <<>>
    <3>1. (t \in Slots /\ t # s) \/ ~Used(t)' \/ Forming(t)' \/ pc' = "ended"
      BY <1>1 DEF SlotCleared, ControlMoves, Used, JobRunning, Forming, EmptySlot
    <3>2. t \in Slots /\ t # s => SlotSound(t)
      BY DEF Inv
    <3>3. t \in Slots /\ t # s /\ Used(t)' => FALSE
      BY <1>1, <2>1, <3>2 DEF SlotSound, Used, Forming, ControlMoves
    <3>4. IsInjective(PidsOf(jobtab[t]))'
      BY <2>1 DEF IsInjective, PidsOf
    <3>5. SlotSound(t)'
      BY <2>1, <3>1, <3>3, <3>4 DEF SlotSound
    <3>6. TruthSound(t)'
      BY <2>1 DEF TruthSound
    <3> QED
      BY <3>5, <3>6
  <2>2. CASE jobtab'[t].procs # <<>>
    <3>1. t # s /\ t \in Slots /\ jobtab'[t] = jobtab[t]
      BY <1>1, <2>2 DEF SlotCleared, EmptySlot
    <3>2. SlotSound(t) /\ TruthSound(t)
      BY <3>1 DEF Inv
    <3>3. truth'[t] = truth[t]
      BY <3>1 DEF SlotCleared, Inv, TableTypes, Slots
    <3>4. SlotSound(t)'
      BY <2>2, <3>1, <3>2 DEF SlotSound, JobDone, Awaited, PidsOf
    <3>5. TruthSound(t)'
      BY <3>1, <3>2, <3>3 DEF TruthSound, Awaited, IsZombie, SlotCleared, ControlMoves, Forming
    <3> QED
      BY <3>4, <3>5
  <2> QED
    BY <2>1, <2>2
<1>8. KernelSound'
  <2>1. \A t \in Slots', p \in Pids : Expects(t, p)' => child'[p] # None /\ owner'[p].job = t
    BY <1>2 DEF Inv, KernelSound, SlotCleared
  <2>2. ASSUME NEW p \in Pids, child'[p] # None, owner'[p].job # 0
        PROVE  (owner[p].job \in Slots /\ Expects(owner[p].job, p))'
    <3>1. child[p] # None /\ owner[p].job # 0 /\ owner' = owner
      BY <2>2 DEF SlotCleared
    <3>2. owner[p].job \in Slots /\ Expects(owner[p].job, p) /\ owner[p].job # s
      BY <1>3, <3>1 DEF Inv, KernelSound
    <3>3. owner[p].job \in Slots' /\ jobtab'[owner[p].job] = jobtab[owner[p].job]
      BY <1>1, <3>2 DEF SlotCleared
    <3> QED
      BY <3>1, <3>2, <3>3 DEF Expects, Awaited
  <2> QED
    BY <2>1, <2>2 DEF KernelSound
<1>9. OrderSound'
  BY DEF OrderSound, SlotCleared
<1>10. CountSound'
  BY DEF Inv, CountSound, Untracked, SlotCleared, ControlMoves
<1>11. ShadowSound'
  <2> SUFFICES ASSUME NEW p \in Pids, NEW t \in Slots', child[p] # None, JobRunning(t)',
                      Lists(t, p)', owner[p].job # t
               PROVE  owner[p].job # 0 /\ Precedes(order', owner[p].job, t)
    BY DEF ShadowSound, SlotCleared
  <2>1. t # s /\ t \in Slots /\ Lists(t, p) /\ jobtab'[t] = jobtab[t]
    BY <1>1, <1>2
  <2>2. JobRunning(t)
    BY <2>1 DEF JobRunning
  <2>3. owner[p].job # 0 /\ Precedes(order, owner[p].job, t)
    BY <2>1, <2>2 DEF Inv, ShadowSound
  <2> QED
    BY <1>3, <2>1, <2>3 DEF SlotCleared
<1>12. LastSound'
  <2> SUFFICES ASSUME NEW p \in Pids, child[p] # None, owner[p].last
               PROVE  /\ owner[p].job # 0
                      /\ jobtab'[owner[p].job].procs # <<>>
                      /\ Last(jobtab'[owner[p].job].procs).pid = p
    BY DEF LastSound, SlotCleared
  <2>1. owner[p].job # 0 /\ owner[p].job \in Slots /\ owner[p].job # s
    BY <1>3 DEF Inv, LastSound, KernelSound
  <2>2. jobtab'[owner[p].job] = jobtab[owner[p].job]
    BY <1>1, <2>1 DEF SlotCleared
  <2> QED
    BY <2>1, <2>2 DEF Inv, LastSound
<1> QED
  BY <1>4, <1>5, <1>6, <1>7, <1>8, <1>9, <1>10, <1>11, <1>12 DEF Inv

LEMMA EmptySlots == EmptySlot \in SlotRecords /\ [EmptySlot EXCEPT !.state = "running"] \in SlotRecords
<1>1. <<>> \in Seq(Procs)
  OBVIOUS
<1> QED
  BY <1>1 DEF EmptySlot, SlotRecords

(* makejob takes a slot that expects no child.                             *)
LEMMA NewSlotIsFree ==
    ASSUME Inv
    PROVE  /\ Grown \in Seq(SlotRecords) /\ Slots \subseteq 1..Len(Grown)
           /\ \A t \in 1..Len(Grown) : Grown[t] = IF t \in Slots THEN jobtab[t] ELSE EmptySlot
           /\ NewSlot \in 1..Len(Grown)
           /\ NewSlot \in Slots => NewSlot \in Reusable
<1>1. jobtab \in Seq(SlotRecords) /\ Len(jobtab) \in Nat
  BY DEF Inv, TableTypes
<1>2. CASE Reusable = {}
  <2> DEFINE four == <<EmptySlot, EmptySlot, EmptySlot, EmptySlot>>
  <2>1. Grown = jobtab \o four /\ NewSlot = Len(jobtab) + 1
    BY <1>2 DEF Grown, NewSlot
  <2>2. /\ four \in Seq(SlotRecords) /\ Len(four) = 4
        /\ \A i \in 1..4 : four[i] = EmptySlot
    <3>1. \A e \in SlotRecords : /\ <<e, e, e, e>> \in Seq(SlotRecords)
                                 /\ Len(<<e, e, e, e>>) = 4
                                 /\ \A i \in 1..4 : <<e, e, e, e>>[i] = e
      OBVIOUS
    <3> QED
      BY <3>1, EmptySlots
  <2> HIDE DEF four
  <2>3. Grown \in Seq(SlotRecords) /\ Len(Grown) = Len(jobtab) + 4
    <3>1. four \in Seq(SlotRecords)
      BY <2>2
    <3>2. Grown \in Seq(SlotRecords) /\ Len(Grown) = Len(jobtab) + Len(four)
      BY <1>1, <2>1, <3>1
    <3> QED
      BY <2>2, <3>2
  <2>4. \A t \in 1..Len(Grown) : Grown[t] = IF t \in 1..Len(jobtab) THEN jobtab[t]
                                            ELSE four[t - Len(jobtab)]
    BY <1>1, <2>1, <2>2
  <2>5. \A t \in 1..Len(Grown) : t \notin 1..Len(jobtab) => t - Len(jobtab) \in 1..4
    BY <1>1, <2>3
  <2>6. \A t \in 1..Len(Grown) : Grown[t] = IF t \in Slots THEN jobtab[t] ELSE EmptySlot
    BY <2>2, <2>4, <2>5 DEF Slots
  <2>7. NewSlot \in 1..Len(Grown) /\ NewSlot \notin Slots
    BY <1>1, <2>1, <2>3 DEF Slots
  <2>8. Slots \subseteq 1..Len(Grown)
    BY <1>1, <2>3 DEF Slots
  <2> QED
    BY <2>3, <2>6, <2>7, <2>8
<1>3. CASE Reusable # {}
  <2>1. Grown = jobtab
    BY <1>3 DEF Grown
  <2>2. Reusable \in SUBSET Nat
    BY <1>1 DEF Reusable, Slots
  <2>3. NewSlot \in Reusable
    BY <1>3, <2>2, LeastElement DEF NewSlot
  <2> QED
    BY <1>1, <2>1, <2>3 DEF Reusable, Slots
<1> QED
  BY <1>2, <1>3

LEMMA IdleSlotExpectsNobody ==
    ASSUME Inv, NEW s \in Slots, ~Used(s) \/ JobDone(s), NEW p \in Pids
    PROVE  ~Expects(s, p)
<1>1. SlotSound(s)
  BY DEF Inv
<1>2. ~Used(s) => DOMAIN jobtab[s].procs = {}
  BY <1>1 DEF SlotSound, Used
<1> QED
  BY <1>1, <1>2 DEF SlotSound, Expects

LEMMA StartStep ==
    ASSUME Inv, NEW n \in 1..MaxPipe, NEW why, StartJob(n, why)
    PROVE  Inv' /\ SlotCleared(NewSlot) /\ (NewSlot \in Slots => NewSlot \in Reusable)
<1>0. PICK s : s = NewSlot
  OBVIOUS
<1> DEFINE r == [EmptySlot EXCEPT !.state = "running"]
           rest == Without(s)
<1>1. /\ pc = "idle" /\ pc' = "fork" /\ cur' = s /\ left' = n
      /\ Len(Grown) <= MaxSlots
      /\ jobtab' = [Grown EXCEPT ![s] = r]
      /\ order' = <<s>> \o rest
      /\ truth' = [truth EXCEPT ![s] = None]
      /\ UNCHANGED <<iflag, jobless, child, owner>>
  BY <1>0 DEF StartJob, MakeJob, levelVars
<1>2. /\ Grown \in Seq(SlotRecords) /\ Slots \subseteq 1..Len(Grown)
      /\ \A t \in 1..Len(Grown) : Grown[t] = IF t \in Slots THEN jobtab[t] ELSE EmptySlot
      /\ s \in 1..Len(Grown)
      /\ s \in Slots => s \in Reusable
  BY <1>0, NewSlotIsFree
<1>3. r \in SlotRecords /\ r.procs = <<>> /\ r.state = "running"
  BY EmptySlots DEF EmptySlot
<1> HIDE DEF r
<1>4. /\ jobtab' \in Seq(SlotRecords) /\ Len(jobtab') = Len(Grown) /\ jobtab'[s] = r
      /\ \A t \in 1..Len(Grown) : t # s => jobtab'[t] = Grown[t]
  BY <1>1, <1>2, <1>3, SlotUpdate
<1>5. Slots' = 1..Len(Grown)
  BY <1>4 DEF Slots
<1>6. \A t \in Slots' : t # s => jobtab'[t] = IF t \in Slots THEN jobtab[t] ELSE EmptySlot
  BY <1>2, <1>4, <1>5
<1>7. /\ rest \in Seq(Slots') /\ IsInjective(rest) /\ ToSet(rest) = ToSet(order) \ {s}
      /\ \A t, u : t # s /\ u # s /\ Precedes(order, t, u) => Precedes(rest, t, u)
  <2>1. order \in Seq(Slots')
    <3>1. order \in Seq(Slots)
      BY DEF Inv, TableTypes
    <3>2. Slots \subseteq Slots'
      BY <1>2, <1>5
    <3> QED
      BY <3>1, <3>2
  <2>2. IsInjective(order) /\ rest = RemoveFirst(order, s)
    BY DEF Inv, OrderSound, Without
  <2> HIDE DEF rest
  <2> QED
    BY <2>1, <2>2, RemoveEffect
<1> HIDE DEF rest
<1>8. s \in Slots' /\ s \notin ToSet(rest)
  BY <1>2, <1>5, <1>7
<1>9. /\ order' \in Seq(Slots') /\ IsInjective(order') /\ order' # <<>> /\ order'[1] = s
      /\ \A t : t \in ToSet(order') <=> t \in ToSet(rest) \/ t = s
      /\ \A t, u : Precedes(rest, t, u) => Precedes(order', t, u)
  <2>0. PICK S, list, others : S = Slots' /\ list = order' /\ others = rest
    OBVIOUS
  <2>1. list = InFront(s, others)
    BY <1>1, <2>0 DEF InFront
  <2>2. others \in Seq(S) /\ IsInjective(others) /\ s \in S /\ s \notin ToSet(others)
    BY <1>7, <1>8, <2>0
  <2>3. list \in Seq(S) /\ IsInjective(list) /\ list # <<>> /\ list[1] = s
    BY <2>1, <2>2, PutInFront
  <2>4. \A t : t \in ToSet(list) <=> t \in ToSet(others) \/ t = s
    BY <2>1, <2>2, PutInFront
  <2>5. \A t, u : Precedes(others, t, u) => Precedes(list, t, u)
    BY <2>1, <2>2, PutInFront
  <2> QED
    BY <2>0, <2>3, <2>4, <2>5
<1>10. ToSet(order') = {t \in Slots' : Used(t)'}
  <2>1. ToSet(order) = {t \in Slots : Used(t)}
    BY DEF Inv, OrderSound
  <2>2. Used(s)'
    BY <1>3, <1>4 DEF Used
  <2>3. \A t \in Slots' : t # s => (Used(t)' <=> t \in Slots /\ Used(t))
    BY <1>6 DEF Used, EmptySlot
  <2>4. \A t \in Slots' : t \in ToSet(order') <=> Used(t)'
    BY <1>7, <1>9, <2>1, <2>2, <2>3
  <2>5. ToSet(order') \subseteq Slots'
    BY <1>2, <1>5, <1>7, <1>8, <1>9, <2>1
  <2> QED
    BY <2>4, <2>5
<1>11. SlotCleared(s)
  BY <1>1, <1>2, <1>3, <1>4, <1>5, <1>6, <1>7, <1>8, <1>9, <1>10 DEF SlotCleared
<1>12. ControlMoves(s)
  BY <1>1, <1>3, <1>4, <1>9 DEF ControlMoves, States, JobRunning
<1>13. s \in Slots => \A p \in Pids : ~Expects(s, p)
  BY <1>2, IdleSlotExpectsNobody DEF Reusable
<1> QED
  BY <1>0, <1>2, <1>11, <1>12, <1>13, ClearStep

LEMMA ForegroundStep ==
    ASSUME Inv, ForegroundDone
    PROVE  Inv' /\ SlotCleared(cur) /\ JobDone(cur) /\ cur \in Slots
<1>1. /\ pc = "fg" /\ ~JobRunning(cur)
      /\ pc' \in {"idle", "after", "ended"}
      /\ jobtab' = [jobtab EXCEPT ![cur] = EmptySlot]
      /\ order' = Without(cur)
      /\ truth' = [truth EXCEPT ![cur] = None]
      /\ UNCHANGED <<iflag, jobless, child, owner>>
  BY DEF ForegroundDone, FreeJob, IntOn, ToMain, StillWaiting, Waiting, levelVars
<1>2. cur \in Slots /\ Used(cur) /\ jobtab \in Seq(SlotRecords)
  BY <1>1 DEF Inv, WaitSound, TableTypes
<1>3. JobDone(cur)
  <2>1. jobtab[cur] \in SlotRecords
    BY <1>2 DEF Slots
  <2>2. jobtab[cur].state \in {"free", "running", "done"}
    BY <2>1 DEF SlotRecords
  <2> QED
    BY <1>1, <1>2, <2>2 DEF Used, JobRunning, JobDone
<1>4. PICK s \in Slots : s = cur
  BY <1>2
<1>5. /\ jobtab' \in Seq(SlotRecords) /\ Len(jobtab') = Len(jobtab) /\ jobtab'[s] = EmptySlot
      /\ \A t \in Slots : t # s => jobtab'[t] = jobtab[t]
  BY <1>1, <1>2, <1>4, EmptySlots, SlotUpdate DEF Slots
<1>6. Slots' = Slots
  BY <1>5 DEF Slots
<1>7. /\ order' \in Seq(Slots) /\ IsInjective(order') /\ ToSet(order') = ToSet(order) \ {s}
      /\ \A t, u : t # s /\ u # s /\ Precedes(order, t, u) => Precedes(order', t, u)
  <2>1. order \in Seq(Slots) /\ IsInjective(order) /\ order' = RemoveFirst(order, s)
    BY <1>1, <1>4 DEF Inv, TableTypes, OrderSound, Without
  <2> QED
    BY <2>1, RemoveEffect
<1>8. ToSet(order') = {t \in Slots' : Used(t)'}
  <2>1. ToSet(order) = {t \in Slots : Used(t)}
    BY DEF Inv, OrderSound
  <2>2. ~Used(s)'
    BY <1>5 DEF Used, EmptySlot
  <2>3. \A t \in Slots : t # s => (Used(t)' <=> Used(t))
    BY <1>5 DEF Used
  <2> QED
    BY <1>6, <1>7, <2>1, <2>2, <2>3
<1>9. SlotCleared(s)
  BY <1>1, <1>4, <1>5, <1>6, <1>7, <1>8 DEF SlotCleared, Inv, TableTypes, EmptySlot
<1>10. ControlMoves(s)
  BY <1>1, <1>5 DEF ControlMoves, States, JobRunning, EmptySlot
<1>11. \A p \in Pids : ~Expects(s, p)
  BY <1>3, <1>4, IdleSlotExpectsNobody
<1>12. Inv'
  BY <1>9, <1>10, <1>11, ClearStep
<1> QED
  BY <1>3, <1>4, <1>9, <1>12

-----------------------------------------------------------------------------
(***************************************************************************)
(* Children.                                                               *)
(***************************************************************************)
\* Job c, which is being launched, gets p as its next process.
JobGrows(c, p) ==
    /\ jobtab' \in Seq(SlotRecords) /\ Len(jobtab') = Len(jobtab)
    /\ \A t \in Slots : t # c => jobtab'[t] = jobtab[t]
    /\ jobtab'[c].state = jobtab[c].state
    /\ jobtab'[c].procs = Append(jobtab[c].procs, [pid |-> p, status |-> Unreaped])

LEMMA ForkEffect ==
    ASSUME Inv, NEW p \in Pids, Fork(p)
    PROVE  /\ pc = "fork" /\ cur \in Slots /\ child[p] = None
           /\ JobGrows(cur, p) /\ order' = order
           /\ child' = [child EXCEPT ![p] = Alive]
           /\ owner' = [owner EXCEPT ![p] = [job |-> cur, last |-> left = 1]]
           /\ UNCHANGED <<iflag, shlvl, jobless, truth>>
           /\ left # 1 => pc' = "fork" /\ cur' = cur /\ left' = left - 1
           /\ left = 1 => pc' \in {"after", "idle", "ended"} \/ (pc' = "fg" /\ cur' = cur)
<1>1. /\ pc = "fork" /\ child[p] = None
      /\ child' = [child EXCEPT ![p] = Alive]
      /\ owner' = [owner EXCEPT ![p] = [job |-> cur, last |-> left = 1]]
      /\ UNCHANGED <<iflag, shlvl, jobless, truth>>
      /\ left # 1 => pc' = "fork" /\ cur' = cur /\ left' = left - 1
      /\ left = 1 => pc' \in {"after", "idle", "ended"} \/ (pc' = "fg" /\ cur' = cur)
  BY DEF Fork, FreePid, Launched, IntOn, ToMain, levelVars
<1>2. cur \in Slots /\ order # <<>> /\ order[1] = cur
  BY <1>1 DEF Inv, LaunchSound
<1>3. order' = order
  <2>1. order' = order \/ order' = <<order[1]>> \o RemoveFirst(order, order[1])
    BY <1>2 DEF Fork, ForkParent, Without
  <2>2. order \in Seq(Slots) /\ IsInjective(order)
    BY DEF Inv, TableTypes, OrderSound
  <2> QED
    BY <1>2, <2>1, <2>2, FrontAgain
<1>4. JobGrows(cur, p)
  <2> DEFINE e == [pid |-> p, status |-> Unreaped]
             r == [jobtab[cur] EXCEPT !.procs = Append(jobtab[cur].procs, e)]
  <2>1. jobtab' = [jobtab EXCEPT ![cur].procs = Append(jobtab[cur].procs, e)]
    BY DEF Fork, ForkParent
  <2>2. jobtab \in Seq(SlotRecords) /\ jobtab[cur] \in SlotRecords
    BY <1>2 DEF Inv, TableTypes, Slots
  <2>3. e \in Procs
    BY DEF Procs, Unreaped
  <2> HIDE DEF e
  <2>4. jobtab[cur].procs \in Seq(Procs)
    BY <2>2 DEF SlotRecords
  <2> DEFINE more == Append(jobtab[cur].procs, e)
  <2>5. more \in Seq(Procs)
    BY <2>3, <2>4
  <2> HIDE DEF more
  <2>6. [jobtab[cur] EXCEPT !.procs = more] \in SlotRecords
    BY <2>2, <2>5 DEF SlotRecords
  <2>7. r \in SlotRecords /\ r.state = jobtab[cur].state /\ r.procs = more
    BY <2>2, <2>6 DEF SlotRecords, more
  <2> HIDE DEF r
  <2>8. jobtab' = [jobtab EXCEPT ![cur] = r]
    BY <2>1 DEF r
  <2>9. /\ jobtab' \in Seq(SlotRecords) /\ Len(jobtab') = Len(jobtab)
        /\ jobtab'[cur] = r /\ \A t \in 1..Len(jobtab) : t # cur => jobtab'[t] = jobtab[t]
    BY <1>2, <2>2, <2>7, <2>8, SlotUpdate DEF Slots
  <2> QED
    BY <2>7, <2>9 DEF JobGrows, Slots, more, e
<1> QED
  BY <1>1, <1>2, <1>3, <1>4

(* What the other parts of the invariant see of a new process.             *)
LEMMA GrowEffect ==
    ASSUME Inv, pc = "fork", NEW p \in Pids, NEW c \in Slots, JobGrows(c, p)
    PROVE  /\ Slots' = Slots
           /\ LET n == Len(jobtab[c].procs)
              IN  /\ n \in Nat /\ DOMAIN jobtab[c].procs = 1..n
                  /\ DOMAIN jobtab'[c].procs = 1..(n + 1) /\ Len(jobtab'[c].procs) = n + 1
                  /\ \A i \in 1..n : jobtab'[c].procs[i] = jobtab[c].procs[i]
                  /\ jobtab'[c].procs[n + 1] = [pid |-> p, status |-> Unreaped]
                  /\ jobtab'[c].procs # <<>> /\ Last(jobtab'[c].procs).pid = p
           /\ \A t \in Slots : /\ Used(t)' <=> Used(t)
                               /\ JobRunning(t)' <=> JobRunning(t)
                               /\ JobDone(t)' <=> JobDone(t)
                               /\ \A q : Lists(t, q)' <=> Lists(t, q) \/ (t = c /\ q = p)
                               /\ \A q : Expects(t, q)' <=> Expects(t, q) \/ (t = c /\ q = p)
<1> DEFINE e == [pid |-> p, status |-> Unreaped]
<1>0. PICK n : n = Len(jobtab[c].procs)
  OBVIOUS
<1>1. Slots' = Slots
  BY DEF JobGrows, Slots
<1>2. jobtab[c] \in SlotRecords
  BY DEF Inv, TableTypes, Slots
<1>3. jobtab[c].procs \in Seq(Procs)
  BY <1>2 DEF SlotRecords
<1>4. e \in Procs /\ e.pid = p /\ e.status = Unreaped
  BY DEF Procs, Unreaped
<1> HIDE DEF e
<1>5. jobtab'[c].procs = Append(jobtab[c].procs, e)
  BY DEF JobGrows, e
<1>6. /\ n \in Nat /\ DOMAIN jobtab[c].procs = 1..n
      /\ DOMAIN jobtab'[c].procs = 1..(n + 1) /\ Len(jobtab'[c].procs) = n + 1
      /\ \A i \in 1..n : jobtab'[c].procs[i] = jobtab[c].procs[i]
      /\ jobtab'[c].procs[n + 1] = e
  BY <1>0, <1>3, <1>4, <1>5
<1>7. jobtab'[c].procs # <<>> /\ Last(jobtab'[c].procs).pid = p
  <2>1. Last(jobtab'[c].procs) = e
    BY <1>6 DEF Last
  <2>2. n + 1 \in DOMAIN jobtab'[c].procs
    BY <1>6
  <2> QED
    BY <1>4, <2>1, <2>2
<1>8. \A i \in DOMAIN jobtab'[c].procs : i \in DOMAIN jobtab[c].procs \/ i = n + 1
  BY <1>6
<1>9. DOMAIN jobtab[c].procs \subseteq DOMAIN jobtab'[c].procs /\ n + 1 \in DOMAIN jobtab'[c].procs
  BY <1>6
<1>10. ASSUME NEW t \in Slots
       PROVE  /\ Used(t)' <=> Used(t)
              /\ JobRunning(t)' <=> JobRunning(t)
              /\ JobDone(t)' <=> JobDone(t)
  BY DEF JobGrows, Used, JobRunning, JobDone
<1>11. ASSUME NEW t \in Slots, NEW q
       PROVE  /\ Lists(t, q)' <=> Lists(t, q) \/ (t = c /\ q = p)
              /\ Expects(t, q)' <=> Expects(t, q) \/ (t = c /\ q = p)
  <2>1. CASE t # c
    BY <2>1 DEF JobGrows, Lists, Expects, Awaited
  <2>2. CASE t = c
    <3>1. Lists(t, q)' <=> Lists(t, q) \/ q = p
      BY <1>4, <1>6, <1>8, <1>9, <2>2 DEF Lists
    <3>2. Expects(t, q)' <=> Expects(t, q) \/ q = p
      BY <1>4, <1>6, <1>8, <1>9, <2>2 DEF Expects, Awaited
    <3> QED
      BY <2>2, <3>1, <3>2
  <2> QED
    BY <2>1, <2>2
<1> QED
  BY <1>0, <1>1, <1>6, <1>7, <1>10, <1>11 DEF e

LEMMA ForkStep ==
    ASSUME Inv, NEW p \in Pids, Fork(p)
    PROVE  Inv'
<1>0. PICK c \in Slots : c = cur
  BY ForkEffect
<1>1. /\ pc = "fork" /\ child[p] = None
      /\ JobGrows(c, p) /\ order' = order
      /\ child' = [child EXCEPT ![p] = Alive]
      /\ owner' = [owner EXCEPT ![p] = [job |-> c, last |-> left = 1]]
      /\ UNCHANGED <<iflag, jobless, truth>>
      /\ left # 1 => pc' = "fork" /\ cur' = c /\ left' = left - 1
      /\ left = 1 => pc' \in {"after", "idle", "ended"} \/ (pc' = "fg" /\ cur' = c)
  BY <1>0, ForkEffect
<1>2. /\ JobRunning(c) /\ order # <<>> /\ order[1] = c /\ left \in 1..MaxPipe
      /\ \A i \in DOMAIN jobtab[c].procs : Awaited(c, i)
      /\ \A q \in Pids : child[q] # None /\ owner[q].job = c => ~owner[q].last
  BY <1>0, <1>1 DEF Inv, LaunchSound
<1>3. PICK n : n = Len(jobtab[c].procs)
  OBVIOUS
<1>4. /\ n \in Nat /\ DOMAIN jobtab[c].procs = 1..n
      /\ DOMAIN jobtab'[c].procs = 1..(n + 1) /\ Len(jobtab'[c].procs) = n + 1
      /\ \A i \in 1..n : jobtab'[c].procs[i] = jobtab[c].procs[i]
      /\ jobtab'[c].procs[n + 1] = [pid |-> p, status |-> Unreaped]
      /\ jobtab'[c].procs # <<>> /\ Last(jobtab'[c].procs).pid = p
  BY <1>1, <1>3, GrowEffect
<1>5. Slots' = Slots
  BY <1>1, GrowEffect
<1>6. \A t \in Slots : /\ Used(t)' <=> Used(t)
                       /\ JobRunning(t)' <=> JobRunning(t)
                       /\ JobDone(t)' <=> JobDone(t)
                       /\ \A q : Lists(t, q)' <=> Lists(t, q) \/ (t = c /\ q = p)
                       /\ \A q : Expects(t, q)' <=> Expects(t, q) \/ (t = c /\ q = p)
  BY <1>1, GrowEffect
<1>7. /\ child \in [Pids -> WaitStatuses \cup {None, Alive}]
      /\ owner \in [Pids -> [job : 0..MaxSlots, last : BOOLEAN]]
  BY DEF Inv, TableTypes
<1>8. /\ child'[p] = Alive /\ owner'[p].job = c /\ (owner'[p].last <=> left = 1)
      /\ \A q \in Pids : q # p => child'[q] = child[q] /\ owner'[q] = owner[q]
  BY <1>1, <1>7
<1>9. Alive # None /\ c # 0
  BY NotAPid DEF Slots
<1>10. TableTypes'
  <2>1. c \in 0..MaxSlots
    BY JobsAssumption DEF Inv, TableTypes, Slots
  <2>2. (left = 1) \in BOOLEAN
    OBVIOUS
  <2>3. [job |-> c, last |-> left = 1] \in [job : 0..MaxSlots, last : BOOLEAN]
    BY <2>1, <2>2
  <2>4. owner' \in [Pids -> [job : 0..MaxSlots, last : BOOLEAN]]
    BY <1>1, <1>7, <2>3
  <2>5. child' \in [Pids -> WaitStatuses \cup {None, Alive}]
    BY <1>1, <1>7
  <2>6. pc' \in States
    BY <1>1 DEF States
  <2> QED
    BY <1>1, <1>5, <2>4, <2>5, <2>6 DEF Inv, TableTypes, JobGrows
<1>11. LaunchSound'
  <2> SUFFICES ASSUME pc' = "fork"
               PROVE  LaunchSound'
    BY DEF LaunchSound
  <2>1. left # 1 /\ cur' = c /\ left' = left - 1
    BY <1>1
  <2>2. left' \in 1..MaxPipe
    BY <1>2, <2>1, JobsAssumption
  <2>3. \A i \in DOMAIN jobtab'[c].procs : jobtab'[c].procs[i].status = Unreaped
    <3>1. \A i \in 1..(n + 1) : i \in 1..n \/ i = n + 1
      BY <1>4
    <3> QED
      BY <1>2, <1>4, <3>1 DEF Awaited
  <2>4. \A q \in Pids : child'[q] # None /\ owner'[q].job = c => ~owner'[q].last
    BY <1>2, <1>8, <2>1
  <2>5. JobRunning(c)'
    BY <1>2, <1>6
  <2> QED
    BY <1>1, <1>2, <1>5, <2>1, <2>2, <2>3, <2>4, <2>5 DEF LaunchSound, Awaited, JobRunning
<1>12. WaitSound'
  <2>1. Used(c)'
    BY <1>2, <1>6 DEF Used, JobRunning
  <2> QED
    BY <1>1, <1>5, <2>1 DEF WaitSound, Used
<1>13. \A i \in 1..n : jobtab[c].procs[i].pid # p
  <2> SUFFICES ASSUME NEW i \in 1..n, jobtab[c].procs[i].pid = p
               PROVE  FALSE
    OBVIOUS
  <2>1. Expects(c, p)
    BY <1>2, <1>4 DEF Expects
  <2> QED
    BY <1>1, <2>1 DEF Inv, KernelSound
<1>14. ASSUME NEW t \in Slots
       PROVE  SlotSound(t)'
  <2>1. SlotSound(t)
    BY DEF Inv
  <2>2. CASE t # c
    <3>1. jobtab'[t] = jobtab[t] /\ ~Forming(t)
      BY <1>0, <1>1, <2>2 DEF JobGrows, Forming
    <3> QED
      BY <1>1, <2>1, <3>1 DEF SlotSound, JobDone, Used, Awaited, PidsOf
  <2>3. CASE t = c
    <3>1. jobtab'[c].state = "running"
      BY <1>2, <1>6 DEF JobRunning
    <3>2. IsInjective(PidsOf(jobtab'[c]))
      <4> SUFFICES ASSUME NEW i \in 1..(n + 1), NEW j \in 1..(n + 1),
                          jobtab'[c].procs[i].pid = jobtab'[c].procs[j].pid
                   PROVE  i = j
        BY <1>4 DEF IsInjective, PidsOf
      <4>1. (i \in 1..n \/ i = n + 1) /\ (j \in 1..n \/ j = n + 1)
        BY <1>4
      <4>2. CASE i \in 1..n /\ j \in 1..n
        <5>1. \A a, b \in 1..n : jobtab[c].procs[a].pid = jobtab[c].procs[b].pid => a = b
          BY <1>4, <2>1, <2>3 DEF SlotSound, IsInjective, PidsOf
        <5>2. jobtab[c].procs[i].pid = jobtab[c].procs[j].pid
          BY <1>4, <4>2
        <5> QED
          BY <4>2, <5>1, <5>2
      <4>3. CASE i = n + 1 \/ j = n + 1
        <5>1. jobtab'[c].procs[n + 1].pid = p
          BY <1>4
        <5>2. \A a \in 1..n : jobtab'[c].procs[a].pid # p
          BY <1>4, <1>13
        <5> QED
          BY <4>1, <4>3, <5>1, <5>2
      <4> QED
        BY <4>1, <4>2, <4>3
    <3> QED
      BY <1>4, <2>3, <3>1, <3>2 DEF SlotSound, JobDone
  <2> QED
    BY <2>2, <2>3
<1>15. KernelSound'
  <2>1. ASSUME NEW t \in Slots, NEW q \in Pids, Expects(t, q)'
        PROVE  child'[q] # None /\ owner'[q].job = t
    <3>1. CASE Expects(t, q)
      <4>1. child[q] # None /\ owner[q].job = t /\ q # p
        BY <1>1, <3>1 DEF Inv, KernelSound
      <4> QED
        BY <1>8, <4>1
    <3>2. CASE t = c /\ q = p
      BY <1>8, <1>9, <3>2
    <3> QED
      BY <1>6, <2>1, <3>1, <3>2
  <2>2. ASSUME NEW q \in Pids, child'[q] # None, owner'[q].job # 0
        PROVE  \E t \in Slots : owner'[q].job = t /\ Expects(t, q)'
    <3>1. CASE q = p
      BY <1>6, <1>8, <3>1
    <3>2. CASE q # p
      <4>1. child[q] # None /\ owner[q].job # 0 /\ owner'[q] = owner[q]
        BY <1>8, <2>2, <3>2
      <4>2. PICK t \in Slots : t = owner[q].job /\ Expects(t, q)
        BY <4>1 DEF Inv, KernelSound
      <4> QED
        BY <1>6, <4>1, <4>2
    <3> QED
      BY <3>1, <3>2
  <2>3. ASSUME NEW q \in Pids, child'[q] # None, owner'[q].job # 0
        PROVE  (owner[q].job \in Slots /\ Expects(owner[q].job, q))'
    <3>1. PICK t \in Slots : owner'[q].job = t /\ Expects(t, q)'
      BY <2>2, <2>3
    <3> QED
      BY <1>5, <3>1 DEF Expects, Awaited
  <2> QED
    BY <1>5, <2>1, <2>3 DEF KernelSound
<1>16. OrderSound'
  <2>1. {t \in Slots' : Used(t)'} = {t \in Slots : Used(t)}
    BY <1>5, <1>6
  <2> QED
    BY <1>1, <2>1 DEF Inv, OrderSound
<1>17. CountSound'
  <2>1. UntrackedPids' = UntrackedPids
    BY <1>1, <1>8, <1>9 DEF UntrackedPids
  <2>2. Untracked' = Untracked
    BY <2>1 DEF Untracked, UntrackedPids
  <2>3. pc' # "reap"
    BY <1>1
  <2> QED
    BY <1>1, <2>2, <2>3 DEF Inv, CountSound
<1>18. ShadowSound'
  <2> SUFFICES ASSUME NEW q \in Pids, NEW t \in Slots, child'[q] # None, JobRunning(t)',
                      Lists(t, q)', owner'[q].job # t
               PROVE  owner'[q].job # 0 /\ Precedes(order, owner'[q].job, t)
    BY <1>1, <1>5 DEF ShadowSound
  <2>1. JobRunning(t)
    BY <1>6
  <2>2. CASE q # p
    BY <1>6, <1>8, <2>1, <2>2 DEF Inv, ShadowSound
  <2>3. CASE q = p
    <3>1. t # c /\ t \in ToSet(order)
      BY <1>8, <2>1, <2>3 DEF Inv, OrderSound, Used, JobRunning
    <3>2. PICK j \in DOMAIN order : order[j] = t
      BY <3>1 DEF ToSet
    <3>3. DOMAIN order = 1..Len(order) /\ Len(order) \in Nat
      BY DEF Inv, TableTypes
    <3>4. 1 \in DOMAIN order /\ 1 < j
      BY <1>2, <3>1, <3>2, <3>3
    <3> QED
      BY <1>2, <1>8, <1>9, <2>3, <3>2, <3>4 DEF Precedes
  <2> QED
    BY <2>2, <2>3
<1>19. ASSUME NEW t \in Slots
       PROVE  TruthSound(t)'
  <2>1. CASE t = c
    <3> SUFFICES ASSUME left = 1
                 PROVE  TruthSound(t)'
      BY <1>1, <2>1 DEF TruthSound, Forming
    <3>1. owner'[p].last /\ child'[p] = Alive
      BY <1>8
    <3>2. jobtab'[c].procs[n + 1].pid = p /\ jobtab'[c].procs[n + 1].status = Unreaped
      BY <1>4
    <3>3. Len(jobtab'[c].procs) = n + 1
      BY <1>4
    <3> QED
      BY <2>1, <3>1, <3>2, <3>3 DEF TruthSound, Awaited, IsZombie
  <2>2. CASE t # c
    <3>1. jobtab'[t] = jobtab[t] /\ ~Forming(t) /\ TruthSound(t)
      BY <1>0, <1>1, <2>2 DEF JobGrows, Forming, Inv
    <3>2. PICK m : m = Len(jobtab[t].procs)
      OBVIOUS
    <3>3. PICK q : q = jobtab[t].procs[m].pid
      OBVIOUS
    <3>4. m > 0 => IF Awaited(t, m) THEN owner[q].last /\ (IsZombie(q) => truth[t] = child[q])
                                    ELSE truth[t] = jobtab[t].procs[m].status
      BY <1>1, <3>1, <3>2, <3>3 DEF TruthSound
    <3>5. m > 0 /\ Awaited(t, m) => q \in Pids /\ q # p
      <4> SUFFICES ASSUME m > 0, Awaited(t, m)
                   PROVE  q \in Pids /\ q # p
        OBVIOUS
      <4>1. jobtab[t] \in SlotRecords
        BY DEF Inv, TableTypes, Slots
      <4>2. jobtab[t].procs \in Seq(Procs)
        BY <4>1 DEF SlotRecords
      <4>3. m \in DOMAIN jobtab[t].procs /\ jobtab[t].procs[m] \in Procs
        BY <3>2, <4>2
      <4>4. q \in Pids
        BY <3>3, <4>3 DEF Procs
      <4>5. Expects(t, q)
        BY <3>3, <4>3 DEF Expects
      <4> QED
        BY <1>1, <4>4, <4>5 DEF Inv, KernelSound
    <3>6. m > 0 /\ Awaited(t, m) => child'[q] = child[q] /\ owner'[q] = owner[q]
      BY <1>8, <3>5
    <3>7. m > 0 => IF Awaited(t, m) THEN owner'[q].last /\ (IsZombie(q)' => truth[t] = child'[q])
                                    ELSE truth[t] = jobtab[t].procs[m].status
      BY <3>4, <3>6 DEF IsZombie
    <3> QED
      BY <1>1, <3>1, <3>2, <3>3, <3>7 DEF TruthSound, Awaited
  <2> QED
    BY <2>1, <2>2
<1>20. LastSound'
  <2> SUFFICES ASSUME NEW q \in Pids, child'[q] # None, owner'[q].last
               PROVE  /\ owner'[q].job # 0
                      /\ jobtab'[owner'[q].job].procs # <<>>
                      /\ Last(jobtab'[owner'[q].job].procs).pid = q
    BY DEF LastSound
  <2>1. CASE q = p
    BY <1>4, <1>8, <1>9, <2>1
  <2>2. CASE q # p
    <3>1. child[q] # None /\ owner[q].last /\ owner'[q] = owner[q]
      BY <1>8, <2>2
    <3>2. owner[q].job # 0 /\ owner[q].job \in Slots /\ owner[q].job # c
      BY <1>2, <3>1 DEF Inv, LastSound, KernelSound
    <3>3. jobtab'[owner[q].job] = jobtab[owner[q].job]
      BY <1>1, <3>2 DEF JobGrows
    <3> QED
      BY <3>1, <3>2, <3>3 DEF Inv, LastSound
  <2> QED
    BY <2>1, <2>2
<1> QED
  BY <1>5, <1>10, <1>11, <1>12, <1>14, <1>15, <1>16, <1>17, <1>18, <1>19, <1>20 DEF Inv

LEMMA WriterStep ==
    ASSUME Inv, NEW p \in Pids, ForkWriter(p)
    PROVE  Inv'
<1>1. /\ pc = "idle" /\ pc' = "reap" /\ child[p] = None
      /\ \A s \in Slots : JobRunning(s) => ~Lists(s, p)
      /\ child' = [child EXCEPT ![p] = Alive]
      /\ owner' = [owner EXCEPT ![p] = NoOwner]
      /\ UNCHANGED <<iflag, jobtab, order, jobless, truth>>
  BY DEF ForkWriter, FreePid, levelVars, tableVars
<1>2. /\ child \in [Pids -> WaitStatuses \cup {None, Alive}]
      /\ owner \in [Pids -> [job : 0..MaxSlots, last : BOOLEAN]]
      /\ NoOwner \in [job : 0..MaxSlots, last : BOOLEAN] /\ NoOwner.job = 0 /\ ~NoOwner.last
  BY JobsAssumption DEF Inv, TableTypes, NoOwner
<1>3. /\ child'[p] = Alive /\ owner'[p].job = 0 /\ ~owner'[p].last
      /\ \A q \in Pids : q # p => child'[q] = child[q] /\ owner'[q] = owner[q]
  BY <1>1, <1>2
<1>4. Alive # None
  BY NotAPid
<1>5. Slots' = Slots /\ \A s : (Used(s)' <=> Used(s)) /\ (JobRunning(s)' <=> JobRunning(s))
  BY <1>1 DEF Slots, Used, JobRunning
<1>6. \A s, q : (Lists(s, q)' <=> Lists(s, q)) /\ (Expects(s, q)' <=> Expects(s, q))
  BY <1>1 DEF Lists, Expects, Awaited
<1>7. \A s \in Slots : ~Expects(s, p)
  BY <1>1 DEF Inv, KernelSound
<1>8. TableTypes'
  <2>1. /\ child' \in [Pids -> WaitStatuses \cup {None, Alive}]
        /\ owner' \in [Pids -> [job : 0..MaxSlots, last : BOOLEAN]]
    BY <1>1, <1>2
  <2> QED
    BY <1>1, <1>5, <2>1 DEF Inv, TableTypes, States
<1>9. LaunchSound' /\ WaitSound'
  BY <1>1 DEF LaunchSound, WaitSound
<1>10. ASSUME NEW s \in Slots
       PROVE  SlotSound(s)'
  <2>1. SlotSound(s)
    BY DEF Inv
  <2> QED
    BY <1>1, <2>1 DEF SlotSound, JobDone, Used, Awaited, PidsOf, Forming
<1>11. KernelSound'
  <2>1. \A s \in Slots, q \in Pids : Expects(s, q) => child'[q] # None /\ owner'[q].job = s
    BY <1>3, <1>7 DEF Inv, KernelSound
  <2>2. \A q \in Pids : child'[q] # None /\ owner'[q].job # 0 =>
           owner'[q] = owner[q] /\ owner[q].job \in Slots /\ Expects(owner[q].job, q)
    BY <1>3 DEF Inv, KernelSound
  <2>3. \A q \in Pids : child'[q] # None /\ owner'[q].job # 0 =>
           (owner[q].job \in Slots /\ Expects(owner[q].job, q))'
    BY <1>1, <1>5, <2>2 DEF Expects, Awaited
  <2> QED
    BY <1>5, <1>6, <2>1, <2>3 DEF KernelSound
<1>12. OrderSound'
  BY <1>1, <1>5 DEF Inv, OrderSound
<1>13. CountSound'
  <2>1. UntrackedPids' = UntrackedPids \cup {p} /\ p \notin UntrackedPids
    BY <1>1, <1>3, <1>4 DEF UntrackedPids
  <2>2. IsFiniteSet(UntrackedPids) /\ Untracked = Cardinality(UntrackedPids) /\ Untracked \in Nat
    BY UntrackedIsFinite
  <2>3. Untracked' = Cardinality(UntrackedPids \cup {p})
    BY <2>1 DEF Untracked, UntrackedPids
  <2>4. Untracked' = Untracked + 1
    BY <2>1, <2>2, <2>3, FS_AddElement
  <2>5. jobless \in Int /\ jobless + 0 = Untracked
    BY <1>1 DEF Inv, CountSound, TableTypes
  <2> QED
    BY <1>1, <2>2, <2>4, <2>5 DEF CountSound
<1>14. ShadowSound'
  <2> SUFFICES ASSUME NEW q \in Pids, NEW s \in Slots, child'[q] # None, JobRunning(s),
                      Lists(s, q), owner'[q].job # s
               PROVE  owner'[q].job # 0 /\ Precedes(order, owner'[q].job, s)
    BY <1>1, <1>5, <1>6 DEF ShadowSound
  <2>1. q # p
    BY <1>1
  <2> QED
    BY <1>3, <2>1 DEF Inv, ShadowSound
<1>15. ASSUME NEW s \in Slots
       PROVE  TruthSound(s)'
  <2>1. TruthSound(s) /\ jobtab[s] \in SlotRecords
    BY DEF Inv, TableTypes, Slots
  <2>2. PICK n : n = Len(jobtab[s].procs)
    OBVIOUS
  <2>3. PICK q : q = jobtab[s].procs[n].pid
    OBVIOUS
  <2>4. n > 0 => IF Awaited(s, n) THEN owner[q].last /\ (IsZombie(q) => truth[s] = child[q])
                                  ELSE truth[s] = jobtab[s].procs[n].status
    BY <1>1, <2>1, <2>2, <2>3 DEF TruthSound, Forming
  <2>5. n > 0 /\ Awaited(s, n) => child'[q] = child[q] /\ owner'[q] = owner[q]
    <3> SUFFICES ASSUME n > 0, Awaited(s, n)
                 PROVE  q \in Pids /\ q # p
      BY <1>3
    <3>1. jobtab[s].procs \in Seq(Procs)
      BY <2>1 DEF SlotRecords
    <3>2. n \in DOMAIN jobtab[s].procs /\ jobtab[s].procs[n] \in Procs
      BY <2>2, <3>1
    <3>3. q \in Pids /\ Expects(s, q)
      BY <2>3, <3>2 DEF Procs, Expects
    <3> QED
      BY <1>7, <3>3
  <2> QED
    BY <1>1, <2>2, <2>3, <2>4, <2>5 DEF TruthSound, Awaited, IsZombie
<1>16. LastSound'
  BY <1>1, <1>3 DEF Inv, LastSound
<1> QED
  BY <1>5, <1>8, <1>9, <1>10, <1>11, <1>12, <1>13, <1>14, <1>15, <1>16 DEF Inv

LEMMA CountStep ==
    ASSUME Inv, ReapEnough
    PROVE  Inv'
<1>1. /\ pc = "reap" /\ pc' \in {"idle", "ended"} /\ jobless' = jobless + 1
      /\ UNCHANGED <<iflag, jobtab, order, child, owner, truth>>
  BY DEF ReapEnough, CountWriter, IntOn, ToMain, levelVars, kernelVars
<1>2. /\ Slots' = Slots
      /\ \A s : /\ Used(s)' <=> Used(s)
                /\ JobRunning(s)' <=> JobRunning(s)
                /\ \A q : Lists(s, q)' <=> Lists(s, q)
                /\ \A q : Expects(s, q)' <=> Expects(s, q)
  BY <1>1 DEF Slots, Used, JobRunning, Lists, Expects, Awaited
<1>3. TableTypes' /\ LaunchSound' /\ WaitSound'
  BY <1>1, <1>2 DEF Inv, TableTypes, States, LaunchSound, WaitSound
<1>4. ASSUME NEW s \in Slots
      PROVE  SlotSound(s)' /\ TruthSound(s)'
  <2>1. SlotSound(s) /\ TruthSound(s)
    BY DEF Inv
  <2> QED
    BY <1>1, <2>1 DEF SlotSound, TruthSound, JobDone, Used, Awaited, PidsOf, Forming, IsZombie
<1>5. KernelSound' /\ OrderSound' /\ ShadowSound' /\ LastSound'
  BY <1>1, <1>2 DEF Inv, KernelSound, OrderSound, ShadowSound, LastSound
<1>6. CountSound'
  <2>1. Untracked' = Untracked /\ Untracked \in Nat
    BY <1>1, UntrackedIsFinite DEF Untracked
  <2>2. jobless \in Int /\ jobless + 1 = Untracked
    BY <1>1 DEF Inv, CountSound, TableTypes
  <2> QED
    BY <1>1, <2>1, <2>2 DEF CountSound
<1> QED
  BY <1>2, <1>3, <1>4, <1>5, <1>6 DEF Inv

\* There is no job and no child.
Fresh ==
    /\ pc \in {"idle", "ended"} /\ iflag \in Interactive
    /\ jobtab \in [1..Len(jobtab) -> {EmptySlot}] /\ Len(jobtab) \in Nat
    /\ Len(jobtab) <= MaxSlots
    /\ order = <<>> /\ jobless = 0
    /\ child = [p \in Pids |-> None]
    /\ owner = [p \in Pids |-> NoOwner]
    /\ truth = [s \in 1..MaxSlots |-> None]

LEMMA FreshIsSound == Fresh => Inv
<1> SUFFICES ASSUME Fresh
             PROVE  Inv
  OBVIOUS
<1>1. \A s \in Slots : jobtab[s] = EmptySlot
  BY DEF Fresh, Slots
<1>2. \A s \in Slots : ~Used(s) /\ ~JobRunning(s) /\ ~JobDone(s) /\ \A p : ~Expects(s, p) /\ ~Lists(s, p)
  BY <1>1 DEF EmptySlot, Used, JobRunning, JobDone, Expects, Lists
<1>3. TableTypes
  <2>1. jobtab \in Seq(SlotRecords)
    <3>1. jobtab \in [1..Len(jobtab) -> SlotRecords]
      BY EmptySlots DEF Fresh
    <3> QED
      BY <3>1 DEF Fresh
  <2>2. NoOwner \in [job : 0..MaxSlots, last : BOOLEAN]
    BY JobsAssumption DEF NoOwner
  <2> QED
    BY <2>1, <2>2 DEF Fresh, TableTypes, States
<1>4. LaunchSound /\ WaitSound
  BY DEF Fresh, LaunchSound, WaitSound
<1>5. ASSUME NEW s \in Slots
      PROVE  SlotSound(s) /\ TruthSound(s)
  BY <1>1, <1>2 DEF SlotSound, TruthSound, EmptySlot, PidsOf, IsInjective
<1>6. KernelSound /\ ShadowSound /\ LastSound
  BY <1>2 DEF Fresh, KernelSound, ShadowSound, LastSound
<1>7. OrderSound
  BY <1>2 DEF Fresh, OrderSound, ToSet, IsInjective
<1>8. CountSound
  <2>1. UntrackedPids = {}
    BY DEF Fresh, UntrackedPids
  <2>2. Untracked = 0
    BY <2>1, UntrackedIsFinite, FS_EmptySet
  <2> QED
    BY <2>2 DEF Fresh, CountSound
<1> QED
  BY <1>3, <1>4, <1>5, <1>6, <1>7, <1>8 DEF Inv

LEMMA ChildStep ==
    ASSUME Inv, BecomeChild
    PROVE  Inv'
<1>1. Fresh'
  <2>1. /\ jobtab' = [s \in Slots |-> EmptySlot] /\ order' = <<>> /\ jobless' = 0
        /\ child' = [p \in Pids |-> None] /\ owner' = [p \in Pids |-> NoOwner]
        /\ truth' = [s \in 1..MaxSlots |-> None]
        /\ pc' \in {"idle", "ended"} /\ iflag' = iflag
    BY DEF BecomeChild, ForgetJobs, IntOn, ToMain
  <2>2. Len(jobtab) \in Nat /\ Len(jobtab) <= MaxSlots /\ iflag \in Interactive
    BY DEF Inv, TableTypes
  <2>3. jobtab' \in [1..Len(jobtab) -> {EmptySlot}] /\ Len(jobtab') = Len(jobtab)
    BY <2>1, <2>2 DEF Slots
  <2> QED
    BY <2>1, <2>2, <2>3 DEF Fresh
<1> QED
  BY <1>1, FreshIsSound, PTL

LEMMA InitIsSound == Init => Inv
<1>1. Init => Fresh
  BY JobsAssumption DEF Init, Fresh
<1> QED
  BY <1>1, FreshIsSound

LEMMA EndsStep ==
    ASSUME Inv, NEW p \in Pids, NEW status \in WaitStatuses, ChildEnds(p, status)
    PROVE  Inv'
<1>0. PICK o : o = owner[p].job
  OBVIOUS
<1>1. /\ child[p] = Alive /\ child' = [child EXCEPT ![p] = status]
      /\ truth' = IF owner[p].last THEN [truth EXCEPT ![o] = status] ELSE truth
      /\ UNCHANGED <<pc, iflag, jobtab, order, jobless, cur, left, owner>>
  BY <1>0 DEF ChildEnds, levelVars, tableVars, launchVars
<1>2. /\ child \in [Pids -> WaitStatuses \cup {None, Alive}]
      /\ truth \in [1..MaxSlots -> WaitStatuses \cup {None}]
  BY DEF Inv, TableTypes
<1>3. /\ child'[p] = status /\ child[p] # None /\ child'[p] # None
      /\ \A q \in Pids : q # p => child'[q] = child[q]
  BY <1>1, <1>2, JobsAssumption, NotAPid
<1>4. \A q \in Pids : child'[q] # None <=> child[q] # None
  BY <1>3
<1>5. /\ Slots' = Slots
      /\ \A s : /\ Used(s)' <=> Used(s)
                /\ JobRunning(s)' <=> JobRunning(s)
                /\ \A q : Lists(s, q)' <=> Lists(s, q)
                /\ \A q : Expects(s, q)' <=> Expects(s, q)
  BY <1>1 DEF Slots, Used, JobRunning, Lists, Expects, Awaited
<1>6. TableTypes'
  <2>1. child' \in [Pids -> WaitStatuses \cup {None, Alive}]
    BY <1>1, <1>2
  <2>2. truth' \in [1..MaxSlots -> WaitStatuses \cup {None}]
    BY <1>1, <1>2
  <2> QED
    BY <1>1, <1>5, <2>1, <2>2 DEF Inv, TableTypes
<1>7. LaunchSound' /\ WaitSound'
  BY <1>1, <1>4, <1>5 DEF Inv, LaunchSound, WaitSound, Awaited, JobRunning, Used
<1>8. ASSUME NEW s \in Slots
      PROVE  SlotSound(s)'
  <2>1. SlotSound(s)
    BY DEF Inv
  <2> QED
    BY <1>1, <2>1 DEF SlotSound, JobDone, Used, Awaited, PidsOf, Forming
<1>9. KernelSound'
  BY <1>1, <1>4, <1>5 DEF Inv, KernelSound
<1>10. OrderSound'
  BY <1>1, <1>5 DEF Inv, OrderSound
<1>11. CountSound'
  <2>1. {q \in Pids : child'[q] # None /\ owner'[q].job = 0}
          = {q \in Pids : child[q] # None /\ owner[q].job = 0}
    BY <1>1, <1>4
  <2>2. Untracked' = Untracked
    BY <2>1 DEF Untracked
  <2> QED
    BY <1>1, <2>2 DEF Inv, CountSound
<1>12. ShadowSound'
  BY <1>1, <1>4, <1>5 DEF Inv, ShadowSound
<1>13. LastSound'
  BY <1>1, <1>4 DEF Inv, LastSound
<1>14. ASSUME NEW s \in Slots
       PROVE  TruthSound(s)'
  <2>1. TruthSound(s) /\ SlotSound(s) /\ jobtab[s] \in SlotRecords
    BY DEF Inv, TableTypes, Slots
  <2>2. PICK n : n = Len(jobtab[s].procs)
    OBVIOUS
  <2>3. PICK q : q = jobtab[s].procs[n].pid
    OBVIOUS
  <2> SUFFICES ASSUME pc # "ended", n > 0, ~Forming(s)
               PROVE  IF Awaited(s, n) THEN owner[q].last /\ (IsZombie(q)' => truth'[s] = child'[q])
                                       ELSE truth'[s] = jobtab[s].procs[n].status
    BY <1>1, <2>2, <2>3 DEF TruthSound, Forming, Awaited
  <2>4. IF Awaited(s, n) THEN owner[q].last /\ (IsZombie(q) => truth[s] = child[q])
                         ELSE truth[s] = jobtab[s].procs[n].status
    BY <2>1, <2>2, <2>3 DEF TruthSound
  <2>5. n \in DOMAIN jobtab[s].procs /\ q \in Pids
    <3>1. jobtab[s].procs \in Seq(Procs)
      BY <2>1 DEF SlotRecords
    <3>2. n \in DOMAIN jobtab[s].procs /\ jobtab[s].procs[n] \in Procs
      BY <2>2, <3>1
    <3> QED
      BY <2>3, <3>2 DEF Procs
  <2>6. s \in 1..MaxSlots
    BY JobsAssumption DEF Inv, TableTypes, Slots
  <2>7. CASE q = p /\ Awaited(s, n)
    <3>1. Expects(s, p)
      BY <2>3, <2>5, <2>7 DEF Expects
    <3>2. o = s /\ owner[p].last
      BY <1>0, <2>4, <2>7, <3>1 DEF Inv, KernelSound
    <3>3. truth'[s] = status
      BY <1>1, <1>2, <2>6, <3>2
    <3> QED
      BY <1>3, <2>4, <2>7, <3>3
  <2>8. CASE ~(q = p /\ Awaited(s, n))
    <3>1. owner[p].last => o # s
      <4> SUFFICES ASSUME owner[p].last, o = s
                   PROVE  FALSE
        OBVIOUS
      <4>1. Last(jobtab[s].procs).pid = p
        BY <1>0, <1>3 DEF Inv, LastSound
      <4>2. q = p
        BY <2>2, <2>3, <4>1 DEF Last
      <4>3. s # 0 /\ Expects(s, p)
        BY <1>0, <1>3 DEF Inv, KernelSound, Slots
      <4>4. PICK i \in DOMAIN jobtab[s].procs : jobtab[s].procs[i].pid = p /\ Awaited(s, i)
        BY <4>3 DEF Expects
      <4>5. i = n
        BY <2>1, <2>3, <2>5, <4>2, <4>4 DEF SlotSound, PidsOf, IsInjective
      <4> QED
        BY <2>8, <4>2, <4>4, <4>5
    <3>2. truth'[s] = truth[s]
      BY <1>1, <1>2, <2>6, <3>1
    <3>3. Awaited(s, n) => child'[q] = child[q]
      BY <1>3, <2>5, <2>8
    <3> QED
      BY <2>4, <3>2, <3>3 DEF IsZombie
  <2> QED
    BY <2>7, <2>8
<1> QED
  BY <1>5, <1>6, <1>7, <1>8, <1>9, <1>10, <1>11, <1>12, <1>13, <1>14 DEF Inv

-----------------------------------------------------------------------------
(***************************************************************************)
(* The theorems.                                                           *)
(***************************************************************************)
LEMMA NextIsOneOf ==
    ASSUME Next
    PROVE  \/ Quiet
           \/ \E n \in 1..MaxPipe : \E why \in {"fg", "bg", "subst"} : StartJob(n, why)
           \/ ForegroundDone
           \/ \E p \in Pids : Fork(p)
           \/ \E p \in Pids : WaitStep(p) \/ ReapMore(p)
           \/ \E p \in Pids : ForkWriter(p)
           \/ ReapEnough
           \/ BecomeChild
           \/ ForkFails
           \/ \E p \in Pids, status \in WaitStatuses : ChildEnds(p, status)
<1>1. 1 \in 1..MaxPipe
  BY JobsAssumption
<1>2. CASE Command
  BY <1>1, <1>2 DEF Command, Quiet
<1>3. CASE Proceed
  BY <1>3 DEF Proceed, Quiet
<1>4. CASE Mishap
  BY <1>4 DEF Mishap, Quiet
<1>5. CASE SignalNext \/ Ended
  BY <1>5 DEF Quiet
<1>6. CASE ChildNext
  BY <1>6 DEF ChildNext
<1> QED
  BY <1>2, <1>3, <1>4, <1>5, <1>6 DEF Next

LEMMA NextKeepsInv ==
    ASSUME Inv, Reliable, [Next]_vars
    PROVE  Inv'
<1>1. CASE Quiet
  BY <1>1, QuietKeeps, QuietStep
<1>2. CASE \E n \in 1..MaxPipe : \E why \in {"fg", "bg", "subst"} : StartJob(n, why)
  BY <1>2, StartStep
<1>3. CASE ForegroundDone
  BY <1>3, ForegroundStep
<1>4. CASE \E p \in Pids : Fork(p)
  BY <1>4, ForkStep
<1>5. CASE \E p \in Pids : WaitStep(p) \/ ReapMore(p)
  BY <1>5, ReapStep
<1>6. CASE \E p \in Pids : ForkWriter(p)
  BY <1>6, WriterStep
<1>7. CASE ReapEnough
  BY <1>7, CountStep
<1>8. CASE BecomeChild
  BY <1>8, ChildStep
<1>9. CASE ForkFails
  BY <1>9 DEF ForkFails, Reliable
<1>10. CASE \E p \in Pids, status \in WaitStatuses : ChildEnds(p, status)
  BY <1>10, EndsStep
<1>11. CASE UNCHANGED vars
  <2>1. TableKept
    BY <1>11, TableUnchanged DEF vars, levelVars, tableVars, kernelVars
  <2>2. pc' = pc /\ cur' = cur /\ left' = left /\ jobtab' = jobtab
    BY <1>11 DEF vars, launchVars, tableVars
  <2>3. ControlKept
    BY <2>2 DEF ControlKept, Inv, TableTypes, WaitSound, Used
  <2> QED
    BY <2>1, <2>3, QuietStep
<1> QED
  BY <1>1, <1>2, <1>3, <1>4, <1>5, <1>6, <1>7, <1>8, <1>9, <1>10, <1>11, NextIsOneOf

LEMMA JobsInvariant == Reliable => (Spec => []Inv)
<1>1. Inv /\ Reliable /\ [Next]_vars => Inv'
  BY NextKeepsInv
<1> SUFFICES ASSUME Reliable
             PROVE  Spec => []Inv
  OBVIOUS
<1>2. Inv /\ [Next]_vars => Inv'
  BY <1>1
<1> QED
  BY <1>2, InitIsSound, PTL DEF Spec

(* Each process the job table still expects is a child of the shell that   *)
(* belongs to that job, and each child forked for a job is expected by it; *)
(* the list of current jobs holds every used slot once; and jobless is the *)
(* number of children that no job lists (forkparent, freejob, set_curjob,  *)
(* dowait).                                                                *)
THEOREM TableAgrees == Reliable => (Spec => []TableMatchesKernel)
<1>1. Inv => TableMatchesKernel
  <2> SUFFICES ASSUME Inv
               PROVE  TableMatchesKernel
    OBVIOUS
  <2>1. ASSUME NEW s \in Slots, NEW i \in DOMAIN jobtab[s].procs, Awaited(s, i)
        PROVE  child[jobtab[s].procs[i].pid] # None /\ owner[jobtab[s].procs[i].pid].job = s
    <3>1. jobtab[s] \in SlotRecords
      BY DEF Inv, TableTypes, Slots
    <3>2. jobtab[s].procs \in Seq(Procs)
      BY <3>1 DEF SlotRecords
    <3>3. jobtab[s].procs[i] \in Procs
      BY <3>2
    <3>4. jobtab[s].procs[i].pid \in Pids
      BY <3>3 DEF Procs
    <3> QED
      BY <2>1, <3>4 DEF Inv, KernelSound, Expects
  <2>2. \A p \in Pids : child[p] # None /\ owner[p].job # 0 => Expects(owner[p].job, p)
    BY DEF Inv, KernelSound
  <2>3. ChildrenAreAwaited
    BY <2>1, <2>2 DEF ChildrenAreAwaited, Expects
  <2> QED
    BY <2>3 DEF Inv, OrderSound, CountSound, TableMatchesKernel
<1> QED
  BY <1>1, JobsInvariant, PTL

(* No step takes a slot away.                                              *)
LEMMA SlotsStay ==
    ASSUME Inv, Reliable, Next
    PROVE  Slots \subseteq Slots'
<1>1. CASE Quiet
  BY <1>1, QuietKeeps DEF TableKept, Slots
<1>2. CASE \E n \in 1..MaxPipe : \E why \in {"fg", "bg", "subst"} : StartJob(n, why)
  BY <1>2, StartStep DEF SlotCleared
<1>3. CASE ForegroundDone
  BY <1>3, ForegroundStep DEF SlotCleared
<1>4. CASE \E p \in Pids : Fork(p)
  BY <1>4, ForkEffect DEF JobGrows, Slots
<1>5. CASE \E p \in Pids : WaitStep(p) \/ ReapMore(p)
  BY <1>5, ReapStep DEF JobReaped, Slots
<1>6. CASE \E p \in Pids : ForkWriter(p)
  BY <1>6 DEF ForkWriter, tableVars, Slots
<1>7. CASE ReapEnough
  BY <1>7 DEF ReapEnough, Slots
<1>8. CASE BecomeChild
  <2>1. jobtab' = [s \in 1..Len(jobtab) |-> EmptySlot] /\ Len(jobtab) \in Nat
    BY <1>8 DEF BecomeChild, ForgetJobs, Slots, Inv, TableTypes
  <2>2. Len(jobtab') = Len(jobtab)
    BY <2>1
  <2> QED
    BY <2>2 DEF Slots
<1>9. CASE ForkFails
  BY <1>9 DEF ForkFails, Reliable
<1>10. CASE \E p \in Pids, status \in WaitStatuses : ChildEnds(p, status)
  BY <1>10 DEF ChildEnds, tableVars, Slots
<1> QED
  BY <1>1, <1>2, <1>3, <1>4, <1>5, <1>6, <1>7, <1>8, <1>9, <1>10, NextIsOneOf

(* An exit code is a number.                                               *)
LEMMA ExitCodes == \A w \in Nat : Decode(w) \in Nat
<1> TAKE w \in Nat
<1>1. w \div 256 \in Nat /\ w % 128 \in Nat
  OBVIOUS
<1> QED
  BY <1>1 DEF Decode

\* The job the shell waited for has its true status.
LEMMA DoneJobsTruth ==
    ASSUME Inv, pc \in {"fg", "waitone"}, JobDone(cur)
    PROVE  JobStatus(cur) = {Decode(truth[cur])} /\ truth[cur] \in Nat
<1>1. cur \in Slots /\ Used(cur)
  BY DEF Inv, WaitSound
<1>2. TruthSound(cur) /\ SlotSound(cur) /\ jobtab[cur] \in SlotRecords
  BY <1>1 DEF Inv, TableTypes, Slots
<1>3. jobtab[cur].procs # <<>> /\ jobtab[cur].procs \in Seq(Procs)
  BY <1>1, <1>2 DEF SlotSound, SlotRecords, Forming
<1>4. PICK n : n = Len(jobtab[cur].procs)
  OBVIOUS
<1>5. n > 0 /\ n \in DOMAIN jobtab[cur].procs /\ jobtab[cur].procs[n] \in Procs
  BY <1>3, <1>4
<1>6. ~Awaited(cur, n)
  BY <1>2, <1>5 DEF SlotSound
<1>7. truth[cur] = jobtab[cur].procs[n].status
  BY <1>2, <1>4, <1>5, <1>6 DEF TruthSound, Forming
<1>8. truth[cur] \in Nat
  BY <1>5, <1>6, <1>7, JobsAssumption DEF Procs, Awaited
<1>9. JobStatus(cur) = {Decode(jobtab[cur].procs[n].status)}
  BY <1>3, <1>4 DEF JobStatus, Last
<1> QED
  BY <1>7, <1>8, <1>9

RestTypes ==
    /\ shlvl \in 0..MaxLevel
    /\ cur \in Slots \cup {0}
    /\ left \in 0..MaxPipe
    /\ mode \in {"none", "fg", "bg", "subst"}
    /\ exitstatus \in Nat
    /\ ended \in {"no", "exit", "EXERROR", "EXSIG", "SIGINT"}

SignalTypes ==
    /\ trapped \subseteq TrappedSignals
    /\ intIgnored \in BOOLEAN
    /\ gotsig \subseteq TrappedSignals \cup {SigInt}
    /\ pendingsig \in TrappedSignals \cup {SigInt, None}
    /\ intpending \in BOOLEAN

LEMMA RestStep ==
    ASSUME Inv, RestTypes, SignalTypes, Reliable, Next
    PROVE  RestTypes'
<1> USE DEF levelVars, tableVars, kernelVars, launchVars, signalVars, trapVars
<1>1. Slots \subseteq Slots'
  BY SlotsStay
<1>2. SigInt \in Nat /\ TrappedSignals \subseteq Nat /\ MaxPipe \in Nat /\ MaxLevel \in Nat
  BY JobsAssumption DEF SigInt
<1>3. JobDone(cur) /\ pc \in {"fg", "waitone"} => JobStatus(cur) \subseteq Nat
  BY DoneJobsTruth, ExitCodes
<1>4. pc \in {"fg", "waitone"} /\ ~StillWaiting => JobDone(cur)
  <2> SUFFICES ASSUME pc \in {"fg", "waitone"}, ~StillWaiting
               PROVE  JobDone(cur)
    OBVIOUS
  <2>1. cur \in Slots /\ Used(cur) /\ ~JobRunning(cur)
    BY DEF Inv, WaitSound, StillWaiting, Waiting
  <2>2. jobtab[cur] \in SlotRecords
    BY <2>1 DEF Inv, TableTypes, Slots
  <2>3. jobtab[cur].state \in {"free", "running", "done"}
    BY <2>2 DEF SlotRecords
  <2> QED
    BY <2>1, <2>3 DEF Used, JobRunning, JobDone
<1>5. CASE \E n \in 1..MaxPipe : \E why \in {"fg", "bg", "subst"} : StartJob(n, why)
  <2>1. PICK n \in 1..MaxPipe, why \in {"fg", "bg", "subst"} : StartJob(n, why)
    BY <1>5
  <2>2. cur' \in Slots'
    <3>1. cur' = NewSlot
      BY <2>1 DEF StartJob, MakeJob
    <3>2. SlotCleared(NewSlot)
      BY <2>1, StartStep
    <3> QED
      BY <3>1, <3>2 DEF SlotCleared
  <2>3. left' = n /\ mode' = why /\ UNCHANGED <<shlvl, exitstatus, ended>>
    BY <2>1 DEF StartJob
  <2> QED
    BY <2>2, <2>3 DEF RestTypes
<1>6. CASE \E p \in Pids : Fork(p)
  <2>1. PICK p \in Pids : Fork(p)
    BY <1>6
  <2>2. cur' \in {cur, 0} /\ mode' \in {mode, "none"} /\ shlvl' = shlvl
    BY <2>1 DEF Fork, Launched, NoJob
  <2>3. left' \in {0, left - 1} /\ (left' = left - 1 => left \in 1..MaxPipe)
    BY <2>1 DEF Fork, Launched, NoJob, Inv, LaunchSound
  <2>4. exitstatus' \in {exitstatus, 0} /\ ended' \in {ended, "SIGINT"}
    BY <2>1 DEF Fork, Launched, IntOn, ToMain
  <2> QED
    BY <1>1, <1>2, <2>2, <2>3, <2>4 DEF RestTypes
<1>7. CASE ForegroundDone
  <2>1. exitstatus' \in Nat
    BY <1>3, <1>4, <1>7 DEF ForegroundDone, RestTypes
  <2>2. cur' = 0 /\ left' = 0 /\ mode' = "none" /\ shlvl' = shlvl /\ ended' \in {ended, "SIGINT"}
    BY <1>7 DEF ForegroundDone, NoJob, IntOn, ToMain
  <2> QED
    BY <1>2, <2>1, <2>2 DEF RestTypes
<1>8. CASE \E p \in Pids : WaitStep(p) \/ ReapMore(p) \/ ForkWriter(p)
  <2>1. UNCHANGED <<shlvl, cur, left, mode, exitstatus, ended>>
    BY <1>8 DEF WaitStep, ReapMore, ForkWriter
  <2> QED
    BY <1>1, <2>1 DEF RestTypes
<1>9. CASE ReapEnough
  <2>1. UNCHANGED <<shlvl, cur, left, mode, exitstatus>> /\ ended' \in {ended, "SIGINT"}
    BY <1>9 DEF ReapEnough, IntOn, ToMain
  <2> QED
    BY <1>1, <2>1 DEF RestTypes
<1>10. CASE BecomeChild
  <2>1. /\ shlvl < MaxLevel /\ shlvl' = shlvl + 1 /\ cur' = 0 /\ left' = 0 /\ mode' = "none"
        /\ exitstatus' = exitstatus /\ ended' \in {ended, "SIGINT"}
    BY <1>10 DEF BecomeChild, NoJob, IntOn, ToMain
  <2> QED
    BY <1>2, <2>1 DEF RestTypes
<1>11. CASE ForkFails
  BY <1>11 DEF ForkFails, Reliable
<1>12. CASE \E p \in Pids, status \in WaitStatuses : ChildEnds(p, status)
  <2>1. UNCHANGED <<shlvl, cur, left, mode, exitstatus, ended>>
    BY <1>12 DEF ChildEnds
  <2> QED
    BY <1>1, <2>1 DEF RestTypes
<1>13. CASE WaitRefused \/ WaitUnknown \/ WaitAll \/ WaitAllDone \/ EndCommand \/ Exit
  <2>1. UNCHANGED <<shlvl, cur, left, mode>> /\ ended' \in {ended, "exit"}
    BY <1>13 DEF WaitRefused, WaitUnknown, WaitAll, WaitAllDone, EndCommand, Exit
  <2>2. exitstatus' \in {exitstatus, 127, 2, 0} \/ (pendingsig # None /\ exitstatus' = 128 + pendingsig)
    BY <1>13 DEF WaitRefused, WaitUnknown, WaitAll, WaitAllDone, EndCommand, Exit
  <2>3. pendingsig # None => 128 + pendingsig \in Nat
    BY <1>2 DEF SignalTypes
  <2> QED
    BY <1>1, <2>1, <2>2, <2>3 DEF RestTypes
<1>14. CASE \/ \E s \in Slots : s \in NamedByNumber(s) \cup NamedBySign /\ WaitFor(s)
            \/ \E p \in Pids : \E s \in NamedByPid(p) : WaitFor(s)
  <2>1. \E s \in Slots : WaitFor(s)
    BY <1>14, NamedJobsAreUsed
  <2>2. cur' \in Slots /\ UNCHANGED <<shlvl, left, mode, exitstatus, ended>>
    BY <2>1 DEF WaitFor
  <2> QED
    BY <1>1, <2>2 DEF RestTypes
<1>15. CASE WaitOneDone
  <2>1. exitstatus' \in Nat
    BY <1>3, <1>4, <1>15 DEF WaitOneDone
  <2>2. cur' = 0 /\ left' = 0 /\ mode' = "none" /\ shlvl' = shlvl /\ ended' = ended
    BY <1>15 DEF WaitOneDone, NoJob
  <2> QED
    BY <1>2, <2>1, <2>2 DEF RestTypes
<1>16. CASE NoChildLeft \/ PipeFails \/ SignalNext
  <2>1. \E sig \in TrappedSignals \cup {SigInt} :
           /\ cur' \in {cur, 0} /\ left' \in {left, 0} /\ mode' \in {mode, "none"} /\ shlvl' = shlvl
           /\ ended' \in {ended, "EXSIG", "SIGINT", "EXERROR"}
           /\ exitstatus' \in {exitstatus, 2, 128 + sig, 128 + SigInt}
    <3>1. CASE NoChildLeft
      <4>1. pendingsig \in TrappedSignals \cup {SigInt}
        BY <3>1 DEF NoChildLeft, SignalTypes
      <4>2. /\ cur' = 0 /\ left' = 0 /\ mode' = "none" /\ shlvl' = shlvl
            /\ ended' \in {ended, "EXSIG", "SIGINT"}
            /\ exitstatus' \in {exitstatus, 128 + pendingsig}
        BY <3>1 DEF NoChildLeft, RaiseExsig, Raise, ToMain, NoJob
      <4> QED
        BY <4>1, <4>2
    <3>2. CASE PipeFails
      BY <3>2 DEF PipeFails, Error, Raise, ToMain, NoJob
    <3>3. CASE SignalNext
      <4>1. PICK sig \in TrappedSignals \cup {SigInt} : SignalArrives(sig) \/ SignalWakes(sig)
        BY <3>3 DEF SignalNext
      <4>2. CASE SignalArrives(sig)
        BY <4>2 DEF SignalArrives, ToMain, NoJob
      <4>3. CASE SignalWakes(sig)
        BY <4>3 DEF SignalWakes, RaiseExsig, Raise, ToMain, NoJob
      <4> QED
        BY <4>1, <4>2, <4>3
    <3> QED
      BY <1>16, <3>1, <3>2, <3>3
  <2>2. PICK sig \in TrappedSignals \cup {SigInt} :
           /\ cur' \in {cur, 0} /\ left' \in {left, 0} /\ mode' \in {mode, "none"} /\ shlvl' = shlvl
           /\ ended' \in {ended, "EXSIG", "SIGINT", "EXERROR"}
           /\ exitstatus' \in {exitstatus, 2, 128 + sig, 128 + SigInt}
    BY <2>1
  <2>3. 128 + sig \in Nat /\ 128 + SigInt \in Nat
    BY <1>2
  <2> QED
    BY <1>1, <1>2, <2>2, <2>3 DEF RestTypes
<1>17. CASE Spin \/ Ended
  <2>1. UNCHANGED <<shlvl, cur, left, mode, exitstatus, ended>>
    BY <1>17 DEF Spin, Ended, vars
  <2> QED
    BY <1>1, <2>1 DEF RestTypes
<1> QED
  BY <1>5, <1>6, <1>7, <1>8, <1>9, <1>10, <1>11, <1>12, <1>13, <1>14, <1>15, <1>16, <1>17,
     NextIsOneOf DEF Quiet

LEMMA SignalStep ==
    ASSUME SignalTypes, Reliable, Next
    PROVE  SignalTypes'
<1> USE DEF levelVars, tableVars, kernelVars, launchVars, signalVars, trapVars
<1>1. \/ UNCHANGED signalVars
      \/ trapped' = {} /\ intIgnored' \in BOOLEAN /\ intpending' = FALSE /\ UNCHANGED <<gotsig, pendingsig>>
      \/ UNCHANGED <<trapped, intIgnored, gotsig, pendingsig>> /\ intpending' = FALSE
      \/ /\ UNCHANGED <<trapped, intIgnored, intpending>> /\ pendingsig' = None
         /\ gotsig' \in {gotsig, {}}
      \/ \E sig \in TrappedSignals \cup {SigInt} :
            /\ UNCHANGED <<trapped, intIgnored>>
            /\ gotsig' = gotsig \cup {sig} /\ pendingsig' \in {sig, None}
            /\ intpending' = intpending \/ intpending' = FALSE \/ intpending' = TRUE
  <2>1. CASE \E n \in 1..MaxPipe : \E why \in {"fg", "bg", "subst"} : StartJob(n, why)
    BY <2>1 DEF StartJob
  <2>2. CASE \E p \in Pids : Fork(p)
    BY <2>2 DEF Fork, Launched, IntOn
  <2>3. CASE ForegroundDone \/ ReapEnough
    BY <2>3 DEF ForegroundDone, ReapEnough, IntOn
  <2>4. CASE \E p \in Pids : WaitStep(p) \/ ReapMore(p) \/ ForkWriter(p)
    BY <2>4 DEF WaitStep, ReapMore, ForkWriter
  <2>5. CASE BecomeChild
    BY <2>5 DEF BecomeChild, IntOn
  <2>6. CASE ForkFails
    BY <2>6 DEF ForkFails, Reliable
  <2>7. CASE \E p \in Pids, status \in WaitStatuses : ChildEnds(p, status)
    BY <2>7 DEF ChildEnds
  <2>8. CASE WaitRefused \/ WaitUnknown \/ WaitAll \/ WaitAllDone \/ WaitOneDone \/ Exit
    BY <2>8 DEF WaitRefused, WaitUnknown, WaitAll, WaitAllDone, WaitOneDone, Exit
  <2>9. CASE EndCommand
    BY <2>9 DEF EndCommand, Serve
  <2>10. CASE \/ \E s \in Slots : s \in NamedByNumber(s) \cup NamedBySign /\ WaitFor(s)
              \/ \E p \in Pids : \E s \in NamedByPid(p) : WaitFor(s)
    BY <2>10 DEF WaitFor
  <2>11. CASE NoChildLeft \/ PipeFails
    BY <2>11 DEF NoChildLeft, PipeFails, RaiseExsig, Error, Raise
  <2>12. CASE SignalNext
    <3>1. PICK sig \in TrappedSignals \cup {SigInt} : SignalArrives(sig) \/ SignalWakes(sig)
      BY <2>12 DEF SignalNext
    <3>2. CASE SignalArrives(sig)
      BY <3>2 DEF SignalArrives
    <3>3. CASE SignalWakes(sig)
      BY <3>3 DEF SignalWakes, RaiseExsig, Raise
    <3> QED
      BY <3>1, <3>2, <3>3
  <2>13. CASE Spin \/ Ended
    BY <2>13 DEF Spin, Ended, vars
  <2> QED
    BY <2>1, <2>2, <2>3, <2>4, <2>5, <2>6, <2>7, <2>8, <2>9, <2>10, <2>11, <2>12, <2>13,
       NextIsOneOf DEF Quiet
<1> QED
  BY <1>1 DEF SignalTypes

Everything == Inv /\ RestTypes /\ SignalTypes

LEMMA FullInvariant == Reliable => (Spec => []Everything)
<1> SUFFICES ASSUME Reliable
             PROVE  Spec => []Everything
  OBVIOUS
<1>1. Init => Everything
  <2> SUFFICES ASSUME Init
               PROVE  RestTypes /\ SignalTypes
    BY InitIsSound DEF Everything
  <2>1. RestTypes
    BY JobsAssumption DEF Init, RestTypes
  <2>2. SignalTypes
    BY DEF Init, SignalTypes
  <2> QED
    BY <2>1, <2>2
<1>2. Everything /\ [Next]_vars => Everything'
  <2>1. CASE Next
    BY <2>1, NextKeepsInv, RestStep, SignalStep DEF Everything
  <2>2. CASE UNCHANGED vars
    <3>1. Everything => RestTypes' /\ SignalTypes'
      BY <2>2 DEF vars, levelVars, tableVars, launchVars, signalVars, trapVars,
                  Everything, RestTypes, SignalTypes, Slots
    <3> QED
      BY <2>2, <3>1, NextKeepsInv DEF Everything
  <2> QED
    BY <2>1, <2>2
<1> QED
  BY <1>1, <1>2, PTL DEF Spec

(* Every variable of the shell's jobs keeps its type.                      *)
THEOREM TypeCorrect == Reliable => (Spec => []TypeOK)
<1>1. Everything => TypeOK
  <2> SUFFICES ASSUME Everything
               PROVE  TypeOK
    OBVIOUS
  <2>1. \A s \in Slots : jobtab[s] \in SlotRecords
    BY DEF Everything, Inv, TableTypes, Slots
  <2>2. \A s \in Slots : /\ jobtab[s].state \in {"free", "running", "done"}
                         /\ jobtab[s].waited \in BOOLEAN
                         /\ jobtab[s].procs \in Seq(Procs)
    BY <2>1 DEF SlotRecords
  <2>3. iflag \in BOOLEAN
    BY JobsAssumption DEF Everything, Inv, TableTypes
  <2> QED
    BY <2>2, <2>3 DEF TypeOK, Everything, Inv, TableTypes, States, RestTypes, SignalTypes
<1> QED
  BY <1>1, FullInvariant, PTL

(* $? after a foreground command and after `wait' for one job is the       *)
(* status its last process really ended with (waitforjob, waitcmd).        *)
THEOREM StatusIsRight == Reliable => (Spec => RightStatus)
<1> DEFINE Right == (pc \in {"fg", "waitone"} /\ pc' = "after" /\ JobDone(cur))
                        => exitstatus' = Decode(truth[cur])
<1> SUFFICES ASSUME Reliable
             PROVE  Spec => RightStatus
  OBVIOUS
<1>1. Inv /\ [Next]_vars => [Right]_vars
  <2> SUFFICES ASSUME Inv, Next, pc \in {"fg", "waitone"}, pc' = "after", JobDone(cur)
               PROVE  exitstatus' = Decode(truth[cur])
    OBVIOUS
  <2>1. exitstatus' \in JobStatus(cur) => exitstatus' = Decode(truth[cur])
    BY DoneJobsTruth
  <2>2. ~StillWaiting
    BY DEF StillWaiting, JobDone, JobRunning
  <2>3. CASE ForegroundDone
    <3>1. mode # "subst"
      BY <2>3 DEF ForegroundDone, IntOn, ToMain
    <3> QED
      BY <2>1, <2>3, <3>1 DEF ForegroundDone
  <2>4. CASE WaitOneDone
    BY <2>1, <2>4 DEF WaitOneDone
  <2>5. CASE \/ \E n \in 1..MaxPipe : \E why \in {"fg", "bg", "subst"} : StartJob(n, why)
             \/ \E p \in Pids : Fork(p)
             \/ \E p \in Pids : ForkWriter(p)
             \/ ReapEnough \/ BecomeChild \/ ForkFails \/ PipeFails
    BY <2>5 DEF StartJob, Fork, ForkWriter, ReapEnough, BecomeChild, ForkFails, PipeFails
  <2>6. CASE \E p \in Pids : WaitStep(p) \/ ReapMore(p)
    BY <2>2, <2>6 DEF WaitStep, ReapMore
  <2>7. CASE \E p \in Pids, status \in WaitStatuses : ChildEnds(p, status)
    BY <2>7 DEF ChildEnds
  <2>8. CASE \/ WaitRefused \/ WaitAll \/ WaitUnknown \/ Exit \/ WaitAllDone \/ EndCommand
             \/ Spin \/ Ended
    BY <2>8 DEF WaitRefused, WaitAll, WaitUnknown, Exit, WaitAllDone, EndCommand, Spin, Ended, vars
  <2>9. CASE \/ \E s \in Slots : s \in NamedByNumber(s) \cup NamedBySign /\ WaitFor(s)
             \/ \E p \in Pids : \E s \in NamedByPid(p) : WaitFor(s)
    BY <2>9 DEF WaitFor
  <2>10. CASE NoChildLeft
    BY <2>2, <2>10 DEF NoChildLeft
  <2>11. CASE SignalNext
    BY <2>2, <2>11 DEF SignalNext, SignalArrives, SignalWakes, ToMain
  <2> QED
    BY <2>3, <2>4, <2>5, <2>6, <2>7, <2>8, <2>9, <2>10, <2>11, NextIsOneOf DEF Quiet
<1>2. RightStatus <=> [][Right]_vars
  BY DEF RightStatus
<1> HIDE DEF Right
<1> QED
  BY <1>1, <1>2, JobsInvariant, PTL DEF Spec

(* `wait' without operands that is not interrupted leaves no child of a    *)
(* job behind (waitcmd).                                                   *)
THEOREM WaitTakesAll == Reliable => (Spec => WaitAllMeansAll)
<1> DEFINE NoneLeft == (pc = "waitall" /\ pc' = "after" /\ exitstatus' = 0)
                          => \A p \in Pids : child[p] # None => owner[p].job = 0
<1> SUFFICES ASSUME Reliable
             PROVE  Spec => WaitAllMeansAll
  OBVIOUS
<1>1. Inv /\ [Next]_vars => [NoneLeft]_vars
  <2> SUFFICES ASSUME Inv, Next, pc = "waitall", pc' = "after", exitstatus' = 0,
                      NEW p \in Pids, child[p] # None, owner[p].job # 0
               PROVE  FALSE
    OBVIOUS
  <2>1. \E s \in Slots : JobRunning(s)
    <3>1. owner[p].job \in Slots /\ Expects(owner[p].job, p)
      BY DEF Inv, KernelSound
    <3> QED
      BY <3>1, ExpectingJobRuns
  <2>2. StillWaiting
    BY <2>1 DEF StillWaiting, Waiting
  <2>3. CASE ForegroundDone \/ WaitOneDone \/ WaitAllDone
    BY <2>2, <2>3 DEF ForegroundDone, WaitOneDone, WaitAllDone
  <2>4. CASE \/ \E n \in 1..MaxPipe : \E why \in {"fg", "bg", "subst"} : StartJob(n, why)
             \/ \E q \in Pids : Fork(q)
             \/ \E q \in Pids : ForkWriter(q)
             \/ ReapEnough \/ BecomeChild \/ ForkFails \/ PipeFails
    BY <2>4 DEF StartJob, Fork, ForkWriter, ReapEnough, BecomeChild, ForkFails, PipeFails
  <2>5. CASE \E q \in Pids : WaitStep(q) \/ ReapMore(q)
    BY <2>5 DEF WaitStep, ReapMore
  <2>6. CASE \E q \in Pids, status \in WaitStatuses : ChildEnds(q, status)
    BY <2>6 DEF ChildEnds
  <2>7. CASE WaitRefused \/ WaitAll \/ WaitUnknown \/ Exit \/ EndCommand \/ Spin \/ Ended
    BY <2>7 DEF WaitRefused, WaitAll, WaitUnknown, Exit, EndCommand, Spin, Ended, vars
  <2>8. CASE \/ \E s \in Slots : s \in NamedByNumber(s) \cup NamedBySign /\ WaitFor(s)
             \/ \E q \in Pids : \E s \in NamedByPid(q) : WaitFor(s)
    BY <2>8 DEF WaitFor
  <2>9. CASE NoChildLeft
    BY <2>9 DEF NoChildLeft
  <2>10. CASE SignalNext
    <3>1. PICK sig \in TrappedSignals \cup {SigInt} : SignalArrives(sig) \/ SignalWakes(sig)
      BY <2>10 DEF SignalNext
    <3>2. 128 + sig # 0
      BY JobsAssumption DEF SigInt
    <3> QED
      BY <3>1, <3>2 DEF SignalArrives, SignalWakes, RaiseExsig, ToMain
  <2> QED
    BY <2>3, <2>4, <2>5, <2>6, <2>7, <2>8, <2>9, <2>10, NextIsOneOf DEF Quiet
<1>2. WaitAllMeansAll <=> [][NoneLeft]_vars
  BY DEF WaitAllMeansAll
<1> HIDE DEF NoneLeft
<1> QED
  BY <1>1, <1>2, JobsInvariant, PTL DEF Spec

\* What UnwaitedJobsKept says of a step and of one slot.
KeptSlot(s) ==
    /\ (Used(s) /\ ~jobtab[s].waited /\ s # cur /\ shlvl' = shlvl)
          => jobtab'[s].state # "free" /\ PidsOf(jobtab'[s]) = PidsOf(jobtab[s])
    /\ \A i \in DOMAIN jobtab[s].procs :
          (JobRunning(s) /\ ~Awaited(s, i) /\ jobtab'[s].procs # <<>>)
             => jobtab'[s].procs[i] = jobtab[s].procs[i]

LEMMA SameSlotIsKept ==
    ASSUME NEW s \in Slots, jobtab'[s].state = jobtab[s].state, jobtab'[s].procs = jobtab[s].procs
    PROVE  KeptSlot(s)
BY DEF KeptSlot, Used, PidsOf

LEMMA ReapKeepsSlot ==
    ASSUME Inv, NEW p \in Pids, IsZombie(p), JobReaped(owner[p].job, p), NEW s \in Slots
    PROVE  KeptSlot(s)
<1>1. /\ Slots' = Slots
      /\ PidsOf(jobtab'[s]) = PidsOf(jobtab[s])
      /\ Used(s) => jobtab'[s].state # "free"
  BY ReapEffect DEF Used
<1>2. ASSUME NEW i \in DOMAIN jobtab[s].procs, ~Awaited(s, i)
      PROVE  jobtab'[s].procs[i] = jobtab[s].procs[i]
  <2>1. CASE s # owner[p].job
    BY <2>1, ReapEffect
  <2>2. CASE s = owner[p].job
    <3>1. child[p] # None /\ s # 0
      BY DEF IsZombie, Slots
    <3>2. Expects(s, p)
      BY <2>2, <3>1 DEF Inv, KernelSound
    <3>3. PICK j \in DOMAIN jobtab[s].procs : jobtab[s].procs[j].pid = p /\ Awaited(s, j)
      BY <3>2 DEF Expects
    <3>4. SlotSound(s)
      BY DEF Inv
    <3>5. jobtab[s].procs[i].pid # p
      <4> SUFFICES ASSUME jobtab[s].procs[i].pid = p
                   PROVE  i = j
        BY <1>2, <3>3
      <4> QED
        BY <3>3, <3>4 DEF SlotSound, IsInjective, PidsOf
    <3>6. /\ jobtab'[s].procs[i].pid = jobtab[s].procs[i].pid
          /\ jobtab'[s].procs[i].status = jobtab[s].procs[i].status
          /\ DOMAIN jobtab'[s].procs = DOMAIN jobtab[s].procs
      BY <3>5 DEF JobReaped
    <3>7. jobtab[s] \in SlotRecords /\ jobtab'[s] \in SlotRecords
      BY <1>1 DEF Inv, TableTypes, JobReaped, Slots
    <3>8. jobtab[s].procs \in Seq(Procs) /\ jobtab'[s].procs \in Seq(Procs)
      BY <3>7 DEF SlotRecords
    <3>9. jobtab[s].procs[i] \in Procs /\ jobtab'[s].procs[i] \in Procs
      BY <3>6, <3>8
    <3> QED
      BY <3>6, <3>9 DEF Procs
  <2> QED
    BY <2>1, <2>2
<1> QED
  BY <1>1, <1>2 DEF KeptSlot

LEMMA ForkKeepsSlot ==
    ASSUME Inv, NEW p \in Pids, Fork(p), NEW s \in Slots
    PROVE  KeptSlot(s)
<1>0. PICK c \in Slots : c = cur
  BY ForkEffect
<1>1. pc = "fork" /\ JobGrows(c, p)
  BY <1>0, ForkEffect
<1>2. CASE s # c
  BY <1>1, <1>2, SameSlotIsKept DEF JobGrows
<1>3. CASE s = c
  <2>1. \A i \in DOMAIN jobtab[c].procs : jobtab'[c].procs[i] = jobtab[c].procs[i]
    <3>1. jobtab[c] \in SlotRecords
      BY DEF Inv, TableTypes, Slots
    <3>2. jobtab[c].procs \in Seq(Procs)
      BY <3>1 DEF SlotRecords
    <3>3. PICK e \in Procs : e = [pid |-> p, status |-> Unreaped]
      BY DEF Procs, Unreaped
    <3>4. jobtab'[c].procs = Append(jobtab[c].procs, e)
      BY <1>1, <3>3 DEF JobGrows
    <3> QED
      BY <3>2, <3>3, <3>4
  <2> QED
    BY <1>0, <1>3, <2>1 DEF KeptSlot
<1> QED
  BY <1>2, <1>3

(* A job nobody has waited for keeps its slot and its processes, and a     *)
(* wait status once recorded for a process of a running job is final       *)
(* (makejob, freejob, dowait).                                             *)
THEOREM JobsAreKept == Reliable => (Spec => UnwaitedJobsKept)
<1> DEFINE Kept == \A s \in Slots : KeptSlot(s)
<1> SUFFICES ASSUME Reliable
             PROVE  Spec => UnwaitedJobsKept
  OBVIOUS
<1>1. Everything /\ [Next]_vars => [Kept]_vars
  <2> SUFFICES ASSUME Everything, Next, NEW s \in Slots
               PROVE  KeptSlot(s)
    OBVIOUS
  <2>0. Inv
    BY DEF Everything
  <2>1. CASE Quiet
    <3>1. TableKept
      BY <2>0, <2>1, QuietKeeps
    <3> QED
      BY <3>1, SameSlotIsKept DEF TableKept
  <2>2. CASE \E n \in 1..MaxPipe : \E why \in {"fg", "bg", "subst"} : StartJob(n, why)
    <3>1. SlotCleared(NewSlot) /\ (NewSlot \in Slots => NewSlot \in Reusable)
      BY <2>0, <2>2, StartStep
    <3>2. CASE s # NewSlot
      BY <3>1, <3>2, SameSlotIsKept DEF SlotCleared
    <3>3. CASE s = NewSlot
      BY <3>1, <3>3 DEF SlotCleared, KeptSlot, Reusable
    <3> QED
      BY <3>2, <3>3
  <2>3. CASE ForegroundDone
    <3>1. SlotCleared(cur)
      BY <2>0, <2>3, ForegroundStep
    <3>2. CASE s # cur
      BY <3>1, <3>2, SameSlotIsKept DEF SlotCleared
    <3>3. CASE s = cur
      BY <3>1, <3>3 DEF SlotCleared, KeptSlot
    <3> QED
      BY <3>2, <3>3
  <2>4. CASE \E p \in Pids : Fork(p)
    BY <2>0, <2>4, ForkKeepsSlot
  <2>5. CASE \E p \in Pids : WaitStep(p) \/ ReapMore(p)
    BY <2>0, <2>5, ReapStep, ReapKeepsSlot
  <2>6. CASE \/ \E p \in Pids : ForkWriter(p)
             \/ \E p \in Pids, status \in WaitStatuses : ChildEnds(p, status)
    BY <2>6, SameSlotIsKept DEF ForkWriter, ChildEnds, tableVars
  <2>7. CASE ReapEnough
    BY <2>7, SameSlotIsKept DEF ReapEnough
  <2>8. CASE BecomeChild
    <3>1. shlvl' # shlvl
      BY <2>8, JobsAssumption DEF BecomeChild, Everything, RestTypes
    <3>2. jobtab'[s].procs = <<>>
      BY <2>8 DEF BecomeChild, ForgetJobs, EmptySlot
    <3> QED
      BY <3>1, <3>2 DEF KeptSlot
  <2>9. CASE ForkFails
    BY <2>9 DEF ForkFails, Reliable
  <2> QED
    BY <2>1, <2>2, <2>3, <2>4, <2>5, <2>6, <2>7, <2>8, <2>9, NextIsOneOf
<1>2. UnwaitedJobsKept <=> [][Kept]_vars
  BY DEF UnwaitedJobsKept, KeptSlot
<1> HIDE DEF Kept
<1> QED
  BY <1>1, <1>2, FullInvariant, PTL DEF Spec
=============================================================================
