------------------------- MODULE RedirectionsProofs -------------------------
(***************************************************************************)
(* Facts about the operators of Redirections, for lists of redirections of *)
(* any length and any number of descriptors.                               *)
(***************************************************************************)
EXTENDS Redirections, FiniteSetTheorems, WellFoundedInduction, TLAPS

USE RedirectionsAssumption

-----------------------------------------------------------------------------
(***************************************************************************)
(* Induction over an interval, stated with sets.                           *)
(***************************************************************************)
LEMMA LeastElement ==
    ASSUME NEW T \in SUBSET Nat, T # {}
    PROVE  \E m \in T : \A n \in T : m <= n
<1>1. PICK m \in T : \A n \in T : <<n, m>> \notin OpToRel(<, Nat)
  BY NatLessThanWellFounded, WFMin
<1>2. \A n \in T : ~(n < m)
  BY <1>1 DEF OpToRel
<1> QED
  BY <1>2

LEMMA IntervalInduction ==
    ASSUME NEW n \in Nat, NEW T, 0 \in T, \A i \in 0..(n - 1) : i \in T => i + 1 \in T
    PROVE  0..n \subseteq T
<1> SUFFICES ASSUME ~(0..n \subseteq T)
             PROVE  FALSE
  OBVIOUS
<1> DEFINE U == (0..n) \ T
<1>1. U \in SUBSET Nat /\ U # {}
  OBVIOUS
<1>2. PICK m \in U : \A i \in U : m <= i
  <2> HIDE DEF U
  <2> QED
    BY <1>1, LeastElement
<1>3. m # 0 /\ m - 1 \in 0..(n - 1) /\ m - 1 \notin U
  BY <1>2
<1>4. m - 1 \in T
  BY <1>3
<1>5. (m - 1) + 1 \in T
  BY <1>3, <1>4
<1> QED
  BY <1>2, <1>5

Iterates(f, k, start, next) ==
    f = [i \in 0..k |-> IF i = 0 THEN start ELSE next[<<i, f[i - 1]>>]]

(* A function can be defined by its first value and the next ones.         *)
LEMMA Iteration ==
    ASSUME NEW n \in Nat, NEW S, NEW start \in S, NEW next \in [(1..n) \X S -> S]
    PROVE  \E f \in [0..n -> S] : Iterates(f, n, start, next)
<1> DEFINE Upto(k, f) == Iterates(f, k, start, next)
           T == {k \in 0..n : \E f \in [0..k -> S] : Upto(k, f)}
<1>1. 0 \in T
  <2> DEFINE f == [i \in 0..0 |-> start]
  <2>1. f \in [0..0 -> S]
    OBVIOUS
  <2>2. \A i \in 0..0 : f[i] = IF i = 0 THEN start ELSE next[<<i, f[i - 1]>>]
    OBVIOUS
  <2>3. Upto(0, f)
    BY <2>1, <2>2 DEF Iterates
  <2> HIDE DEF f, Upto
  <2> QED
    BY <2>1, <2>3
<1>2. ASSUME NEW k \in 0..(n - 1), k \in T
      PROVE  k + 1 \in T
  <2>1. PICK f \in [0..k -> S] : Upto(k, f)
    BY <1>2
  <2> DEFINE g == [i \in 0..(k + 1) |-> IF i <= k THEN f[i] ELSE next[<<k + 1, f[k]>>]]
  <2>2. next[<<k + 1, f[k]>>] \in S
    OBVIOUS
  <2>3. g \in [0..(k + 1) -> S]
    BY <2>2
  <2>4. \A i \in 0..(k + 1) : g[i] = IF i = 0 THEN start ELSE next[<<i, g[i - 1]>>]
    <3> TAKE i \in 0..(k + 1)
    <3>1. CASE i <= k
      BY <2>1, <3>1 DEF Iterates
    <3>2. CASE i = k + 1
      <4>1. i # 0 /\ i - 1 = k /\ k \in 0..k
        BY <3>2
      <4>2. g[i] = next[<<k + 1, f[k]>>] /\ g[k] = f[k]
        BY <3>2, <4>1
      <4> HIDE DEF g
      <4> QED
        BY <3>2, <4>1, <4>2
    <3> QED
      BY <3>1, <3>2
  <2>5. Upto(k + 1, g)
    BY <2>3, <2>4 DEF Iterates
  <2> HIDE DEF g, Upto
  <2> QED
    BY <2>3, <2>5
<1> HIDE DEF T
<1>3. 0..n \subseteq T
  BY <1>1, <1>2, IntervalInduction
<1>4. n \in T
  BY <1>3
<1> QED
  BY <1>4 DEF T

-----------------------------------------------------------------------------
(***************************************************************************)
(* Types.                                                                  *)
(***************************************************************************)
HighFds == FirstSaved..(MaxOpen - 1)
FdTables == [Fds -> Files \cup {Closed}]
Renames == [UserFds -> {EMPTY, CLOSED} \cup HighFds]
Tabs == [renamed : Renames, nullredirs : Int]
Ios == [fds : FdTables, redirlist : Seq(Tabs), nullredirs : Int]
Steps == [fds : FdTables, renamed : Renames, push : BOOLEAN, error : BOOLEAN]

LEMMA FdSets ==
    /\ Fds \subseteq Nat /\ UserFds \subseteq Fds /\ HighFds \subseteq Fds
    /\ UserFds \cap HighFds = {} /\ Fds = UserFds \cup HighFds
BY DEF Fds, UserFds, HighFds

(* The lowest free descriptor is free, and nothing below it is.            *)
LEMMA LowestIsFree ==
    ASSUME NEW fds \in FdTables, NEW from \in Nat
    PROVE  \/ /\ Lowest(fds, from) = -1
              /\ \A d \in Fds : d >= from => fds[d] # Closed
           \/ /\ Lowest(fds, from) \in Fds /\ Lowest(fds, from) >= from
              /\ fds[Lowest(fds, from)] = Closed
              /\ \A d \in Fds : d >= from /\ fds[d] = Closed => Lowest(fds, from) <= d
<1> DEFINE free == {d \in Fds : d >= from /\ fds[d] = Closed}
           lowest == CHOOSE d \in free : \A e \in free : d <= e
<1>1. free \in SUBSET Nat
  BY FdSets
<1>2. free # {} => lowest \in free /\ \A e \in free : lowest <= e
  <2> HIDE DEF free
  <2> QED
    BY <1>1, LeastElement
<1>3. Lowest(fds, from) = IF free = {} THEN -1 ELSE lowest
  BY DEF Lowest
<1> HIDE DEF lowest
<1> QED
  BY <1>2, <1>3

LEMMA CopyTypes ==
    ASSUME NEW fds \in FdTables, NEW from \in Fds, NEW to \in Nat
    PROVE  /\ CopyFd(fds, from, to) \in {-1, EMPTY} \cup {d \in Fds : d >= to}
           /\ Copied(fds, from, to) \in FdTables
<1>1. CopyFd(fds, from, to) \in {-1, EMPTY} \cup {d \in Fds : d >= to}
  BY LowestIsFree DEF CopyFd
<1>2. fds[from] \in Files \cup {Closed}
  BY DEF FdTables
<1>3. Copied(fds, from, to) \in FdTables
  BY <1>1, <1>2 DEF Copied, FdTables
<1> QED
  BY <1>1, <1>3

(* A copy to a closed descriptor goes there.                               *)
LEMMA CopyToClosed ==
    ASSUME NEW fds \in FdTables, NEW from \in Fds, NEW to \in Fds, fds[to] = Closed
    PROVE  Copied(fds, from, to) = IF fds[from] = Closed THEN fds
                                   ELSE [fds EXCEPT ![to] = fds[from]]
<1>1. to \in Nat
  BY FdSets
<1>2. Lowest(fds, to) \in Fds /\ Lowest(fds, to) >= to /\ Lowest(fds, to) <= to
  BY <1>1, LowestIsFree
<1>3. Lowest(fds, to) \in Nat
  BY <1>2, FdSets
<1>4. Lowest(fds, to) = to
  BY <1>1, <1>2, <1>3
<1>5. to # -1 /\ to >= 0 /\ ~(-1 >= 0)
  BY <1>1
<1>6. CASE fds[from] = Closed
  <2>1. CopyFd(fds, from, to) = -1
    BY <1>6 DEF CopyFd
  <2> QED
    BY <1>5, <1>6, <2>1 DEF Copied
<1>7. CASE fds[from] # Closed
  <2>1. CopyFd(fds, from, to) = to
    BY <1>4, <1>5, <1>7, Zenon DEF CopyFd
  <2> QED
    BY <1>5, <1>7, <2>1 DEF Copied
<1> QED
  BY <1>6, <1>7

LEMMA ApplyTypes ==
    ASSUME NEW step \in Steps, NEW r \in Redirection
    PROVE  Apply(step, r) \in Steps
<1> DEFINE new == IF r.op = "open" THEN Lowest(step.fds, 0) ELSE -1
           fails == r.op = "open" /\ (r.file = Closed \/ new = -1)
           opened == IF r.op = "open" THEN [step.fds EXCEPT ![new] = r.file] ELSE step.fds
           save == Saves(step, r.fd)
           at == SavedAt(opened, r.fd)
           moved == IF save /\ at >= 0 THEN [opened EXCEPT ![at] = opened[r.fd]] ELSE opened
           freed == IF save /\ at = -1 THEN moved ELSE [moved EXCEPT ![r.fd] = Closed]
<1>1. /\ r.fd \in UserFds /\ r.op \in {"open", "dup"}
      /\ r.op = "open" => r.file \in Files \cup {Closed}
      /\ r.op = "dup" => r.from \in UserFds \cup {-1}
  BY DEF Redirection
<1>2. /\ step.fds \in FdTables /\ step.renamed \in Renames
      /\ step.push \in BOOLEAN /\ step.error \in BOOLEAN
  BY DEF Steps
<1>3. r.op = "open" => new \in Fds \cup {-1}
  BY <1>2, LowestIsFree
<1>4. opened \in FdTables
  BY <1>1, <1>2 DEF FdTables
<1>5. r.fd \in Fds /\ FirstSaved \in Nat
  BY <1>1, FdSets
<1>6. at \in {-1, EMPTY} \cup HighFds
  <2> HIDE DEF opened
  <2>1. at \in {-1, EMPTY} \cup {d \in Fds : d >= FirstSaved}
    BY <1>4, <1>5, CopyTypes DEF SavedAt
  <2> QED
    BY <2>1 DEF Fds, HighFds
<1>7. opened[r.fd] \in Files \cup {Closed}
  <2> HIDE DEF opened
  <2> QED
    BY <1>4, <1>5 DEF FdTables
<1> HIDE DEF opened, at, save
<1>8. moved \in FdTables
  BY <1>4, <1>7 DEF FdTables
<1> HIDE DEF moved
<1>9. freed \in FdTables
  BY <1>8 DEF FdTables
<1> HIDE DEF freed
<1>10. ~fails /\ r.op = "open" => new \in Fds
  BY <1>3
<1>11. ~fails => DupRedirect(freed, r, new) \in FdTables
  <2>1. CASE r.op = "dup"
    <3>1. CASE r.from >= 0
      <4>1. r.from \in Fds /\ r.fd \in Nat
        BY <1>1, <1>5, <2>1, <3>1, FdSets DEF UserFds
      <4> QED
        BY <1>9, <2>1, <3>1, <4>1, CopyTypes DEF DupRedirect
    <3>2. CASE ~(r.from >= 0)
      BY <1>9, <2>1, <3>2 DEF DupRedirect
    <3> QED
      BY <3>1, <3>2
  <2>2. CASE r.op = "open" /\ ~fails
    <3>1. new \in Fds /\ r.fd \in Nat
      BY <1>5, <1>10, <2>2, FdSets
    <3> HIDE DEF new
    <3>2. Copied(freed, new, r.fd) \in FdTables
      BY <1>9, <3>1, CopyTypes
    <3>3. [Copied(freed, new, r.fd) EXCEPT ![new] = Closed] \in FdTables
      BY <3>2 DEF FdTables
    <3> QED
      BY <2>2, <3>3 DEF DupRedirect
  <2> QED
    BY <1>1, <2>1, <2>2
<1>12. /\ [step.renamed EXCEPT ![r.fd] = IF save THEN CLOSED ELSE @] \in Renames
       /\ at # -1 => [step.renamed EXCEPT ![r.fd] = IF save /\ at # -1 THEN at ELSE @] \in Renames
       /\ at = -1 => [step.renamed EXCEPT ![r.fd] = IF save /\ at # -1 THEN at ELSE @] \in Renames
  BY <1>2, <1>6 DEF Renames
<1> DEFINE result ==
       IF step.error \/ (r.op = "dup" /\ r.from = r.fd) THEN step
       ELSE IF fails THEN [step EXCEPT !.error = TRUE]
       ELSE IF new = r.fd
       THEN [step EXCEPT !.fds = opened,
                         !.renamed[r.fd] = IF save THEN CLOSED ELSE @]
       ELSE [step EXCEPT !.fds = DupRedirect(freed, r, new),
                         !.renamed[r.fd] = IF save /\ at # -1 THEN at ELSE @]
<1>13. Apply(step, r) = result
  BY DEF Apply, freed, moved, opened, at, save
<1>14. CASE step.error \/ (r.op = "dup" /\ r.from = r.fd)
  BY <1>13, <1>14
<1>15. CASE ~(step.error \/ (r.op = "dup" /\ r.from = r.fd)) /\ fails
  <2>1. [step EXCEPT !.error = TRUE] \in Steps
    BY DEF Steps
  <2> QED
    BY <1>13, <1>15, <2>1
<1>16. CASE ~(step.error \/ (r.op = "dup" /\ r.from = r.fd)) /\ ~fails
  <2>1. CASE new = r.fd
    <3>1. result = [step EXCEPT !.fds = opened,
                                !.renamed = [step.renamed EXCEPT ![r.fd] = IF save THEN CLOSED ELSE @]]
      BY <1>16, <2>1
    <3> HIDE DEF result
    <3>2. result \in Steps
      BY <1>4, <1>12, <3>1 DEF Steps
    <3> QED
      BY <1>13, <3>2
  <2>2. CASE new # r.fd
    <3>1. result = [step EXCEPT !.fds = DupRedirect(freed, r, new),
                                !.renamed = [step.renamed EXCEPT ![r.fd] = IF save /\ at # -1 THEN at ELSE @]]
      BY <1>16, <2>2
    <3>2. DupRedirect(freed, r, new) \in FdTables
      BY <1>11, <1>16
    <3>3. [step.renamed EXCEPT ![r.fd] = IF save /\ at # -1 THEN at ELSE @] \in Renames
      BY <1>12
    <3> HIDE DEF result, new
    <3>4. result \in Steps
      BY <3>1, <3>2, <3>3 DEF Steps
    <3> QED
      BY <1>13, <3>4
  <2> QED
    BY <2>1, <2>2
<1> QED
  BY <1>14, <1>15, <1>16

-----------------------------------------------------------------------------
(***************************************************************************)
(* The loops of redirect, popredir and clearredir: what each turn keeps is *)
(* true in the end.                                                        *)
(***************************************************************************)
Start(io, push) == [fds |-> io.fds, renamed |-> [d \in UserFds |-> EMPTY],
                    push |-> push, error |-> FALSE]

LEMMA StartTypes ==
    ASSUME NEW io \in Ios, NEW push \in BOOLEAN
    PROVE  Start(io, push) \in Steps
BY DEF Start, Steps, Ios, Renames

(* What is kept by the turns of a loop, told by their number.              *)
LEMMA Turns ==
    ASSUME NEW n \in Nat, NEW S, NEW T \in SUBSET (Nat \X S), NEW f,
           <<0, f[0]>> \in T,
           \A i \in 0..(n - 1) : <<i, f[i]>> \in T => <<i + 1, f[i + 1]>> \in T
    PROVE  <<n, f[n]>> \in T
<1> DEFINE U == {i \in 0..n : <<i, f[i]>> \in T}
<1>1. 0 \in U
  OBVIOUS
<1>2. \A i \in 0..(n - 1) : i \in U => i + 1 \in U
  OBVIOUS
<1> HIDE DEF U
<1>3. 0..n \subseteq U
  BY <1>1, <1>2, IntervalInduction
<1>4. n \in U
  BY <1>3
<1> QED
  BY <1>4 DEF U

LEMMA ApplyAllInduction ==
    ASSUME NEW io \in Ios, NEW list \in Seq(Redirection), NEW push \in BOOLEAN,
           NEW T \in SUBSET (Nat \X Steps), <<0, Start(io, push)>> \in T,
           \A i \in 0..(Len(list) - 1), s \in Steps :
               <<i, s>> \in T => <<i + 1, Apply(s, list[i + 1])>> \in T
    PROVE  <<Len(list), ApplyAll(io, list, push)>> \in T
<1> DEFINE n == Len(list)
           start == Start(io, push)
           next == [p \in (1..n) \X Steps |-> Apply(p[2], list[p[1]])]
           Is(f) == f = [i \in 0..n |-> IF i = 0 THEN start ELSE Apply(f[i - 1], list[i])]
           step == CHOOSE f : Is(f)
<1>1. n \in Nat /\ start \in Steps
  BY StartTypes
<1>2. \A i \in 1..n : list[i] \in Redirection
  OBVIOUS
<1>3. next \in [(1..n) \X Steps -> Steps]
  BY <1>2, ApplyTypes
<1>4. \A i \in 1..n, s \in Steps : next[<<i, s>>] = Apply(s, list[i])
  OBVIOUS
<1>5. ApplyAll(io, list, push) = step[n]
  BY DEF ApplyAll, Start
<1>6. /\ <<0, start>> \in T
      /\ \A i \in 0..(n - 1), s \in Steps :
             <<i, s>> \in T => <<i + 1, Apply(s, list[i + 1])>> \in T
  OBVIOUS
<1> HIDE DEF next, start, n
<1>7. PICK f \in [0..n -> Steps] : Iterates(f, n, start, next)
  BY <1>1, <1>3, Iteration
<1>8. Is(f)
  <2>1. \A i \in 0..n : i # 0 => f[i - 1] \in Steps /\ i \in 1..n
    BY <1>1
  <2>2. \A i \in 0..n : f[i] = IF i = 0 THEN start ELSE Apply(f[i - 1], list[i])
    BY <1>4, <1>7, <2>1 DEF Iterates
  <2> QED
    BY <2>2
<1>9. Is(step)
  BY <1>8
<1> HIDE DEF step
<1>10. /\ step[0] = start
       /\ \A i \in 0..(n - 1) : step[i + 1] = Apply(step[i], list[i + 1])
  <2>1. \A i \in 0..(n - 1) : i + 1 \in 0..n /\ i + 1 # 0 /\ (i + 1) - 1 = i
    BY <1>1
  <2> QED
    BY <1>1, <1>9, <2>1
<1>11. \A i \in 0..(n - 1) : <<i, step[i]>> \in T => <<i + 1, step[i + 1]>> \in T
  BY <1>6, <1>10
<1> HIDE DEF Is
<1>12. <<n, step[n]>> \in T
  BY <1>1, <1>6, <1>10, <1>11, Turns
<1> QED
  BY <1>5, <1>12 DEF n

LEMMA UndoTypes ==
    ASSUME NEW fds \in FdTables, NEW d \in UserFds, NEW at \in {EMPTY, CLOSED} \cup HighFds,
           NEW drop \in BOOLEAN
    PROVE  Undo(fds, d, at, drop) \in FdTables
<1>1. d \in Fds /\ d \in Nat
  BY FdSets
<1>2. [fds EXCEPT ![d] = Closed] \in FdTables
  BY <1>1 DEF FdTables
<1>3. CASE at \in {EMPTY, CLOSED}
  BY <1>2, <1>3 DEF Undo
<1>4. CASE at \in HighFds
  <2>1. at # CLOSED /\ at # EMPTY /\ at \in Fds
    BY <1>4 DEF HighFds, CLOSED, EMPTY, Fds
  <2>2. Copied([fds EXCEPT ![d] = Closed], at, d) \in FdTables
    BY <1>1, <1>2, <2>1, CopyTypes
  <2>3. Restore(fds, d, at, drop) \in FdTables
    BY <2>1, <2>2 DEF Restore, FdTables
  <2> QED
    BY <2>1, <2>3 DEF Undo
<1> QED
  BY <1>3, <1>4

LEMMA UndoAllInduction ==
    ASSUME NEW fds \in FdTables, NEW renamed \in Renames, NEW drop \in BOOLEAN,
           NEW T \in SUBSET (Nat \X FdTables), <<0, fds>> \in T,
           \A d \in UserFds, f \in FdTables :
               <<d, f>> \in T => <<d + 1, Undo(f, d, renamed[d], drop)>> \in T
    PROVE  <<FirstSaved, UndoAll(fds, renamed, drop)>> \in T
<1> DEFINE n == FirstSaved
           next == [p \in (1..n) \X FdTables |-> Undo(p[2], p[1] - 1, renamed[p[1] - 1], drop)]
           Is(f) == f = [i \in 0..n |-> IF i = 0 THEN fds
                                        ELSE Undo(f[i - 1], i - 1, renamed[i - 1], drop)]
           undone == CHOOSE f : Is(f)
<1>1. n \in Nat
  OBVIOUS
<1>2. \A i \in 1..n : i - 1 \in UserFds /\ renamed[i - 1] \in {EMPTY, CLOSED} \cup HighFds
  BY DEF UserFds, Renames
<1>3. next \in [(1..n) \X FdTables -> FdTables]
  BY <1>2, UndoTypes
<1>4. \A i \in 1..n, f \in FdTables : next[<<i, f>>] = Undo(f, i - 1, renamed[i - 1], drop)
  OBVIOUS
<1>5. UndoAll(fds, renamed, drop) = undone[n]
  BY DEF UndoAll
<1>6. \A i \in 0..(n - 1), f \in FdTables :
          <<i, f>> \in T => <<i + 1, Undo(f, i, renamed[i], drop)>> \in T
  BY DEF UserFds
<1> HIDE DEF next, n
<1>7. PICK f \in [0..n -> FdTables] : Iterates(f, n, fds, next)
  BY <1>1, <1>3, Iteration
<1>8. Is(f)
  <2>1. \A i \in 0..n : i # 0 => f[i - 1] \in FdTables /\ i \in 1..n
    BY <1>1
  <2>2. \A i \in 0..n : f[i] = IF i = 0 THEN fds
                               ELSE Undo(f[i - 1], i - 1, renamed[i - 1], drop)
    BY <1>4, <1>7, <2>1 DEF Iterates
  <2> QED
    BY <2>2
<1>9. Is(undone)
  BY <1>8
<1> HIDE DEF undone
<1>10. /\ undone[0] = fds
       /\ \A i \in 0..(n - 1) : undone[i + 1] = Undo(undone[i], i, renamed[i], drop)
  <2>1. \A i \in 0..(n - 1) : i + 1 \in 0..n /\ i + 1 # 0 /\ (i + 1) - 1 = i
    BY <1>1
  <2> QED
    BY <1>1, <1>9, <2>1
<1>11. \A i \in 0..(n - 1) : <<i, undone[i]>> \in T => <<i + 1, undone[i + 1]>> \in T
  BY <1>6, <1>10
<1> HIDE DEF Is
<1>12. <<n, undone[n]>> \in T
  BY <1>1, <1>10, <1>11, Turns
<1> QED
  BY <1>5, <1>12 DEF n

(* Redirections keep the types.                                            *)
LEMMA ApplyAllTypes ==
    ASSUME NEW io \in Ios, NEW list \in Seq(Redirection), NEW push \in BOOLEAN
    PROVE  ApplyAll(io, list, push) \in Steps
<1> DEFINE T == Nat \X Steps
<1>1. <<0, Start(io, push)>> \in T
  BY StartTypes
<1>2. \A i \in 0..(Len(list) - 1), s \in Steps :
          <<i, s>> \in T => <<i + 1, Apply(s, list[i + 1])>> \in T
  <2>1. \A i \in 0..(Len(list) - 1) : i + 1 \in Nat /\ list[i + 1] \in Redirection
    OBVIOUS
  <2> QED
    BY <2>1, ApplyTypes
<1>3. <<Len(list), ApplyAll(io, list, push)>> \in T
  <2> HIDE DEF T
  <2>1. T \in SUBSET (Nat \X Steps)
    BY DEF T
  <2> QED
    BY <1>1, <1>2, <2>1, ApplyAllInduction
<1> QED
  BY <1>3

LEMMA UndoAllTypes ==
    ASSUME NEW fds \in FdTables, NEW renamed \in Renames, NEW drop \in BOOLEAN
    PROVE  UndoAll(fds, renamed, drop) \in FdTables
<1> DEFINE T == Nat \X FdTables
<1>1. <<0, fds>> \in T
  OBVIOUS
<1>2. \A d \in UserFds, f \in FdTables :
          <<d, f>> \in T => <<d + 1, Undo(f, d, renamed[d], drop)>> \in T
  <2>1. \A d \in UserFds : d + 1 \in Nat /\ renamed[d] \in {EMPTY, CLOSED} \cup HighFds
    BY FdSets DEF Renames
  <2> QED
    BY <2>1, UndoTypes
<1>3. <<FirstSaved, UndoAll(fds, renamed, drop)>> \in T
  <2> HIDE DEF T
  <2>1. T \in SUBSET (Nat \X FdTables)
    BY DEF T
  <2> QED
    BY <1>1, <1>2, <2>1, UndoAllInduction
<1> QED
  BY <1>3

LEMMA RedirectTypes ==
    ASSUME NEW io \in Ios, NEW list \in Seq(Redirection), NEW push \in BOOLEAN
    PROVE  Redirect(io, list, push) \in Ios
<1> DEFINE done == ApplyAll(io, list, push)
<1>1. done.fds \in FdTables /\ done.renamed \in Renames
  BY ApplyAllTypes DEF Steps
<1>2. io.redirlist \in Seq(Tabs) /\ io.nullredirs \in Int
  BY DEF Ios
<1> HIDE DEF done
<1>3. <<[renamed |-> done.renamed, nullredirs |-> io.nullredirs]>> \o io.redirlist \in Seq(Tabs)
  <2>1. [renamed |-> done.renamed, nullredirs |-> io.nullredirs] \in Tabs
    BY <1>1, <1>2 DEF Tabs
  <2> QED
    BY <1>2, <2>1
<1>4. [fds |-> done.fds,
       redirlist |-> <<[renamed |-> done.renamed, nullredirs |-> io.nullredirs]>>
                     \o io.redirlist,
       nullredirs |-> 0] \in Ios
  BY <1>1, <1>3 DEF Ios
<1>5. [io EXCEPT !.fds = done.fds, !.nullredirs = @ + 1] \in Ios
  <2> DEFINE next == io.nullredirs + 1
  <2>1. next \in Int
    BY <1>2
  <2>2. [io EXCEPT !.fds = done.fds, !.nullredirs = @ + 1]
        = [io EXCEPT !.fds = done.fds, !.nullredirs = next]
    BY DEF Ios
  <2> HIDE DEF next
  <2>3. [io EXCEPT !.fds = done.fds, !.nullredirs = next] \in Ios
    BY <1>1, <2>1 DEF Ios
  <2> QED
    BY <2>2, <2>3
<1>6. CASE list # <<>> /\ push
  BY <1>4, <1>6 DEF Redirect, done
<1>7. CASE ~(list # <<>> /\ push)
  BY <1>5, <1>7 DEF Redirect, done
<1> QED
  BY <1>6, <1>7

LEMMA PopRedirTypes ==
    ASSUME NEW io \in Ios, NEW drop \in BOOLEAN
    PROVE  PopRedir(io, drop) \in Ios
<1>1. io.fds \in FdTables /\ io.redirlist \in Seq(Tabs) /\ io.nullredirs \in Int
  BY DEF Ios
<1>2. CASE io.nullredirs > 0 \/ io.redirlist = <<>>
  <2>1. PopRedir(io, drop) = [fds |-> io.fds, redirlist |-> io.redirlist,
                              nullredirs |-> io.nullredirs - 1]
    BY <1>2 DEF PopRedir, Ios
  <2> QED
    BY <1>1, <2>1 DEF Ios
<1>3. CASE ~(io.nullredirs > 0 \/ io.redirlist = <<>>)
  <2> DEFINE tab == Head(io.redirlist)
  <2>1. tab.renamed \in Renames /\ tab.nullredirs \in Int /\ Tail(io.redirlist) \in Seq(Tabs)
    <3>1. Head(io.redirlist) \in Tabs /\ Tail(io.redirlist) \in Seq(Tabs)
      BY <1>1, <1>3
    <3> QED
      BY <3>1 DEF Tabs
  <2>2. UndoAll(io.fds, tab.renamed, drop) \in FdTables
    <3> HIDE DEF tab
    <3> QED
      BY <1>1, <2>1, UndoAllTypes
  <2>3. PopRedir(io, drop) = [fds |-> UndoAll(io.fds, tab.renamed, drop),
                              redirlist |-> Tail(io.redirlist),
                              nullredirs |-> tab.nullredirs]
    BY <1>3 DEF PopRedir, NullRedirs
  <2> HIDE DEF tab
  <2> QED
    BY <2>1, <2>2, <2>3 DEF Ios
<1> QED
  BY <1>2, <1>3

(* One turn of clearredir.                                                 *)
PopNext(c) == PopRedir([c EXCEPT !.nullredirs = 0], FALSE)

LEMMA ClearRedirInduction ==
    ASSUME NEW io \in Ios,
           NEW T \in SUBSET (Nat \X Ios), <<0, io>> \in T,
           \A i \in 0..(Len(io.redirlist) - 1), c \in Ios :
               <<i, c>> \in T => <<i + 1, PopNext(c)>> \in T
    PROVE  \E c \in Ios : /\ <<Len(io.redirlist), c>> \in T
                          /\ ClearRedir(io) = [c EXCEPT !.nullredirs = 0]
<1> DEFINE n == Len(io.redirlist)
           next == [p \in (1..n) \X Ios |-> PopNext(p[2])]
           Is(f) == f = [i \in 0..n |-> IF i = 0 THEN io
                                        ELSE PopNext(f[i - 1])]
           cleared == CHOOSE f : Is(f)
<1>1. n \in Nat
  BY DEF Ios
<1>2. \A c \in Ios : [c EXCEPT !.nullredirs = 0] \in Ios
  BY DEF Ios
<1>3. next \in [(1..n) \X Ios -> Ios]
  BY <1>2, PopRedirTypes DEF PopNext
<1>4. \A i \in 1..n, c \in Ios : next[<<i, c>>] = PopNext(c)
  OBVIOUS
<1>5. ClearRedir(io) = [cleared[n] EXCEPT !.nullredirs = 0]
  BY DEF ClearRedir, PopNext
<1>6. \A i \in 0..(n - 1), c \in Ios :
          <<i, c>> \in T => <<i + 1, PopNext(c)>> \in T
  OBVIOUS
<1> HIDE DEF next, n
<1>7. PICK f \in [0..n -> Ios] : Iterates(f, n, io, next)
  BY <1>1, <1>3, Iteration
<1>8. Is(f)
  <2>1. \A i \in 0..n : i # 0 => f[i - 1] \in Ios /\ i \in 1..n
    BY <1>1
  <2>2. \A i \in 0..n : f[i] = IF i = 0 THEN io
                               ELSE PopNext(f[i - 1])
    BY <1>4, <1>7, <2>1 DEF Iterates
  <2> QED
    BY <2>2
<1>9. Is(cleared)
  BY <1>8
<1> HIDE DEF cleared
<1>10. /\ cleared[0] = io
       /\ \A i \in 0..(n - 1) :
              cleared[i + 1] = PopNext(cleared[i])
  <2>1. \A i \in 0..(n - 1) : i + 1 \in 0..n /\ i + 1 # 0 /\ (i + 1) - 1 = i
    BY <1>1
  <2> QED
    BY <1>1, <1>9, <2>1
<1>11. \A i \in 0..(n - 1) : <<i, cleared[i]>> \in T => <<i + 1, cleared[i + 1]>> \in T
  BY <1>6, <1>10
<1> HIDE DEF Is
<1>12. <<n, cleared[n]>> \in T
  BY <1>1, <1>10, <1>11, Turns
<1>13. cleared[n] \in Ios
  BY <1>12
<1> QED
  BY <1>5, <1>12, <1>13 DEF n

LEMMA ClearRedirTypes ==
    ASSUME NEW io \in Ios
    PROVE  ClearRedir(io) \in Ios
<1> DEFINE T == Nat \X Ios
<1>1. <<0, io>> \in T
  OBVIOUS
<1>2. \A c \in Ios : [c EXCEPT !.nullredirs = 0] \in Ios
  BY DEF Ios
<1>3. \A i \in 0..(Len(io.redirlist) - 1), c \in Ios :
          <<i, c>> \in T => <<i + 1, PopNext(c)>> \in T
  <2>1. \A c \in Ios : PopNext(c) \in Ios
    BY <1>2, PopRedirTypes DEF PopNext
  <2>2. Len(io.redirlist) \in Nat
    BY DEF Ios
  <2>3. \A i \in 0..(Len(io.redirlist) - 1) : i + 1 \in Nat
    BY <2>2
  <2> QED
    BY <2>1, <2>3
<1>4. T \in SUBSET (Nat \X Ios)
  OBVIOUS
<1> HIDE DEF T
<1>5. PICK c \in Ios : /\ <<Len(io.redirlist), c>> \in T
                       /\ ClearRedir(io) = [c EXCEPT !.nullredirs = 0]
  BY <1>1, <1>3, <1>4, ClearRedirInduction
<1> QED
  BY <1>2, <1>5

LEMMA NewIoTypes == NewIo \in Ios
<1>1. [d \in Fds |-> IF d \in FirstOpen THEN CHOOSE f \in Files : TRUE ELSE Closed] \in FdTables
  BY DEF FdTables
<1>2. <<>> \in Seq(Tabs) /\ 0 \in Int
  OBVIOUS
<1> QED
  BY <1>1, <1>2 DEF NewIo, Ios

-----------------------------------------------------------------------------
(***************************************************************************)
(* What one redirection does, to the descriptors and to what is saved.     *)
(***************************************************************************)
HighKept(old, new) == \A h \in HighFds : new[h] = old[h]

\* No more than one high descriptor is free, which the opened file may get.
NoRoom(fds) == \A h, k \in HighFds : fds[h] = Closed /\ fds[k] = Closed => h = k

NotMoved(step, res, fd) ==
    /\ step.renamed[fd] # EMPTY \/ step.fds[fd] = Closed \/ NoRoom(step.fds)
    /\ res.renamed = step.renamed
    /\ HighKept(step.fds, res.fds)

ClosedBefore(step, res, fd) ==
    /\ step.renamed[fd] = EMPTY /\ step.fds[fd] = Closed
    /\ res.renamed = [step.renamed EXCEPT ![fd] = CLOSED]
    /\ HighKept(step.fds, res.fds)

MovedTo(step, res, fd, h) ==
    /\ step.renamed[fd] = EMPTY /\ step.fds[fd] # Closed /\ step.fds[h] = Closed
    /\ res.renamed = [step.renamed EXCEPT ![fd] = h]
    /\ res.fds[h] = step.fds[fd]
    /\ \A k \in HighFds : k # h => res.fds[k] = step.fds[k]

Redirected(step, res, fd) ==
    /\ ~step.error /\ ~res.error
    /\ \A d \in UserFds : d # fd => res.fds[d] = step.fds[d]
    /\ \/ NotMoved(step, res, fd)
       \/ ClosedBefore(step, res, fd)
       \/ \E h \in HighFds : MovedTo(step, res, fd, h)

Idle(r) == r.op = "dup" /\ r.from = r.fd

LEMMA ApplyEffect ==
    ASSUME NEW step \in Steps, step.push, NEW r \in Redirection
    PROVE  /\ Apply(step, r).push
           /\ \/ Apply(step, r) = step /\ (step.error \/ Idle(r))
              \/ /\ Apply(step, r).error
                 /\ Apply(step, r).fds = step.fds /\ Apply(step, r).renamed = step.renamed
              \/ ~Idle(r) /\ Redirected(step, Apply(step, r), r.fd)
<1> DEFINE fd == r.fd
           new == IF r.op = "open" THEN Lowest(step.fds, 0) ELSE -1
           fails == r.op = "open" /\ (r.file = Closed \/ new = -1)
           opened == IF r.op = "open" THEN [step.fds EXCEPT ![new] = r.file] ELSE step.fds
           save == Saves(step, r.fd)
           at == SavedAt(opened, r.fd)
           moved == IF save /\ at >= 0 THEN [opened EXCEPT ![at] = opened[r.fd]] ELSE opened
           freed == IF save /\ at = -1 THEN moved ELSE [moved EXCEPT ![r.fd] = Closed]
           last == DupRedirect(freed, r, new)
           result ==
               IF step.error \/ (r.op = "dup" /\ r.from = r.fd) THEN step
               ELSE IF fails THEN [step EXCEPT !.error = TRUE]
               ELSE IF new = r.fd
               THEN [step EXCEPT !.fds = opened,
                                 !.renamed[r.fd] = IF save THEN CLOSED ELSE @]
               ELSE [step EXCEPT !.fds = last,
                                 !.renamed[r.fd] = IF save /\ at # -1 THEN at ELSE @]
<1>1. Apply(step, r) = result
  BY DEF Apply
<1>2. /\ fd \in UserFds /\ fd \in Fds /\ fd \in Nat /\ fd \notin HighFds
      /\ r.op \in {"open", "dup"}
      /\ r.op = "open" => r.file \in Files \cup {Closed}
      /\ r.op = "dup" => r.from \in UserFds \cup {-1}
  <2>1. /\ fd \in UserFds /\ r.op \in {"open", "dup"}
        /\ r.op = "open" => r.file \in Files \cup {Closed}
        /\ r.op = "dup" => r.from \in UserFds \cup {-1}
    BY DEF Redirection
  <2> QED
    BY <2>1, FdSets
<1>3. /\ step.fds \in FdTables /\ step.renamed \in Renames /\ step.error \in BOOLEAN
      /\ step = [fds |-> step.fds, renamed |-> step.renamed, push |-> TRUE, error |-> step.error]
  BY DEF Steps
<1>4. save <=> step.renamed[fd] = EMPTY
  BY DEF Saves
<1>5. CASE step.error \/ Idle(r)
  BY <1>1, <1>5 DEF Idle
<1>6. CASE ~(step.error \/ Idle(r)) /\ fails
  <2>1. result = [step EXCEPT !.error = TRUE]
    BY <1>6 DEF Idle
  <2> HIDE DEF result
  <2> QED
    BY <1>1, <1>3, <2>1
<1>7. CASE ~(step.error \/ Idle(r)) /\ ~fails
  <2>1. r.op = "open" => /\ new \in Fds /\ step.fds[new] = Closed /\ r.file \in Files
                         /\ r.file # Closed
    BY <1>2, <1>3, <1>7, LowestIsFree
  <2>2. CASE new = fd
    <3>1. result = [fds |-> opened, push |-> TRUE, error |-> step.error,
                    renamed |-> [step.renamed EXCEPT ![fd] = IF save THEN CLOSED ELSE @]]
      BY <1>3, <1>7, <2>2 DEF Idle
    <3>2. r.op = "open" /\ step.fds[fd] = Closed
      BY <1>2, <2>1, <2>2
    <3>3. opened = [step.fds EXCEPT ![fd] = r.file]
      BY <2>2, <3>2
    <3>4. \A d \in Fds : d # fd => opened[d] = step.fds[d]
      BY <1>3, <3>3 DEF FdTables
    <3> HIDE DEF opened, result, new
    <3>5. HighKept(step.fds, opened) /\ \A d \in UserFds : d # fd => opened[d] = step.fds[d]
      BY <1>2, <3>4, FdSets DEF HighKept
    <3>6. CASE save
      <4>1. ClosedBefore(step, result, fd)
        BY <1>4, <3>1, <3>2, <3>5, <3>6 DEF ClosedBefore
      <4> QED
        BY <1>1, <1>7, <3>1, <3>5, <4>1 DEF Redirected
    <3>7. CASE ~save
      <4>1. [step.renamed EXCEPT ![fd] = IF save THEN CLOSED ELSE @] = step.renamed
        BY <1>3, <3>7 DEF Renames
      <4>2. NotMoved(step, result, fd)
        BY <1>4, <3>1, <3>5, <3>7, <4>1 DEF NotMoved
      <4> QED
        BY <1>1, <1>7, <3>1, <3>5, <4>2 DEF Redirected
    <3> QED
      BY <3>6, <3>7
  <2>3. CASE new # fd
    <3>1. result = [fds |-> last, push |-> TRUE, error |-> step.error,
                    renamed |-> [step.renamed EXCEPT ![fd] = IF save /\ at # -1 THEN at ELSE @]]
      BY <1>3, <1>7, <2>3 DEF Idle
    <3>2. /\ opened \in FdTables /\ opened[fd] = step.fds[fd]
          /\ r.op = "open" => opened = [step.fds EXCEPT ![new] = r.file]
          /\ r.op = "dup" => opened = step.fds
      <4>1. CASE r.op = "open"
        BY <1>2, <1>3, <2>1, <2>3, <4>1 DEF FdTables
      <4>2. CASE r.op = "dup"
        BY <1>2, <1>3, <4>2
      <4> QED
        BY <1>2, <4>1, <4>2
    <3> HIDE DEF opened, new, result, last
    <3>3. \/ at = -1 /\ step.fds[fd] = Closed
          \/ at = EMPTY /\ step.fds[fd] # Closed /\ \A h \in HighFds : opened[h] # Closed
          \/ at \in HighFds /\ step.fds[fd] # Closed /\ opened[at] = Closed
      <4>1. FirstSaved \in Nat
        OBVIOUS
      <4>2. at = IF opened[fd] = Closed THEN -1
                 ELSE IF Lowest(opened, FirstSaved) = -1 THEN EMPTY ELSE Lowest(opened, FirstSaved)
        BY DEF SavedAt, CopyFd
      <4>3. \A d \in Fds : d >= FirstSaved <=> d \in HighFds
        BY DEF Fds, HighFds
      <4>4. \/ /\ Lowest(opened, FirstSaved) = -1
               /\ \A h \in HighFds : opened[h] # Closed
            \/ /\ Lowest(opened, FirstSaved) \in HighFds
               /\ opened[Lowest(opened, FirstSaved)] = Closed
        BY <3>2, <4>1, <4>3, LowestIsFree, FdSets
      <4>5. -1 \notin HighFds
        BY DEF HighFds
      <4> QED
        BY <3>2, <4>2, <4>4, <4>5
    <3> DEFINE saved == save /\ at \in HighFds
    <3> HIDE DEF at
    <3>4. at = EMPTY => at # -1 /\ ~(at >= 0)
      BY DEF EMPTY
    <3>5. at \in HighFds => at # -1 /\ at >= 0 /\ at # fd /\ at # EMPTY
      BY <1>2 DEF HighFds, EMPTY
    <3>6. moved = IF saved THEN [opened EXCEPT ![at] = opened[fd]] ELSE opened
      BY <3>3, <3>4, <3>5
    <3>7. moved \in FdTables /\ moved[fd] = step.fds[fd]
          /\ \A d \in Fds : moved[d] = IF saved /\ d = at THEN step.fds[fd] ELSE opened[d]
      <4>1. at \in HighFds => at \in Fds
        BY FdSets
      <4>2. step.fds[fd] \in Files \cup {Closed}
        BY <1>2, <1>3 DEF FdTables
      <4>3. CASE saved
        <5>1. moved = [opened EXCEPT ![at] = step.fds[fd]]
          BY <3>2, <3>6, <4>3
        <5> QED
          BY <1>2, <3>2, <3>5, <4>1, <4>2, <4>3, <5>1 DEF FdTables
      <4>4. CASE ~saved
        BY <3>2, <3>6, <4>4
      <4> QED
        BY <4>3, <4>4
    <3> HIDE DEF moved
    <3>8. freed \in FdTables /\ freed[fd] = Closed
          /\ \A d \in Fds : d # fd => freed[d] = moved[d]
      <4>1. CASE save /\ at = -1
        BY <3>3, <3>7, <4>1, <3>5, <3>4
      <4>2. CASE ~(save /\ at = -1)
        BY <1>2, <3>7, <4>2 DEF FdTables
      <4> QED
        BY <4>1, <4>2
    <3> HIDE DEF freed
    <3>9. \A d \in Fds : d # fd => last[d] = IF saved /\ d = at THEN step.fds[fd] ELSE step.fds[d]
      <4>1. CASE r.op = "dup"
        <5>1. \A d \in Fds : d # fd => last[d] = freed[d]
          <6>1. CASE r.from >= 0
            <7>1. r.from \in Fds
              BY <1>2, <4>1, <6>1, FdSets
            <7>2. last = Copied(freed, r.from, fd)
              BY <4>1, <6>1 DEF DupRedirect, last
            <7>3. last = IF freed[r.from] = Closed THEN freed ELSE [freed EXCEPT ![fd] = freed[r.from]]
              BY <1>2, <3>8, <7>1, <7>2, CopyToClosed
            <7> QED
              BY <3>8, <7>3 DEF FdTables
          <6>2. CASE ~(r.from >= 0)
            BY <4>1, <6>2 DEF DupRedirect, last
          <6> QED
            BY <6>1, <6>2
        <5> QED
          BY <3>2, <3>7, <3>8, <4>1, <5>1
      <4>2. CASE r.op = "open"
        <5>0. new \in Fds /\ opened[new] = r.file /\ r.file # Closed
          BY <1>3, <2>1, <3>2, <4>2 DEF FdTables
        <5>1. new # at \/ ~saved
          BY <3>3, <3>5, <5>0
        <5>2. freed[new] = r.file /\ freed[new] # Closed
          BY <2>3, <3>7, <3>8, <5>0, <5>1
        <5>3. Copied(freed, new, fd) = [freed EXCEPT ![fd] = freed[new]]
          BY <1>2, <2>1, <3>8, <4>2, <5>2, CopyToClosed
        <5>4. last = [[freed EXCEPT ![fd] = freed[new]] EXCEPT ![new] = Closed]
          BY <4>2, <5>3 DEF DupRedirect, last
        <5>5. \A d \in Fds : d # fd => last[d] = IF d = new THEN Closed ELSE freed[d]
          BY <3>8, <5>4 DEF FdTables
        <5>6. \A d \in Fds : d # new => opened[d] = step.fds[d]
          BY <1>3, <3>2, <4>2 DEF FdTables
        <5> QED
          BY <2>1, <3>7, <3>8, <4>2, <5>1, <5>5, <5>6
      <4> QED
        BY <1>2, <4>1, <4>2
    <3>10. \A d \in UserFds : d # fd => last[d] = step.fds[d]
      BY <3>9, FdSets
    <3>11. \A k \in HighFds : last[k] = IF saved /\ k = at THEN step.fds[fd] ELSE step.fds[k]
      BY <1>2, <3>9, FdSets
    <3>12. ~step.error /\ ~result.error /\ result.push /\ result.fds = last
      BY <1>3, <1>7, <3>1
    <3>13. CASE saved
      <4>1. result.renamed = [step.renamed EXCEPT ![fd] = at]
        BY <1>3, <3>1, <3>5, <3>13
      <4>2. step.fds[at] = Closed
        <5>1. CASE r.op = "dup"
          BY <3>2, <3>3, <3>5, <3>4, <3>13, <5>1
        <5>2. CASE r.op = "open"
          <6>1. opened[at] = Closed /\ at \in Fds
            BY <3>3, <3>5, <3>13, FdSets
          <6> QED
            BY <1>3, <2>1, <3>2, <5>2, <6>1 DEF FdTables
        <5> QED
          BY <1>2, <5>1, <5>2
      <4>3. step.fds[fd] # Closed
        BY <3>3, <3>5, <3>13
      <4>4. MovedTo(step, result, fd, at)
        BY <1>4, <3>11, <3>12, <3>13, <4>1, <4>2, <4>3 DEF MovedTo
      <4> QED
        BY <1>1, <1>7, <3>10, <3>12, <3>13, <4>4 DEF Redirected
    <3>14. CASE ~saved
      <4>1. result.renamed = step.renamed
        <5>1. ~save \/ at = -1 \/ at = EMPTY
          BY <3>3, <3>14
        <5>2. save => step.renamed[fd] = EMPTY
          BY <1>4
        <5>3. result.renamed = [step.renamed EXCEPT ![fd] = step.renamed[fd]]
          BY <1>3, <3>1, <3>4, <5>1, <5>2
        <5> QED
          BY <1>3, <5>3 DEF Renames
      <4>2. step.renamed[fd] # EMPTY \/ step.fds[fd] = Closed \/ NoRoom(step.fds)
        <5>1. CASE save /\ at = EMPTY
          <6>1. \A h \in HighFds : h # new => opened[h] = step.fds[h]
            BY <1>2, <1>3, <3>2, FdSets DEF FdTables
          <6>2. \A h \in HighFds : step.fds[h] = Closed => h = new
            BY <3>3, <3>4, <3>5, <5>1, <6>1
          <6> QED
            BY <6>2 DEF NoRoom
        <5>2. CASE ~save \/ at = -1
          BY <1>4, <3>3, <3>4, <3>5, <5>2
        <5> QED
          BY <3>3, <3>14, <5>1, <5>2
      <4>3. HighKept(step.fds, result.fds)
        BY <3>11, <3>12, <3>14 DEF HighKept
      <4>4. NotMoved(step, result, fd)
        BY <4>1, <4>2, <4>3 DEF NotMoved
      <4> QED
        BY <1>1, <1>7, <3>10, <3>12, <4>4 DEF Redirected
    <3> QED
      BY <3>13, <3>14
  <2> QED
    BY <2>2, <2>3
<1> QED
  BY <1>5, <1>6, <1>7

-----------------------------------------------------------------------------
(***************************************************************************)
(* Who holds the high descriptors: the tables of redirlist, and the one    *)
(* redirect or popredir works on.                                          *)
(***************************************************************************)
Holds(tabs, h) == \E i \in 1..Len(tabs), d \in UserFds : tabs[i].renamed[d] = h

Apart(tabs) ==
    \A i, j \in 1..Len(tabs), d, e \in UserFds :
        tabs[i].renamed[d] \in HighFds /\ tabs[i].renamed[d] = tabs[j].renamed[e]
            => i = j /\ d = e

\* Each open high descriptor is the copy of one saved one.
HighInv(fds, tabs) ==
    /\ Apart(tabs)
    /\ \A h \in HighFds : fds[h] # Closed <=> Holds(tabs, h)

TopHolds(renamed, h) == \E d \in UserFds : renamed[d] = h

TopApart(renamed, rest) ==
    \A d \in UserFds : renamed[d] \in HighFds =>
        /\ ~Holds(rest, renamed[d])
        /\ \A e \in UserFds : renamed[e] = renamed[d] => e = d

\* The same with the newest table apart.
HighStep(fds, renamed, rest) ==
    /\ Apart(rest) /\ TopApart(renamed, rest)
    /\ \A h \in HighFds : fds[h] # Closed <=> Holds(rest, h) \/ TopHolds(renamed, h)

LEMMA TopOfTabs ==
    ASSUME NEW fds, NEW rest \in Seq(Tabs), NEW tab \in Tabs
    PROVE  HighInv(fds, <<tab>> \o rest) <=> HighStep(fds, tab.renamed, rest)
<1> DEFINE all == <<tab>> \o rest
<1>1. /\ Len(rest) \in Nat /\ Len(all) = Len(rest) + 1 /\ all[1] = tab
      /\ \A i \in 1..Len(rest) : all[i + 1] = rest[i]
  OBVIOUS
<1> HIDE DEF all
<1>2. /\ \A i \in 1..Len(rest) : i + 1 \in 1..Len(all) /\ i + 1 # 1
      /\ \A i \in 1..Len(all) : i # 1 => i - 1 \in 1..Len(rest) /\ (i - 1) + 1 = i
      /\ 1 \in 1..Len(all)
  BY <1>1
<1>3. \A i \in 1..Len(all) : i = 1 \/ all[i] = rest[i - 1]
  BY <1>1, <1>2
<1>4. \A h \in HighFds : Holds(all, h) <=> Holds(rest, h) \/ TopHolds(tab.renamed, h)
  <2> TAKE h \in HighFds
  <2>1. ASSUME Holds(all, h)
        PROVE  Holds(rest, h) \/ TopHolds(tab.renamed, h)
    <3>1. PICK i \in 1..Len(all), d \in UserFds : all[i].renamed[d] = h
      BY <2>1 DEF Holds
    <3>2. CASE i = 1
      BY <1>1, <3>1, <3>2 DEF TopHolds
    <3>3. CASE i # 1
      <4>1. i - 1 \in 1..Len(rest) /\ rest[i - 1].renamed[d] = h
        BY <1>2, <1>3, <3>1, <3>3
      <4> QED
        BY <4>1 DEF Holds
    <3> QED
      BY <3>2, <3>3
  <2>2. ASSUME Holds(rest, h)
        PROVE  Holds(all, h)
    BY <1>1, <1>2, <2>2 DEF Holds
  <2>3. ASSUME TopHolds(tab.renamed, h)
        PROVE  Holds(all, h)
    BY <1>1, <1>2, <2>3 DEF Holds, TopHolds
  <2> QED
    BY <2>1, <2>2, <2>3
<1>5. ASSUME Apart(all)
      PROVE  Apart(rest) /\ TopApart(tab.renamed, rest)
  <2>1. Apart(rest)
    <3> SUFFICES ASSUME NEW i \in 1..Len(rest), NEW j \in 1..Len(rest),
                        NEW d \in UserFds, NEW e \in UserFds,
                        rest[i].renamed[d] \in HighFds,
                        rest[i].renamed[d] = rest[j].renamed[e]
                 PROVE  i = j /\ d = e
      BY DEF Apart
    <3>1. i + 1 = j + 1 /\ d = e
      BY <1>1, <1>2, <1>5 DEF Apart
    <3> QED
      BY <3>1
  <2>2. TopApart(tab.renamed, rest)
    BY <1>1, <1>2, <1>5 DEF Apart, TopApart, Holds
  <2> QED
    BY <2>1, <2>2
<1>6. ASSUME Apart(rest), TopApart(tab.renamed, rest)
      PROVE  Apart(all)
  <2> SUFFICES ASSUME NEW i \in 1..Len(all), NEW j \in 1..Len(all),
                      NEW d \in UserFds, NEW e \in UserFds,
                      all[i].renamed[d] \in HighFds,
                      all[i].renamed[d] = all[j].renamed[e]
               PROVE  i = j /\ d = e
    BY DEF Apart
  <2>1. CASE i = 1 /\ j = 1
    BY <1>1, <1>6, <2>1 DEF TopApart
  <2>2. CASE i = 1 /\ j # 1
    BY <1>1, <1>2, <1>3, <1>6, <2>2 DEF TopApart, Holds
  <2>3. CASE i # 1 /\ j = 1
    BY <1>1, <1>2, <1>3, <1>6, <2>3 DEF TopApart, Holds
  <2>4. CASE i # 1 /\ j # 1
    <3>0. /\ i - 1 \in 1..Len(rest) /\ j - 1 \in 1..Len(rest)
          /\ all[i] = rest[i - 1] /\ all[j] = rest[j - 1]
      BY <1>2, <1>3, <2>4
    <3>1. i - 1 = j - 1 /\ d = e
      BY <1>6, <3>0 DEF Apart
    <3> QED
      BY <3>1
  <2> QED
    BY <2>1, <2>2, <2>3, <2>4
<1> QED
  BY <1>4, <1>5, <1>6 DEF HighInv, HighStep, all

LEMMA NotHigh == EMPTY \notin HighFds /\ CLOSED \notin HighFds /\ EMPTY # CLOSED
BY DEF HighFds, EMPTY, CLOSED

(* Nothing is saved yet.                                                   *)
LEMMA StartHigh ==
    ASSUME NEW fds, NEW rest, HighInv(fds, rest)
    PROVE  HighStep(fds, [d \in UserFds |-> EMPTY], rest)
BY NotHigh DEF HighInv, HighStep, TopApart, TopHolds

(* A redirection takes a free descriptor for what it saves.                *)
LEMMA RedirectedHigh ==
    ASSUME NEW step \in Steps, NEW res \in Steps, NEW fd \in UserFds, NEW rest,
           Redirected(step, res, fd), HighStep(step.fds, step.renamed, rest)
    PROVE  /\ HighStep(res.fds, res.renamed, rest)
           /\ \A h \in HighFds : step.fds[h] # Closed => res.fds[h] = step.fds[h]
<1>1. step.renamed \in [UserFds -> {EMPTY, CLOSED} \cup HighFds]
  BY DEF Steps, Renames
<1>2. CASE NotMoved(step, res, fd)
  BY <1>2 DEF NotMoved, HighKept, HighStep
<1>3. CASE ClosedBefore(step, res, fd)
  <2>1. /\ res.renamed[fd] = CLOSED /\ step.renamed[fd] = EMPTY
        /\ \A d \in UserFds : d # fd => res.renamed[d] = step.renamed[d]
    BY <1>1, <1>3 DEF ClosedBefore
  <2>2. \A h \in HighFds : TopHolds(res.renamed, h) <=> TopHolds(step.renamed, h)
    BY <2>1, NotHigh DEF TopHolds
  <2>3. TopApart(res.renamed, rest)
    BY <2>1, NotHigh DEF TopApart, HighStep
  <2> QED
    BY <1>3, <2>2, <2>3 DEF ClosedBefore, HighKept, HighStep
<1>4. ASSUME NEW h \in HighFds, MovedTo(step, res, fd, h)
      PROVE  /\ HighStep(res.fds, res.renamed, rest)
             /\ \A k \in HighFds : step.fds[k] # Closed => res.fds[k] = step.fds[k]
  <2>1. /\ res.renamed[fd] = h /\ step.renamed[fd] = EMPTY
        /\ \A d \in UserFds : d # fd => res.renamed[d] = step.renamed[d]
        /\ res.fds[h] # Closed
        /\ \A k \in HighFds : k # h => res.fds[k] = step.fds[k]
    BY <1>1, <1>4 DEF MovedTo
  <2>2. step.fds[h] = Closed /\ ~Holds(rest, h) /\ ~TopHolds(step.renamed, h)
    BY <1>4 DEF MovedTo, HighStep
  <2>3. \A k \in HighFds : TopHolds(res.renamed, k) <=> k = h \/ TopHolds(step.renamed, k)
    BY <2>1, <2>2, NotHigh DEF TopHolds
  <2>4. TopApart(res.renamed, rest)
    BY <2>1, <2>2, NotHigh DEF TopApart, HighStep, TopHolds
  <2> QED
    BY <2>1, <2>2, <2>3, <2>4 DEF HighStep
<1> QED
  BY <1>2, <1>3, <1>4 DEF Redirected

-----------------------------------------------------------------------------
(***************************************************************************)
(* What a list of redirections does.                                       *)
(***************************************************************************)
\* Whatever is saved besides `rest', there is room for what is not.
RoomFor(rest) ==
    \A fds \in FdTables, renamed \in Renames :
        HighStep(fds, renamed, rest) /\ (\E d \in UserFds : renamed[d] = EMPTY)
            => ~NoRoom(fds)

\* What is known of a descriptor after some redirections of a list.
KeptFor(before, s, d) ==
    /\ s.renamed[d] = CLOSED => before[d] = Closed
    /\ s.renamed[d] \in HighFds /\ before[d] # Closed => s.fds[s.renamed[d]] = before[d]
    /\ s.renamed[d] = EMPTY /\ before[d] # Closed => s.fds[d] = before[d]

Progress(before, list, rest, i, s) ==
    /\ s.push
    /\ HighStep(s.fds, s.renamed, rest)
    /\ \A h \in HighFds : before[h] # Closed => s.fds[h] = before[h]
    /\ \A d \in UserFds : d \notin Named(list) => s.renamed[d] = EMPTY /\ s.fds[d] = before[d]
    /\ RoomFor(rest) => \A d \in UserFds : KeptFor(before, s, d)
    /\ RoomFor(rest) /\ ~s.error =>
           \A j \in 1..i : ~Idle(list[j]) /\ before[list[j].fd] # Closed
                               => s.renamed[list[j].fd] # EMPTY

LEMMA ProgressStep ==
    ASSUME NEW before \in FdTables, NEW list \in Seq(Redirection), NEW rest,
           NEW i \in 0..(Len(list) - 1), NEW s \in Steps, Progress(before, list, rest, i, s)
    PROVE  Progress(before, list, rest, i + 1, Apply(s, list[i + 1]))
<1> DEFINE r == list[i + 1]
           fd == r.fd
           res == Apply(s, r)
<1>1. r \in Redirection /\ i + 1 \in 1..Len(list) /\ i \in Nat
  OBVIOUS
<1>2. fd \in UserFds /\ res \in Steps /\ s.push
  BY <1>1, ApplyTypes DEF Redirection, Progress
<1>3. /\ res.push
      /\ \/ res = s /\ (s.error \/ Idle(r))
         \/ res.error /\ res.fds = s.fds /\ res.renamed = s.renamed
         \/ ~Idle(r) /\ Redirected(s, res, fd)
  BY <1>1, <1>2, ApplyEffect
<1>4. \A j \in 1..Len(list) : ~Idle(list[j]) => list[j].fd \in Named(list)
  BY DEF Named, Idle
<1>5. \A j \in 1..(i + 1) : j = i + 1 \/ j \in 1..i
  BY <1>1
<1>6. s.renamed \in [UserFds -> {EMPTY, CLOSED} \cup HighFds] /\ s.renamed \in Renames
      /\ s.fds \in FdTables
  BY DEF Steps, Renames
<1>7. \A j \in 1..Len(list) : list[j].fd \in UserFds
  BY DEF Redirection
<1> HIDE DEF r, res, fd
<1>8. CASE res = s /\ (s.error \/ Idle(r))
  <2>1. ASSUME RoomFor(rest), ~s.error, NEW j \in 1..(i + 1), ~Idle(list[j]),
               before[list[j].fd] # Closed
        PROVE  s.renamed[list[j].fd] # EMPTY
    <3>1. j # i + 1
      BY <1>8, <2>1 DEF r
    <3>2. j \in 1..i
      BY <1>5, <3>1
    <3> QED
      BY <2>1, <3>2 DEF Progress
  <2>2. Progress(before, list, rest, i + 1, s)
    BY <2>1 DEF Progress
  <2> QED
    BY <1>8, <2>2 DEF r, res
<1>9. CASE res.error /\ res.fds = s.fds /\ res.renamed = s.renamed
  <2>1. \A d \in UserFds : KeptFor(before, s, d) <=> KeptFor(before, res, d)
    BY <1>9 DEF KeptFor
  <2>2. Progress(before, list, rest, i + 1, res)
    BY <1>3, <1>9, <2>1 DEF Progress
  <2> QED
    BY <2>2 DEF r, res
<1>10. CASE ~Idle(r) /\ Redirected(s, res, fd)
  <2>1. /\ HighStep(res.fds, res.renamed, rest)
        /\ \A h \in HighFds : s.fds[h] # Closed => res.fds[h] = s.fds[h]
    BY <1>2, <1>10, RedirectedHigh DEF Progress
  <2>2. fd \in Named(list)
    BY <1>1, <1>4, <1>10 DEF r, fd
  <2>3. \A d \in UserFds : d # fd => res.fds[d] = s.fds[d] /\ res.renamed[d] = s.renamed[d]
    BY <1>6, <1>10 DEF Redirected, NotMoved, ClosedBefore, MovedTo
  <2>4. \A d \in UserFds : s.renamed[d] \in HighFds => s.fds[s.renamed[d]] # Closed
    BY DEF Progress, HighStep, TopHolds
  <2>5. ASSUME RoomFor(rest)
        PROVE  /\ KeptFor(before, res, fd)
               /\ before[fd] # Closed => res.renamed[fd] # EMPTY
               /\ s.renamed[fd] # EMPTY => res.renamed[fd] # EMPTY
    <3>1. KeptFor(before, s, fd)
      BY <1>2, <2>5 DEF Progress
    <3>2. ~NoRoom(s.fds) \/ s.renamed[fd] # EMPTY
      BY <1>2, <1>6, <2>5 DEF RoomFor, Progress
    <3>3. CASE NotMoved(s, res, fd)
      <4>1. res.renamed[fd] = s.renamed[fd] /\ HighKept(s.fds, res.fds)
        BY <3>3 DEF NotMoved
      <4>2. s.renamed[fd] # EMPTY \/ s.fds[fd] = Closed
        BY <3>2, <3>3 DEF NotMoved
      <4> QED
        BY <3>1, <4>1, <4>2 DEF KeptFor, HighKept
    <3>4. CASE ClosedBefore(s, res, fd)
      <4>1. res.renamed[fd] = CLOSED /\ s.renamed[fd] = EMPTY /\ s.fds[fd] = Closed
        BY <1>2, <1>6, <3>4 DEF ClosedBefore
      <4> QED
        BY <3>1, <4>1, NotHigh DEF KeptFor
    <3>5. ASSUME NEW h \in HighFds, MovedTo(s, res, fd, h)
          PROVE  KeptFor(before, res, fd) /\ res.renamed[fd] # EMPTY
      <4>1. res.renamed[fd] = h /\ s.renamed[fd] = EMPTY /\ res.fds[h] = s.fds[fd]
        BY <1>2, <1>6, <3>5 DEF MovedTo
      <4> QED
        BY <3>1, <4>1, NotHigh DEF KeptFor
    <3> QED
      BY <1>10, <3>3, <3>4, <3>5 DEF Redirected
  <2>6. ASSUME RoomFor(rest), NEW d \in UserFds, d # fd
        PROVE  KeptFor(before, res, d)
    <3>1. KeptFor(before, s, d)
      BY <2>6 DEF Progress
    <3> QED
      BY <2>1, <2>3, <2>4, <2>6, <3>1 DEF KeptFor
  <2>7. RoomFor(rest) => \A d \in UserFds : KeptFor(before, res, d)
    BY <2>5, <2>6
  <2>8. \A h \in HighFds : before[h] # Closed => res.fds[h] = before[h]
    BY <2>1 DEF Progress
  <2>9. \A d \in UserFds : d \notin Named(list) => res.renamed[d] = EMPTY /\ res.fds[d] = before[d]
    BY <2>2, <2>3 DEF Progress
  <2>10. ASSUME RoomFor(rest), NEW j \in 1..(i + 1), ~Idle(list[j]), before[list[j].fd] # Closed
         PROVE  res.renamed[list[j].fd] # EMPTY
    <3>1. CASE list[j].fd = fd
      BY <2>5, <2>10, <3>1
    <3>2. CASE list[j].fd # fd
      <4>1. j \in 1..i /\ j \in 1..Len(list)
        BY <1>1, <1>5, <3>2 DEF fd, r
      <4>2. s.renamed[list[j].fd] # EMPTY
        BY <1>10, <2>10, <4>1 DEF Progress, Redirected
      <4> QED
        BY <1>7, <2>3, <3>2, <4>1, <4>2
    <3> QED
      BY <3>1, <3>2
  <2> QED
    <3>1. Progress(before, list, rest, i + 1, res)
      BY <1>3, <2>1, <2>7, <2>8, <2>9, <2>10 DEF Progress
    <3> QED
      BY <3>1 DEF r, res
<1> QED
  BY <1>3, <1>8, <1>9, <1>10

LEMMA ApplyAllProgress ==
    ASSUME NEW q \in Ios, NEW list \in Seq(Redirection), HighInv(q.fds, q.redirlist)
    PROVE  /\ ApplyAll(q, list, TRUE) \in Steps
           /\ Progress(q.fds, list, q.redirlist, Len(list), ApplyAll(q, list, TRUE))
<1> DEFINE T == {p \in Nat \X Steps : Progress(q.fds, list, q.redirlist, p[1], p[2])}
           start == Start(q, TRUE)
<1>1. start \in Steps /\ q.fds \in FdTables
  BY StartTypes DEF Ios
<1>2. /\ start.fds = q.fds /\ start.renamed = [d \in UserFds |-> EMPTY]
      /\ start.push = TRUE /\ start.error = FALSE
  BY DEF Start
<1> HIDE DEF start
<1>3. HighStep(start.fds, start.renamed, q.redirlist)
  BY <1>2, StartHigh
<1>4. Progress(q.fds, list, q.redirlist, 0, start)
  <2>1. \A d \in UserFds : start.renamed[d] = EMPTY
    BY <1>2
  <2>2. \A d \in UserFds : KeptFor(q.fds, start, d)
    BY <1>2, <2>1, NotHigh DEF KeptFor
  <2> QED
    BY <1>2, <1>3, <2>1, <2>2 DEF Progress
<1>5. <<0, start>> \in T
  BY <1>1, <1>4
<1>6. \A i \in 0..(Len(list) - 1), s \in Steps :
          <<i, s>> \in T => <<i + 1, Apply(s, list[i + 1])>> \in T
  <2> SUFFICES ASSUME NEW i \in 0..(Len(list) - 1), NEW s \in Steps, <<i, s>> \in T
               PROVE  <<i + 1, Apply(s, list[i + 1])>> \in T
    OBVIOUS
  <2>1. Progress(q.fds, list, q.redirlist, i, s)
    OBVIOUS
  <2>2. Progress(q.fds, list, q.redirlist, i + 1, Apply(s, list[i + 1]))
    BY <1>1, <2>1, ProgressStep
  <2>3. i + 1 \in Nat /\ list[i + 1] \in Redirection
    OBVIOUS
  <2> QED
    BY <2>2, <2>3, ApplyTypes
<1>7. T \in SUBSET (Nat \X Steps)
  OBVIOUS
<1> HIDE DEF T
<1>8. <<Len(list), ApplyAll(q, list, TRUE)>> \in T
  BY <1>5, <1>6, <1>7, ApplyAllInduction DEF start
<1> QED
  BY <1>8 DEF T

-----------------------------------------------------------------------------
(***************************************************************************)
(* What popredir does for one table.                                       *)
(***************************************************************************)
LEMMA UndoEffect ==
    ASSUME NEW f \in FdTables, NEW d \in UserFds, NEW at \in HighFds, NEW drop \in BOOLEAN
    PROVE  \A x \in Fds : Undo(f, d, at, drop)[x] = IF x = at THEN Closed
                                                    ELSE IF x = d /\ ~drop THEN f[at]
                                                    ELSE f[x]
<1>1. d \in Fds /\ at \in Fds /\ d # at
  BY FdSets
<1>2. at # CLOSED /\ at # EMPTY
  BY NotHigh
<1>3. Undo(f, d, at, drop) = Restore(f, d, at, drop)
  BY <1>2 DEF Undo
<1>4. CASE drop
  BY <1>1, <1>3, <1>4 DEF Restore, FdTables
<1>5. CASE ~drop
  <2> DEFINE g == [f EXCEPT ![d] = Closed]
             c == Copied(g, at, d)
  <2>1. g \in FdTables /\ g[d] = Closed /\ \A x \in Fds : x # d => g[x] = f[x]
    BY <1>1 DEF FdTables
  <2> HIDE DEF g
  <2>2. c = IF g[at] = Closed THEN g ELSE [g EXCEPT ![d] = g[at]]
    BY <1>1, <2>1, CopyToClosed
  <2>3. c \in [Fds -> Files \cup {Closed}] /\ \A x \in Fds : c[x] = IF x = d THEN f[at] ELSE f[x]
    BY <1>1, <2>1, <2>2 DEF FdTables
  <2> HIDE DEF c
  <2>4. Restore(f, d, at, drop) = [c EXCEPT ![at] = Closed]
    BY <1>5 DEF Restore, c, g
  <2> QED
    BY <1>1, <1>3, <1>5, <2>3, <2>4
<1> QED
  BY <1>4, <1>5

\* What descriptor d is given back.
Given(fds, renamed, d) ==
    IF renamed[d] = EMPTY THEN fds[d] ELSE IF renamed[d] = CLOSED THEN Closed ELSE fds[renamed[d]]

OnlyOnce(renamed) ==
    \A d, e \in UserFds : renamed[d] \in HighFds /\ renamed[e] = renamed[d] => e = d

Undone(fds, renamed, drop, n, f) ==
    /\ \A d \in UserFds : f[d] = IF d < n /\ ~drop THEN Given(fds, renamed, d) ELSE fds[d]
    /\ \A h \in HighFds : f[h] = IF \E d \in UserFds : d < n /\ renamed[d] = h
                                 THEN Closed ELSE fds[h]

LEMMA UndoneStep ==
    ASSUME NEW fds \in FdTables, NEW renamed \in Renames, NEW drop \in BOOLEAN,
           OnlyOnce(renamed), NEW n \in UserFds, NEW f \in FdTables,
           Undone(fds, renamed, drop, n, f)
    PROVE  Undone(fds, renamed, drop, n + 1, Undo(f, n, renamed[n], drop))
<1> DEFINE res == Undo(f, n, renamed[n], drop)
<1>1. n \in Nat /\ n \in Fds /\ n \notin HighFds /\ \A d \in UserFds : d \in Nat
  BY FdSets
<1>2. \A d \in UserFds : d < n + 1 <=> d < n \/ d = n
  BY <1>1
<1>3. renamed[n] \in {EMPTY, CLOSED} \cup HighFds
  BY DEF Renames
<1>4. f[n] = fds[n] /\ ~(n < n)
  BY <1>1 DEF Undone
<1>5. CASE renamed[n] = EMPTY
  <2>1. res = f
    BY <1>5, NotHigh DEF Undo
  <2>2. \A h \in HighFds : (\E d \in UserFds : d < n + 1 /\ renamed[d] = h)
                              <=> \E d \in UserFds : d < n /\ renamed[d] = h
    BY <1>2, <1>5, NotHigh
  <2>3. Given(fds, renamed, n) = fds[n]
    BY <1>5 DEF Given
  <2> QED
    BY <1>2, <1>4, <2>1, <2>2, <2>3 DEF Undone
<1>6. CASE renamed[n] = CLOSED
  <2>1. \A x \in Fds : res[x] = IF x = n /\ ~drop THEN Closed ELSE f[x]
    BY <1>1, <1>6 DEF Undo, FdTables
  <2>2. \A h \in HighFds : (\E d \in UserFds : d < n + 1 /\ renamed[d] = h)
                              <=> \E d \in UserFds : d < n /\ renamed[d] = h
    BY <1>2, <1>6, NotHigh
  <2>3. Given(fds, renamed, n) = Closed
    BY <1>6, NotHigh DEF Given
  <2> HIDE DEF res
  <2>4. \A d \in UserFds : res[d] = IF d < n + 1 /\ ~drop THEN Given(fds, renamed, d) ELSE fds[d]
    BY <1>2, <1>4, <2>1, <2>3, FdSets DEF Undone
  <2>5. \A h \in HighFds : res[h] = f[h]
    BY <1>1, <2>1, FdSets
  <2>6. Undone(fds, renamed, drop, n + 1, res)
    BY <2>2, <2>4, <2>5 DEF Undone
  <2> QED
    BY <2>6 DEF res
<1>7. CASE renamed[n] \in HighFds
  <2> DEFINE at == renamed[n]
  <2>1. \A x \in Fds : res[x] = IF x = at THEN Closed ELSE IF x = n /\ ~drop THEN f[at] ELSE f[x]
    BY <1>7, UndoEffect
  <2>2. f[at] = fds[at]
    BY <1>1, <1>7 DEF Undone, OnlyOnce
  <2>3. Given(fds, renamed, n) = fds[at]
    BY <1>7, NotHigh DEF Given
  <2>4. at \in HighFds /\ at \notin UserFds
    BY <1>7, FdSets
  <2>5. \A h \in HighFds : (\E d \in UserFds : d < n + 1 /\ renamed[d] = h)
                              <=> h = at \/ \E d \in UserFds : d < n /\ renamed[d] = h
    BY <1>2
  <2> HIDE DEF res, at
  <2>6. \A d \in UserFds : res[d] = IF d < n + 1 /\ ~drop THEN Given(fds, renamed, d) ELSE fds[d]
    BY <1>2, <1>4, <2>1, <2>2, <2>3, <2>4, FdSets DEF Undone
  <2>7. \A h \in HighFds : res[h] = IF h = at THEN Closed ELSE f[h]
    BY <1>1, <2>1, FdSets
  <2>8. Undone(fds, renamed, drop, n + 1, res)
    BY <2>5, <2>6, <2>7 DEF Undone
  <2> QED
    BY <2>8 DEF res
<1> QED
  BY <1>3, <1>5, <1>6, <1>7

LEMMA UndoAllEffect ==
    ASSUME NEW fds \in FdTables, NEW renamed \in Renames, NEW drop \in BOOLEAN, OnlyOnce(renamed)
    PROVE  Undone(fds, renamed, drop, FirstSaved, UndoAll(fds, renamed, drop))
<1> DEFINE T == {p \in Nat \X FdTables : Undone(fds, renamed, drop, p[1], p[2])}
<1>1. \A d \in UserFds : d \in Nat /\ ~(d < 0)
  BY FdSets
<1>2. Undone(fds, renamed, drop, 0, fds)
  BY <1>1 DEF Undone
<1>3. <<0, fds>> \in T
  BY <1>2
<1>4. \A d \in UserFds, f \in FdTables :
          <<d, f>> \in T => <<d + 1, Undo(f, d, renamed[d], drop)>> \in T
  <2> SUFFICES ASSUME NEW d \in UserFds, NEW f \in FdTables, <<d, f>> \in T
               PROVE  <<d + 1, Undo(f, d, renamed[d], drop)>> \in T
    OBVIOUS
  <2>1. Undone(fds, renamed, drop, d, f)
    OBVIOUS
  <2>2. Undone(fds, renamed, drop, d + 1, Undo(f, d, renamed[d], drop))
    BY <2>1, UndoneStep
  <2>3. d + 1 \in Nat /\ renamed[d] \in {EMPTY, CLOSED} \cup HighFds
    BY <1>1 DEF Renames
  <2> QED
    BY <2>2, <2>3, UndoTypes
<1>5. T \in SUBSET (Nat \X FdTables)
  OBVIOUS
<1> HIDE DEF T
<1>6. <<FirstSaved, UndoAll(fds, renamed, drop)>> \in T
  BY <1>3, <1>4, <1>5, UndoAllInduction
<1> QED
  BY <1>6 DEF T

(* What the table has saved is free again, the other copies are left alone. *)
LEMMA UndoAllHigh ==
    ASSUME NEW fds \in FdTables, NEW renamed \in Renames, NEW drop \in BOOLEAN, NEW rest,
           HighStep(fds, renamed, rest)
    PROVE  /\ HighInv(UndoAll(fds, renamed, drop), rest)
           /\ \A h \in HighFds : Holds(rest, h) => UndoAll(fds, renamed, drop)[h] = fds[h]
           /\ \A d \in UserFds : UndoAll(fds, renamed, drop)[d]
                                 = IF drop THEN fds[d] ELSE Given(fds, renamed, d)
<1> DEFINE res == UndoAll(fds, renamed, drop)
<1>1. OnlyOnce(renamed)
  BY DEF HighStep, TopApart, OnlyOnce
<1>2. Undone(fds, renamed, drop, FirstSaved, res)
  BY <1>1, UndoAllEffect
<1> HIDE DEF res
<1>3. \A d \in UserFds : d < FirstSaved
  BY DEF UserFds
<1>4. \A h \in HighFds : res[h] = IF TopHolds(renamed, h) THEN Closed ELSE fds[h]
  BY <1>2, <1>3 DEF Undone, TopHolds
<1>5. \A d \in UserFds : res[d] = IF drop THEN fds[d] ELSE Given(fds, renamed, d)
  BY <1>2, <1>3 DEF Undone
<1>6. \A h \in HighFds : ~(TopHolds(renamed, h) /\ Holds(rest, h))
  BY DEF HighStep, TopApart, TopHolds
<1>7. HighInv(res, rest)
  BY <1>4, <1>6 DEF HighInv, HighStep
<1>8. \A h \in HighFds : Holds(rest, h) => res[h] = fds[h]
  BY <1>4, <1>6
<1> QED
  BY <1>5, <1>7, <1>8 DEF res

-----------------------------------------------------------------------------
(***************************************************************************)
(* redirect, popredir and clearredir as a whole.                           *)
(***************************************************************************)
LEMMA RedirectHigh ==
    ASSUME NEW q \in Ios, NEW list \in Seq(Redirection), HighInv(q.fds, q.redirlist)
    PROVE  HighInv(Redirect(q, list, TRUE).fds, Redirect(q, list, TRUE).redirlist)
<1> DEFINE done == ApplyAll(q, list, TRUE)
           tab == [renamed |-> done.renamed, nullredirs |-> q.nullredirs]
<1>1. done \in Steps /\ Progress(q.fds, list, q.redirlist, Len(list), done)
  BY ApplyAllProgress
<1> HIDE DEF done
<1>2. CASE list = <<>>
  <2>1. Redirect(q, list, TRUE).redirlist = q.redirlist /\ Redirect(q, list, TRUE).fds = done.fds
    BY <1>2 DEF Redirect, done, Ios
  <2>2. \A d \in UserFds : done.renamed[d] = EMPTY
    BY <1>1, <1>2 DEF Progress, Named
  <2>3. \A h \in HighFds : ~TopHolds(done.renamed, h)
    BY <2>2, NotHigh DEF TopHolds
  <2> QED
    BY <1>1, <2>1, <2>3 DEF Progress, HighStep, HighInv
<1>3. CASE list # <<>>
  <2>1. /\ Redirect(q, list, TRUE).redirlist = <<tab>> \o q.redirlist
        /\ Redirect(q, list, TRUE).fds = done.fds
    BY <1>3 DEF Redirect, done
  <2>2. tab \in Tabs /\ tab.renamed = done.renamed /\ q.redirlist \in Seq(Tabs)
    BY <1>1 DEF Tabs, Steps, Ios
  <2> HIDE DEF tab
  <2>3. HighStep(done.fds, tab.renamed, q.redirlist)
    BY <1>1, <2>2 DEF Progress
  <2>4. HighInv(done.fds, <<tab>> \o q.redirlist)
    BY <2>2, <2>3, TopOfTabs
  <2> QED
    BY <2>1, <2>4
<1> QED
  BY <1>2, <1>3

LEMMA PopEffect ==
    ASSUME NEW q \in Ios, NEW drop \in BOOLEAN, HighInv(q.fds, q.redirlist),
           q.redirlist # <<>>, ~(q.nullredirs > 0)
    PROVE  /\ PopRedir(q, drop).redirlist = Tail(q.redirlist)
           /\ PopRedir(q, drop).nullredirs = Head(q.redirlist).nullredirs
           /\ HighInv(PopRedir(q, drop).fds, Tail(q.redirlist))
           /\ \A h \in HighFds : Holds(Tail(q.redirlist), h) => PopRedir(q, drop).fds[h] = q.fds[h]
           /\ \A d \in UserFds : PopRedir(q, drop).fds[d]
                  = IF drop THEN q.fds[d] ELSE Given(q.fds, Head(q.redirlist).renamed, d)
<1> DEFINE tab == Head(q.redirlist)
           rest == Tail(q.redirlist)
<1>1. /\ q.fds \in FdTables /\ tab \in Tabs /\ rest \in Seq(Tabs) /\ tab.renamed \in Renames
      /\ q.redirlist = <<tab>> \o rest
  <2>1. q.fds \in FdTables /\ q.redirlist \in Seq(Tabs)
    BY DEF Ios
  <2>2. tab \in Tabs /\ rest \in Seq(Tabs) /\ q.redirlist = <<tab>> \o rest
    BY <2>1
  <2> QED
    BY <2>1, <2>2 DEF Tabs
<1>2. PopRedir(q, drop) = [fds |-> UndoAll(q.fds, tab.renamed, drop), redirlist |-> rest,
                           nullredirs |-> tab.nullredirs]
  BY DEF PopRedir, NullRedirs
<1> HIDE DEF tab, rest
<1>3. HighStep(q.fds, tab.renamed, rest)
  BY <1>1, TopOfTabs
<1> QED
  BY <1>1, <1>2, <1>3, UndoAllHigh DEF tab, rest

LEMMA PopHigh ==
    ASSUME NEW q \in Ios, NEW drop \in BOOLEAN, HighInv(q.fds, q.redirlist)
    PROVE  HighInv(PopRedir(q, drop).fds, PopRedir(q, drop).redirlist)
<1>1. CASE q.nullredirs > 0 \/ q.redirlist = <<>>
  BY <1>1 DEF PopRedir, Ios
<1>2. CASE ~(q.nullredirs > 0 \/ q.redirlist = <<>>)
  BY <1>2, PopEffect
<1> QED
  BY <1>1, <1>2

LEMMA ClearHigh ==
    ASSUME NEW q \in Ios, HighInv(q.fds, q.redirlist)
    PROVE  HighInv(ClearRedir(q).fds, ClearRedir(q).redirlist)
<1> DEFINE T == {p \in Nat \X Ios : HighInv(p[2].fds, p[2].redirlist)}
<1>1. <<0, q>> \in T
  OBVIOUS
<1>2. \A i \in 0..(Len(q.redirlist) - 1), c \in Ios :
          <<i, c>> \in T => <<i + 1, PopNext(c)>> \in T
  <2> SUFFICES ASSUME NEW i \in 0..(Len(q.redirlist) - 1), NEW c \in Ios, <<i, c>> \in T
               PROVE  <<i + 1, PopNext(c)>> \in T
    OBVIOUS
  <2> DEFINE b == [c EXCEPT !.nullredirs = 0]
  <2>1. b \in Ios /\ b.fds = c.fds /\ b.redirlist = c.redirlist
    BY DEF Ios
  <2>2. HighInv(b.fds, b.redirlist)
    BY <2>1
  <2> HIDE DEF b
  <2>3. PopRedir(b, FALSE) \in Ios /\ HighInv(PopRedir(b, FALSE).fds, PopRedir(b, FALSE).redirlist)
    BY <2>1, <2>2, PopHigh, PopRedirTypes
  <2>4. PopNext(c) = PopRedir(b, FALSE) /\ i + 1 \in Nat
    <3>1. Len(q.redirlist) \in Nat
      BY DEF Ios
    <3> QED
      BY <3>1 DEF PopNext, b
  <2> QED
    BY <2>3, <2>4
<1>3. T \in SUBSET (Nat \X Ios) /\ \A p \in T : HighInv(p[2].fds, p[2].redirlist)
  OBVIOUS
<1> HIDE DEF T
<1>4. PICK c \in Ios : <<Len(q.redirlist), c>> \in T /\ ClearRedir(q) = [c EXCEPT !.nullredirs = 0]
  BY <1>1, <1>2, <1>3, ClearRedirInduction
<1>5. HighInv(c.fds, c.redirlist)
  BY <1>3, <1>4
<1> QED
  BY <1>4, <1>5 DEF Ios

-----------------------------------------------------------------------------
(***************************************************************************)
(* While commands can be nested deeper there is a descriptor to save to:   *)
(* were all high ones but one held, there would be a place in the tables   *)
(* for each, and there are more of them than places.                       *)
(***************************************************************************)
LEMMA EnoughRoom ==
    ASSUME NEW depth \in Nat, MaxOpen > FirstSaved + depth * FirstSaved,
           NEW rest \in Seq(Tabs), Len(rest) < depth
    PROVE  RoomFor(rest)
<1> SUFFICES ASSUME NEW fds \in FdTables, NEW renamed \in Renames,
                    HighStep(fds, renamed, rest), NEW e \in UserFds, renamed[e] = EMPTY,
                    NoRoom(fds)
             PROVE  FALSE
  BY DEF RoomFor
<1> DEFINE slots == (1..depth) \X UserFds
           Fills(h, s) == \/ s[1] \in 1..Len(rest) /\ rest[s[1]].renamed[s[2]] = h
                          \/ s[1] = depth /\ s[2] # e /\ renamed[s[2]] = h
                          \/ s = <<depth, e>> /\ fds[h] = Closed
           g == [h \in HighFds |-> CHOOSE s \in slots : Fills(h, s)]
<1>1. Len(rest) \in Nat /\ depth \in 1..depth /\ depth \notin 1..Len(rest)
      /\ 1..Len(rest) \subseteq 1..depth
  OBVIOUS
<1>2. ASSUME NEW h \in HighFds
      PROVE  \E s \in slots : Fills(h, s)
  <2>1. CASE fds[h] = Closed
    <3>1. <<depth, e>> \in slots /\ Fills(h, <<depth, e>>)
      BY <1>1, <2>1
    <3> QED
      BY <3>1
  <2>2. CASE Holds(rest, h)
    <3>1. PICK i \in 1..Len(rest), d \in UserFds : rest[i].renamed[d] = h
      BY <2>2 DEF Holds
    <3>2. <<i, d>> \in slots /\ Fills(h, <<i, d>>)
      BY <1>1, <3>1
    <3> QED
      BY <3>2
  <2>3. CASE TopHolds(renamed, h)
    <3>1. PICK d \in UserFds : renamed[d] = h
      BY <2>3 DEF TopHolds
    <3>2. d # e
      BY <3>1, NotHigh
    <3>3. <<depth, d>> \in slots /\ Fills(h, <<depth, d>>)
      BY <1>1, <3>1, <3>2
    <3> QED
      BY <3>3
  <2> QED
    BY <2>1, <2>2, <2>3 DEF HighStep
<1>3. g \in [HighFds -> slots] /\ \A h \in HighFds : Fills(h, g[h])
  <2> HIDE DEF slots, Fills
  <2> QED
    BY <1>2
<1>4. ASSUME NEW h \in HighFds, NEW k \in HighFds, NEW s \in slots, Fills(h, s), Fills(k, s)
      PROVE  h = k
  <2>1. s = <<s[1], s[2]>>
    OBVIOUS
  <2>2. CASE s[1] \in 1..Len(rest)
    BY <1>1, <1>4, <2>2
  <2>3. CASE s[1] = depth /\ s[2] # e
    BY <1>1, <1>4, <2>3
  <2>4. CASE s = <<depth, e>>
    BY <1>1, <1>4, <2>4 DEF NoRoom
  <2> QED
    BY <1>4, <2>1, <2>2, <2>3, <2>4
<1>5. IsFiniteSet(HighFds) /\ Cardinality(HighFds) = MaxOpen - FirstSaved
  <2> DEFINE top == MaxOpen - 1
  <2>1. FirstSaved \in Int /\ top \in Int /\ ~(FirstSaved > top)
        /\ top - FirstSaved + 1 = MaxOpen - FirstSaved
    OBVIOUS
  <2>2. HighFds = FirstSaved..top
    BY DEF HighFds
  <2> HIDE DEF top
  <2>3. IsFiniteSet(FirstSaved..top) /\ Cardinality(FirstSaved..top) = top - FirstSaved + 1
    BY <2>1, FS_Interval
  <2> QED
    BY <2>1, <2>2, <2>3
<1>6. IsFiniteSet(slots) /\ Cardinality(slots) = depth * FirstSaved
  <2>1. IsFiniteSet(1..depth) /\ Cardinality(1..depth) = depth
    BY FS_Interval
  <2>2. 0 \in Int /\ FirstSaved - 1 \in Int
    OBVIOUS
  <2>3. IsFiniteSet(UserFds) /\ Cardinality(UserFds) = FirstSaved
    <3>1. /\ IsFiniteSet(0..(FirstSaved - 1))
          /\ Cardinality(0..(FirstSaved - 1)) = IF 0 > FirstSaved - 1 THEN 0
                                                ELSE (FirstSaved - 1) - 0 + 1
      BY <2>2, FS_Interval
    <3>2. (IF 0 > FirstSaved - 1 THEN 0 ELSE (FirstSaved - 1) - 0 + 1) = FirstSaved
      OBVIOUS
    <3> QED
      BY <3>1, <3>2 DEF UserFds
  <2> QED
    BY <2>1, <2>3, FS_Product
<1>7. Cardinality(slots) < Cardinality(HighFds)
  <2> DEFINE places == depth * FirstSaved
  <2>1. places \in Int /\ MaxOpen > FirstSaved + places
    OBVIOUS
  <2> HIDE DEF places
  <2>2. places < MaxOpen - FirstSaved
    BY <2>1
  <2> QED
    BY <1>5, <1>6, <2>2 DEF places
<1> HIDE DEF slots, g, Fills
<1>8. PICK h \in HighFds, k \in HighFds : h # k /\ g[h] = g[k]
  BY <1>3, <1>5, <1>6, <1>7, FS_PigeonHole
<1> QED
  BY <1>3, <1>4, <1>8

-----------------------------------------------------------------------------
(***************************************************************************)
(* The commands that are executed and the tables of redirlist, each        *)
(* counted from the oldest.                                                *)
(***************************************************************************)
Nth(s, k) == s[Len(s) + 1 - k]

LEMMA NthPush ==
    ASSUME NEW S, NEW s \in Seq(S), NEW x \in S
    PROVE  /\ <<x>> \o s \in Seq(S)
           /\ Len(s) \in Nat /\ Len(<<x>> \o s) = Len(s) + 1
           /\ Nth(<<x>> \o s, Len(s) + 1) = x
           /\ \A k \in 1..Len(s) : Nth(<<x>> \o s, k) = Nth(s, k)
<1> DEFINE t == <<x>> \o s
<1>1. /\ t \in Seq(S) /\ Len(s) \in Nat /\ Len(t) = Len(s) + 1 /\ t[1] = x
      /\ \A k \in 1..Len(s) : t[k + 1] = s[k]
  OBVIOUS
<1> HIDE DEF t
<1>2. \A k \in 1..Len(s) : /\ Len(s) + 1 - k \in 1..Len(s)
                           /\ Len(t) + 1 - k = (Len(s) + 1 - k) + 1
  BY <1>1
<1>3. Len(t) + 1 - (Len(s) + 1) = 1
  BY <1>1
<1> QED
  BY <1>1, <1>2, <1>3 DEF Nth, t

LEMMA NthTail ==
    ASSUME NEW S, NEW s \in Seq(S), s # <<>>
    PROVE  /\ Tail(s) \in Seq(S) /\ Head(s) \in S
           /\ Len(s) \in Nat \ {0} /\ Len(Tail(s)) = Len(s) - 1
           /\ Nth(s, Len(s)) = Head(s)
           /\ \A k \in 1..(Len(s) - 1) : Nth(Tail(s), k) = Nth(s, k)
<1>1. /\ Tail(s) \in Seq(S) /\ Head(s) \in S /\ Head(s) = s[1]
      /\ Len(s) \in Nat \ {0} /\ Len(Tail(s)) = Len(s) - 1
      /\ \A k \in 1..(Len(s) - 1) : Tail(s)[k] = s[k + 1]
  OBVIOUS
<1>2. \A k \in 1..(Len(s) - 1) : /\ Len(s) - k \in 1..(Len(s) - 1)
                                 /\ Len(Tail(s)) + 1 - k = Len(s) - k
                                 /\ Len(s) + 1 - k = (Len(s) - k) + 1
  BY <1>1
<1>3. Len(s) + 1 - Len(s) = 1
  BY <1>1
<1> QED
  BY <1>1, <1>2, <1>3 DEF Nth

LEMMA NthType ==
    ASSUME NEW S, NEW s \in Seq(S), NEW k \in 1..Len(s)
    PROVE  Nth(s, k) \in S /\ \E i \in 1..Len(s) : Nth(s, k) = s[i]
<1>1. Len(s) + 1 - k \in 1..Len(s)
  OBVIOUS
<1> QED
  BY <1>1 DEF Nth

\* What a table has of the descriptors from before its command.  A command whose
\* redirections failed (pending) may have left some untouched.
Kept(fds, renamed, begin, pending) ==
    \A d \in UserFds :
        /\ renamed[d] # EMPTY => d \in begin.named
        /\ renamed[d] = CLOSED => begin.fds[d] = Closed
        /\ renamed[d] \in HighFds /\ begin.fds[d] # Closed => fds[renamed[d]] = begin.fds[d]
        /\ renamed[d] = EMPTY /\ d \in begin.named /\ begin.fds[d] # Closed
              => pending /\ fds[d] = begin.fds[d]

LEMMA HeldHigh ==
    ASSUME NEW tabs \in Seq(Tabs), NEW i \in 1..Len(tabs)
    PROVE  /\ Nth(tabs, i).renamed \in Renames
           /\ \A d \in UserFds : Holds(tabs, Nth(tabs, i).renamed[d])
<1>1. Nth(tabs, i) \in Tabs
  BY NthType
<1>2. PICK j \in 1..Len(tabs) : Nth(tabs, i) = tabs[j]
  BY NthType
<1> QED
  BY <1>1, <1>2 DEF Tabs, Holds

LEMMA KeptStays ==
    ASSUME NEW fds, NEW new, NEW renamed, NEW begin, NEW pending \in BOOLEAN,
           Kept(fds, renamed, begin, FALSE),
           \A d \in UserFds : renamed[d] \in HighFds => new[renamed[d]] = fds[renamed[d]]
    PROVE  Kept(new, renamed, begin, pending)
BY DEF Kept

LEMMA NewTableKept ==
    ASSUME NEW q \in Ios, NEW list \in Seq(Redirection), HighInv(q.fds, q.redirlist),
           RoomFor(q.redirlist), NEW done, done = ApplyAll(q, list, TRUE)
    PROVE  Kept(done.fds, done.renamed, [named |-> Named(list), fds |-> q.fds], done.error)
<1>1. done \in Steps /\ Progress(q.fds, list, q.redirlist, Len(list), done)
  BY ApplyAllProgress
<1> SUFFICES ASSUME NEW d \in UserFds
             PROVE  /\ done.renamed[d] # EMPTY => d \in Named(list)
                    /\ done.renamed[d] = CLOSED => q.fds[d] = Closed
                    /\ done.renamed[d] \in HighFds /\ q.fds[d] # Closed
                          => done.fds[done.renamed[d]] = q.fds[d]
                    /\ done.renamed[d] = EMPTY /\ d \in Named(list) /\ q.fds[d] # Closed
                          => done.error /\ done.fds[d] = q.fds[d]
  BY DEF Kept
<1>2. KeptFor(q.fds, done, d) /\ (d \notin Named(list) => done.renamed[d] = EMPTY)
  BY <1>1 DEF Progress
<1>3. ASSUME d \in Named(list), q.fds[d] # Closed, ~done.error
      PROVE  done.renamed[d] # EMPTY
  <2>1. PICK j \in DOMAIN list : list[j].fd = d /\ (list[j].op = "dup" => list[j].from # list[j].fd)
    BY <1>3 DEF Named
  <2>2. ~Idle(list[j]) /\ j \in 1..Len(list)
    BY <2>1 DEF Idle
  <2> QED
    BY <1>1, <1>3, <2>1, <2>2 DEF Progress
<1> QED
  BY <1>2, <1>3 DEF KeptFor

(* A redirection leaves what is saved already alone.                       *)
LEMMA RedirectKeeps ==
    ASSUME NEW q \in Ios, NEW list \in Seq(Redirection), HighInv(q.fds, q.redirlist)
    PROVE  \A h \in HighFds : Holds(q.redirlist, h) => Redirect(q, list, TRUE).fds[h] = q.fds[h]
<1> DEFINE done == ApplyAll(q, list, TRUE)
<1>1. Progress(q.fds, list, q.redirlist, Len(list), done)
  BY ApplyAllProgress
<1>2. Redirect(q, list, TRUE).fds = done.fds
  BY DEF Redirect, Ios
<1> HIDE DEF done
<1> QED
  BY <1>1, <1>2 DEF Progress, HighInv

-----------------------------------------------------------------------------
(***************************************************************************)
(* clearredir, as a whole.                                                 *)
(***************************************************************************)
\* What has happened after i tables of q are undone.
Cleared(q, i, c) ==
    LET n == Len(q.redirlist)
        oldest == Nth(q.redirlist, 1).renamed
    IN  /\ i <= n /\ Len(c.redirlist) = n - i
        /\ \A k \in 1..(n - i) : Nth(c.redirlist, k) = Nth(q.redirlist, k)
        /\ HighInv(c.fds, c.redirlist)
        /\ \A h \in HighFds : Holds(c.redirlist, h) => c.fds[h] = q.fds[h]
        /\ i = 0 => c.fds = q.fds
        /\ i = n /\ n > 0 =>
              \A d \in UserFds :
                  oldest[d] # EMPTY \/ n = 1 => c.fds[d] = Given(q.fds, oldest, d)

LEMMA ClearedStep ==
    ASSUME NEW q \in Ios, NEW i \in 0..(Len(q.redirlist) - 1), NEW c \in Ios, Cleared(q, i, c)
    PROVE  Cleared(q, i + 1, PopNext(c))
<1> DEFINE n == Len(q.redirlist)
           oldest == Nth(q.redirlist, 1).renamed
           b == [c EXCEPT !.nullredirs = 0]
           next == PopRedir(b, FALSE)
<1>1. b \in Ios /\ b.fds = c.fds /\ b.redirlist = c.redirlist /\ b.nullredirs = 0
  BY DEF Ios
<1>2. PopNext(c) = next
  BY DEF PopNext
<1> HIDE DEF b
<1>3. n \in Nat /\ i \in Nat /\ i < n
  BY DEF Ios
<1>4. /\ Len(c.redirlist) = n - i
      /\ \A k \in 1..(n - i) : Nth(c.redirlist, k) = Nth(q.redirlist, k)
      /\ HighInv(c.fds, c.redirlist)
      /\ \A h \in HighFds : Holds(c.redirlist, h) => c.fds[h] = q.fds[h]
      /\ i = 0 => c.fds = q.fds
  BY DEF Cleared
<1>5. c.redirlist \in Seq(Tabs) /\ c.redirlist # <<>>
  BY <1>3, <1>4 DEF Ios
<1>6. /\ next.redirlist = Tail(c.redirlist)
      /\ HighInv(next.fds, Tail(c.redirlist))
      /\ \A h \in HighFds : Holds(Tail(c.redirlist), h) => next.fds[h] = c.fds[h]
      /\ \A d \in UserFds : next.fds[d] = Given(c.fds, Head(c.redirlist).renamed, d)
  <2>1. HighInv(b.fds, b.redirlist) /\ b.redirlist # <<>> /\ ~(b.nullredirs > 0)
    BY <1>1, <1>4, <1>5
  <2>2. PICK drop \in BOOLEAN : drop = FALSE
    OBVIOUS
  <2>3. PICK popped : popped = PopRedir(b, drop)
    OBVIOUS
  <2>4. /\ popped.redirlist = Tail(b.redirlist)
        /\ HighInv(popped.fds, Tail(b.redirlist))
        /\ \A h \in HighFds : Holds(Tail(b.redirlist), h) => popped.fds[h] = b.fds[h]
        /\ \A d \in UserFds : popped.fds[d]
               = IF drop THEN b.fds[d] ELSE Given(b.fds, Head(b.redirlist).renamed, d)
    BY <1>1, <2>1, <2>3, PopEffect
  <2>5. next = popped
    BY <2>2, <2>3
  <2> HIDE DEF next
  <2> QED
    BY <1>1, <2>2, <2>4, <2>5
<1>7. /\ Tail(c.redirlist) \in Seq(Tabs)
      /\ Len(Tail(c.redirlist)) = n - i - 1 /\ Nth(c.redirlist, n - i) = Head(c.redirlist)
      /\ \A k \in 1..(n - i - 1) : Nth(Tail(c.redirlist), k) = Nth(c.redirlist, k)
  BY <1>4, <1>5, NthTail
<1> HIDE DEF n, next
<1>8. /\ i + 1 <= n /\ Len(next.redirlist) = n - (i + 1)
      /\ \A k \in 1..(n - (i + 1)) : Nth(next.redirlist, k) = Nth(q.redirlist, k)
  <2>1. n - (i + 1) = n - i - 1 /\ \A k \in 1..(n - i - 1) : k \in 1..(n - i)
    BY <1>3
  <2> QED
    BY <1>3, <1>4, <1>6, <1>7, <2>1
<1>9. \A h \in HighFds : Holds(next.redirlist, h) => next.fds[h] = q.fds[h]
  <2>1. \A h \in HighFds : Holds(Tail(c.redirlist), h) => Holds(c.redirlist, h)
    <3>1. \A k \in 1..Len(Tail(c.redirlist)) :
              k + 1 \in 1..Len(c.redirlist) /\ Tail(c.redirlist)[k] = c.redirlist[k + 1]
      BY <1>5
    <3> QED
      BY <3>1 DEF Holds
  <2> QED
    BY <1>4, <1>6, <2>1
<1>10. ASSUME i + 1 = n, NEW d \in UserFds, oldest[d] # EMPTY \/ n = 1
       PROVE  next.fds[d] = Given(q.fds, oldest, d)
  <2>1. n - i = 1 /\ 1 \in 1..(n - i)
    BY <1>3, <1>10
  <2>2. Head(c.redirlist).renamed = oldest
    BY <1>4, <1>7, <2>1
  <2>3. next.fds[d] = Given(c.fds, oldest, d)
    BY <1>6, <2>2
  <2>4. oldest \in Renames /\ \A e \in UserFds : Holds(c.redirlist, oldest[e])
    <3>1. 1 \in 1..Len(c.redirlist) /\ Nth(c.redirlist, 1).renamed = oldest
      BY <1>4, <2>1
    <3> QED
      BY <1>5, <3>1, HeldHigh
  <2> HIDE DEF oldest
  <2>5. oldest[d] \in {EMPTY, CLOSED} \cup HighFds
    BY <2>4 DEF Renames
  <2>6. CASE oldest[d] = EMPTY
    <3>1. i = 0
      BY <1>3, <1>10, <2>6
    <3> QED
      BY <1>4, <2>3, <3>1
  <2>7. CASE oldest[d] = CLOSED
    BY <2>3, <2>7, NotHigh DEF Given
  <2>8. CASE oldest[d] \in HighFds
    BY <1>4, <2>3, <2>4, <2>8, NotHigh DEF Given
  <2> QED
    BY <2>5, <2>6, <2>7, <2>8
<1>11. ~(i + 1 = 0)
  BY <1>3
<1>12. Cleared(q, i + 1, next)
  BY <1>6, <1>8, <1>9, <1>10, <1>11 DEF Cleared, n, oldest
<1> QED
  BY <1>2, <1>12

LEMMA ClearEffect ==
    ASSUME NEW q \in Ios, HighInv(q.fds, q.redirlist), NEW n, n = Len(q.redirlist),
           NEW oldest, oldest = Nth(q.redirlist, 1).renamed
    PROVE  /\ ClearRedir(q).redirlist = <<>> /\ ClearRedir(q).nullredirs = 0
           /\ n > 0 => \A d \in UserFds : oldest[d] # EMPTY \/ n = 1
                                          => ClearRedir(q).fds[d] = Given(q.fds, oldest, d)
<1> DEFINE T == {p \in Nat \X Ios : Cleared(q, p[1], p[2])}
<1>1. n \in Nat
  BY DEF Ios
<1>2. Cleared(q, 0, q)
  BY <1>1 DEF Cleared
<1>3. <<0, q>> \in T
  BY <1>2
<1>4. \A i \in 0..(Len(q.redirlist) - 1), c \in Ios :
          <<i, c>> \in T => <<i + 1, PopNext(c)>> \in T
  <2> SUFFICES ASSUME NEW i \in 0..(Len(q.redirlist) - 1), NEW c \in Ios, <<i, c>> \in T
               PROVE  <<i + 1, PopNext(c)>> \in T
    OBVIOUS
  <2>1. Cleared(q, i, c)
    OBVIOUS
  <2>2. Cleared(q, i + 1, PopNext(c))
    BY <2>1, ClearedStep
  <2>3. ASSUME NEW b \in Ios
        PROVE  [b EXCEPT !.nullredirs = 0] \in Ios
    <3>1. 0 \in Int
      OBVIOUS
    <3> QED
      BY <3>1 DEF Ios
  <2>4. PopNext(c) \in Ios
    BY <2>3, PopRedirTypes DEF PopNext
  <2>5. i + 1 \in Nat
    BY <1>1
  <2> QED
    BY <2>2, <2>4, <2>5
<1>5. T \in SUBSET (Nat \X Ios) /\ \A p \in T : Cleared(q, p[1], p[2])
  OBVIOUS
<1> HIDE DEF T
<1>6. PICK c \in Ios : <<n, c>> \in T /\ ClearRedir(q) = [c EXCEPT !.nullredirs = 0]
  BY <1>3, <1>4, <1>5, ClearRedirInduction
<1>7. Cleared(q, n, c)
  BY <1>5, <1>6
<1>8. c.redirlist = <<>>
  <2>1. Len(c.redirlist) = 0 /\ c.redirlist \in Seq(Tabs)
    BY <1>1, <1>7 DEF Cleared, Ios
  <2> QED
    BY <2>1
<1>9. /\ ClearRedir(q).fds = c.fds /\ ClearRedir(q).redirlist = c.redirlist
      /\ ClearRedir(q).nullredirs = 0
  BY <1>6 DEF Ios
<1>10. ASSUME n > 0, NEW d \in UserFds, oldest[d] # EMPTY \/ n = 1
       PROVE  c.fds[d] = Given(q.fds, oldest, d)
  BY <1>1, <1>7, <1>10 DEF Cleared
<1> QED
  BY <1>8, <1>9, <1>10

-----------------------------------------------------------------------------
(***************************************************************************)
(* redirect, as a whole.                                                   *)
(***************************************************************************)
\* Without REDIR_PUSH nothing is saved: the high descriptors stay.
LEMMA ApplyInPlace ==
    ASSUME NEW step \in Steps, ~step.push, NEW r \in Redirection
    PROVE  ~Apply(step, r).push /\ HighKept(step.fds, Apply(step, r).fds)
<1> DEFINE fd == r.fd
           new == IF r.op = "open" THEN Lowest(step.fds, 0) ELSE -1
           fails == r.op = "open" /\ (r.file = Closed \/ new = -1)
           opened == IF r.op = "open" THEN [step.fds EXCEPT ![new] = r.file] ELSE step.fds
           freed == [opened EXCEPT ![fd] = Closed]
           last == DupRedirect(freed, r, new)
           result ==
               IF step.error \/ (r.op = "dup" /\ r.from = r.fd) THEN step
               ELSE IF fails THEN [step EXCEPT !.error = TRUE]
               ELSE IF new = fd
               THEN [step EXCEPT !.fds = opened, !.renamed[fd] = @]
               ELSE [step EXCEPT !.fds = last, !.renamed[fd] = @]
<1>1. Apply(step, r) = result
  BY DEF Apply, Saves
<1>2. /\ fd \in UserFds /\ fd \in Fds /\ fd \notin HighFds
      /\ r.op \in {"open", "dup"}
      /\ r.op = "open" => r.file \in Files \cup {Closed}
      /\ r.op = "dup" => r.from \in UserFds \cup {-1}
  <2>1. /\ fd \in UserFds /\ r.op \in {"open", "dup"}
        /\ r.op = "open" => r.file \in Files \cup {Closed}
        /\ r.op = "dup" => r.from \in UserFds \cup {-1}
    BY DEF Redirection
  <2> QED
    BY <2>1, FdSets
<1>3. step.fds \in FdTables /\ step.push = FALSE
      /\ step = [fds |-> step.fds, renamed |-> step.renamed, push |-> FALSE, error |-> step.error]
  BY DEF Steps
<1>4. CASE step.error \/ Idle(r)
  BY <1>1, <1>4 DEF Idle, HighKept
<1>5. CASE ~(step.error \/ Idle(r)) /\ fails
  <2>1. result = [step EXCEPT !.error = TRUE]
    BY <1>5 DEF Idle
  <2> HIDE DEF result
  <2> QED
    BY <1>1, <1>3, <2>1 DEF HighKept
<1>6. CASE ~(step.error \/ Idle(r)) /\ ~fails
  <2>1. r.op = "open" => /\ new \in Fds /\ step.fds[new] = Closed /\ r.file \in Files
    BY <1>2, <1>3, <1>6, LowestIsFree
  <2>2. /\ opened \in FdTables
        /\ \A d \in Fds : opened[d] = IF r.op = "open" /\ d = new THEN r.file ELSE step.fds[d]
    BY <1>2, <1>3, <2>1 DEF FdTables
  <2>3. CASE new = fd
    <3>1. result.fds = opened /\ result.push = FALSE
      BY <1>3, <1>6, <2>3 DEF Idle
    <3> HIDE DEF opened, result, new
    <3> QED
      BY <1>1, <1>2, <2>2, <2>3, <3>1, FdSets DEF HighKept
  <2>4. CASE new # fd
    <3>1. result.fds = last /\ result.push = FALSE
      BY <1>3, <1>6, <2>4 DEF Idle
    <3> HIDE DEF opened, result, new
    <3>2. freed \in FdTables /\ freed[fd] = Closed
          /\ \A d \in Fds : d # fd => freed[d] = opened[d]
      BY <1>2, <2>2 DEF FdTables
    <3> HIDE DEF freed, last
    <3>3. CASE r.op = "dup"
      <4>1. CASE r.from >= 0
        <5>1. r.from \in Fds
          BY <1>2, <3>3, <4>1, FdSets
        <5>2. last = Copied(freed, r.from, fd)
          BY <3>3, <4>1 DEF DupRedirect, last
        <5>3. last = IF freed[r.from] = Closed THEN freed ELSE [freed EXCEPT ![fd] = freed[r.from]]
          BY <1>2, <3>2, <5>1, <5>2, CopyToClosed
        <5>4. \A d \in Fds : d # fd => last[d] = step.fds[d]
          BY <2>2, <3>2, <3>3, <5>3 DEF FdTables
        <5> QED
          BY <1>1, <1>2, <3>1, <5>4, FdSets DEF HighKept
      <4>2. CASE ~(r.from >= 0)
        <5>1. last = freed
          BY <3>3, <4>2 DEF DupRedirect, last
        <5> QED
          BY <1>1, <1>2, <2>2, <3>1, <3>2, <3>3, <5>1, FdSets DEF HighKept
      <4> QED
        BY <4>1, <4>2
    <3>4. CASE r.op = "open"
      <4>1. Copied(freed, new, fd) = IF freed[new] = Closed THEN freed
                                     ELSE [freed EXCEPT ![fd] = freed[new]]
        BY <1>2, <2>1, <3>2, <3>4, CopyToClosed
      <4> DEFINE c == Copied(freed, new, fd)
      <4>2. c \in FdTables /\ \A d \in Fds : d # fd => c[d] = freed[d]
        BY <1>2, <2>1, <3>2, <3>4, <4>1 DEF FdTables
      <4>3. last = [c EXCEPT ![new] = Closed]
        BY <3>4 DEF DupRedirect, last
      <4> HIDE DEF c
      <4>4. \A d \in Fds : d # fd => last[d] = step.fds[d]
        BY <2>1, <2>2, <3>2, <3>4, <4>2, <4>3 DEF FdTables
      <4> QED
        BY <1>1, <1>2, <3>1, <4>4, FdSets DEF HighKept
    <3> QED
      BY <1>2, <3>3, <3>4
  <2> QED
    BY <2>3, <2>4
<1> QED
  BY <1>4, <1>5, <1>6

LEMMA RedirectInPlace ==
    ASSUME NEW q \in Ios, NEW list \in Seq(Redirection)
    PROVE  /\ Redirect(q, list, FALSE) \in Ios
           /\ Redirect(q, list, FALSE).redirlist = q.redirlist
           /\ Redirect(q, list, FALSE).nullredirs = q.nullredirs + 1
           /\ HighKept(q.fds, Redirect(q, list, FALSE).fds)
<1> DEFINE Keeps(s) == ~s.push /\ HighKept(q.fds, s.fds)
           T == {p \in Nat \X Steps : Keeps(p[2])}
           start == Start(q, FALSE)
           done == ApplyAll(q, list, FALSE)
<1>1. start \in Steps /\ Keeps(start)
  BY StartTypes DEF Start, HighKept
<1>2. <<0, start>> \in T
  BY <1>1
<1>3. \A i \in 0..(Len(list) - 1), s \in Steps :
          <<i, s>> \in T => <<i + 1, Apply(s, list[i + 1])>> \in T
  <2> SUFFICES ASSUME NEW i \in 0..(Len(list) - 1), NEW s \in Steps, <<i, s>> \in T
               PROVE  <<i + 1, Apply(s, list[i + 1])>> \in T
    OBVIOUS
  <2>1. Keeps(s) /\ i + 1 \in Nat /\ list[i + 1] \in Redirection
    OBVIOUS
  <2>2. Apply(s, list[i + 1]) \in Steps
    BY <2>1, ApplyTypes
  <2>3. Keeps(Apply(s, list[i + 1]))
    BY <2>1, ApplyInPlace DEF HighKept
  <2> QED
    BY <2>1, <2>2, <2>3
<1>4. T \in SUBSET (Nat \X Steps)
  OBVIOUS
<1> HIDE DEF T
<1>5. <<Len(list), done>> \in T
  BY <1>2, <1>3, <1>4, ApplyAllInduction DEF start
<1>6. HighKept(q.fds, done.fds)
  BY <1>5 DEF T
<1> HIDE DEF done
<1>7. Redirect(q, list, FALSE) = [q EXCEPT !.fds = done.fds, !.nullredirs = @ + 1]
  BY DEF Redirect, done
<1>8. Redirect(q, list, FALSE) \in Ios
  BY RedirectTypes
<1> QED
  BY <1>6, <1>7, <1>8 DEF Ios

\* Redirections that are undone, or made permanent, at once: the tables are the
\* same, and so is what they hold.
TablesKept(q, r) ==
    /\ r \in Ios /\ HighInv(r.fds, r.redirlist)
    /\ r.redirlist = q.redirlist /\ r.nullredirs = q.nullredirs
    /\ \A h \in HighFds : Holds(q.redirlist, h) => r.fds[h] = q.fds[h]

LEMMA RedirectAndPop ==
    ASSUME NEW q \in Ios, NEW list \in Seq(Redirection), NEW drop \in BOOLEAN,
           HighInv(q.fds, q.redirlist), q.nullredirs \in Nat
    PROVE  TablesKept(q, PopRedir(Redirect(q, list, TRUE), drop))
<1> DEFINE done == ApplyAll(q, list, TRUE)
           tab == [renamed |-> done.renamed, nullredirs |-> q.nullredirs]
           p == Redirect(q, list, TRUE)
           r == PopRedir(p, drop)
<1>1. /\ p \in Ios /\ HighInv(p.fds, p.redirlist)
      /\ \A h \in HighFds : Holds(q.redirlist, h) => p.fds[h] = q.fds[h]
  BY RedirectTypes, RedirectHigh, RedirectKeeps
<1>2. r \in Ios /\ HighInv(r.fds, r.redirlist)
  BY <1>1, PopRedirTypes, PopHigh
<1>3. CASE list = <<>>
  <2>1. p.redirlist = q.redirlist /\ p.nullredirs = q.nullredirs + 1
    BY <1>3 DEF Redirect, Ios
  <2> HIDE DEF p
  <2>2. p.nullredirs > 0
    BY <2>1
  <2>3. r.fds = p.fds /\ r.redirlist = p.redirlist /\ r.nullredirs = p.nullredirs - 1
    BY <1>1, <2>2 DEF PopRedir, Ios
  <2> HIDE DEF r
  <2>4. r.nullredirs = q.nullredirs
    BY <2>1, <2>3
  <2> QED
    BY <1>1, <1>2, <2>1, <2>3, <2>4 DEF TablesKept, r, p
<1>4. CASE list # <<>>
  <2>1. p.redirlist = <<tab>> \o q.redirlist /\ p.nullredirs = 0
    BY <1>4 DEF Redirect
  <2>2. tab \in Tabs /\ tab.nullredirs = q.nullredirs /\ q.redirlist \in Seq(Tabs)
    <3>1. done \in Steps
      BY ApplyAllTypes
    <3> HIDE DEF done
    <3> QED
      BY <3>1 DEF Tabs, Steps, Ios
  <2> HIDE DEF p, tab
  <2>3. p.redirlist # <<>> /\ Head(p.redirlist) = tab /\ Tail(p.redirlist) = q.redirlist
    BY <2>1, <2>2
  <2>4. ~(p.nullredirs > 0)
    BY <2>1
  <2>5. /\ PopRedir(p, drop).redirlist = Tail(p.redirlist)
        /\ PopRedir(p, drop).nullredirs = Head(p.redirlist).nullredirs
        /\ \A h \in HighFds : Holds(Tail(p.redirlist), h) => PopRedir(p, drop).fds[h] = p.fds[h]
    BY <1>1, <2>3, <2>4, PopEffect
  <2> QED
    BY <1>1, <1>2, <2>2, <2>3, <2>5 DEF TablesKept, p
<1> QED
  BY <1>3, <1>4

-----------------------------------------------------------------------------
(***************************************************************************)
(* One level of redirections: what popredir goes back to, and the          *)
(* descriptors it gives back.                                              *)
(***************************************************************************)
Levels == [redirlist : Seq(Tabs), nullredirs : Nat]
Level(q) == [redirlist |-> q.redirlist, nullredirs |-> q.nullredirs]

\* popredir leads from level hi to level lo and restores what is open in before.
Remembers(fds, before, hi, lo) ==
    \/ /\ hi.nullredirs > 0
       /\ lo.redirlist = hi.redirlist /\ lo.nullredirs = hi.nullredirs - 1
       /\ \A d \in UserFds : before[d] = Closed
    \/ /\ hi.nullredirs = 0 /\ hi.redirlist # <<>>
       /\ lo.redirlist = Tail(hi.redirlist)
       /\ lo.nullredirs = Head(hi.redirlist).nullredirs
       /\ \A d \in UserFds : before[d] # Closed =>
             /\ Head(hi.redirlist).renamed[d] \in HighFds
             /\ fds[Head(hi.redirlist).renamed[d]] = before[d]

LEMMA HoldsPush ==
    ASSUME NEW rest \in Seq(Tabs), NEW tab \in Tabs
    PROVE  /\ \A h : Holds(rest, h) => Holds(<<tab>> \o rest, h)
           /\ \A d \in UserFds : Holds(<<tab>> \o rest, tab.renamed[d])
<1> DEFINE tabs == <<tab>> \o rest
<1>1. /\ Len(tabs) = Len(rest) + 1 /\ tabs[1] = tab /\ Len(rest) \in Nat
      /\ \A i \in 1..Len(rest) : tabs[i + 1] = rest[i]
  OBVIOUS
<1> HIDE DEF tabs
<1>2. \A i \in 1..Len(rest) : i + 1 \in 1..Len(tabs)
  BY <1>1
<1>3. 1 \in 1..Len(tabs)
  BY <1>1
<1>4. ASSUME NEW h, Holds(rest, h)
      PROVE  Holds(tabs, h)
  <2>1. PICK i \in 1..Len(rest), d \in UserFds : rest[i].renamed[d] = h
    BY <1>4 DEF Holds
  <2>2. tabs[i + 1].renamed[d] = h
    BY <1>1, <2>1
  <2> QED
    BY <1>2, <2>2 DEF Holds
<1>5. ASSUME NEW d \in UserFds
      PROVE  Holds(tabs, tab.renamed[d])
  BY <1>1, <1>3 DEF Holds
<1> QED
  BY <1>4, <1>5 DEF tabs

LEMMA HeldByHead ==
    ASSUME NEW tabs \in Seq(Tabs), tabs # <<>>, NEW d \in UserFds
    PROVE  Holds(tabs, Head(tabs).renamed[d])
<1>1. 1 \in 1..Len(tabs) /\ Head(tabs) = tabs[1]
  OBVIOUS
<1> QED
  BY <1>1 DEF Holds

LEMMA RemembersStays ==
    ASSUME NEW hi \in Levels, NEW lo, NEW before, NEW fds, NEW new,
           Remembers(fds, before, hi, lo),
           \A h \in HighFds : Holds(hi.redirlist, h) => new[h] = fds[h]
    PROVE  Remembers(new, before, hi, lo)
<1>1. hi.redirlist \in Seq(Tabs)
  BY DEF Levels
<1>2. hi.redirlist # <<>> => \A d \in UserFds : Holds(hi.redirlist, Head(hi.redirlist).renamed[d])
  BY <1>1, HeldByHead
<1> QED
  BY <1>2 DEF Remembers

\* The descriptors that list names.
Needs(fds, list) == [d \in UserFds |-> IF d \in Named(list) THEN fds[d] ELSE Closed]

\* A new level, r, on top of that of q.
NewLevel(q, r, before) ==
    /\ r \in Ios /\ HighInv(r.fds, r.redirlist)
    /\ Level(r) \in Levels /\ Len(r.redirlist) <= Len(q.redirlist) + 1
    /\ \A h \in HighFds : Holds(q.redirlist, h) =>
           Holds(r.redirlist, h) /\ r.fds[h] = q.fds[h]
    /\ Remembers(r.fds, before, Level(r), Level(q))

LEMMA RedirectPushes ==
    ASSUME NEW q \in Ios, NEW list \in Seq(Redirection), HighInv(q.fds, q.redirlist),
           q.nullredirs \in Nat, RoomFor(q.redirlist), ~RedirectFails(q, list)
    PROVE  NewLevel(q, Redirect(q, list, TRUE), Needs(q.fds, list))
<1> DEFINE done == ApplyAll(q, list, TRUE)
           tab == [renamed |-> done.renamed, nullredirs |-> q.nullredirs]
           r == Redirect(q, list, TRUE)
           before == Needs(q.fds, list)
<1>0. \A d \in UserFds : before[d] = IF d \in Named(list) THEN q.fds[d] ELSE Closed
  BY DEF Needs
<1> HIDE DEF before
<1>1. /\ r \in Ios /\ HighInv(r.fds, r.redirlist)
      /\ \A h \in HighFds : Holds(q.redirlist, h) => r.fds[h] = q.fds[h]
  BY RedirectTypes, RedirectHigh, RedirectKeeps
<1> HIDE DEF r
<1>2. q.redirlist \in Seq(Tabs) /\ Len(q.redirlist) \in Nat /\ r.redirlist \in Seq(Tabs)
  BY <1>1 DEF Ios
<1>3. CASE list = <<>>
  <2>1. r.redirlist = q.redirlist /\ r.nullredirs = q.nullredirs + 1
    BY <1>3 DEF Redirect, Ios, r
  <2>2. \A d \in UserFds : before[d] = Closed
    BY <1>0, <1>3 DEF Named
  <2> HIDE DEF done
  <2>3. Level(r) \in Levels
    BY <1>2, <2>1 DEF Level, Levels
  <2>4. Remembers(r.fds, before, Level(r), Level(q))
    BY <2>1, <2>2 DEF Remembers, Level
  <2>5. NewLevel(q, r, before)
    BY <1>1, <1>2, <2>1, <2>3, <2>4 DEF NewLevel
  <2> QED
    BY <2>5 DEF r, before
<1>4. CASE list # <<>>
  <2>1. r.redirlist = <<tab>> \o q.redirlist /\ r.nullredirs = 0 /\ r.fds = done.fds
    BY <1>4 DEF Redirect, r
  <2>2. done \in Steps /\ done.error = FALSE
    BY ApplyAllTypes DEF RedirectFails, Steps
  <2>3. Kept(done.fds, done.renamed, [named |-> Named(list), fds |-> q.fds], done.error)
    BY NewTableKept
  <2> HIDE DEF done
  <2>4. tab \in Tabs /\ tab.renamed = done.renamed /\ tab.nullredirs = q.nullredirs
    BY <2>2 DEF Tabs, Steps
  <2> HIDE DEF tab
  <2>5. /\ Head(r.redirlist) = tab /\ Tail(r.redirlist) = q.redirlist /\ r.redirlist # <<>>
        /\ Len(r.redirlist) = Len(q.redirlist) + 1
    BY <1>2, <2>1, <2>4
  <2>6. ASSUME NEW d \in UserFds, before[d] # Closed
        PROVE  tab.renamed[d] \in HighFds /\ r.fds[tab.renamed[d]] = before[d]
    <3>1. d \in Named(list) /\ before[d] = q.fds[d] /\ q.fds[d] # Closed
      BY <1>0, <2>6
    <3>2. tab.renamed[d] \in {EMPTY, CLOSED} \cup HighFds
      BY <2>4 DEF Tabs, Renames
    <3> QED
      BY <2>1, <2>2, <2>3, <2>4, <3>1, <3>2 DEF Kept
  <2>7. Remembers(r.fds, before, Level(r), Level(q))
    BY <2>1, <2>4, <2>5, <2>6 DEF Remembers, Level
  <2>8. Level(r) \in Levels
    BY <1>2, <2>1 DEF Level, Levels
  <2>9. \A h \in HighFds : Holds(q.redirlist, h) => Holds(r.redirlist, h)
    BY <1>2, <2>1, <2>4, HoldsPush
  <2>10. NewLevel(q, r, before)
    BY <1>1, <1>2, <2>5, <2>7, <2>8, <2>9 DEF NewLevel
  <2> QED
    BY <2>10 DEF r, before
<1> QED
  BY <1>3, <1>4

\* popredir has led from q to r, at level lo.
OldLevel(q, r, lo, before) ==
    /\ r \in Ios /\ HighInv(r.fds, r.redirlist) /\ Level(r) = lo
    /\ \A h \in HighFds : Holds(r.redirlist, h) => r.fds[h] = q.fds[h]
    /\ \A d \in UserFds : before[d] # Closed => r.fds[d] = before[d]

LEMMA PopRestores ==
    ASSUME NEW q \in Ios, HighInv(q.fds, q.redirlist), NEW lo \in Levels, NEW before,
           Remembers(q.fds, before, Level(q), lo)
    PROVE  OldLevel(q, PopRedir(q, FALSE), lo, before)
<1> DEFINE r == PopRedir(q, FALSE)
<1>1. r \in Ios /\ HighInv(r.fds, r.redirlist)
  BY PopRedirTypes, PopHigh
<1>2. lo = [redirlist |-> lo.redirlist, nullredirs |-> lo.nullredirs]
  BY DEF Levels
<1>3. CASE q.nullredirs > 0
  <2>1. r.fds = q.fds /\ r.redirlist = q.redirlist /\ r.nullredirs = q.nullredirs - 1
    BY <1>3 DEF PopRedir, Ios
  <2>2. /\ lo.redirlist = q.redirlist /\ lo.nullredirs = q.nullredirs - 1
        /\ \A d \in UserFds : before[d] = Closed
    BY <1>3 DEF Remembers, Level
  <2> HIDE DEF r
  <2> QED
    BY <1>1, <1>2, <2>1, <2>2 DEF Level, OldLevel, r
<1>4. CASE ~(q.nullredirs > 0)
  <2> DEFINE renamed == Head(q.redirlist).renamed
  <2>1. /\ q.redirlist # <<>>
        /\ lo.redirlist = Tail(q.redirlist) /\ lo.nullredirs = Head(q.redirlist).nullredirs
        /\ \A d \in UserFds : before[d] # Closed =>
              renamed[d] \in HighFds /\ q.fds[renamed[d]] = before[d]
    BY <1>4 DEF Remembers, Level
  <2>2. /\ r.redirlist = Tail(q.redirlist) /\ r.nullredirs = Head(q.redirlist).nullredirs
        /\ \A h \in HighFds : Holds(Tail(q.redirlist), h) => r.fds[h] = q.fds[h]
        /\ \A d \in UserFds : r.fds[d] = Given(q.fds, renamed, d)
    BY <1>4, <2>1, PopEffect
  <2> HIDE DEF renamed, r
  <2>3. \A d \in UserFds : before[d] # Closed => r.fds[d] = before[d]
    BY <2>1, <2>2, NotHigh DEF Given
  <2> QED
    BY <1>1, <1>2, <2>1, <2>2, <2>3 DEF Level, OldLevel, r
<1> QED
  BY <1>3, <1>4
=============================================================================
