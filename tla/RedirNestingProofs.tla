------------------------ MODULE RedirNestingProofs -------------------------
(***************************************************************************)
(* Proofs about RedirNesting, for any number of descriptors and for lists  *)
(* of redirections of any length: no saved descriptor is lost or leaks,    *)
(* and each command gives back the descriptors it has redirected.          *)
(***************************************************************************)
EXTENDS RedirNesting, RedirectionsProofs, FiniteSetTheorems

USE RedirectionsAssumption, NestAssumption

-----------------------------------------------------------------------------
(***************************************************************************)
(* No saved descriptor is lost or leaks.                                   *)
(***************************************************************************)
IoInv == io \in {q \in Ios : HighInv(q.fds, q.redirlist)}

LEMMA InitIoInv == ASSUME Init PROVE IoInv
<1>1. io = NewIo /\ io \in Ios
  BY NewIoTypes DEF Init
<1>2. io.redirlist = <<>>
  BY <1>1 DEF NewIo
<1>3. \A h \in HighFds : io.fds[h] = Closed
  <2>1. \A h \in HighFds : h \in Fds /\ h \notin FirstOpen
    BY FdSets
  <2> QED
    BY <1>1, <2>1 DEF NewIo
<1>4. HighInv(io.fds, io.redirlist)
  BY <1>2, <1>3 DEF HighInv, Apart, Holds
<1> QED
  BY <1>1, <1>4 DEF IoInv

LEMMA NextIoInv == ASSUME IoInv, [Next]_vars PROVE IoInv'
<1>1. io \in Ios /\ HighInv(io.fds, io.redirlist)
  BY DEF IoInv
<1>2. \A list \in Redirs : list \in Seq(Redirection)
  OBVIOUS
<1>3. ASSUME NEW list \in Redirs
      PROVE  Redirect(io, list, TRUE) \in {q \in Ios : HighInv(q.fds, q.redirlist)}
  BY <1>1, <1>2, RedirectTypes, RedirectHigh
<1>4. ASSUME NEW q \in Ios, HighInv(q.fds, q.redirlist), NEW drop \in BOOLEAN
      PROVE  PopRedir(q, drop) \in {p \in Ios : HighInv(p.fds, p.redirlist)}
  BY <1>4, PopRedirTypes, PopHigh
<1>5. ASSUME NEW q \in Ios, HighInv(q.fds, q.redirlist)
      PROVE  ClearRedir(q) \in {p \in Ios : HighInv(p.fds, p.redirlist)}
  BY <1>5, ClearRedirTypes, ClearHigh
<1>6. ASSUME NEW list \in Redirs, Begin(list)
      PROVE  IoInv'
  BY <1>3, <1>6 DEF Begin, IoInv
<1>7. ASSUME NEW list \in Redirs, Exec(list)
      PROVE  IoInv'
  <2>1. io' = PopRedir(Redirect(io, list, TRUE), TRUE)
    BY <1>7 DEF Exec
  <2> QED
    BY <1>3, <1>4, <2>1 DEF IoInv
<1>8. ASSUME NEW list \in Redirs, ExecFails(list)
      PROVE  IoInv'
  <2>1. io' = ClearRedir(Redirect(io, list, TRUE))
    BY <1>8 DEF ExecFails
  <2> QED
    BY <1>3, <1>5, <2>1 DEF IoInv
<1>9. CASE End
  BY <1>1, <1>4, <1>9 DEF End, IoInv
<1>10. CASE Reset
  BY <1>1, <1>5, <1>10 DEF Reset, IoInv
<1>11. CASE UNCHANGED vars
  BY <1>11 DEF vars, IoInv
<1> QED
  BY <1>6, <1>7, <1>8, <1>9, <1>10, <1>11 DEF Next

LEMMA IoInvSavedOnce == ASSUME IoInv PROVE SavedOnce
<1>1. /\ io \in Ios /\ io.redirlist \in Seq(Tabs)
      /\ HighInv(io.fds, io.redirlist)
  BY DEF IoInv, Ios
<1>2. \A i \in 1..Len(io.redirlist) : io.redirlist[i].renamed \in Renames
  <2>1. \A i \in 1..Len(io.redirlist) : io.redirlist[i] \in Tabs
    BY <1>1
  <2> QED
    BY <2>1 DEF Tabs
<1>3. ASSUME NEW i \in 1..Len(io.redirlist), NEW d \in UserFds
      PROVE  io.redirlist[i].renamed[d] >= 0 <=> io.redirlist[i].renamed[d] \in HighFds
  <2>1. io.redirlist[i].renamed[d] \in {EMPTY, CLOSED} \cup HighFds
    BY <1>2 DEF Renames
  <2> QED
    BY <2>1 DEF HighFds, EMPTY, CLOSED
<1>4. \A s \in Saved : /\ s[1] \in 1..Len(io.redirlist) /\ s[2] \in UserFds
                       /\ s = <<s[1], s[2]>> /\ At(s) \in HighFds
  BY <1>3 DEF Saved, At
<1>5. \A i \in 1..Len(io.redirlist), d \in UserFds :
          io.redirlist[i].renamed[d] \in HighFds =>
              <<i, d>> \in Saved /\ At(<<i, d>>) = io.redirlist[i].renamed[d]
  BY <1>3 DEF Saved, At
<1>6. \A s \in Saved : At(s) >= FirstSaved /\ io.fds[At(s)] # Closed
  <2> TAKE s \in Saved
  <2>1. Holds(io.redirlist, At(s))
    BY <1>4 DEF Holds, At
  <2>2. io.fds[At(s)] # Closed
    BY <1>1, <1>4, <2>1 DEF HighInv
  <2> QED
    BY <1>4, <2>2 DEF HighFds
<1>7. \A s, t \in Saved : At(s) = At(t) => s = t
  <2> SUFFICES ASSUME NEW s \in Saved, NEW t \in Saved, At(s) = At(t)
               PROVE  s = t
    OBVIOUS
  <2>1. /\ io.redirlist[s[1]].renamed[s[2]] \in HighFds
        /\ io.redirlist[s[1]].renamed[s[2]] = io.redirlist[t[1]].renamed[t[2]]
    BY <1>4 DEF At
  <2>2. s[1] = t[1] /\ s[2] = t[2]
    BY <1>1, <1>4, <2>1 DEF HighInv, Apart
  <2> QED
    BY <1>4, <2>2
<1>8. \A d \in Fds \ UserFds : io.fds[d] # Closed => \E s \in Saved : At(s) = d
  <2> SUFFICES ASSUME NEW d \in Fds \ UserFds, io.fds[d] # Closed
               PROVE  \E s \in Saved : At(s) = d
    OBVIOUS
  <2>1. d \in HighFds
    BY FdSets
  <2>2. Holds(io.redirlist, d)
    BY <1>1, <2>1 DEF HighInv
  <2>3. PICK i \in 1..Len(io.redirlist), e \in UserFds : io.redirlist[i].renamed[e] = d
    BY <2>2 DEF Holds
  <2> QED
    BY <1>5, <2>1, <2>3
<1> QED
  BY <1>6, <1>7, <1>8 DEF SavedOnce

(* Each saved descriptor has an open high number of its own and no other   *)
(* high number is open, whatever is redirected, undone, dropped by `exec', *)
(* or fails half way.                                                      *)
THEOREM DescriptorsSavedOnce == Spec => []SavedOnce
<1>1. Init => IoInv
  BY InitIoInv
<1>2. IoInv /\ [Next]_vars => IoInv'
  BY NextIoInv
<1>3. IoInv => SavedOnce
  BY IoInvSavedOnce
<1> QED
  BY <1>1, <1>2, <1>3, PTL DEF Spec

-----------------------------------------------------------------------------
(***************************************************************************)
(* The commands that are executed and the tables of redirlist, each        *)
(* counted from the oldest.                                                *)
(***************************************************************************)
\* f tells which command made which table: the commands between two of these
\* have no redirections and are counted.
Placed(q, stack, f) ==
    /\ q.nullredirs \in Nat
    /\ f \in [0..Len(q.redirlist) -> 0..Len(stack)]
    /\ f[0] = 0 /\ Len(stack) = f[Len(q.redirlist)] + q.nullredirs
    /\ \A i \in 1..Len(q.redirlist) :
          /\ Nth(q.redirlist, i).nullredirs \in Nat
          /\ f[i] = f[i - 1] + Nth(q.redirlist, i).nullredirs + 1
    /\ \A i, j \in 0..Len(q.redirlist) : i < j => f[i] < f[j]
    /\ \A i \in 0..Len(q.redirlist) : i <= f[i]

Nested(q, stack, fail, f) ==
    /\ Placed(q, stack, f)
    /\ \A k \in 1..Len(stack) :
          (\A i \in 1..Len(q.redirlist) : f[i] # k) => Nth(stack, k).named = {}
    /\ \A i \in 1..Len(q.redirlist) :
          Kept(q.fds, Nth(q.redirlist, i).renamed, Nth(stack, f[i]), fail /\ f[i] = Len(stack))

Frames == [named : SUBSET UserFds, fds : FdTables]

NestInv ==
    /\ nest \in Seq(Frames) /\ failed \in BOOLEAN
    /\ \E f : Nested(io, nest, failed, f)

-----------------------------------------------------------------------------
(***************************************************************************)
(* What is kept for the commands, and how it changes when one is entered   *)
(* or left.                                                                *)
(***************************************************************************)
(* As long as the tables are the same and their copies.                    *)
LEMMA SameTables ==
    ASSUME NEW q \in Ios, NEW p \in Ios, NEW stack \in Seq(Frames), NEW f,
           Nested(q, stack, FALSE, f), p.redirlist = q.redirlist, p.nullredirs = q.nullredirs,
           \A h \in HighFds : Holds(q.redirlist, h) => p.fds[h] = q.fds[h]
    PROVE  Nested(p, stack, FALSE, f)
<1>1. Placed(p, stack, f)
  BY DEF Nested, Placed
<1>2. q.redirlist \in Seq(Tabs)
  BY DEF Ios
<1>3. ASSUME NEW i \in 1..Len(q.redirlist)
      PROVE  Kept(p.fds, Nth(q.redirlist, i).renamed, Nth(stack, f[i]), FALSE)
  <2>1. Kept(q.fds, Nth(q.redirlist, i).renamed, Nth(stack, f[i]), FALSE)
    BY DEF Nested
  <2>2. \A d \in UserFds : Holds(q.redirlist, Nth(q.redirlist, i).renamed[d])
    BY <1>2, HeldHigh
  <2> QED
    BY <2>1, <2>2, KeptStays
<1> QED
  BY <1>1, <1>3 DEF Nested

(* A command without redirections is entered.                              *)
LEMMA PushCommand ==
    ASSUME NEW q \in Ios, NEW p \in Ios, NEW stack \in Seq(Frames), NEW begin \in Frames,
           NEW f, NEW fail \in BOOLEAN, Nested(q, stack, FALSE, f),
           begin.named = {}, p.redirlist = q.redirlist, p.nullredirs = q.nullredirs + 1,
           \A h \in HighFds : Holds(q.redirlist, h) => p.fds[h] = q.fds[h]
    PROVE  Nested(p, <<begin>> \o stack, fail, f)
<1> DEFINE new == <<begin>> \o stack
           n == Len(q.redirlist)
<1>1. /\ Len(stack) \in Nat /\ Len(new) = Len(stack) + 1
      /\ Nth(new, Len(stack) + 1) = begin
      /\ \A k \in 1..Len(stack) : Nth(new, k) = Nth(stack, k)
  BY NthPush
<1>2. q.redirlist \in Seq(Tabs) /\ n \in Nat
  BY DEF Ios
<1>3. Placed(q, stack, f)
  BY DEF Nested
<1> HIDE DEF new, n
<1>4. f \in [0..n -> 0..Len(stack)] /\ \A i \in 1..n : f[i] \in 1..Len(stack)
  <2>1. f \in [0..n -> 0..Len(stack)] /\ \A i \in 0..n : i <= f[i]
    BY <1>3 DEF Placed, n
  <2> QED
    BY <1>1, <1>2, <2>1
<1>5. Placed(p, new, f)
  <2>1. f \in [0..n -> 0..Len(new)]
    BY <1>1, <1>4
  <2>2. p.nullredirs \in Nat /\ Len(new) = f[n] + p.nullredirs
    <3>1. q.nullredirs \in Nat /\ Len(stack) = f[n] + q.nullredirs /\ f[n] \in Int
      BY <1>2, <1>3, <1>4 DEF Placed, n
    <3> QED
      BY <1>1, <3>1
  <2> QED
    BY <1>3, <2>1, <2>2 DEF Placed, n
<1>6. ASSUME NEW i \in 1..n
      PROVE  Kept(p.fds, Nth(q.redirlist, i).renamed, Nth(new, f[i]), fail /\ f[i] = Len(new))
  <2>1. Kept(q.fds, Nth(q.redirlist, i).renamed, Nth(stack, f[i]), FALSE)
    BY DEF Nested, n
  <2>2. \A d \in UserFds : Holds(q.redirlist, Nth(q.redirlist, i).renamed[d])
    BY <1>2, HeldHigh DEF n
  <2>3. Nth(new, f[i]) = Nth(stack, f[i])
    BY <1>1, <1>4
  <2> QED
    BY <2>1, <2>2, <2>3, KeptStays
<1>7. ASSUME NEW k \in 1..Len(new), \A i \in 1..n : f[i] # k
      PROVE  Nth(new, k).named = {}
  <2>1. k = Len(stack) + 1 \/ k \in 1..Len(stack)
    BY <1>1
  <2>2. CASE k = Len(stack) + 1
    BY <1>1, <2>2
  <2>3. CASE k \in 1..Len(stack)
    BY <1>1, <1>7, <2>3 DEF Nested, n
  <2> QED
    BY <2>1, <2>2, <2>3
<1> QED
  BY <1>5, <1>6, <1>7 DEF Nested, new, n

(* A command with redirections is entered.                                 *)
LEMMA PushTable ==
    ASSUME NEW q \in Ios, NEW p \in Ios, NEW stack \in Seq(Frames), NEW begin \in Frames,
           NEW f, NEW fail \in BOOLEAN, Nested(q, stack, FALSE, f), NEW tab \in Tabs,
           Kept(p.fds, tab.renamed, begin, fail), tab.nullredirs = q.nullredirs,
           p.redirlist = <<tab>> \o q.redirlist, p.nullredirs = 0,
           \A h \in HighFds : Holds(q.redirlist, h) => p.fds[h] = q.fds[h]
    PROVE  \E g : Nested(p, <<begin>> \o stack, fail, g)
<1> DEFINE new == <<begin>> \o stack
           n == Len(q.redirlist)
           g == [i \in 0..(n + 1) |-> IF i = n + 1 THEN Len(stack) + 1 ELSE f[i]]
<1>1. /\ Len(stack) \in Nat /\ Len(new) = Len(stack) + 1
      /\ Nth(new, Len(stack) + 1) = begin
      /\ \A k \in 1..Len(stack) : Nth(new, k) = Nth(stack, k)
  BY NthPush
<1>2. /\ q.redirlist \in Seq(Tabs) /\ n \in Nat
      /\ Len(p.redirlist) = n + 1 /\ Nth(p.redirlist, n + 1) = tab
      /\ \A i \in 1..n : Nth(p.redirlist, i) = Nth(q.redirlist, i)
  <2>1. q.redirlist \in Seq(Tabs)
    BY DEF Ios
  <2> QED
    BY <2>1, NthPush
<1> HIDE DEF new, n
<1>3. /\ q.nullredirs \in Nat /\ f \in [0..n -> 0..Len(stack)] /\ f[0] = 0
      /\ Len(stack) = f[n] + q.nullredirs
      /\ \A i \in 1..n : /\ Nth(q.redirlist, i).nullredirs \in Nat
                         /\ f[i] = f[i - 1] + Nth(q.redirlist, i).nullredirs + 1
      /\ \A i, j \in 0..n : i < j => f[i] < f[j]
      /\ \A i \in 0..n : i <= f[i]
  BY DEF Nested, Placed, n
<1>4. /\ g \in [0..(n + 1) -> 0..Len(new)] /\ g[n + 1] = Len(new)
      /\ \A i \in 0..n : g[i] = f[i]
  <2>1. Len(stack) + 1 = Len(new) /\ Len(new) \in Nat /\ Len(stack) <= Len(new)
    BY <1>1
  <2>2. \A i \in 0..(n + 1) : i = n + 1 \/ (i # n + 1 /\ i \in 0..n)
    BY <1>2
  <2>3. \A i \in 0..n : i \in 0..(n + 1) /\ i # n + 1
    BY <1>2
  <2>4. n + 1 \in 0..(n + 1) /\ Len(new) \in 0..Len(new)
    BY <1>2, <2>1
  <2>5. \A i \in 0..n : f[i] \in 0..Len(new)
    BY <1>3, <2>1
  <2>6. \A i \in 0..(n + 1) : (IF i = n + 1 THEN Len(stack) + 1 ELSE f[i]) \in 0..Len(new)
    BY <2>1, <2>2, <2>4, <2>5
  <2> QED
    BY <2>1, <2>3, <2>4, <2>6
<1>5. ASSUME NEW i \in 1..n
      PROVE  f[i] \in 1..Len(stack) /\ f[i] # Len(new) /\ i \in 0..n /\ i - 1 \in 0..n
  <2>1. i \in 0..n /\ i - 1 \in 0..n /\ 0 \in 0..n /\ 0 < i
    BY <1>2
  <2>2. f[i] \in 0..Len(stack) /\ f[0] < f[i] /\ f[0] = 0
    BY <1>3, <2>1
  <2> QED
    BY <1>1, <2>1, <2>2
<1>6. \A i \in 0..(n + 1) : i = n + 1 \/ i \in 0..n
  BY <1>2
<1>7. \A i \in 1..(n + 1) : i = n + 1 \/ i \in 1..n
  BY <1>2
<1>8. f[n] \in 0..Len(stack) /\ n \in 0..n /\ 0 \in 0..n
  BY <1>2, <1>3
<1> HIDE DEF g
<1>9. Placed(p, new, g)
  <2>1. g[0] = 0 /\ Len(new) = g[n + 1] + p.nullredirs /\ p.nullredirs \in Nat
    BY <1>1, <1>3, <1>4, <1>8
  <2>2. ASSUME NEW i \in 1..(n + 1)
        PROVE  /\ Nth(p.redirlist, i).nullredirs \in Nat
               /\ g[i] = g[i - 1] + Nth(p.redirlist, i).nullredirs + 1
    <3>1. CASE i = n + 1
      <4>1. i - 1 = n
        BY <1>2, <3>1
      <4>2. g[i] = f[n] + q.nullredirs + 1 /\ g[i - 1] = f[n]
        BY <1>1, <1>3, <1>4, <1>8, <3>1, <4>1
      <4> QED
        BY <1>2, <1>3, <3>1, <4>2
    <3>2. CASE i \in 1..n
      BY <1>2, <1>3, <1>4, <1>5, <3>2
    <3> QED
      BY <1>7, <3>1, <3>2
  <2>3. ASSUME NEW i \in 0..(n + 1), NEW j \in 0..(n + 1), i < j
        PROVE  g[i] < g[j]
    <3>1. i \in 0..n
      BY <1>2, <2>3
    <3>2. CASE j = n + 1
      BY <1>1, <1>3, <1>4, <3>1, <3>2
    <3>3. CASE j \in 0..n
      BY <1>3, <1>4, <2>3, <3>1, <3>3
    <3> QED
      BY <1>6, <3>2, <3>3
  <2>4. ASSUME NEW i \in 0..(n + 1)
        PROVE  i <= g[i]
    <3>1. CASE i = n + 1
      BY <1>1, <1>2, <1>3, <1>4, <1>8, <3>1
    <3>2. CASE i \in 0..n
      BY <1>3, <1>4, <3>2
    <3> QED
      BY <1>6, <3>1, <3>2
  <2> QED
    BY <1>2, <1>4, <2>1, <2>2, <2>3, <2>4 DEF Placed
<1>10. ASSUME NEW i \in 1..(n + 1)
       PROVE  Kept(p.fds, Nth(p.redirlist, i).renamed, Nth(new, g[i]), fail /\ g[i] = Len(new))
  <2>1. CASE i = n + 1
    BY <1>1, <1>2, <1>4, <2>1
  <2>2. CASE i \in 1..n
    <3>1. Kept(q.fds, Nth(q.redirlist, i).renamed, Nth(stack, f[i]), FALSE)
      BY <2>2 DEF Nested, n
    <3>2. \A d \in UserFds : Holds(q.redirlist, Nth(q.redirlist, i).renamed[d])
      BY <1>2, <2>2, HeldHigh DEF n
    <3>3. Kept(p.fds, Nth(q.redirlist, i).renamed, Nth(stack, f[i]), FALSE)
      BY <3>1, <3>2, KeptStays
    <3>4. Nth(new, g[i]) = Nth(stack, f[i]) /\ g[i] # Len(new)
          /\ Nth(p.redirlist, i) = Nth(q.redirlist, i)
      BY <1>1, <1>2, <1>4, <1>5, <2>2
    <3> QED
      BY <3>3, <3>4
  <2> QED
    BY <1>7, <2>1, <2>2
<1>11. ASSUME NEW k \in 1..Len(new), \A i \in 1..(n + 1) : g[i] # k
       PROVE  Nth(new, k).named = {}
  <2>1. k \in 1..Len(stack)
    <3>1. k # Len(new)
      BY <1>2, <1>4, <1>11
    <3> QED
      BY <1>1, <3>1
  <2>2. \A i \in 1..n : f[i] # k
    BY <1>2, <1>4, <1>5, <1>11
  <2> QED
    BY <1>1, <2>1, <2>2 DEF Nested, n
<1>12. Nested(p, new, fail, g)
  BY <1>2, <1>9, <1>10, <1>11 DEF Nested
<1> QED
  BY <1>12 DEF new

(* A command without redirections is left.                                 *)
LEMMA PopCommand ==
    ASSUME NEW q \in Ios, NEW p \in Ios, NEW stack \in Seq(Frames), stack # <<>>, NEW f,
           NEW fail \in BOOLEAN, Nested(q, stack, fail, f), q.nullredirs > 0,
           p.redirlist = q.redirlist, p.nullredirs = q.nullredirs - 1, p.fds = q.fds
    PROVE  Nested(p, Tail(stack), FALSE, f) /\ Head(stack).named = {}
<1> DEFINE new == Tail(stack)
           n == Len(q.redirlist)
<1>1. /\ Len(stack) \in Nat \ {0} /\ Len(new) = Len(stack) - 1
      /\ Nth(stack, Len(stack)) = Head(stack)
      /\ \A k \in 1..(Len(stack) - 1) : Nth(new, k) = Nth(stack, k)
  BY NthTail
<1>2. n \in Nat
  BY DEF Ios
<1> HIDE DEF new, n
<1>3. /\ q.nullredirs \in Nat /\ f \in [0..n -> 0..Len(stack)]
      /\ Len(stack) = f[n] + q.nullredirs
      /\ \A i, j \in 0..n : i < j => f[i] < f[j]
      /\ \A i \in 0..n : i <= f[i]
  BY DEF Nested, Placed, n
<1>4. n \in 0..n /\ f[n] \in Int /\ f[n] < Len(stack)
  BY <1>1, <1>2, <1>3
<1>5. \A i \in 0..n : f[i] \in 0..Len(new) /\ f[i] # Len(stack)
  <2> TAKE i \in 0..n
  <2>1. f[i] \in 0..Len(stack) /\ (i < n => f[i] < f[n]) /\ (i < n \/ i = n)
    BY <1>2, <1>3, <1>4
  <2> QED
    BY <1>1, <1>4, <2>1
<1>6. \A i \in 1..n : i \in 0..n /\ f[i] \in 1..(Len(stack) - 1)
  <2> TAKE i \in 1..n
  <2>1. i \in 0..n /\ 1 <= i /\ i <= f[i]
    BY <1>2, <1>3
  <2> QED
    BY <1>1, <1>5, <2>1
<1>7. Placed(p, new, f)
  <2>1. f \in [0..n -> 0..Len(new)]
    BY <1>3, <1>5
  <2>2. p.nullredirs \in Nat /\ Len(new) = f[n] + p.nullredirs
    BY <1>1, <1>3, <1>4
  <2> QED
    BY <2>1, <2>2 DEF Nested, Placed, n
<1>8. ASSUME NEW i \in 1..n
      PROVE  Kept(p.fds, Nth(p.redirlist, i).renamed, Nth(new, f[i]), FALSE /\ f[i] = Len(new))
  <2>1. Kept(q.fds, Nth(q.redirlist, i).renamed, Nth(stack, f[i]), fail /\ f[i] = Len(stack))
    BY DEF Nested, n
  <2>2. f[i] # Len(stack) /\ Nth(new, f[i]) = Nth(stack, f[i])
    BY <1>1, <1>5, <1>6
  <2> QED
    BY <2>1, <2>2
<1>9. ASSUME NEW k \in 1..Len(stack), \A i \in 1..n : f[i] # k
      PROVE  Nth(stack, k).named = {}
  BY <1>9 DEF Nested, n
<1>10. Head(stack).named = {}
  <2>1. Len(stack) \in 1..Len(stack) /\ \A i \in 1..n : f[i] # Len(stack)
    BY <1>1, <1>5, <1>6
  <2> QED
    BY <1>1, <1>9, <2>1
<1>11. \A k \in 1..Len(new) : k \in 1..Len(stack) /\ k \in 1..(Len(stack) - 1)
  BY <1>1
<1>12. Nested(p, new, FALSE, f)
  BY <1>1, <1>7, <1>8, <1>9, <1>11 DEF Nested, n
<1> QED
  BY <1>10, <1>12 DEF new

(* A command with redirections is left: the newest table is its.           *)
LEMMA PopTable ==
    ASSUME NEW q \in Ios, NEW p \in Ios, NEW stack \in Seq(Frames), stack # <<>>, NEW f,
           NEW fail \in BOOLEAN, Nested(q, stack, fail, f), ~(q.nullredirs > 0),
           p.redirlist = Tail(q.redirlist), p.nullredirs = Head(q.redirlist).nullredirs,
           \A h \in HighFds : Holds(Tail(q.redirlist), h) => p.fds[h] = q.fds[h]
    PROVE  /\ q.redirlist # <<>>
           /\ Kept(q.fds, Head(q.redirlist).renamed, Head(stack), fail)
           /\ \E g : Nested(p, Tail(stack), FALSE, g)
<1> DEFINE new == Tail(stack)
           n == Len(q.redirlist)
<1>1. /\ Len(stack) \in Nat \ {0} /\ Len(new) = Len(stack) - 1
      /\ Nth(stack, Len(stack)) = Head(stack)
      /\ \A k \in 1..(Len(stack) - 1) : Nth(new, k) = Nth(stack, k)
  BY NthTail
<1>2. n \in Nat /\ q.redirlist \in Seq(Tabs) /\ (q.redirlist = <<>> <=> n = 0)
  BY DEF Ios
<1> HIDE DEF new, n
<1>3. /\ q.nullredirs \in Nat /\ f \in [0..n -> 0..Len(stack)] /\ f[0] = 0
      /\ Len(stack) = f[n] + q.nullredirs
      /\ \A i \in 1..n : /\ Nth(q.redirlist, i).nullredirs \in Nat
                         /\ f[i] = f[i - 1] + Nth(q.redirlist, i).nullredirs + 1
      /\ \A i, j \in 0..n : i < j => f[i] < f[j]
      /\ \A i \in 0..n : i <= f[i]
  BY DEF Nested, Placed, n
<1>4. f[n] = Len(stack) /\ n > 0
  <2>1. n \in 0..n /\ q.nullredirs = 0
    BY <1>2, <1>3
  <2> QED
    BY <1>1, <1>2, <1>3, <2>1
<1>5. /\ Len(p.redirlist) = n - 1 /\ p.redirlist \in Seq(Tabs)
      /\ Nth(q.redirlist, n) = Head(q.redirlist)
      /\ \A i \in 1..(n - 1) : Nth(p.redirlist, i) = Nth(q.redirlist, i)
  <2>1. q.redirlist # <<>>
    BY <1>2, <1>4
  <2> QED
    BY <1>2, <2>1, NthTail DEF n
<1> DEFINE g == [i \in 0..(n - 1) |-> f[i]]
<1>6. /\ \A i \in 0..(n - 1) : i \in 0..n /\ i < n /\ g[i] = f[i]
      /\ \A i \in 1..(n - 1) : i \in 1..n /\ i \in 0..(n - 1) /\ i - 1 \in 0..(n - 1)
      /\ n \in 0..n /\ n \in 1..n /\ n - 1 \in 0..(n - 1) /\ 0 \in 0..(n - 1)
  BY <1>2, <1>4
<1>7. \A i \in 0..(n - 1) : f[i] \in 0..Len(new) /\ f[i] # Len(stack)
  <2> TAKE i \in 0..(n - 1)
  <2>1. f[i] \in 0..Len(stack) /\ f[i] < f[n]
    BY <1>3, <1>6
  <2> QED
    BY <1>1, <1>4, <2>1
<1>8. \A i \in 1..(n - 1) : f[i] \in 1..(Len(stack) - 1)
  <2> TAKE i \in 1..(n - 1)
  <2>1. 1 <= i /\ i <= f[i] /\ i \in Int
    BY <1>3, <1>6
  <2> QED
    BY <1>1, <1>6, <1>7, <2>1
<1>9. g \in [0..(n - 1) -> 0..Len(new)]
  BY <1>7
<1> HIDE DEF g
<1>10. Placed(p, new, g)
  <2>1. p.nullredirs \in Nat /\ Len(new) = g[n - 1] + p.nullredirs
    <3>1. /\ f[n] = f[n - 1] + Head(q.redirlist).nullredirs + 1
          /\ Head(q.redirlist).nullredirs \in Nat
      BY <1>3, <1>5, <1>6
    <3>2. f[n - 1] \in Int
      BY <1>6, <1>7
    <3> QED
      BY <1>1, <1>4, <1>6, <3>1, <3>2
  <2>2. \A i \in 1..(n - 1) : /\ Nth(p.redirlist, i).nullredirs \in Nat
                              /\ g[i] = g[i - 1] + Nth(p.redirlist, i).nullredirs + 1
    BY <1>3, <1>5, <1>6
  <2>3. /\ \A i, j \in 0..(n - 1) : i < j => g[i] < g[j]
        /\ \A i \in 0..(n - 1) : i <= g[i]
        /\ g[0] = 0
    BY <1>3, <1>6
  <2> QED
    BY <1>5, <1>9, <2>1, <2>2, <2>3 DEF Placed
<1>11. ASSUME NEW i \in 1..(n - 1)
       PROVE  Kept(p.fds, Nth(p.redirlist, i).renamed, Nth(new, g[i]), FALSE /\ g[i] = Len(new))
  <2>1. Kept(q.fds, Nth(q.redirlist, i).renamed, Nth(stack, f[i]), fail /\ f[i] = Len(stack))
    BY <1>6 DEF Nested, n
  <2>2. f[i] # Len(stack) /\ Nth(new, g[i]) = Nth(stack, f[i]) /\ g[i] = f[i]
    BY <1>1, <1>6, <1>7, <1>8
  <2>3. \A d \in UserFds : Holds(p.redirlist, Nth(p.redirlist, i).renamed[d])
    BY <1>5, HeldHigh
  <2>4. Kept(q.fds, Nth(p.redirlist, i).renamed, Nth(new, g[i]), FALSE)
    BY <1>5, <2>1, <2>2
  <2> QED
    BY <2>3, <2>4, KeptStays
<1>12. ASSUME NEW k \in 1..Len(new), \A i \in 1..(n - 1) : g[i] # k
       PROVE  Nth(new, k).named = {}
  <2>1. k \in 1..Len(stack) /\ k \in 1..(Len(stack) - 1) /\ k # Len(stack)
    BY <1>1
  <2>2. \A i \in 1..n : i = n \/ i \in 1..(n - 1)
    BY <1>2
  <2>3. \A i \in 1..n : f[i] # k
    BY <1>4, <1>6, <1>12, <2>1, <2>2
  <2> QED
    BY <1>1, <2>1, <2>3 DEF Nested, n
<1>13. Nested(p, new, FALSE, g)
  BY <1>5, <1>10, <1>11, <1>12 DEF Nested
<1>14. Kept(q.fds, Head(q.redirlist).renamed, Head(stack), fail)
  <2>1. Kept(q.fds, Nth(q.redirlist, n).renamed, Nth(stack, f[n]), fail /\ f[n] = Len(stack))
    BY <1>6 DEF Nested, n
  <2> QED
    BY <1>1, <1>4, <1>5, <2>1
<1>15. \E h : Nested(p, new, FALSE, h)
  BY <1>13
<1>16. q.redirlist # <<>>
  BY <1>2, <1>4
<1> QED
  BY <1>14, <1>15, <1>16 DEF new

-----------------------------------------------------------------------------
(***************************************************************************)
(* Each command gives back what it has redirected.                         *)
(***************************************************************************)
RInv == IoInv /\ NestInv

LEMMA EmptyNest == ASSUME NEW q, q.redirlist = <<>>, q.nullredirs = 0
                   PROVE  \E f : Nested(q, <<>>, FALSE, f)
<1> DEFINE f == [i \in 0..0 |-> 0]
<1>1. Nested(q, <<>>, FALSE, f)
  BY DEF Nested, Placed
<1> QED
  BY <1>1

LEMMA InitNestInv == ASSUME Init PROVE NestInv
<1>1. nest = <<>> /\ failed = FALSE /\ io.redirlist = <<>> /\ io.nullredirs = 0
  BY DEF Init, NewIo
<1>2. \E f : Nested(io, nest, failed, f)
  BY <1>1, EmptyNest
<1>3. nest \in Seq(Frames)
  BY <1>1
<1>4. failed \in BOOLEAN
  BY <1>1
<1> QED
  BY <1>2, <1>3, <1>4 DEF NestInv

LEMMA BeginNests == ASSUME RInv, NEW list \in Redirs, Begin(list) PROVE NestInv'
<1> DEFINE done == ApplyAll(io, list, TRUE)
           begin == [named |-> Named(list), fds |-> io.fds]
           tab == [renamed |-> done.renamed, nullredirs |-> io.nullredirs]
<1>1. /\ io \in Ios /\ HighInv(io.fds, io.redirlist) /\ nest \in Seq(Frames)
      /\ ~failed /\ Len(nest) < MaxNest /\ list \in Seq(Redirection)
  BY DEF RInv, IoInv, NestInv, Begin
<1>2. PICK f : Nested(io, nest, FALSE, f)
  BY <1>1 DEF RInv, NestInv
<1>3. /\ io' = Redirect(io, list, TRUE) /\ failed' = done.error /\ nest' = <<begin>> \o nest
  BY DEF Begin, RedirectFails
<1>4. io' \in Ios /\ \A h \in HighFds : Holds(io.redirlist, h) => io'.fds[h] = io.fds[h]
  BY <1>1, <1>3, RedirectTypes, RedirectKeeps
<1>5. begin \in Frames
  <2>1. Named(list) \subseteq UserFds
    <3>1. \A j \in DOMAIN list : list[j].fd \in UserFds
      BY <1>1 DEF Redirection
    <3> QED
      BY <3>1 DEF Named
  <2>2. io.fds \in FdTables
    BY <1>1 DEF Ios
  <2> QED
    BY <2>1, <2>2 DEF Frames
<1>6. done \in Steps
  BY <1>1, ApplyAllTypes
<1>7. failed' \in BOOLEAN
  BY <1>3, <1>6 DEF Steps
<1>8. nest' \in Seq(Frames)
  BY <1>1, <1>3, <1>5, NthPush
<1>9. CASE list = <<>>
  <2>1. begin.named = {}
    BY <1>9 DEF Named
  <2>2. io'.redirlist = io.redirlist /\ io'.nullredirs = io.nullredirs + 1
    BY <1>1, <1>3, <1>9 DEF Redirect, Ios
  <2> HIDE DEF begin
  <2>3. Nested(io', <<begin>> \o nest, failed', f)
    BY <1>1, <1>2, <1>4, <1>5, <1>7, <2>1, <2>2, PushCommand
  <2> QED
    BY <1>3, <1>7, <1>8, <2>3 DEF NestInv
<1>10. CASE list # <<>>
  <2>1. /\ io'.redirlist = <<tab>> \o io.redirlist /\ io'.nullredirs = 0
        /\ io'.fds = done.fds
    BY <1>3, <1>10 DEF Redirect
  <2>2. tab \in Tabs /\ tab.nullredirs = io.nullredirs /\ tab.renamed = done.renamed
    BY <1>1, <1>6 DEF Tabs, Steps, Ios
  <2>3. RoomFor(io.redirlist)
    <3>1. io.redirlist \in Seq(Tabs) /\ Len(io.redirlist) \in Nat /\ Len(nest) \in Nat
      BY <1>1 DEF Ios
    <3>2. Len(io.redirlist) <= f[Len(io.redirlist)] /\ f[Len(io.redirlist)] \in 0..Len(nest)
      BY <1>2, <3>1 DEF Nested, Placed
    <3>3. Len(io.redirlist) < MaxNest
      BY <1>1, <3>1, <3>2
    <3> QED
      BY <3>1, <3>3, EnoughRoom, NestAssumption, RoomAssumption
  <2>4. Kept(done.fds, done.renamed, begin, done.error)
    BY <1>1, <2>3, NewTableKept
  <2> HIDE DEF begin, tab, done
  <2>5. Kept(io'.fds, tab.renamed, begin, failed')
    BY <1>3, <2>1, <2>2, <2>4
  <2>6. /\ io'.redirlist = <<tab>> \o io.redirlist /\ io'.nullredirs = 0
        /\ tab \in Tabs /\ tab.nullredirs = io.nullredirs
        /\ nest \in Seq(Frames) /\ begin \in Frames
    BY <1>1, <1>5, <2>1, <2>2
  <2>7. \E g : Nested(io', <<begin>> \o nest, failed', g)
    BY <1>1, <1>2, <1>4, <1>7, <2>5, <2>6, PushTable
  <2> QED
    BY <1>3, <1>7, <1>8, <2>7 DEF NestInv
<1> QED
  BY <1>9, <1>10

LEMMA ExecNests == ASSUME RInv, NEW list \in Redirs, Exec(list) PROVE NestInv'
<1> DEFINE done == ApplyAll(io, list, TRUE)
           tab == [renamed |-> done.renamed, nullredirs |-> io.nullredirs]
           q == Redirect(io, list, TRUE)
<1>1. /\ io \in Ios /\ HighInv(io.fds, io.redirlist) /\ nest \in Seq(Frames)
      /\ failed = FALSE /\ list \in Seq(Redirection)
  BY DEF RInv, IoInv, NestInv, Exec
<1>2. PICK f : Nested(io, nest, FALSE, f)
  BY <1>1 DEF RInv, NestInv
<1>3. io' = PopRedir(q, TRUE) /\ failed' = FALSE /\ nest' = nest
  BY <1>1 DEF Exec
<1>4. /\ q \in Ios /\ HighInv(q.fds, q.redirlist)
      /\ \A h \in HighFds : Holds(io.redirlist, h) => q.fds[h] = io.fds[h]
  BY <1>1, RedirectTypes, RedirectHigh, RedirectKeeps
<1>5. /\ io' \in Ios /\ io'.redirlist = io.redirlist /\ io'.nullredirs = io.nullredirs
      /\ \A h \in HighFds : Holds(io.redirlist, h) => io'.fds[h] = io.fds[h]
  <2>0. io' \in Ios
    BY <1>3, <1>4, PopRedirTypes
  <2>1. CASE list = <<>>
    <3>1. q.redirlist = io.redirlist /\ q.nullredirs = io.nullredirs + 1
      BY <1>1, <2>1 DEF Redirect, Ios
    <3>2. PICK f1 : Nested(io, nest, FALSE, f1)
      BY <1>2
    <3>3. io.nullredirs \in Nat
      BY <3>2 DEF Nested, Placed
    <3> HIDE DEF q
    <3>5. q.nullredirs > 0
      BY <3>1, <3>3
    <3>4. /\ io'.fds = q.fds /\ io'.redirlist = q.redirlist
          /\ io'.nullredirs = q.nullredirs - 1
      BY <1>3, <1>4, <3>5 DEF PopRedir, Ios
    <3> QED
      BY <1>4, <2>0, <3>1, <3>3, <3>4
  <2>2. CASE list # <<>>
    <3>1. q.redirlist = <<tab>> \o io.redirlist /\ q.nullredirs = 0
      BY <2>2 DEF Redirect
    <3>2. tab \in Tabs /\ tab.nullredirs = io.nullredirs /\ io.redirlist \in Seq(Tabs)
      <4>1. done \in Steps
        BY <1>1, ApplyAllTypes
      <4> HIDE DEF done
      <4> QED
        BY <1>1, <4>1 DEF Tabs, Steps, Ios
    <3> HIDE DEF q, tab
    <3>3. /\ q.redirlist # <<>> /\ Head(q.redirlist) = tab /\ Tail(q.redirlist) = io.redirlist
      BY <3>1, <3>2
    <3>4. ~(q.nullredirs > 0)
      BY <3>1
    <3>5. /\ PopRedir(q, TRUE).redirlist = Tail(q.redirlist)
          /\ PopRedir(q, TRUE).nullredirs = Head(q.redirlist).nullredirs
          /\ \A h \in HighFds : Holds(Tail(q.redirlist), h) => PopRedir(q, TRUE).fds[h] = q.fds[h]
      BY <1>4, <3>3, <3>4, PopEffect
    <3> QED
      BY <1>3, <1>4, <2>0, <3>2, <3>3, <3>5
  <2> QED
    BY <2>1, <2>2
<1>6. Nested(io', nest, FALSE, f)
  BY <1>1, <1>2, <1>5, SameTables
<1> QED
  BY <1>1, <1>3, <1>6 DEF NestInv

LEMMA ClearNests ==
    ASSUME NEW q \in Ios, HighInv(q.fds, q.redirlist), io' = ClearRedir(q),
           nest' = <<>>, failed' = FALSE
    PROVE  NestInv'
<1>1. io'.redirlist = <<>> /\ io'.nullredirs = 0
  BY ClearEffect
<1>2. \E f : Nested(io', nest', failed', f)
  BY <1>1, EmptyNest
<1>3. nest' \in Seq(Frames)
  OBVIOUS
<1>4. failed' \in BOOLEAN
  OBVIOUS
<1> QED
  BY <1>2, <1>3, <1>4 DEF NestInv

(* The end of a command, for the descriptors and for the invariant.        *)
LEMMA EndNests ==
    ASSUME RInv, End
    PROVE  /\ NestInv'
           /\ \A d \in UserFds :
                 IF d \notin Head(nest).named THEN io'.fds[d] = io.fds[d]
                 ELSE Head(nest).fds[d] # Closed => io'.fds[d] = Head(nest).fds[d]
<1>1. /\ io \in Ios /\ HighInv(io.fds, io.redirlist) /\ nest \in Seq(Frames)
      /\ nest # <<>> /\ failed \in BOOLEAN
      /\ io' = PopRedir(io, FALSE) /\ failed' = FALSE /\ nest' = Tail(nest)
  BY DEF RInv, IoInv, NestInv, End
<1>2. PICK f : Nested(io, nest, failed, f)
  BY DEF RInv, NestInv
<1>3. io' \in Ios /\ nest' \in Seq(Frames)
  <2>1. io' \in Ios
    BY <1>1, PopRedirTypes
  <2>2. nest' \in Seq(Frames)
    BY <1>1, NthTail
  <2> QED
    BY <2>1, <2>2
<1>4. CASE io.nullredirs > 0
  <2>1. /\ io'.redirlist = io.redirlist /\ io'.nullredirs = io.nullredirs - 1
        /\ io'.fds = io.fds
    BY <1>1, <1>4 DEF PopRedir, Ios
  <2>2. Nested(io', Tail(nest), FALSE, f) /\ Head(nest).named = {}
    BY <1>1, <1>2, <1>3, <1>4, <2>1, PopCommand
  <2> QED
    BY <1>1, <1>3, <2>1, <2>2 DEF NestInv
<1>5. CASE ~(io.nullredirs > 0)
  <2>1. io.redirlist # <<>>
    <3>1. ASSUME io.redirlist = <<>>
          PROVE  FALSE
      <4>1. Len(io.redirlist) = 0 /\ Len(nest) \in Nat \ {0}
        BY <1>1, <3>1
      <4>2. Len(nest) = f[0] + io.nullredirs /\ f[0] = 0 /\ io.nullredirs \in Nat
        BY <1>2, <4>1 DEF Nested, Placed
      <4> QED
        BY <1>5, <4>1, <4>2
    <3> QED
      BY <3>1
  <2>2. /\ io'.redirlist = Tail(io.redirlist)
        /\ io'.nullredirs = Head(io.redirlist).nullredirs
        /\ \A h \in HighFds : Holds(Tail(io.redirlist), h) => io'.fds[h] = io.fds[h]
        /\ \A d \in UserFds : io'.fds[d] = Given(io.fds, Head(io.redirlist).renamed, d)
    BY <1>1, <1>5, <2>1, PopEffect
  <2>3. /\ Kept(io.fds, Head(io.redirlist).renamed, Head(nest), failed)
        /\ \E g : Nested(io', Tail(nest), FALSE, g)
    <3>1. /\ io \in Ios /\ io' \in Ios /\ nest \in Seq(Frames) /\ nest # <<>>
          /\ Nested(io, nest, failed, f) /\ ~(io.nullredirs > 0)
      BY <1>1, <1>2, <1>3, <1>5
    <3>2. failed \in BOOLEAN
      BY <1>1
    <3>3. /\ io'.redirlist = Tail(io.redirlist)
          /\ io'.nullredirs = Head(io.redirlist).nullredirs
          /\ \A h \in HighFds : Holds(Tail(io.redirlist), h) => io'.fds[h] = io.fds[h]
      BY <2>2
    <3> QED
      BY <3>1, <3>2, <3>3, PopTable
  <2>4. NestInv'
    <3>1. \E g : Nested(io', nest', failed', g)
      BY <1>1, <2>3
    <3>2. failed' \in BOOLEAN
      BY <1>1
    <3> QED
      BY <1>3, <3>1, <3>2 DEF NestInv
  <2>5. ASSUME NEW d \in UserFds
        PROVE  IF d \notin Head(nest).named THEN io'.fds[d] = io.fds[d]
               ELSE Head(nest).fds[d] # Closed => io'.fds[d] = Head(nest).fds[d]
    <3> DEFINE at == Head(io.redirlist).renamed[d]
    <3>1. at \in {EMPTY, CLOSED} \cup HighFds
      <4>1. Head(io.redirlist) \in Tabs
        BY <1>1, <2>1 DEF Ios
      <4> QED
        BY <4>1 DEF Tabs, Renames
    <3>2. io'.fds[d] = IF at = EMPTY THEN io.fds[d] ELSE IF at = CLOSED THEN Closed ELSE io.fds[at]
      BY <2>2 DEF Given
    <3>3. /\ at # EMPTY => d \in Head(nest).named
          /\ at = CLOSED => Head(nest).fds[d] = Closed
          /\ at \in HighFds /\ Head(nest).fds[d] # Closed => io.fds[at] = Head(nest).fds[d]
          /\ at = EMPTY /\ d \in Head(nest).named /\ Head(nest).fds[d] # Closed
                => io.fds[d] = Head(nest).fds[d]
      BY <2>3 DEF Kept
    <3> HIDE DEF at
    <3> QED
      BY <3>1, <3>2, <3>3, NotHigh
  <2> QED
    BY <2>4, <2>5
<1> QED
  BY <1>4, <1>5

(* After an error, for the descriptors of the outermost command.           *)
LEMMA ResetRestores ==
    ASSUME RInv, Reset
    PROVE  /\ \A d \in nest[Len(nest)].named :
                 nest[Len(nest)].fds[d] # Closed => io'.fds[d] = nest[Len(nest)].fds[d]
           /\ io'.redirlist = <<>> /\ io'.nullredirs = 0
<1> DEFINE begin == nest[Len(nest)]
           n == Len(io.redirlist)
           oldest == Nth(io.redirlist, 1).renamed
<1>1. /\ io \in Ios /\ HighInv(io.fds, io.redirlist) /\ nest \in Seq(Frames)
      /\ nest # <<>> /\ failed \in BOOLEAN /\ io' = ClearRedir(io)
  BY DEF RInv, IoInv, NestInv, Reset
<1>2. PICK f : Nested(io, nest, failed, f)
  BY DEF RInv, NestInv
<1>3. /\ io'.redirlist = <<>> /\ io'.nullredirs = 0
      /\ n > 0 => \A d \in UserFds : oldest[d] # EMPTY \/ n = 1
                                         => io'.fds[d] = Given(io.fds, oldest, d)
  BY <1>1, ClearEffect
<1>4. /\ begin = Nth(nest, 1) /\ begin \in Frames /\ 1 \in 1..Len(nest) /\ Len(nest) \in Nat
      /\ n \in Nat /\ io.redirlist \in Seq(Tabs)
  BY <1>1 DEF Nth, Ios
<1> HIDE DEF begin, n
<1>5. ASSUME NEW d \in begin.named, begin.fds[d] # Closed
      PROVE  io'.fds[d] = begin.fds[d]
  <2>1. d \in UserFds
    BY <1>4 DEF Frames
  <2>2. PICK i \in 1..n : f[i] = 1
    BY <1>2, <1>4, <1>5 DEF Nested, n
  <2>3. /\ f \in [0..n -> 0..Len(nest)] /\ f[0] = 0
        /\ \A j, k \in 0..n : j < k => f[j] < f[k]
        /\ \A j \in 0..n : j <= f[j]
    BY <1>2 DEF Nested, Placed, n
  <2>4. i = 1 /\ n > 0 /\ 1 \in 1..n
    <3>1. i \in 0..n /\ i <= f[i]
      BY <2>3
    <3> QED
      BY <1>4, <2>2, <3>1
  <2>5. Kept(io.fds, oldest, begin, failed /\ 1 = Len(nest))
    BY <1>2, <1>4, <2>2, <2>4 DEF Nested, n
  <2>6. oldest \in Renames
    BY <1>4, <2>4, HeldHigh DEF n
  <2> HIDE DEF oldest
  <2>7. /\ oldest[d] \in {EMPTY, CLOSED} \cup HighFds
        /\ oldest[d] = CLOSED => begin.fds[d] = Closed
        /\ oldest[d] \in HighFds /\ begin.fds[d] # Closed => io.fds[oldest[d]] = begin.fds[d]
        /\ oldest[d] = EMPTY => Len(nest) = 1 /\ io.fds[d] = begin.fds[d]
    BY <1>5, <2>1, <2>5, <2>6 DEF Kept, Renames
  <2>8. oldest[d] = EMPTY => n = 1
    <3>1. ASSUME Len(nest) = 1
          PROVE  n = 1
      <4>1. n \in 0..n /\ n <= f[n] /\ f[n] \in 0..1
        BY <1>4, <2>3, <3>1
      <4> QED
        BY <1>4, <2>4, <4>1
    <3> QED
      BY <2>7, <3>1
  <2>9. io'.fds[d] = Given(io.fds, oldest, d)
    BY <1>3, <2>1, <2>4, <2>8 DEF oldest
  <2> QED
    BY <1>5, <2>7, <2>9, NotHigh DEF Given
<1> QED
  BY <1>3, <1>5 DEF begin

LEMMA NextNestInv == ASSUME RInv, [Next]_vars PROVE NestInv'
<1>1. io \in Ios /\ HighInv(io.fds, io.redirlist)
  BY DEF RInv, IoInv
<1>2. ASSUME NEW list \in Redirs, Begin(list)
      PROVE  NestInv'
  BY <1>2, BeginNests
<1>3. ASSUME NEW list \in Redirs, Exec(list)
      PROVE  NestInv'
  BY <1>3, ExecNests
<1>4. ASSUME NEW list \in Redirs, ExecFails(list)
      PROVE  NestInv'
  <2> DEFINE q == Redirect(io, list, TRUE)
  <2>1. q \in Ios /\ HighInv(q.fds, q.redirlist)
    <3>1. list \in Seq(Redirection)
      OBVIOUS
    <3> QED
      BY <1>1, <3>1, RedirectTypes, RedirectHigh
  <2>2. io' = ClearRedir(q) /\ nest' = <<>> /\ failed' = FALSE
    BY <1>4 DEF ExecFails
  <2> HIDE DEF q
  <2> QED
    BY <2>1, <2>2, ClearNests
<1>5. CASE End
  BY <1>5, EndNests
<1>6. CASE Reset
  BY <1>1, <1>6, ClearNests DEF Reset
<1>7. CASE UNCHANGED vars
  BY <1>7 DEF vars, RInv, NestInv
<1> QED
  BY <1>2, <1>3, <1>4, <1>5, <1>6, <1>7 DEF Next

LEMMA StepRestores ==
    ASSUME RInv
    PROVE  /\ End => LET begin == Head(nest)
                     IN  \A d \in UserFds :
                            IF d \notin begin.named THEN io'.fds[d] = io.fds[d]
                            ELSE begin.fds[d] # Closed => io'.fds[d] = begin.fds[d]
           /\ Reset => LET begin == nest[Len(nest)]
                       IN  /\ \A d \in begin.named :
                                 begin.fds[d] # Closed => io'.fds[d] = begin.fds[d]
                           /\ io'.redirlist = <<>> /\ io'.nullredirs = 0
BY EndNests, ResetRestores

(* The descriptors, the tables and the counts are what they are used as.   *)
THEOREM TypeCorrect == Spec => []TypeOK
<1>1. Init => RInv
  BY InitIoInv, InitNestInv DEF RInv
<1>2. RInv /\ [Next]_vars => RInv'
  BY NextIoInv, NextNestInv DEF RInv
<1>3. RInv => TypeOK
  <2> SUFFICES ASSUME RInv
               PROVE  TypeOK
    OBVIOUS
  <2>1. io \in Ios /\ io.redirlist \in Seq(Tabs) /\ failed \in BOOLEAN
    BY DEF RInv, IoInv, NestInv, Ios
  <2>2. PICK f : Placed(io, nest, f)
    BY DEF RInv, NestInv, Nested
  <2>3. ASSUME NEW i \in DOMAIN io.redirlist
        PROVE  /\ \A d \in UserFds : IsRename(io.redirlist[i].renamed[d])
               /\ io.redirlist[i].nullredirs \in Nat
    <3> DEFINE k == Len(io.redirlist) + 1 - i
    <3>1. io.redirlist[i] \in Tabs
      BY <2>1
    <3>2. k \in 1..Len(io.redirlist) /\ Len(io.redirlist) + 1 - k = i
      BY <2>1
    <3> HIDE DEF k
    <3>3. Nth(io.redirlist, k) = io.redirlist[i]
      BY <3>2 DEF Nth
    <3>4. io.redirlist[i].nullredirs \in Nat
      BY <2>2, <3>2, <3>3 DEF Placed
    <3> QED
      BY <3>1, <3>4 DEF Tabs, Renames, IsRename, HighFds
  <2>4. io.fds \in [Fds -> Files \cup {Closed}] /\ io.nullredirs \in Nat
    BY <2>1, <2>2 DEF Ios, FdTables, Placed
  <2> QED
    BY <2>1, <2>3, <2>4 DEF TypeOK
<1> QED
  BY <1>1, <1>2, <1>3, PTL DEF Spec

(* When a command ends, the descriptors it redirected are what they were   *)
(* before it and the others are as its body has left them.  After an error *)
(* the descriptors of the outermost command are what they were.            *)
THEOREM CommandsRestore == Spec => Restores
<1>1. Init => RInv
  BY InitIoInv, InitNestInv DEF RInv
<1>2. RInv /\ [Next]_vars => RInv'
  BY NextIoInv, NextNestInv DEF RInv
<1> QED
  BY <1>1, <1>2, StepRestores, PTL DEF Spec, Restores
=============================================================================
