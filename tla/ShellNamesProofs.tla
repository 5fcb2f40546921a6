-------------------------- MODULE ShellNamesProofs --------------------------
(***************************************************************************)
(* Proofs about ShellNames, for any variables and values, functions nested *)
(* to any depth and any number of locals: no text is used after it was     *)
(* freed, a function gives back what it declared local, the table of       *)
(* commands says what a search of the path would find, and getopts reports *)
(* the options of the words in their order.                                *)
(***************************************************************************)
EXTENDS ShellNames, FiniteSetTheorems, SequenceTheorems, WellFoundedInduction, TLAPS

USE NamesAssumption

-----------------------------------------------------------------------------
(***************************************************************************)
(* Sequences of elements of any kind.                                      *)
(***************************************************************************)
AnySeq(q) == \E S : q \in Seq(S)

LEMMA SeqFacts ==
    ASSUME NEW q, AnySeq(q)
    PROVE  Len(q) \in Nat /\ DOMAIN q = 1..Len(q)
<1>1. PICK S : q \in Seq(S)
  BY DEF AnySeq
<1> QED
  BY <1>1

LEMMA EmptyIsASeq == AnySeq(<<>>) /\ Len(<<>>) = 0 /\ DOMAIN <<>> = {}
<1>1. <<>> \in Seq({})
  OBVIOUS
<1> QED
  BY <1>1 DEF AnySeq

LEMMA TailFacts ==
    ASSUME NEW q, AnySeq(q), q # <<>>
    PROVE  /\ Len(q) \in Nat \ {0} /\ AnySeq(Tail(q)) /\ Len(Tail(q)) = Len(q) - 1
           /\ \A i \in 1..(Len(q) - 1) : Tail(q)[i] = q[i + 1]
           /\ Head(q) = q[1]
<1>1. PICK S : q \in Seq(S)
  BY DEF AnySeq
<1>2. Tail(q) \in Seq(S)
  BY <1>1
<1> QED
  BY <1>1, <1>2 DEF AnySeq

Cons(e, q) == <<e>> \o q

LEMMA ConsFacts ==
    ASSUME NEW q, AnySeq(q), NEW e
    PROVE  /\ AnySeq(Cons(e, q)) /\ Len(Cons(e, q)) = Len(q) + 1
           /\ Cons(e, q)[1] = e
           /\ \A i \in 1..Len(q) : Cons(e, q)[i + 1] = q[i]
<1>1. PICK S : q \in Seq(S)
  BY DEF AnySeq
<1> DEFINE U == S \cup {e}
<1>2. q \in Seq(U) /\ <<e>> \in Seq(U)
  <2>1. S \subseteq U
    OBVIOUS
  <2>2. Len(q) \in Nat /\ q \in [1..Len(q) -> S]
    BY <1>1
  <2>3. q \in [1..Len(q) -> U]
    BY <2>1, <2>2
  <2> QED
    BY <2>2, <2>3
<1> HIDE DEF U
<1>3. Cons(e, q) \in Seq(U)
  BY <1>2 DEF Cons
<1>4. /\ Len(Cons(e, q)) = Len(q) + 1
      /\ Cons(e, q)[1] = e
      /\ \A i \in 1..Len(q) : Cons(e, q)[i + 1] = q[i]
  BY <1>2 DEF Cons
<1> QED
  BY <1>3, <1>4 DEF AnySeq

LEMMA LeastElement ==
    ASSUME NEW T \in SUBSET Nat, T # {}
    PROVE  \E m \in T : \A n \in T : m <= n
<1>1. PICK m \in T : \A n \in T : <<n, m>> \notin OpToRel(<, Nat)
  BY NatLessThanWellFounded, WFMin
<1>2. \A n \in T : ~(n < m)
  BY <1>1 DEF OpToRel
<1> QED
  BY <1>2

-----------------------------------------------------------------------------
(***************************************************************************)
(* The invariant.  The holders of a text are a variable and the locals of  *)
(* its name, from the innermost function to the outermost.                 *)
(***************************************************************************)
\* The state is a record with these fields.
Fields == {"vars", "heap", "locals", "aflag", "failed", "optfail", "params", "cmds", "builtinloc", "cwd", "curdir"}
Shaped(s) == s = [f \in Fields |-> s[f]]

BlocksOf(n) == {NoBlock} \cup {<<n, j>> : j \in Nat \ {0}}

\* A text of a variable n that is still there.
Lives(text, n, heap) == text.block \in BlocksOf(n) /\ (text.block = NoBlock \/ text.block \in heap)

VarRecord(v) == v = [there |-> v.there, flags |-> v.flags, text |-> v.text]

Variable(v, n, heap) ==
    /\ VarRecord(v)
    /\ v.there \in BOOLEAN
    /\ ~v.there => v = NoVar
    /\ Lives(v.text, n, heap)

Local(l, heap) ==
    /\ l.name \in Names
    /\ Lives(l.text, l.name, heap)
    /\ l.was = IF "unset" \in l.flags THEN Unset ELSE l.text.val

\* v is a variable or a local of it, h a local declared before v: a text they
\* share is the concern of h, and readonly is never taken back.
Above(v, h) ==
    /\ (v.text.block = h.text.block /\ h.text.block # NoBlock)
          => v.text = h.text /\ v.flags \cap {"textfixed", "stack"} # {}
    /\ "readonly" \in h.flags => "readonly" \in v.flags

Level(s, cs, k) == IF k = 0 THEN s.locals ELSE cs[k].locals
InnerTo(k, i, m, j) == k < m \/ (k = m /\ i < j)

VarsSound(s) ==
    /\ s.vars = [n \in Names |-> s.vars[n]]
    /\ \A n \in Names : Variable(s.vars[n], n, s.heap)
LocalsSound(s, cs) ==
    \A k \in 0..Len(cs) :
        /\ AnySeq(Level(s, cs, k))
        /\ \A i \in 1..Len(Level(s, cs, k)) :
              /\ Local(Level(s, cs, k)[i], s.heap)
              /\ Above(s.vars[Level(s, cs, k)[i].name], Level(s, cs, k)[i])
ChainSound(s, cs) ==
    \A k, m \in 0..Len(cs) : \A i \in 1..Len(Level(s, cs, k)), j \in 1..Len(Level(s, cs, m)) :
        /\ InnerTo(k, i, m, j)
        /\ Level(s, cs, k)[i].name = Level(s, cs, m)[j].name
        => Above(Level(s, cs, k)[i], Level(s, cs, m)[j])

Sound(s, cs) ==
    /\ Shaped(s) /\ IsFiniteSet(s.heap) /\ AnySeq(cs)
    /\ VarsSound(s) /\ LocalsSound(s, cs) /\ ChainSound(s, cs)

-----------------------------------------------------------------------------
(***************************************************************************)
(* Changing one variable, saving one, undoing one.                         *)
(***************************************************************************)
LEMMA NamesApart ==
    ASSUME NEW n, NEW m, n # m, NEW b, b \in BlocksOf(n), b \in BlocksOf(m)
    PROVE  b = NoBlock
BY DEF BlocksOf, NoBlock

\* t is s but for the variable n, which is w now.
Updated(s, cs, n, w, t) ==
    /\ Sound(s, cs) /\ Shaped(t) /\ IsFiniteSet(t.heap) /\ Variable(w, n, t.heap)
    /\ t.locals = s.locals /\ t.vars = [s.vars EXCEPT ![n] = w]
    /\ \A b \in s.heap : b \in t.heap \/ (Owned(s.vars[n]) /\ b = s.vars[n].text.block)
    /\ \A k \in 0..Len(cs) : \A i \in 1..Len(Level(s, cs, k)) :
          Level(s, cs, k)[i].name = n => Above(w, Level(s, cs, k)[i])

LEMMA VarChange ==
    ASSUME NEW s, NEW cs, NEW n \in Names, NEW w, NEW t, Updated(s, cs, n, w, t)
    PROVE  Sound(t, cs)
<1> SUFFICES ASSUME Sound(s, cs), Shaped(t), IsFiniteSet(t.heap), Variable(w, n, t.heap),
                    t.locals = s.locals, t.vars = [s.vars EXCEPT ![n] = w],
                    \A b \in s.heap : b \in t.heap \/ (Owned(s.vars[n]) /\ b = s.vars[n].text.block),
                    \A k \in 0..Len(cs) : \A i \in 1..Len(Level(s, cs, k)) :
                        Level(s, cs, k)[i].name = n => Above(w, Level(s, cs, k)[i])
             PROVE  Sound(t, cs)
  BY Zenon DEF Updated
<1>1. \A k : Level(t, cs, k) = Level(s, cs, k)
  BY DEF Level
<1>2. \A m \in Names : t.vars[m] = IF m = n THEN w ELSE s.vars[m]
  BY DEF Sound, VarsSound
<1>3. ASSUME NEW b \in s.heap, NEW m \in Names, m # n, b \in BlocksOf(m), b # NoBlock
      PROVE  b \in t.heap
  <2>1. Variable(s.vars[n], n, s.heap)
    BY DEF Sound, VarsSound
  <2>2. s.vars[n].text.block \in BlocksOf(n)
    BY <2>1 DEF Variable, Lives
  <2> QED
    BY <1>3, <2>2, NamesApart
<1>4. VarsSound(t)
  <2>1. t.vars = [m \in Names |-> t.vars[m]]
    BY DEF Sound, VarsSound
  <2>2. ASSUME NEW m \in Names
        PROVE  Variable(t.vars[m], m, t.heap)
    <3>1. CASE m = n
      BY <1>2, <3>1
    <3>2. CASE m # n
      <4>1. Variable(s.vars[m], m, s.heap) /\ t.vars[m] = s.vars[m]
        BY <1>2, <3>2 DEF Sound, VarsSound
      <4> QED
        BY <1>3, <3>2, <4>1 DEF Variable, Lives
    <3> QED
      BY <3>1, <3>2
  <2> QED
    BY <2>1, <2>2 DEF VarsSound
<1>5. LocalsSound(t, cs)
  <2>1. ASSUME NEW k \in 0..Len(cs)
        PROVE  /\ AnySeq(Level(t, cs, k))
               /\ \A i \in 1..Len(Level(t, cs, k)) :
                     /\ Local(Level(t, cs, k)[i], t.heap)
                     /\ Above(t.vars[Level(t, cs, k)[i].name], Level(t, cs, k)[i])
    <3>1. AnySeq(Level(s, cs, k))
      BY DEF Sound, LocalsSound
    <3>2. ASSUME NEW i \in 1..Len(Level(s, cs, k))
          PROVE  /\ Local(Level(s, cs, k)[i], t.heap)
                 /\ Above(t.vars[Level(s, cs, k)[i].name], Level(s, cs, k)[i])
      <4>0. PICK l : l = Level(s, cs, k)[i]
        OBVIOUS
      <4>1. Local(l, s.heap) /\ Above(s.vars[l.name], l)
        BY <4>0 DEF Sound, LocalsSound
      <4>2. l.name \in Names /\ l.text.block \in BlocksOf(l.name)
            /\ (l.text.block = NoBlock \/ l.text.block \in s.heap)
        BY <4>1 DEF Local, Lives
      <4>3. CASE l.name = n
        <5>1. Above(w, l)
          BY <4>0, <4>3
        <5>2. l.text.block = NoBlock \/ l.text.block \in t.heap
          BY <4>1, <4>2, <4>3 DEF Above, Owned
        <5> QED
          BY <1>2, <4>0, <4>1, <4>2, <4>3, <5>1, <5>2 DEF Local, Lives
      <4>4. CASE l.name # n
        <5>1. l.text.block = NoBlock \/ l.text.block \in t.heap
          BY <1>3, <4>2, <4>4
        <5> QED
          BY <1>2, <4>0, <4>1, <4>2, <4>4, <5>1 DEF Local, Lives
      <4> QED
        BY <4>3, <4>4
    <3> QED
      BY <1>1, <3>1, <3>2
  <2> QED
    BY <2>1 DEF LocalsSound
<1>6. ChainSound(t, cs)
  BY <1>1 DEF Sound, ChainSound
<1> QED
  BY <1>4, <1>5, <1>6 DEF Sound

-----------------------------------------------------------------------------
(***************************************************************************)
(* The functions of the source.                                            *)
(***************************************************************************)
\* t has the variables, the heap and the locals of s.
Same(s, t) == Shaped(t) /\ t.vars = s.vars /\ t.heap = s.heap /\ t.locals = s.locals

LEMMA SameIsSound ==
    ASSUME NEW s, NEW cs, Sound(s, cs), NEW t, Same(s, t)
    PROVE  Sound(t, cs)
<1>1. \A k : Level(t, cs, k) = Level(s, cs, k)
  BY DEF Level, Same
<1> QED
  BY <1>1 DEF Sound, Same, VarsSound, LocalsSound, ChainSound

LEMMA SameSteps ==
    ASSUME NEW s, Shaped(s)
    PROVE  /\ Same(s, Fail(s)) /\ Fail(s).failed = TRUE
           /\ \A x : Same(s, [s EXCEPT !.failed = x])
           /\ \A x : Same(s, [s EXCEPT !.optfail = x])
           /\ \A x : Same(s, [s EXCEPT !.params = x])
           /\ \A x : Same(s, [s EXCEPT !.cmds = x])
           /\ \A x : Same(s, [s EXCEPT !.builtinloc = x])
           /\ \A x : Same(s, [s EXCEPT !.cwd = x])
           /\ \A x : Same(s, [s EXCEPT !.curdir = x])
           /\ \A x : Same(s, [s EXCEPT !.aflag = x])
<1>1. \A x : Same(s, [s EXCEPT !.failed = x])
  BY DEF Shaped, Same, Fields
<1>2. \A x : Same(s, [s EXCEPT !.optfail = x])
  BY DEF Shaped, Same, Fields
<1>3. \A x : Same(s, [s EXCEPT !.params = x])
  BY DEF Shaped, Same, Fields
<1>4. \A x : Same(s, [s EXCEPT !.cmds = x])
  BY DEF Shaped, Same, Fields
<1>5. \A x : Same(s, [s EXCEPT !.builtinloc = x])
  BY DEF Shaped, Same, Fields
<1>6. \A x : Same(s, [s EXCEPT !.cwd = x])
  BY DEF Shaped, Same, Fields
<1>7. \A x : Same(s, [s EXCEPT !.curdir = x])
  BY DEF Shaped, Same, Fields
<1>8. \A x : Same(s, [s EXCEPT !.aflag = x])
  BY DEF Shaped, Same, Fields
<1>9. Same(s, Fail(s)) /\ Fail(s).failed = TRUE
  <2>1. PICK x : x = TRUE
    OBVIOUS
  <2>2. Fail(s) = [s EXCEPT !.failed = x]
    BY <2>1, Zenon DEF Fail
  <2>3. [s EXCEPT !.failed = x].failed = x
    BY DEF Shaped, Fields
  <2> QED
    BY <1>1, <2>1, <2>2, <2>3
<1> QED
  BY <1>1, <1>2, <1>3, <1>4, <1>5, <1>6, <1>7, <1>8, <1>9

LEMMA SameTwice ==
    ASSUME NEW s, NEW t, NEW u, Same(s, t), Same(t, u)
    PROVE  Same(s, u)
BY DEF Same

LEMMA ResetIsSame ==
    ASSUME NEW s, Shaped(s), NEW n
    PROVE  Same(s, GetoptsReset(s, n))
BY DEF Shaped, Fields, Same, GetoptsReset

LEMMA CallFuncIsSame ==
    ASSUME NEW s, Shaped(s), NEW n, NEW val
    PROVE  Same(s, CallFunc(s, n, val))
<1>1. CASE n = "PATH"
  <2>1. ASSUME NEW first PROVE \A u : Shaped(u) => Same(u, ClearCmdEntry(u, first))
    BY DEF ClearCmdEntry, Shaped, Fields, Same
  <2>2. \A loc, first, bltin :
           Same(s, [ClearCmdEntry([s EXCEPT !.builtinloc = loc], first) EXCEPT !.builtinloc = bltin])
    <3> TAKE loc, first, bltin
    <3>1. Same(s, [s EXCEPT !.builtinloc = loc])
      BY SameSteps
    <3>2. PICK u : u = [s EXCEPT !.builtinloc = loc]
      OBVIOUS
    <3>3. Same(u, ClearCmdEntry(u, first))
      <4>1. Same(s, u)
        BY <3>1, <3>2
      <4>2. Shaped(u)
        BY <4>1 DEF Same
      <4> QED
        BY <2>1, <4>2
    <3>4. PICK w : w = ClearCmdEntry(u, first)
      OBVIOUS
    <3>5. Same(w, [w EXCEPT !.builtinloc = bltin])
      <4>1. Shaped(w)
        BY <3>3, <3>4, Zenon DEF Same
      <4> QED
        BY <4>1, SameSteps
    <3> QED
      BY <3>1, <3>2, <3>3, <3>4, <3>5 DEF Same
  <2>3. Same(s, ChangePath(s, val))
    BY <2>2 DEF ChangePath
  <2> QED
    BY <1>1, <2>3 DEF CallFunc
<1>2. CASE n = "OPTIND"
  BY <1>2, ResetIsSame DEF CallFunc
<1>3. CASE n \notin {"PATH", "OPTIND"}
  BY <1>3 DEF CallFunc, Same
<1> QED
  BY <1>1, <1>2, <1>3

(* A new text gets a block of its own.                                     *)
LEMMA FreshBlockIsFree ==
    ASSUME NEW s, Sound(s, calls), NEW n \in Names
    PROVE  /\ FreshBlock(s, n) \in BlocksOf(n) /\ FreshBlock(s, n) # NoBlock
           /\ FreshBlock(s, n) \notin s.heap
<1> DEFINE used == s.heap \cup {t.block : t \in TextsOf(s)}
           free == {j \in 1..(Cardinality(used) + 1) : <<n, j>> \notin used}
           all  == {<<n, j>> : j \in 1..(Cardinality(used) + 1)}
<1>1. used \subseteq s.heap \cup {NoBlock}
  <2>1. ASSUME NEW t \in TextsOf(s)
        PROVE  t.block \in s.heap \cup {NoBlock}
    <3>1. CASE \E m \in Names : t = s.vars[m].text
      BY <3>1 DEF Sound, VarsSound, Variable, Lives
    <3>2. CASE \E l \in {s.locals} \cup {calls[k].locals : k \in DOMAIN calls} :
                  \E i \in DOMAIN l : t = l[i].text
      <4>1. PICK k \in 0..Len(calls) : \E i \in DOMAIN Level(s, calls, k) : t = Level(s, calls, k)[i].text
        <5>1. DOMAIN calls = 1..Len(calls) /\ Len(calls) \in Nat
          BY SeqFacts DEF Sound
        <5> QED
          BY <3>2, <5>1 DEF Level
      <4>2. DOMAIN Level(s, calls, k) = 1..Len(Level(s, calls, k))
        BY SeqFacts DEF Sound, LocalsSound
      <4> QED
        BY <4>1, <4>2 DEF Sound, LocalsSound, Local, Lives
    <3> QED
      BY <3>1, <3>2 DEF TextsOf
  <2> QED
    BY <2>1
<1>2. IsFiniteSet(used)
  <2>1. IsFiniteSet(s.heap \cup {NoBlock})
    BY FS_AddElement DEF Sound
  <2> QED
    BY <1>1, <2>1, FS_Subset
<1>3. Cardinality(used) \in Nat
  BY <1>2, FS_CardinalityType
<1> HIDE DEF used
<1>4. free # {}
  <2> SUFFICES ASSUME free = {}
               PROVE  FALSE
    OBVIOUS
  <2>1. all \subseteq used
    OBVIOUS
  <2>2. IsFiniteSet(all) /\ Cardinality(all) = Cardinality(used) + 1
    <3> DEFINE top == Cardinality(used) + 1
               f == [j \in 1..top |-> <<n, j>>]
    <3>1. IsFiniteSet(1..top) /\ Cardinality(1..top) = top
      BY <1>3, FS_Interval
    <3>2. ExistsBijection(1..top, all)
      <4>1. f \in Bijection(1..top, all)
        BY DEF Bijection, Injection, Surjection, IsInjective
      <4> QED
        BY <4>1, Zenon DEF ExistsBijection
    <3> HIDE DEF f, all, top
    <3>3. IsFiniteSet(all) /\ Cardinality(all) = Cardinality(1..top)
      BY <3>1, <3>2, FS_Bijection
    <3> QED
      BY <3>1, <3>3 DEF top
  <2> HIDE DEF all
  <2>3. Cardinality(all) <= Cardinality(used)
    BY <1>2, <2>1, FS_Subset
  <2> QED
    BY <1>3, <2>2, <2>3
<1>5. free \in SUBSET Nat
  OBVIOUS
<1>6. \E m \in free : \A i \in free : m <= i
  <2> HIDE DEF free
  <2> QED
    BY <1>4, <1>5, LeastElement
<1>7. PICK k : k = CHOOSE j \in free : \A i \in free : j <= i
  OBVIOUS
<1>8. k \in free
  <2> HIDE DEF free
  <2> QED
    BY <1>6, <1>7
<1>9. FreshBlock(s, n) = <<n, k>>
  BY <1>7 DEF FreshBlock, used
<1>10. k \in Nat \ {0} /\ <<n, k>> \notin used
  BY <1>8
<1> QED
  BY <1>9, <1>10 DEF BlocksOf, NoBlock, used

\* In t the variable n has a new text with value val.
NewText(s, t, n, F, val) ==
    \E b \in BlocksOf(n) \ {NoBlock} :
        /\ b \notin s.heap
        /\ Shaped(t) /\ t.locals = s.locals
        /\ t.vars = [s.vars EXCEPT ![n] = [there |-> TRUE, flags |-> F, text |-> [val |-> val, block |-> b]]]
        /\ \/ t.heap = s.heap \cup {b}
           \/ Owned(s.vars[n]) /\ t.heap = (s.heap \ {s.vars[n].text.block}) \cup {b}

LEMMA RecordFields ==
    ASSUME NEW F, NEW text, NEW v, v = [there |-> TRUE, flags |-> F, text |-> text]
    PROVE  /\ v.there = TRUE /\ v.flags = F /\ v.text = text
           /\ VarRecord(v)
<1>1. v.there = TRUE
  BY Zenon
<1>2. v.flags = F
  BY Zenon
<1>3. v.text = text
  BY Zenon
<1>4. VarRecord(v)
  BY Zenon DEF VarRecord
<1> QED
  BY <1>1, <1>2, <1>3, <1>4, Zenon

LEMMA TextFields ==
    ASSUME NEW val, NEW b, NEW text, text = [val |-> val, block |-> b]
    PROVE  text.val = val /\ text.block = b
OBVIOUS

LEMMA NewVariable ==
    ASSUME NEW F, NEW val, NEW b, NEW text, text = [val |-> val, block |-> b],
           NEW v, v = [there |-> TRUE, flags |-> F, text |-> text]
    PROVE  /\ VarRecord(v)
           /\ v.there \in BOOLEAN /\ v.there
           /\ v.flags = F /\ v.text.val = val /\ v.text.block = b
<1>1. v.there = TRUE
  BY RecordFields
<1>2. v.flags = F
  BY RecordFields
<1>3. v.text = text
  BY RecordFields
<1>4. VarRecord(v)
  BY Zenon DEF VarRecord
<1>5. text.val = val /\ text.block = b
  BY TextFields, Zenon
<1> QED
  BY <1>1, <1>2, <1>3, <1>4, <1>5

LEMMA NewTextIsSound ==
    ASSUME NEW s, NEW cs, Sound(s, cs), NEW n \in Names, NEW t, NEW F, NEW val,
           NewText(s, t, n, F, val), "readonly" \notin s.vars[n].flags
    PROVE  /\ Sound(t, cs) /\ t.locals = s.locals
           /\ t.vars[n].there /\ t.vars[n].flags = F /\ t.vars[n].text.val = val
           /\ \A m \in Names : m # n => t.vars[m] = s.vars[m]
<1>1. PICK b \in BlocksOf(n) \ {NoBlock} :
        /\ b \notin s.heap
        /\ Shaped(t) /\ t.locals = s.locals
        /\ t.vars = [s.vars EXCEPT ![n] = [there |-> TRUE, flags |-> F, text |-> [val |-> val, block |-> b]]]
        /\ \/ t.heap = s.heap \cup {b}
           \/ Owned(s.vars[n]) /\ t.heap = (s.heap \ {s.vars[n].text.block}) \cup {b}
  BY DEF NewText
<1>0. PICK text : text = [val |-> val, block |-> b]
  OBVIOUS
<1>2. PICK w : w = [there |-> TRUE, flags |-> F, text |-> text]
  OBVIOUS
<1>3. /\ VarRecord(w)
      /\ w.there \in BOOLEAN /\ w.there
      /\ w.flags = F /\ w.text.val = val /\ w.text.block = b
  BY <1>0, <1>2, NewVariable
<1>4. t.vars = [s.vars EXCEPT ![n] = w]
  BY <1>0, <1>1, <1>2
<1>5. IsFiniteSet(t.heap)
  <2>1. IsFiniteSet(s.heap)
    BY DEF Sound
  <2>2. IsFiniteSet(s.heap \ {s.vars[n].text.block})
    BY <2>1, FS_Subset
  <2> QED
    BY <1>1, <2>1, <2>2, FS_AddElement
<1>6. Variable(w, n, t.heap)
  BY <1>1, <1>3 DEF Variable, Lives
<1>7. ASSUME NEW k \in 0..Len(cs), NEW i \in 1..Len(Level(s, cs, k)), Level(s, cs, k)[i].name = n
      PROVE  Above(w, Level(s, cs, k)[i])
  <2>1. PICK h : h = Level(s, cs, k)[i]
    OBVIOUS
  <2>2. Local(h, s.heap) /\ Above(s.vars[n], h)
    BY <1>7, <2>1 DEF Sound, LocalsSound
  <2>3. h.text.block # b
    BY <1>1, <2>2 DEF Local, Lives
  <2>4. "readonly" \notin h.flags
    BY <2>2 DEF Above
  <2> QED
    BY <1>3, <2>1, <2>3, <2>4 DEF Above
<1>8. \A c \in s.heap : c \in t.heap \/ (Owned(s.vars[n]) /\ c = s.vars[n].text.block)
  BY <1>1
<1>9. Sound(t, cs)
  <2>1. \A k \in 0..Len(cs) : \A i \in 1..Len(Level(s, cs, k)) :
            Level(s, cs, k)[i].name = n => Above(w, Level(s, cs, k)[i])
    BY <1>7
  <2>2. Shaped(t) /\ t.locals = s.locals
    BY <1>1
  <2> QED
    <3>1. Updated(s, cs, n, w, t)
      BY <1>4, <1>5, <1>6, <1>8, <2>1, <2>2, Zenon DEF Updated
    <3> QED
      BY <3>1, VarChange
<1>10. \A m \in Names : t.vars[m] = IF m = n THEN w ELSE s.vars[m]
  BY <1>4 DEF Sound, VarsSound
<1> QED
  BY <1>1, <1>3, <1>9, <1>10

LEMMA PutIsNewText ==
    ASSUME NEW s, Sound(s, calls), NEW n \in Names, NEW F, NEW val,
           NEW u, Shaped(u), u.vars = s.vars, u.locals = s.locals,
           u.heap = s.heap \/ (Owned(s.vars[n]) /\ u.heap = s.heap \ {s.vars[n].text.block}),
           NEW b, b = FreshBlock(s, n)
    PROVE  NewText(s, [u EXCEPT !.heap = @ \cup {b},
                                !.vars[n] = [there |-> TRUE, flags |-> F, text |-> [val |-> val, block |-> b]]],
                   n, F, val)
<1>1. b \in BlocksOf(n) /\ b # NoBlock /\ b \notin s.heap
  BY FreshBlockIsFree
<1>2. PICK w : w = [there |-> TRUE, flags |-> F, text |-> [val |-> val, block |-> b]]
  OBVIOUS
<1>3. PICK t : t = [u EXCEPT !.heap = @ \cup {b}, !.vars[n] = w]
  OBVIOUS
<1>4. Shaped(t) /\ t.locals = u.locals /\ t.heap = u.heap \cup {b} /\ t.vars = [u.vars EXCEPT ![n] = w]
  BY <1>3 DEF Shaped, Fields
<1>5. NewText(s, t, n, F, val)
  BY <1>1, <1>2, <1>4 DEF NewText
<1> QED
  BY <1>2, <1>3, <1>5

(* setvareq refuses to change a readonly variable, only looks at it, or    *)
(* gives it a new text.                                                    *)
LEMMA SetVarEqIs ==
    ASSUME NEW s, Sound(s, calls), NEW n \in Names, NEW val, NEW asked
    PROVE  /\ "readonly" \in s.vars[n].flags => Same(s, SetVarEq(s, n, val, asked)) /\ SetVarEq(s, n, val, asked).failed
           /\ "readonly" \notin s.vars[n].flags /\ "noset" \in asked => SetVarEq(s, n, val, asked) = s
           /\ "readonly" \notin s.vars[n].flags /\ "noset" \notin asked =>
                 \E F : /\ NewText(s, SetVarEq(s, n, val, asked), n, F, val)
                        /\ asked \ {"noset", "nofunc"} \subseteq F
                        /\ s.vars[n].there => s.vars[n].flags \ {"textfixed", "stack", "unset"} \subseteq F
                        /\ "unset" \in F => "unset" \in asked
                        /\ "readonly" \in F => "readonly" \in asked
<1> DEFINE v     == s.vars[n]
           kept  == (asked \ {"noset", "nofunc"}) \cup (IF s.aflag THEN {"export"} ELSE {})
           block == FreshBlock(s, n)
<1>1. Shaped(s) /\ Variable(v, n, s.heap)
  BY DEF Sound, VarsSound
<1>2. "readonly" \in v.flags => v.there
  BY <1>1 DEF Variable, NoVar
<1>3. ASSUME "readonly" \in v.flags
      PROVE  Same(s, SetVarEq(s, n, val, asked)) /\ SetVarEq(s, n, val, asked).failed
  <2>1. SetVarEq(s, n, val, asked) = Fail(s)
    BY <1>2, <1>3 DEF SetVarEq
  <2> QED
    BY <1>1, <2>1, SameSteps
<1>4. ASSUME "readonly" \notin v.flags, "noset" \in asked
      PROVE  SetVarEq(s, n, val, asked) = s
  BY <1>4 DEF SetVarEq
<1>5. ASSUME "readonly" \notin v.flags, "noset" \notin asked, ~v.there
      PROVE  NewText(s, SetVarEq(s, n, val, asked), n, kept, val)
  <2>1. SetVarEq(s, n, val, asked) =
          [s EXCEPT !.heap = @ \cup {block},
                    !.vars[n] = [there |-> TRUE, flags |-> kept, text |-> [val |-> val, block |-> block]]]
    BY <1>5, Zenon DEF SetVarEq
  <2>2. PICK b : b = FreshBlock(s, n)
    OBVIOUS
  <2>3. PICK F : F = kept
    OBVIOUS
  <2> HIDE DEF kept
  <2>4. NewText(s, [s EXCEPT !.heap = @ \cup {b},
                             !.vars[n] = [there |-> TRUE, flags |-> F, text |-> [val |-> val, block |-> b]]],
                n, F, val)
    BY <1>1, <2>2, PutIsNewText
  <2> QED
    BY <2>1, <2>2, <2>3, <2>4
<1>6. ASSUME "readonly" \notin v.flags, "noset" \notin asked, v.there
      PROVE  NewText(s, SetVarEq(s, n, val, asked), n, kept \cup (v.flags \ {"textfixed", "stack", "unset"}), val)
  <2>1. PICK called : called = IF "nofunc" \in asked THEN s ELSE CallFunc(s, n, val)
    OBVIOUS
  <2>2. Same(s, called)
    <3>1. Same(s, s)
      BY <1>1 DEF Same
    <3>2. Same(s, CallFunc(s, n, val))
      BY <1>1, CallFuncIsSame
    <3> QED
      BY <2>1, <3>1, <3>2
  <2>3. PICK freed : freed = IF Owned(v) THEN FreeText(called, v.text) ELSE called
    OBVIOUS
  <2>4. /\ Shaped(freed) /\ freed.vars = s.vars /\ freed.locals = s.locals
        /\ freed.heap = s.heap \/ (Owned(v) /\ freed.heap = s.heap \ {v.text.block})
    <3>1. CASE ~Owned(v)
      BY <2>2, <2>3, <3>1 DEF Same
    <3>2. CASE Owned(v)
      <4>1. freed = [called EXCEPT !.heap = @ \ {v.text.block}]
        BY <2>3, <3>2 DEF FreeText
      <4>2. Shaped(called) /\ called.vars = s.vars /\ called.heap = s.heap /\ called.locals = s.locals
        BY <2>2 DEF Same
      <4> QED
        BY <3>2, <4>1, <4>2 DEF Shaped, Fields
    <3> QED
      BY <3>1, <3>2
  <2>5. SetVarEq(s, n, val, asked) =
          [freed EXCEPT !.heap = @ \cup {block},
                        !.vars[n] = [there |-> TRUE, flags |-> kept \cup (v.flags \ {"textfixed", "stack", "unset"}),
                                     text |-> [val |-> val, block |-> block]]]
    BY <1>6, <2>1, <2>3, Zenon DEF SetVarEq
  <2>6. PICK b : b = FreshBlock(s, n)
    OBVIOUS
  <2>7. PICK F : F = kept \cup (v.flags \ {"textfixed", "stack", "unset"})
    OBVIOUS
  <2> HIDE DEF kept
  <2>8. NewText(s, [freed EXCEPT !.heap = @ \cup {b},
                                 !.vars[n] = [there |-> TRUE, flags |-> F, text |-> [val |-> val, block |-> b]]],
                n, F, val)
    BY <1>1, <2>4, <2>6, PutIsNewText
  <2> QED
    BY <2>5, <2>6, <2>7, <2>8
<1>7. ASSUME NEW t, "readonly" \notin v.flags, "noset" \notin asked,
             \/ NewText(s, t, n, kept, val) /\ ~v.there
             \/ NewText(s, t, n, kept \cup (v.flags \ {"textfixed", "stack", "unset"}), val)
      PROVE  \E F : /\ NewText(s, t, n, F, val)
                    /\ asked \ {"noset", "nofunc"} \subseteq F
                    /\ v.there => v.flags \ {"textfixed", "stack", "unset"} \subseteq F
                    /\ "unset" \in F => "unset" \in asked
                    /\ "readonly" \in F => "readonly" \in asked
  <2>1. CASE NewText(s, t, n, kept, val) /\ ~v.there
    BY <2>1
  <2>2. CASE NewText(s, t, n, kept \cup (v.flags \ {"textfixed", "stack", "unset"}), val)
    <3>1. PICK F : F = kept \cup (v.flags \ {"textfixed", "stack", "unset"})
      OBVIOUS
    <3> QED
      BY <1>7, <2>2, <3>1
  <2> QED
    BY <1>7, <2>1, <2>2
<1> HIDE DEF v
<1>8. "readonly" \notin v.flags /\ "noset" \notin asked =>
                 \E F : /\ NewText(s, SetVarEq(s, n, val, asked), n, F, val)
                        /\ asked \ {"noset", "nofunc"} \subseteq F
                        /\ v.there => v.flags \ {"textfixed", "stack", "unset"} \subseteq F
                        /\ "unset" \in F => "unset" \in asked
                        /\ "readonly" \in F => "readonly" \in asked
  BY <1>5, <1>6, <1>7
<1> QED
  BY <1>3, <1>4, <1>8 DEF v

LEMMA FlagsRecord ==
    ASSUME NEW s, NEW cs, Sound(s, cs), NEW n \in Names, NEW G, NEW w, w = [s.vars[n] EXCEPT !.flags = G],
           s.vars[n].there
    PROVE  /\ VarRecord(w)
           /\ w.there /\ w.there \in BOOLEAN /\ w.flags = G /\ w.text = s.vars[n].text
           /\ Shaped([s EXCEPT !.vars[n].flags = G])
           /\ [s EXCEPT !.vars[n].flags = G].locals = s.locals
           /\ [s EXCEPT !.vars[n].flags = G].heap = s.heap
           /\ [s EXCEPT !.vars[n].flags = G].vars = [s.vars EXCEPT ![n] = w]
<1>1. PICK v : v = s.vars[n]
  OBVIOUS
<1>2. Shaped(s) /\ Variable(v, n, s.heap)
      /\ s.vars = [m \in Names |-> s.vars[m]]
  BY <1>1 DEF Sound, VarsSound
<1>3. w = [v EXCEPT !.flags = G] /\ v.there
  BY <1>1
<1>4. VarRecord(w)
      /\ w.flags = G /\ w.text = v.text
  BY <1>2, <1>3 DEF Variable, VarRecord
<1>5. w.there /\ w.there \in BOOLEAN
  <2>1. v.there = TRUE
    BY <1>2, <1>3 DEF Variable
  <2>2. VarRecord(v)
    BY <1>2 DEF Variable
  <2>3. w.there = v.there
    BY <1>3, <2>2 DEF VarRecord
  <2> QED
    BY <2>1, <2>3
<1>6. [s EXCEPT !.vars[n].flags = G] = [s EXCEPT !.vars = [s.vars EXCEPT ![n] = w]]
  BY <1>1, <1>2, <1>3 DEF Shaped, Fields
<1>7. PICK t : t = [s EXCEPT !.vars = [s.vars EXCEPT ![n] = w]]
  OBVIOUS
<1>8. Shaped(t) /\ t.locals = s.locals /\ t.heap = s.heap /\ t.vars = [s.vars EXCEPT ![n] = w]
  BY <1>2, <1>7 DEF Shaped, Fields
<1> QED
  BY <1>1, <1>4, <1>5, <1>6, <1>7, <1>8

LEMMA FlagsSound ==
    ASSUME NEW s, NEW cs, Sound(s, cs), NEW n \in Names, NEW v, v = s.vars[n],
           NEW w, VarRecord(w),
           w.there, w.there \in BOOLEAN, w.text = v.text,
           v.flags \cap {"textfixed", "stack"} # {} => w.flags \cap {"textfixed", "stack"} # {},
           "readonly" \in v.flags => "readonly" \in w.flags,
           NEW t, Shaped(t), t.locals = s.locals, t.heap = s.heap, t.vars = [s.vars EXCEPT ![n] = w]
    PROVE  /\ Sound(t, cs)
           /\ t.vars[n] = w /\ \A m \in Names : m # n => t.vars[m] = s.vars[m]
<1>1. Variable(v, n, s.heap) /\ IsFiniteSet(s.heap) /\ s.vars = [m \in Names |-> s.vars[m]]
  BY DEF Sound, VarsSound
<1>2. Variable(w, n, t.heap)
  BY <1>1 DEF Variable
<1>3. \A k \in 0..Len(cs) : \A i \in 1..Len(Level(s, cs, k)) :
          Level(s, cs, k)[i].name = n => Above(w, Level(s, cs, k)[i])
  <2>1. \A k \in 0..Len(cs) : \A i \in 1..Len(Level(s, cs, k)) :
          Level(s, cs, k)[i].name = n => Above(v, Level(s, cs, k)[i])
    BY DEF Sound, LocalsSound
  <2> QED
    BY <2>1 DEF Above
<1>4. Sound(t, cs)
  <2>1. IsFiniteSet(t.heap) /\ \A b \in s.heap : b \in t.heap
    BY <1>1
  <2>2. Updated(s, cs, n, w, t)
    BY <1>2, <1>3, <2>1, Zenon DEF Updated
  <2> QED
    BY <2>2, VarChange
<1> QED
  BY <1>1, <1>4

\* t differs from s in the variable n and in the heap.
OnlyVar(s, t, n) ==
    /\ Sound(t, calls) /\ t.locals = s.locals
    /\ \A m \in Names : m # n => t.vars[m] = s.vars[m]

LEMMA SetVarEqIsSound ==
    ASSUME NEW s, Sound(s, calls), NEW n \in Names, NEW val, NEW asked
    PROVE  OnlyVar(s, SetVarEq(s, n, val, asked), n)
<1>1. PICK t : t = SetVarEq(s, n, val, asked)
  OBVIOUS
<1>2. CASE "readonly" \in s.vars[n].flags
  <2>1. Same(s, t)
    BY <1>1, <1>2, SetVarEqIs
  <2> QED
    BY <1>1, <2>1, SameIsSound DEF OnlyVar, Same
<1>3. CASE "readonly" \notin s.vars[n].flags /\ "noset" \in asked
  BY <1>3, SetVarEqIs DEF OnlyVar
<1>4. CASE "readonly" \notin s.vars[n].flags /\ "noset" \notin asked
  <2>1. \E F : NewText(s, t, n, F, val)
    BY <1>1, <1>4, SetVarEqIs
  <2> QED
    BY <1>1, <1>4, <2>1, NewTextIsSound DEF OnlyVar
<1> QED
  BY <1>2, <1>3, <1>4

LEMMA SetVarIsSound ==
    ASSUME NEW s, Sound(s, calls), NEW n \in Names, NEW val, NEW asked
    PROVE  OnlyVar(s, SetVar(s, n, val, asked), n)
BY SetVarEqIsSound DEF SetVar

(* unsetvar keeps what is readonly; any other variable has no value then.  *)
LEMMA UnsetVarIs ==
    ASSUME NEW s, Sound(s, calls), NEW n \in Names
    PROVE  /\ OnlyVar(s, UnsetVar(s, n).s, n)
           /\ "readonly" \in s.vars[n].flags => UnsetVar(s, n).s = s
           /\ "readonly" \notin s.vars[n].flags =>
                 /\ LookupVar(UnsetVar(s, n).s, n) = Unset
                 /\ "readonly" \notin UnsetVar(s, n).s.vars[n].flags
<1> DEFINE v == s.vars[n]
<1>1. Shaped(s) /\ Variable(v, n, s.heap) /\ IsFiniteSet(s.heap)
      /\ s.vars = [m \in Names |-> s.vars[m]]
  BY DEF Sound, VarsSound
<1>2. OnlyVar(s, s, n)
  BY DEF OnlyVar
<1>3. CASE ~v.there
  <2>1. UnsetVar(s, n).s = s
    BY <1>3 DEF UnsetVar
  <2>2. v = NoVar
    BY <1>1, <1>3 DEF Variable
  <2>3. "readonly" \notin v.flags
    BY <2>2 DEF NoVar
  <2> QED
    BY <1>2, <1>3, <2>1, <2>3 DEF LookupVar
<1>4. CASE v.there /\ "readonly" \in v.flags
  <2>1. UnsetVar(s, n).s = s
    BY <1>4 DEF UnsetVar
  <2> QED
    BY <1>2, <1>4, <2>1
<1>5. CASE v.there /\ "readonly" \notin v.flags /\ "unset" \in v.flags
  <2>1. UnsetVar(s, n).s = s
    BY <1>5 DEF UnsetVar
  <2> QED
    BY <1>2, <1>5, <2>1 DEF LookupVar
<1>6. CASE v.there /\ "readonly" \notin v.flags /\ "unset" \notin v.flags /\ "strfixed" \notin v.flags
  <2>1. PICK freed : freed = IF Owned(v) THEN FreeText(s, v.text) ELSE s
    OBVIOUS
  <2>2. /\ Shaped(freed) /\ freed.vars = s.vars /\ freed.locals = s.locals
        /\ freed.heap = s.heap \/ (Owned(v) /\ freed.heap = s.heap \ {v.text.block})
    <3>1. CASE ~Owned(v)
      BY <1>1, <2>1, <3>1
    <3>2. CASE Owned(v)
      <4>1. freed = [s EXCEPT !.heap = @ \ {v.text.block}]
        BY <2>1, <3>2 DEF FreeText
      <4> QED
        BY <1>1, <3>2, <4>1 DEF Shaped, Fields
    <3> QED
      BY <3>1, <3>2
  <2>3. PICK w : w = NoVar
    OBVIOUS
  <2>4. PICK t : t = [freed EXCEPT !.vars[n] = w]
    OBVIOUS
  <2>5. UnsetVar(s, n).s = t
    BY <1>6, <2>1, <2>3, <2>4 DEF UnsetVar
  <2>6. Shaped(t) /\ t.locals = s.locals /\ t.heap = freed.heap /\ t.vars = [s.vars EXCEPT ![n] = w]
    BY <2>2, <2>4 DEF Shaped, Fields
  <2>7. IsFiniteSet(t.heap)
    <3>1. t.heap \subseteq s.heap
      BY <2>2, <2>6
    <3> QED
      BY <1>1, <3>1, FS_Subset
  <2>8. ~w.there /\ w.flags = {} /\ w.text.block = NoBlock /\ w.there \in BOOLEAN
        /\ VarRecord(w)
    BY <2>3 DEF NoVar, VarRecord
  <2>9. Variable(w, n, t.heap)
    BY <2>3, <2>8 DEF Variable, Lives, BlocksOf
  <2>10. \A k \in 0..Len(calls) : \A i \in 1..Len(Level(s, calls, k)) :
            Level(s, calls, k)[i].name = n => Above(w, Level(s, calls, k)[i])
    <3>1. \A k \in 0..Len(calls) : \A i \in 1..Len(Level(s, calls, k)) :
            Level(s, calls, k)[i].name = n => Above(v, Level(s, calls, k)[i])
      BY DEF Sound, LocalsSound
    <3> QED
      BY <1>6, <2>8, <3>1 DEF Above
  <2>11. Sound(t, calls)
    <3>1. \A b \in s.heap : b \in t.heap \/ (Owned(s.vars[n]) /\ b = s.vars[n].text.block)
      BY <2>2, <2>6
    <3>2. Shaped(t) /\ t.locals = s.locals /\ t.vars = [s.vars EXCEPT ![n] = w]
      BY <2>6
    <3>3. Updated(s, calls, n, w, t)
      BY <2>7, <2>9, <2>10, <3>1, <3>2, Zenon DEF Updated
    <3> QED
      BY <3>3, VarChange
  <2>12. \A m \in Names : t.vars[m] = IF m = n THEN w ELSE s.vars[m]
    BY <1>1, <2>6
  <2> QED
    BY <1>6, <2>5, <2>6, <2>8, <2>11, <2>12 DEF OnlyVar, LookupVar
<1>7. CASE v.there /\ "readonly" \notin v.flags /\ "unset" \notin v.flags /\ "strfixed" \in v.flags
  <2>1. PICK t : t = SetVar(s, n, Unset, {})
    OBVIOUS
  <2>2. PICK asked : asked = {"unset"}
    OBVIOUS
  <2>3. t = SetVarEq(s, n, Unset, asked)
    BY <2>1, <2>2 DEF SetVar
  <2>4. PICK F : /\ NewText(s, t, n, F, Unset)
                 /\ asked \ {"noset", "nofunc"} \subseteq F
                 /\ "readonly" \in F => "readonly" \in asked
    BY <1>7, <2>2, <2>3, SetVarEqIs
  <2>5. "unset" \in F /\ "readonly" \notin F
    BY <2>2, <2>4
  <2>6. /\ Sound(t, calls) /\ t.locals = s.locals
        /\ t.vars[n].there /\ t.vars[n].flags = F
        /\ \A m \in Names : m # n => t.vars[m] = s.vars[m]
    BY <1>7, <2>4, NewTextIsSound
  <2>7. PICK u : u = [t EXCEPT !.vars[n].flags = @ \ {"export"}]
    OBVIOUS
  <2>8. PICK G : G = t.vars[n].flags \ {"export"}
    OBVIOUS
  <2>9. PICK w : w = [t.vars[n] EXCEPT !.flags = G]
    OBVIOUS
  <2>a. Sound(t, calls) /\ t.vars[n].there
    BY <2>6
  <2>b. u = [t EXCEPT !.vars[n].flags = G]
    BY <2>7, <2>8
  <2>c. /\ VarRecord(w)
        /\ w.there /\ w.there \in BOOLEAN /\ w.flags = G /\ w.text = t.vars[n].text
        /\ Shaped(u) /\ u.locals = t.locals /\ u.heap = t.heap
        /\ u.vars = [t.vars EXCEPT ![n] = w]
    <3>1. VarRecord(w)
      BY <2>9, <2>a, <2>b, FlagsRecord
    <3>2. w.there
      BY <2>9, <2>a, <2>b, FlagsRecord
    <3>3. w.there \in BOOLEAN
      BY <2>9, <2>a, <2>b, FlagsRecord
    <3>4. w.flags = G /\ w.text = t.vars[n].text
      BY <2>9, <2>a, <2>b, FlagsRecord
    <3>5. Shaped(u) /\ u.locals = t.locals /\ u.heap = t.heap
      <4>1. Shaped([t EXCEPT !.vars[n].flags = G])
        BY <2>9, <2>a, FlagsRecord
      <4>2. [t EXCEPT !.vars[n].flags = G].locals = t.locals
        BY <2>9, <2>a, FlagsRecord
      <4>3. [t EXCEPT !.vars[n].flags = G].heap = t.heap
        BY <2>9, <2>a, FlagsRecord
      <4> QED
        BY <2>b, <4>1, <4>2, <4>3
    <3>6. u.vars = [t.vars EXCEPT ![n] = w]
      BY <2>9, <2>a, <2>b, FlagsRecord
    <3> QED
      BY <3>1, <3>2, <3>3, <3>4, <3>5, <3>6
  <2>10. /\ Sound(u, calls) /\ u.locals = t.locals
         /\ u.vars[n] = w /\ w.there /\ w.flags = G
         /\ \A m \in Names : m # n => u.vars[m] = t.vars[m]
    <3>1. PICK v1 : v1 = t.vars[n]
      OBVIOUS
    <3>2. v1.flags \cap {"textfixed", "stack"} # {} => w.flags \cap {"textfixed", "stack"} # {}
      BY <2>8, <2>c, <3>1
    <3>3. "readonly" \in v1.flags => "readonly" \in w.flags
      BY <2>8, <2>c, <3>1
    <3>4. Sound(u, calls)
      BY <2>a, <2>c, <3>1, <3>2, <3>3, FlagsSound
    <3>5. u.vars[n] = w /\ \A m \in Names : m # n => u.vars[m] = t.vars[m]
      BY <2>a, <2>c DEF Sound, VarsSound
    <3> QED
      BY <2>c, <3>4, <3>5
  <2>11. UnsetVar(s, n).s = u
    BY <1>7, <2>1, <2>7 DEF UnsetVar
  <2>12. "unset" \in u.vars[n].flags /\ "readonly" \notin u.vars[n].flags
    BY <2>5, <2>6, <2>8, <2>10
  <2> QED
    BY <1>7, <2>6, <2>10, <2>11, <2>12 DEF OnlyVar, LookupVar
<1> QED
  BY <1>3, <1>4, <1>5, <1>6, <1>7

-----------------------------------------------------------------------------
(***************************************************************************)
(* Locals: saved, given back, kept in frames.                              *)
(***************************************************************************)
\* The locals of t and ds are among those of s and cs, in the same order.
Among(t, ds, s, cs, a, d) ==
    /\ \A k \in 0..Len(ds) :
          /\ AnySeq(Level(t, ds, k))
          /\ \A i \in 1..Len(Level(t, ds, k)) :
                /\ a[k] \in 0..Len(cs) /\ d[k] \in Nat
                /\ i + d[k] \in 1..Len(Level(s, cs, a[k]))
                /\ Level(t, ds, k)[i] = Level(s, cs, a[k])[i + d[k]]
    /\ \A k, m \in 0..Len(ds) :
          k < m /\ 1..Len(Level(t, ds, k)) # {} /\ 1..Len(Level(t, ds, m)) # {} => a[k] < a[m]

LEMMA Relevel ==
    ASSUME NEW s, NEW cs, Sound(s, cs), NEW t, NEW ds, Shaped(t), t.vars = s.vars, t.heap = s.heap,
           AnySeq(ds), NEW a, NEW d, Among(t, ds, s, cs, a, d)
    PROVE  Sound(t, ds)
<1>0. /\ \A k \in 0..Len(ds) :
            /\ AnySeq(Level(t, ds, k))
            /\ \A i \in 1..Len(Level(t, ds, k)) :
                  /\ a[k] \in 0..Len(cs) /\ d[k] \in Nat
                  /\ i + d[k] \in 1..Len(Level(s, cs, a[k]))
                  /\ Level(t, ds, k)[i] = Level(s, cs, a[k])[i + d[k]]
      /\ \A k, m \in 0..Len(ds) :
            k < m /\ 1..Len(Level(t, ds, k)) # {} /\ 1..Len(Level(t, ds, m)) # {} => a[k] < a[m]
  BY Zenon DEF Among
<1>1. VarsSound(t)
  BY DEF Sound, VarsSound
<1>2. LocalsSound(t, ds)
  <2>1. \A k \in 0..Len(cs) : \A i \in 1..Len(Level(s, cs, k)) :
            /\ Local(Level(s, cs, k)[i], t.heap)
            /\ Above(t.vars[Level(s, cs, k)[i].name], Level(s, cs, k)[i])
    BY DEF Sound, LocalsSound
  <2> QED
    BY <1>0, <2>1 DEF LocalsSound
<1>3. ASSUME NEW k \in 0..Len(ds), NEW m \in 0..Len(ds),
             NEW i \in 1..Len(Level(t, ds, k)), NEW j \in 1..Len(Level(t, ds, m)),
             InnerTo(k, i, m, j), Level(t, ds, k)[i].name = Level(t, ds, m)[j].name
      PROVE  Above(Level(t, ds, k)[i], Level(t, ds, m)[j])
  <2>1. PICK x : x = a[k]
    OBVIOUS
  <2>2. PICK y : y = a[m]
    OBVIOUS
  <2>3. PICK u : u = i + d[k]
    OBVIOUS
  <2>4. PICK v : v = j + d[m]
    OBVIOUS
  <2>5. x \in 0..Len(cs) /\ u \in 1..Len(Level(s, cs, x)) /\ Level(t, ds, k)[i] = Level(s, cs, x)[u]
    BY <1>0, <2>1, <2>3
  <2>6. y \in 0..Len(cs) /\ v \in 1..Len(Level(s, cs, y)) /\ Level(t, ds, m)[j] = Level(s, cs, y)[v]
    BY <1>0, <2>2, <2>4
  <2>7. InnerTo(x, u, y, v)
    <3>0. Len(Level(t, ds, k)) \in Nat /\ Len(Level(t, ds, m)) \in Nat /\ d[k] \in Nat /\ d[m] \in Nat
      BY <1>0, SeqFacts
    <3>1. CASE k < m
      BY <1>0, <1>3, <2>1, <2>2, <3>0, <3>1 DEF InnerTo
    <3>2. CASE k = m /\ i < j
      BY <2>1, <2>2, <2>3, <2>4, <3>0, <3>2 DEF InnerTo
    <3> QED
      BY <1>3, <3>1, <3>2 DEF InnerTo
  <2> QED
    BY <1>3, <2>5, <2>6, <2>7 DEF Sound, ChainSound
<1>4. ChainSound(t, ds)
  BY <1>3 DEF ChainSound
<1> QED
  BY <1>1, <1>2, <1>4 DEF Sound

(* A variable is saved in front of the other locals.                       *)
LEMMA PushIsSound ==
    ASSUME NEW s, NEW cs, Sound(s, cs), NEW l, Local(l, s.heap), Above(s.vars[l.name], l),
           \A k \in 0..Len(cs) : \A i \in 1..Len(Level(s, cs, k)) :
               Level(s, cs, k)[i].name = l.name => Above(l, Level(s, cs, k)[i]),
           NEW t, Shaped(t), t.vars = s.vars, t.heap = s.heap, t.locals = Cons(l, s.locals)
    PROVE  Sound(t, cs)
<1>0. Len(cs) \in Nat /\ Level(s, cs, 0) = s.locals /\ Level(t, cs, 0) = Cons(l, s.locals)
  BY SeqFacts DEF Sound, Level
<1>1. AnySeq(s.locals)
  BY <1>0 DEF Sound, LocalsSound
<1>2. /\ AnySeq(Level(t, cs, 0)) /\ Len(Level(t, cs, 0)) = Len(s.locals) + 1
      /\ Level(t, cs, 0)[1] = l
      /\ \A i \in 1..Len(s.locals) : Level(t, cs, 0)[i + 1] = s.locals[i]
  BY <1>0, <1>1, ConsFacts
<1>3. \A k : k # 0 => Level(t, cs, k) = Level(s, cs, k)
  BY DEF Level
<1>4. Len(s.locals) \in Nat
  BY <1>1, SeqFacts
\* A place of t is the new one or an old place.
<1>5. ASSUME NEW k \in 0..Len(cs), NEW i \in 1..Len(Level(t, cs, k)), ~(k = 0 /\ i = 1)
      PROVE  \E j \in 1..Len(Level(s, cs, k)) :
                 Level(t, cs, k)[i] = Level(s, cs, k)[j] /\ i = IF k = 0 THEN j + 1 ELSE j
  <2>1. CASE k = 0
    <3>1. i - 1 \in 1..Len(s.locals) /\ i = (i - 1) + 1
      BY <1>2, <1>4, <1>5, <2>1
    <3>2. Level(t, cs, 0)[(i - 1) + 1] = s.locals[i - 1]
      BY <1>2, <3>1
    <3> QED
      BY <1>0, <2>1, <3>1, <3>2
  <2>2. CASE k # 0
    BY <1>3, <2>2
  <2> QED
    BY <2>1, <2>2
<1>6. LocalsSound(t, cs)
  <2>1. ASSUME NEW k \in 0..Len(cs)
        PROVE  AnySeq(Level(t, cs, k))
    BY <1>2, <1>3 DEF Sound, LocalsSound
  <2>2. ASSUME NEW k \in 0..Len(cs), NEW i \in 1..Len(Level(t, cs, k))
        PROVE  /\ Local(Level(t, cs, k)[i], t.heap)
               /\ Above(t.vars[Level(t, cs, k)[i].name], Level(t, cs, k)[i])
    <3>1. CASE k = 0 /\ i = 1
      BY <1>2, <3>1
    <3>2. CASE ~(k = 0 /\ i = 1)
      <4>1. PICK j \in 1..Len(Level(s, cs, k)) : Level(t, cs, k)[i] = Level(s, cs, k)[j]
        BY <1>5, <3>2
      <4> QED
        BY <4>1 DEF Sound, LocalsSound
    <3> QED
      BY <3>1, <3>2
  <2> QED
    BY <2>1, <2>2 DEF LocalsSound
<1>7. ASSUME NEW k \in 0..Len(cs), NEW m \in 0..Len(cs),
             NEW i \in 1..Len(Level(t, cs, k)), NEW j \in 1..Len(Level(t, cs, m)),
             InnerTo(k, i, m, j), Level(t, cs, k)[i].name = Level(t, cs, m)[j].name
      PROVE  Above(Level(t, cs, k)[i], Level(t, cs, m)[j])
  <2>0. Len(Level(t, cs, k)) \in Nat /\ Len(Level(t, cs, m)) \in Nat
    BY <1>6, SeqFacts DEF LocalsSound
  <2>1. ~(m = 0 /\ j = 1)
    BY <1>0, <1>7, <2>0 DEF InnerTo
  <2>2. PICK y \in 1..Len(Level(s, cs, m)) :
            Level(t, cs, m)[j] = Level(s, cs, m)[y] /\ j = IF m = 0 THEN y + 1 ELSE y
    BY <1>5, <2>1
  <2>3. CASE k = 0 /\ i = 1
    BY <1>2, <1>7, <2>2, <2>3
  <2>4. CASE ~(k = 0 /\ i = 1)
    <3>1. PICK x \in 1..Len(Level(s, cs, k)) :
              Level(t, cs, k)[i] = Level(s, cs, k)[x] /\ i = IF k = 0 THEN x + 1 ELSE x
      BY <1>5, <2>4
    <3>2. InnerTo(k, x, m, y)
      <4>1. Len(Level(s, cs, k)) \in Nat /\ Len(Level(s, cs, m)) \in Nat
        BY SeqFacts DEF Sound, LocalsSound
      <4> QED
        BY <1>7, <2>2, <3>1, <4>1 DEF InnerTo
    <3> QED
      BY <1>7, <2>2, <3>1, <3>2 DEF Sound, ChainSound
  <2> QED
    BY <2>3, <2>4
<1>8. ChainSound(t, cs)
  BY <1>7 DEF ChainSound
<1>9. VarsSound(t)
  BY DEF Sound, VarsSound
<1> QED
  BY <1>6, <1>8, <1>9 DEF Sound

(* mklocal saves what the variable is and marks it, or fails.              *)
LEMMA MkLocalIsSound ==
    ASSUME NEW s, Sound(s, calls), NEW n \in Names, NEW val
    PROVE  Sound(MkLocal(s, n, val), calls)
<1>1. PICK v : v = s.vars[n]
  OBVIOUS
<1>2. PICK f : f = IF v.there THEN v.flags ELSE {"unset"}
  OBVIOUS
<1>3. PICK was : was = LookupVar(s, n)
  OBVIOUS
<1>4. PICK l : l = [name |-> n, text |-> v.text, was |-> was, flags |-> f]
  OBVIOUS
<1>5. l.name = n /\ l.text = v.text /\ l.was = was /\ l.flags = f
  BY <1>4
<1>6. Variable(v, n, s.heap) /\ Shaped(s)
  BY <1>1 DEF Sound, VarsSound
\* Whatever the variable becomes, the local can be pushed.
<1>7. ASSUME NEW t, Sound(t, calls), t.locals = s.locals, s.heap \subseteq t.heap, Above(t.vars[n], l)
      PROVE  Sound([t EXCEPT !.locals = <<l>> \o @], calls)
  <2>1. PICK u : u = [t EXCEPT !.locals = Cons(l, t.locals)]
    OBVIOUS
  <2>2. Shaped(u) /\ u.vars = t.vars /\ u.heap = t.heap /\ u.locals = Cons(l, t.locals)
    BY <1>7, <2>1 DEF Sound, Shaped, Fields
  <2>3. Local(l, t.heap)
    <3>1. was = IF "unset" \in f THEN Unset ELSE v.text.val
      <4>1. CASE v.there
        BY <1>1, <1>2, <1>3, <4>1 DEF LookupVar
      <4>2. CASE ~v.there
        BY <1>1, <1>2, <1>3, <4>2 DEF LookupVar
      <4> QED
        BY <4>1, <4>2
    <3> QED
      BY <1>5, <1>6, <1>7, <3>1 DEF Local, Variable, Lives
  <2>4. ASSUME NEW k \in 0..Len(calls), NEW i \in 1..Len(Level(t, calls, k)), Level(t, calls, k)[i].name = l.name
        PROVE  Above(l, Level(t, calls, k)[i])
    <3>1. Level(t, calls, k) = Level(s, calls, k)
      BY <1>7 DEF Level
    <3>2. PICK h : h = Level(s, calls, k)[i]
      OBVIOUS
    <3>3. Above(v, h)
      BY <1>1, <1>5, <2>4, <3>1, <3>2 DEF Sound, LocalsSound
    <3>4. CASE v.there
      BY <1>2, <1>5, <3>1, <3>2, <3>3, <3>4 DEF Above
    <3>5. CASE ~v.there
      <4>1. v.flags = {} /\ v.text.block = NoBlock
        BY <1>6, <3>5 DEF Variable, NoVar
      <4>2. "readonly" \notin h.flags
        BY <3>3, <4>1 DEF Above
      <4> QED
        BY <1>5, <3>1, <3>2, <4>1, <4>2 DEF Above
    <3> QED
      BY <3>4, <3>5
  <2>5. Sound(u, calls)
    BY <1>5, <1>7, <2>2, <2>3, <2>4, PushIsSound
  <2> QED
    BY <2>1, <2>5 DEF Cons
<1>8. CASE ~v.there
  <2>1. PICK made : made = SetVar(s, n, val, {"strfixed"})
    OBVIOUS
  <2>2. PICK asked : asked = IF val = Unset THEN {"strfixed", "unset"} ELSE {"strfixed"}
    OBVIOUS
  <2>3. {"strfixed"} \cup {"unset"} = {"strfixed", "unset"}
    OBVIOUS
  <2>4. made = SetVarEq(s, n, val, asked)
    BY <2>1, <2>2, <2>3 DEF SetVar
  <2>5. v.flags = {} /\ v.text.block = NoBlock
    BY <1>6, <1>8 DEF Variable, NoVar
  <2>6. PICK F : NewText(s, made, n, F, val)
    BY <1>1, <2>2, <2>4, <2>5, SetVarEqIs
  <2>7. Sound(made, calls) /\ made.locals = s.locals
    BY <1>1, <2>5, <2>6, NewTextIsSound
  <2>8. s.heap \subseteq made.heap
    BY <1>1, <1>8, <2>6 DEF NewText, Owned
  <2>9. Above(made.vars[n], l)
    <3>1. l.text.block = NoBlock /\ "readonly" \notin l.flags
      BY <1>2, <1>5, <1>8, <2>5
    <3> QED
      BY <3>1 DEF Above
  <2>10. MkLocal(s, n, val) = IF made.failed THEN made ELSE [made EXCEPT !.locals = <<l>> \o @]
    BY <1>1, <1>2, <1>3, <1>4, <1>8, <2>1, Zenon DEF MkLocal
  <2>11. Sound([made EXCEPT !.locals = <<l>> \o @], calls)
    BY <1>7, <2>7, <2>8, <2>9
  <2> QED
    BY <2>7, <2>10, <2>11
<1>9. CASE v.there
  <2>1. PICK held : held = [s EXCEPT !.vars[n].flags = @ \cup {"strfixed", "textfixed"}]
    OBVIOUS
  <2>2. PICK G : G = v.flags \cup {"strfixed", "textfixed"}
    OBVIOUS
  <2>3. PICK w : w = [s.vars[n] EXCEPT !.flags = G]
    OBVIOUS
  <2>4. held = [s EXCEPT !.vars[n].flags = G]
    BY <1>1, <2>1, <2>2
  <2>5. s.vars[n].there
    BY <1>1, <1>9
  <2>6. /\ VarRecord(w)
        /\ w.there /\ w.there \in BOOLEAN /\ w.flags = G /\ w.text = v.text
        /\ Shaped(held) /\ held.locals = s.locals /\ held.heap = s.heap
        /\ held.vars = [s.vars EXCEPT ![n] = w]
    <3>1. VarRecord(w)
      BY <2>3, <2>5, FlagsRecord
    <3>2. w.there
      BY <2>3, <2>5, FlagsRecord
    <3>3. w.there \in BOOLEAN
      BY <2>3, <2>5, FlagsRecord
    <3>4. w.flags = G /\ w.text = v.text
      BY <1>1, <2>3, <2>5, FlagsRecord
    <3>5. Shaped(held) /\ held.locals = s.locals /\ held.heap = s.heap
      <4>1. Shaped([s EXCEPT !.vars[n].flags = G])
        BY <2>3, <2>5, FlagsRecord
      <4>2. [s EXCEPT !.vars[n].flags = G].locals = s.locals
        BY <2>3, <2>5, FlagsRecord
      <4>3. [s EXCEPT !.vars[n].flags = G].heap = s.heap
        BY <2>3, <2>5, FlagsRecord
      <4> QED
        BY <2>4, <4>1, <4>2, <4>3
    <3>6. held.vars = [s.vars EXCEPT ![n] = w]
      BY <2>3, <2>4, <2>5, FlagsRecord
    <3> QED
      BY <3>1, <3>2, <3>3, <3>4, <3>5, <3>6
  <2>7. Sound(held, calls) /\ held.vars[n] = w
    <3>1. v.flags \cap {"textfixed", "stack"} # {} => w.flags \cap {"textfixed", "stack"} # {}
      BY <2>2, <2>6
    <3>2. "readonly" \in v.flags => "readonly" \in w.flags
      BY <2>2, <2>6
    <3>3. Sound(held, calls)
      BY <1>1, <2>6, <3>1, <3>2, FlagsSound
    <3>4. held.vars[n] = w
      BY <2>6 DEF Sound, VarsSound
    <3> QED
      BY <3>3, <3>4
  <2>8. PICK made : made = IF val = Unset THEN held ELSE SetVarEq(held, n, val, {})
    OBVIOUS
  <2>9. MkLocal(s, n, val) = IF made.failed THEN made ELSE [made EXCEPT !.locals = <<l>> \o @]
    BY <1>1, <1>2, <1>3, <1>4, <1>9, <2>1, <2>8, Zenon DEF MkLocal
  <2>10. "readonly" \in l.flags => "readonly" \in w.flags
    BY <1>2, <1>5, <1>9, <2>2, <2>6
  <2>11. w.flags \cap {"textfixed", "stack"} # {}
    BY <2>2, <2>6
  <2>12. Above(w, l)
    BY <1>5, <2>6, <2>10, <2>11 DEF Above
  <2>13. CASE made = held
    <3>1. held.locals = s.locals /\ s.heap \subseteq held.heap
      BY <2>6
    <3>2. Sound(held, calls) /\ Above(held.vars[n], l)
      BY <2>7, <2>12
    <3>3. Sound([held EXCEPT !.locals = <<l>> \o @], calls)
      BY <1>7, <3>1, <3>2
    <3> QED
      BY <2>9, <2>13, <3>2, <3>3
  <2>14. CASE made = SetVarEq(held, n, val, {}) /\ "readonly" \in w.flags
    <3>1. Sound(made, calls)
      BY <2>7, <2>14, SetVarEqIsSound DEF OnlyVar
    <3>2. made.failed
      <4>1. PICK asked : asked = {}
        OBVIOUS
      <4>2. SetVarEq(held, n, val, asked).failed
        BY <2>7, <2>14, SetVarEqIs
      <4> QED
        BY <2>14, <4>1, <4>2
    <3> QED
      BY <2>9, <3>1, <3>2
  <2>15. CASE made = SetVarEq(held, n, val, {}) /\ "readonly" \notin w.flags
    <3>0. PICK asked : asked = {}
      OBVIOUS
    <3>1. PICK F : NewText(held, made, n, F, val)
      BY <2>7, <2>15, <3>0, SetVarEqIs
    <3>2. Sound(made, calls) /\ made.locals = s.locals
      BY <2>6, <2>7, <2>15, <3>1, NewTextIsSound
    <3>3. PICK b \in BlocksOf(n) \ {NoBlock} :
             /\ b \notin held.heap
             /\ made.vars = [held.vars EXCEPT ![n] = [there |-> TRUE, flags |-> F, text |-> [val |-> val, block |-> b]]]
             /\ \/ made.heap = held.heap \cup {b}
                \/ Owned(held.vars[n]) /\ made.heap = (held.heap \ {held.vars[n].text.block}) \cup {b}
      BY <3>1 DEF NewText
    <3>4. s.heap \subseteq made.heap
      BY <2>6, <2>7, <2>11, <3>3 DEF Owned
    <3>5. made.vars[n].text.block = b
      BY <3>3, <2>7 DEF Sound, VarsSound
    <3>6. v.text.block # b
      BY <1>6, <2>6, <3>3 DEF Variable, Lives
    <3>7. Above(made.vars[n], l)
      <4>1. "readonly" \notin l.flags
        BY <2>10, <2>15
      <4> QED
        BY <1>5, <3>5, <3>6, <4>1 DEF Above
    <3>8. Sound([made EXCEPT !.locals = <<l>> \o @], calls)
      BY <1>7, <3>2, <3>4, <3>7
    <3> QED
      BY <2>9, <3>2, <3>8
  <2> QED
    BY <2>8, <2>13, <2>14, <2>15
<1> QED
  BY <1>8, <1>9

\* A local is given back: the variable has its old value, unless it has become
\* readonly and did not exist before.
GivenBack(s, t, l) ==
    LookupVar(t, l.name) = l.was \/ ("unset" \in l.flags /\ "readonly" \in s.vars[l.name].flags)

LEMMA TailIsSound ==
    ASSUME NEW s, NEW cs, Sound(s, cs), s.locals # <<>>,
           NEW t, Shaped(t), t.vars = s.vars, t.heap = s.heap, t.locals = Tail(s.locals)
    PROVE  /\ Sound(t, cs)
           /\ \A k \in 0..Len(cs) : \A i \in 1..Len(Level(t, cs, k)) :
                 Level(t, cs, k)[i].name = Head(s.locals).name => Above(Head(s.locals), Level(t, cs, k)[i])
           /\ Local(Head(s.locals), s.heap) /\ Above(s.vars[Head(s.locals).name], Head(s.locals))
<1>0. Len(cs) \in Nat /\ AnySeq(cs) /\ Level(s, cs, 0) = s.locals /\ Level(t, cs, 0) = Tail(s.locals)
  BY SeqFacts DEF Sound, Level
<1>1. AnySeq(s.locals)
  BY <1>0 DEF Sound, LocalsSound
<1>2. /\ Len(s.locals) \in Nat \ {0} /\ AnySeq(Tail(s.locals)) /\ Len(Tail(s.locals)) = Len(s.locals) - 1
      /\ \A i \in 1..(Len(s.locals) - 1) : Tail(s.locals)[i] = s.locals[i + 1]
      /\ Head(s.locals) = s.locals[1]
  BY <1>1, TailFacts
<1>3. \A k : k # 0 => Level(t, cs, k) = Level(s, cs, k)
  BY DEF Level
<1>4. PICK a : a = [k \in 0..Len(cs) |-> k]
  OBVIOUS
<1>5. PICK d : d = [k \in 0..Len(cs) |-> IF k = 0 THEN 1 ELSE 0]
  OBVIOUS
<1>6. ASSUME NEW k \in 0..Len(cs)
      PROVE  /\ AnySeq(Level(t, cs, k))
             /\ \A i \in 1..Len(Level(t, cs, k)) :
                     /\ a[k] \in 0..Len(cs) /\ d[k] \in Nat
                     /\ i + d[k] \in 1..Len(Level(s, cs, a[k]))
                     /\ Level(t, cs, k)[i] = Level(s, cs, a[k])[i + d[k]]
  <2>1. CASE k = 0
    <3>1. a[k] = 0 /\ d[k] = 1
      BY <1>4, <1>5, <2>1
    <3>2. 0 \in 0..Len(cs) /\ Level(t, cs, k) = Tail(s.locals) /\ Level(s, cs, a[k]) = s.locals
      BY <1>0, <2>1, <3>1
    <3>3. ASSUME NEW i \in 1..Len(Tail(s.locals))
          PROVE  i + d[k] \in 1..Len(s.locals) /\ Tail(s.locals)[i] = s.locals[i + d[k]]
      BY <1>2, <3>1
    <3> QED
      BY <1>2, <3>1, <3>2, <3>3
  <2>2. CASE k # 0
    <3>1. a[k] = k /\ d[k] = 0
      BY <1>4, <1>5, <2>2
    <3>2. AnySeq(Level(s, cs, k))
      BY DEF Sound, LocalsSound
    <3>3. \A i \in 1..Len(Level(s, cs, k)) : i + 0 = i
      OBVIOUS
    <3> QED
      BY <1>3, <2>2, <3>1, <3>2, <3>3
  <2> QED
    BY <2>1, <2>2
<1>7. \A k, m \in 0..Len(cs) :
         k < m /\ 1..Len(Level(t, cs, k)) # {} /\ 1..Len(Level(t, cs, m)) # {} => a[k] < a[m]
  BY <1>4
<1>8. Sound(t, cs)
  <2>1. Among(t, cs, s, cs, a, d)
    BY <1>6, <1>7, Zenon DEF Among
  <2>2. AnySeq(cs)
    BY <1>0
  <2> QED
    BY <2>1, <2>2, Relevel
<1>9. ASSUME NEW k \in 0..Len(cs), NEW i \in 1..Len(Level(t, cs, k)),
             Level(t, cs, k)[i].name = Head(s.locals).name
      PROVE  Above(Head(s.locals), Level(t, cs, k)[i])
  <2>1. 0 \in 0..Len(cs) /\ 1 \in 1..Len(Level(s, cs, 0)) /\ Level(s, cs, 0)[1] = Head(s.locals)
    BY <1>0, <1>2
  <2>2. CASE k = 0
    <3>1. i + 1 \in 1..Len(Level(s, cs, 0)) /\ Level(t, cs, k)[i] = Level(s, cs, 0)[i + 1] /\ 1 < i + 1
      BY <1>0, <1>2, <2>2
    <3>2. InnerTo(0, 1, 0, i + 1)
      BY <3>1 DEF InnerTo
    <3> QED
      BY <1>9, <2>1, <3>1, <3>2 DEF Sound, ChainSound
  <2>3. CASE k # 0
    <3>1. InnerTo(0, 1, k, i)
      BY <2>3 DEF InnerTo
    <3> QED
      BY <1>3, <1>9, <2>1, <2>3, <3>1 DEF Sound, ChainSound
  <2> QED
    BY <2>2, <2>3
<1>10. Local(Head(s.locals), s.heap) /\ Above(s.vars[Head(s.locals).name], Head(s.locals))
  BY <1>0, <1>2 DEF Sound, LocalsSound
<1> QED
  BY <1>8, <1>9, <1>10

(* One step of poplocalvars.                                               *)
LEMMA PopLocalIs ==
    ASSUME NEW s, Sound(s, calls), s.locals # <<>>, NEW l, l = Head(s.locals), NEW t, t = PopLocal(s)
    PROVE  /\ Sound(t, calls) /\ t.locals = Tail(s.locals)
           /\ l.name \in Names
           /\ \A m \in Names : m # l.name => t.vars[m] = s.vars[m]
           /\ \A m \in Names : "readonly" \in t.vars[m].flags => "readonly" \in s.vars[m].flags
           /\ GivenBack(s, t, l)
<1>1. PICK v : v = s.vars[l.name]
  OBVIOUS
<1>2. PICK u : u = [s EXCEPT !.locals = Tail(@)]
  OBVIOUS
<1>3. Shaped(u) /\ u.vars = s.vars /\ u.heap = s.heap /\ u.locals = Tail(s.locals)
  BY <1>2 DEF Sound, Shaped, Fields
<1>4. /\ Sound(u, calls)
      /\ \A k \in 0..Len(calls) : \A i \in 1..Len(Level(u, calls, k)) :
            Level(u, calls, k)[i].name = l.name => Above(l, Level(u, calls, k)[i])
      /\ Local(l, s.heap) /\ Above(v, l)
  BY <1>1, <1>3, TailIsSound
<1>5. /\ l.name \in Names
      /\ l.was = IF "unset" \in l.flags THEN Unset ELSE l.text.val
  BY <1>4 DEF Local
<1>6. CASE "unset" \in l.flags /\ "strfixed" \notin l.flags
  <2>1. t = UnsetVar(u, l.name).s
    BY <1>2, <1>6 DEF PopLocal
  <2>0. PICK n \in Names : n = l.name
    BY <1>5
  <2>a. OnlyVar(u, UnsetVar(u, n).s, n)
    BY <1>4, UnsetVarIs
  <2>2. Sound(t, calls) /\ t.locals = u.locals /\ \A m \in Names : m # l.name => t.vars[m] = u.vars[m]
    BY <2>0, <2>1, <2>a DEF OnlyVar
  <2>3. CASE "readonly" \in v.flags
    <3>1. "readonly" \in u.vars[n].flags
      BY <1>1, <1>3, <2>0, <2>3
    <3>2. UnsetVar(u, n).s = u
      BY <1>4, <3>1, UnsetVarIs
    <3>3. t = u
      BY <2>0, <2>1, <3>2
    <3> QED
      BY <1>1, <1>3, <1>5, <1>6, <2>2, <2>3, <3>3 DEF GivenBack
  <2>4. CASE "readonly" \notin v.flags
    <3>1. "readonly" \notin u.vars[n].flags
      BY <1>1, <1>3, <2>0, <2>4
    <3>2. PICK r : r = UnsetVar(u, n).s
      OBVIOUS
    <3>3. LookupVar(r, n) = Unset /\ "readonly" \notin r.vars[n].flags
      BY <1>4, <3>1, <3>2, UnsetVarIs
    <3>4. LookupVar(t, l.name) = Unset /\ "readonly" \notin t.vars[l.name].flags
      BY <2>0, <2>1, <3>2, <3>3
    <3> QED
      BY <1>3, <1>5, <1>6, <2>2, <3>4 DEF GivenBack
  <2> QED
    BY <2>3, <2>4
<1>7. CASE ~("unset" \in l.flags /\ "strfixed" \notin l.flags)
  <2>1. PICK called : called = CallFunc(u, l.name, l.text.val)
    OBVIOUS
  <2>2. Shaped(called) /\ called.vars = s.vars /\ called.heap = s.heap /\ called.locals = u.locals
    BY <1>3, <2>1, CallFuncIsSame DEF Same
  <2>3. PICK freed : freed = IF Owned(v) THEN FreeText(called, v.text) ELSE called
    OBVIOUS
  <2>4. /\ Shaped(freed) /\ freed.vars = s.vars /\ freed.locals = u.locals
        /\ \/ freed.heap = s.heap
           \/ Owned(v) /\ freed.heap = s.heap \ {v.text.block}
    <3>1. CASE ~Owned(v)
      BY <2>2, <2>3, <3>1
    <3>2. CASE Owned(v)
      <4>1. freed = [called EXCEPT !.heap = @ \ {v.text.block}]
        BY <2>3, <3>2 DEF FreeText
      <4> QED
        BY <2>2, <3>2, <4>1 DEF Shaped, Fields
    <3> QED
      BY <3>1, <3>2
  <2>5. PICK w : w = [there |-> TRUE, flags |-> l.flags, text |-> l.text]
    OBVIOUS
  <2>6. VarRecord(w) /\ w.there /\ w.there \in BOOLEAN /\ w.flags = l.flags /\ w.text = l.text
    <3>1. w.there = TRUE /\ w.flags = l.flags /\ w.text = l.text
      BY <2>5, RecordFields
    <3>2. VarRecord(w)
      BY <2>5, Zenon DEF VarRecord
    <3> QED
      BY <3>1, <3>2
  <2>a. PICK n \in Names : n = l.name
    BY <1>5
  <2>7. t = [freed EXCEPT !.vars[l.name] = w]
    BY <1>1, <1>2, <1>7, <2>1, <2>3, <2>5, Zenon DEF PopLocal
  <2>8. Shaped(t) /\ t.locals = u.locals /\ t.heap = freed.heap /\ t.vars = [u.vars EXCEPT ![l.name] = w]
    <3>1. PICK x : x = w
      OBVIOUS
    <3>2. t = [freed EXCEPT !.vars[n] = x]
      BY <2>7, <2>a, <3>1
    <3>3. Shaped(t) /\ t.locals = freed.locals /\ t.heap = freed.heap /\ t.vars = [freed.vars EXCEPT ![n] = x]
      BY <2>4, <3>2 DEF Shaped, Fields
    <3> QED
      BY <1>3, <2>4, <2>a, <3>1, <3>3
  <2>9. IsFiniteSet(t.heap)
    <3>1. t.heap \subseteq s.heap /\ IsFiniteSet(s.heap)
      BY <2>4, <2>8 DEF Sound
    <3> QED
      BY <3>1, FS_Subset
  <2>10. l.text.block = NoBlock \/ l.text.block \in t.heap
    <3>1. l.text.block = NoBlock \/ l.text.block \in s.heap
      BY <1>4 DEF Local, Lives
    <3>2. Owned(v) /\ l.text.block # NoBlock => l.text.block # v.text.block
      BY <1>4 DEF Above, Owned
    <3> QED
      BY <2>4, <2>8, <3>1, <3>2
  <2>11. Variable(w, l.name, t.heap)
    <3>1. l.text.block \in BlocksOf(l.name)
      BY <1>4 DEF Local, Lives
    <3> QED
      BY <2>6, <2>10, <3>1 DEF Variable, Lives
  <2>12. \A k \in 0..Len(calls) : \A i \in 1..Len(Level(u, calls, k)) :
            Level(u, calls, k)[i].name = l.name => Above(w, Level(u, calls, k)[i])
    BY <1>4, <2>6 DEF Above
  <2>13. \A b \in u.heap : b \in t.heap \/ (Owned(u.vars[l.name]) /\ b = u.vars[l.name].text.block)
    BY <1>1, <1>3, <2>4, <2>8
  <2>14. Sound(t, calls)
    <3>1. Sound(u, calls) /\ Variable(w, n, t.heap)
      BY <1>4, <2>11, <2>a
    <3>2. \A k \in 0..Len(calls) : \A i \in 1..Len(Level(u, calls, k)) :
              Level(u, calls, k)[i].name = n => Above(w, Level(u, calls, k)[i])
      BY <2>12, <2>a
    <3>3. \A b \in u.heap : b \in t.heap \/ (Owned(u.vars[n]) /\ b = u.vars[n].text.block)
      BY <2>13, <2>a
    <3>4. Shaped(t) /\ t.locals = u.locals /\ t.vars = [u.vars EXCEPT ![n] = w]
      BY <2>8, <2>a
    <3> QED
      <4>1. Updated(u, calls, n, w, t)
        BY <2>9, <3>1, <3>2, <3>3, <3>4, Zenon DEF Updated
      <4> QED
        BY <4>1, VarChange
  <2>15. \A m \in Names : t.vars[m] = IF m = l.name THEN w ELSE s.vars[m]
    BY <1>3, <2>8 DEF Sound, VarsSound
  <2>16. \A m \in Names : "readonly" \in t.vars[m].flags => "readonly" \in s.vars[m].flags
    <3>1. "readonly" \in l.flags => "readonly" \in v.flags
      BY <1>4 DEF Above
    <3> QED
      BY <1>1, <2>6, <2>15, <3>1
  <2>17. LookupVar(t, l.name) = l.was
    BY <1>5, <2>6, <2>15 DEF LookupVar
  <2> QED
    BY <1>3, <1>5, <2>8, <2>14, <2>15, <2>16, <2>17 DEF GivenBack
<1> QED
  BY <1>6, <1>7

-----------------------------------------------------------------------------
(***************************************************************************)
(* poplocalvars: one local after the other.                                *)
(***************************************************************************)
LEMMA IntervalInduction ==
    ASSUME NEW n \in Nat, NEW T, 0 \in T, \A i \in 0..(n - 1) : i \in T => i + 1 \in T
    PROVE  0..n \subseteq T
<1> SUFFICES ASSUME ~(0..n \subseteq T)
             PROVE  FALSE
  OBVIOUS
<1> DEFINE U == (0..n) \ T
<1>1. U \in SUBSET Nat /\ U # {}
  OBVIOUS
<1>2. PICK m \in U : \A i \in U : m <= i
  <2> HIDE DEF U
  <2> QED
    BY <1>1, LeastElement
<1>3. m # 0 /\ m - 1 \in 0..(n - 1) /\ m - 1 \notin U
  BY <1>2
<1>4. (m - 1) + 1 \in T
  BY <1>3
<1> QED
  BY <1>2, <1>4

Popping(f, k, s) == f = [i \in 0..k |-> IF i = 0 THEN s ELSE PopLocal(f[i - 1])]

LEMMA PoppingExists ==
    ASSUME NEW s, NEW n \in Nat
    PROVE  \E f : Popping(f, n, s)
<1> DEFINE T == {k \in 0..n : \E f : Popping(f, k, s)}
<1>1. 0 \in T
  <2>1. PICK f : f = [i \in 0..0 |-> s]
    OBVIOUS
  <2>2. Popping(f, 0, s)
    BY <2>1 DEF Popping
  <2> QED
    BY <2>2
<1>2. ASSUME NEW k \in 0..(n - 1), k \in T
      PROVE  k + 1 \in T
  <2>1. PICK f : Popping(f, k, s)
    BY <1>2
  <2>2. PICK last : last = PopLocal(f[k])
    OBVIOUS
  <2>3. PICK h : h = [i \in 0..(k + 1) |-> IF i <= k THEN f[i] ELSE last]
    OBVIOUS
  <2>4. ASSUME NEW i \in 0..(k + 1)
        PROVE  h[i] = IF i = 0 THEN s ELSE PopLocal(h[i - 1])
    <3>1. CASE i = 0
      BY <2>1, <2>3, <3>1 DEF Popping
    <3>2. CASE i # 0 /\ i <= k
      <4>1. i \in 0..k /\ i - 1 \in 0..k /\ i - 1 <= k /\ i - 1 \in 0..(k + 1)
        BY <3>2
      <4>2. f[i] = PopLocal(f[i - 1])
        BY <2>1, <3>2, <4>1 DEF Popping
      <4>3. h[i] = f[i] /\ h[i - 1] = f[i - 1]
        BY <2>3, <3>2, <4>1
      <4> QED
        BY <3>2, <4>2, <4>3
    <3>3. CASE i = k + 1
      <4>1. ~(i <= k) /\ i - 1 = k /\ k <= k /\ k \in 0..(k + 1) /\ i # 0
        BY <3>3
      <4>2. h[i] = last /\ h[i - 1] = f[k]
        BY <2>3, <4>1
      <4> QED
        BY <2>2, <4>1, <4>2
    <3> QED
      BY <3>1, <3>2, <3>3
  <2>5. Popping(h, k + 1, s)
    <3>1. PICK e : e = [i \in 0..(k + 1) |-> IF i = 0 THEN s ELSE PopLocal(h[i - 1])]
      OBVIOUS
    <3>2. \A i \in 0..(k + 1) : e[i] = h[i]
      BY <2>4, <3>1
    <3>3. e = h
      BY <2>3, <3>1, <3>2
    <3> QED
      BY <3>1, <3>3, Zenon DEF Popping
  <2> QED
    BY <2>5
<1> HIDE DEF T
<1>3. 0..n \subseteq T
  BY <1>1, <1>2, IntervalInduction
<1>4. n \in T
  BY <1>3
<1> QED
  BY <1>4 DEF T

\* u is s after k steps.
Popped(s, u, k) ==
    /\ Sound(u, calls)
    /\ Len(u.locals) = Len(s.locals) - k
    /\ \A j \in 1..(Len(s.locals) - k) : u.locals[j] = s.locals[j + k]
    /\ \A m \in Names : "readonly" \in u.vars[m].flags => "readonly" \in s.vars[m].flags
    /\ \A i \in 1..k :
          (\A j \in (i + 1)..Len(s.locals) : s.locals[j].name # s.locals[i].name)
          => GivenBack(s, u, s.locals[i])

LEMMA PopStep ==
    ASSUME NEW s, Sound(s, calls), NEW k \in Nat, k < Len(s.locals), NEW u, Popped(s, u, k)
    PROVE  Popped(s, PopLocal(u), k + 1)
<1>0. PICK n : n = Len(s.locals)
  OBVIOUS
<1>1. n \in Nat
  <2>1. AnySeq(s.locals)
    <3>1. 0 \in 0..Len(calls) /\ Level(s, calls, 0) = s.locals
      BY SeqFacts DEF Sound, Level
    <3> QED
      BY <3>1 DEF Sound, LocalsSound
  <2> QED
    BY <1>0, <2>1, SeqFacts
<1>2. /\ Sound(u, calls)
      /\ Len(u.locals) = n - k
      /\ \A j \in 1..(n - k) : u.locals[j] = s.locals[j + k]
      /\ \A m \in Names : "readonly" \in u.vars[m].flags => "readonly" \in s.vars[m].flags
      /\ \A i \in 1..k : (\A j \in (i + 1)..n : s.locals[j].name # s.locals[i].name) => GivenBack(s, u, s.locals[i])
  BY <1>0 DEF Popped
<1>3. AnySeq(u.locals)
  <2>1. 0 \in 0..Len(calls) /\ Level(u, calls, 0) = u.locals
    BY SeqFacts DEF Sound, Level
  <2> QED
    BY <1>2, <2>1 DEF Sound, LocalsSound
<1>4. u.locals # <<>>
  <2>1. Len(u.locals) # 0
    BY <1>0, <1>1, <1>2
  <2> QED
    BY <2>1, EmptyIsASeq
<1>5. PICK l : l = Head(u.locals)
  OBVIOUS
<1>6. l = s.locals[k + 1]
  <2>1. l = u.locals[1]
    BY <1>3, <1>4, <1>5, TailFacts
  <2>2. 1 \in 1..(n - k) /\ 1 + k = k + 1
    BY <1>0, <1>1
  <2>3. u.locals[1] = s.locals[1 + k]
    BY <1>2, <2>2
  <2> QED
    BY <2>1, <2>2, <2>3
<1>7. PICK t : t = PopLocal(u)
  OBVIOUS
<1>8. /\ Sound(t, calls) /\ t.locals = Tail(u.locals)
      /\ l.name \in Names
      /\ \A m \in Names : m # l.name => t.vars[m] = u.vars[m]
      /\ \A m \in Names : "readonly" \in t.vars[m].flags => "readonly" \in u.vars[m].flags
      /\ GivenBack(u, t, l)
  BY <1>2, <1>4, <1>5, <1>7, PopLocalIs
<1>9. Len(t.locals) = n - (k + 1)
  BY <1>1, <1>2, <1>3, <1>4, <1>8, TailFacts
<1>10. \A j \in 1..(n - (k + 1)) : t.locals[j] = s.locals[j + (k + 1)]
  <2> TAKE j \in 1..(n - (k + 1))
  <2>1. j \in 1..(Len(u.locals) - 1) /\ j + 1 \in 1..(n - k) /\ (j + 1) + k = j + (k + 1)
    <3>1. j \in Nat /\ 1 <= j /\ j <= n - (k + 1)
      BY <1>1
    <3>2. j + 1 \in 1..(n - k) /\ (j + 1) + k = j + (k + 1) /\ j \in 1..((n - k) - 1)
      BY <1>1, <3>1
    <3> QED
      BY <1>2, <3>2
  <2>2. Tail(u.locals)[j] = u.locals[j + 1]
    BY <1>3, <1>4, <2>1, TailFacts
  <2>3. u.locals[j + 1] = s.locals[(j + 1) + k]
    BY <1>2, <2>1
  <2> QED
    BY <1>8, <2>1, <2>2, <2>3
<1>11. ASSUME NEW i \in 1..(k + 1), \A j \in (i + 1)..n : s.locals[j].name # s.locals[i].name
       PROVE  GivenBack(s, t, s.locals[i])
  <2>1. CASE i = k + 1
    BY <1>2, <1>6, <1>8, <2>1 DEF GivenBack
  <2>2. CASE i # k + 1
    <3>1. i \in 1..k /\ k + 1 \in (i + 1)..n
      BY <1>0, <1>1, <2>2
    <3>2. GivenBack(s, u, s.locals[i])
      BY <1>2, <1>11, <3>1
    <3>3. s.locals[i].name # l.name
      BY <1>6, <1>11, <3>1
    <3>4. s.locals[i].name \in Names
      <4>1. 0 \in 0..Len(calls) /\ Level(s, calls, 0) = s.locals
        BY SeqFacts DEF Sound, Level
      <4>2. i \in 1..Len(s.locals)
        BY <1>0, <1>1, <3>1
      <4> QED
        BY <4>1, <4>2 DEF Sound, LocalsSound, Local
    <3> QED
      BY <1>8, <3>2, <3>3, <3>4 DEF GivenBack, LookupVar
  <2> QED
    BY <2>1, <2>2
<1>12. \A m \in Names : "readonly" \in t.vars[m].flags => "readonly" \in s.vars[m].flags
  BY <1>2, <1>8
<1> QED
  BY <1>0, <1>7, <1>8, <1>9, <1>10, <1>11, <1>12 DEF Popped

LEMMA PopLocalVarsIs ==
    ASSUME NEW s, Sound(s, calls)
    PROVE  Popped(s, PopLocalVars(s), Len(s.locals))
<1>0. PICK n : n = Len(s.locals)
  OBVIOUS
<1>1. n \in Nat
  <2>1. 0 \in 0..Len(calls) /\ Level(s, calls, 0) = s.locals
    BY SeqFacts DEF Sound, Level
  <2> QED
    BY <1>0, <2>1, SeqFacts DEF Sound, LocalsSound
<1>2. \E f : Popping(f, n, s)
  BY <1>1, PoppingExists
<1>3. PICK f : f = CHOOSE h : Popping(h, n, s)
  OBVIOUS
<1>4. Popping(f, n, s)
  BY <1>2, <1>3
<1>5. PopLocalVars(s) = f[n]
  BY <1>0, <1>3 DEF PopLocalVars, Popping
<1> DEFINE T == {k \in 0..n : Popped(s, f[k], k)}
<1>6. f[0] = s /\ \A k \in 0..(n - 1) : f[k + 1] = PopLocal(f[k])
  <2>1. f[0] = s
    BY <1>1, <1>4 DEF Popping
  <2>2. ASSUME NEW k \in 0..(n - 1)
        PROVE  f[k + 1] = PopLocal(f[k])
    <3>1. k + 1 \in 0..n /\ k + 1 # 0 /\ (k + 1) - 1 = k
      BY <1>1
    <3> QED
      BY <1>4, <3>1 DEF Popping
  <2> QED
    BY <2>1, <2>2
<1>7. 0 \in T
  <2>1. Popped(s, s, 0)
    BY <1>0, <1>1 DEF Popped
  <2> QED
    BY <1>1, <1>6, <2>1
<1>8. ASSUME NEW k \in 0..(n - 1), k \in T
      PROVE  k + 1 \in T
  <2>1. Popped(s, f[k], k) /\ k \in Nat /\ k < Len(s.locals) /\ k + 1 \in 0..n
    BY <1>0, <1>1, <1>8
  <2>2. Popped(s, PopLocal(f[k]), k + 1)
    BY <2>1, PopStep
  <2> QED
    BY <1>6, <2>1, <2>2
<1> HIDE DEF T
<1>9. 0..n \subseteq T
  BY <1>1, <1>7, <1>8, IntervalInduction
<1>10. n \in T
  BY <1>1, <1>9
<1> QED
  BY <1>0, <1>5, <1>10 DEF T

-----------------------------------------------------------------------------
(***************************************************************************)
(* The commands leave a sound state.                                       *)
(***************************************************************************)
LEMMA SoundAgain ==
    ASSUME NEW s, Sound(s, calls), NEW t, Same(s, t)
    PROVE  Sound(t, calls)
BY SameIsSound

LEMMA SetVarSafeIsSound ==
    ASSUME NEW s, Sound(s, calls), NEW n \in Names, NEW val, NEW asked
    PROVE  Sound(SetVarSafe(s, n, val, asked), calls)
<1>1. PICK t : t = SetVar(s, n, val, asked)
  OBVIOUS
<1>2. Sound(t, calls)
  BY <1>1, SetVarIsSound DEF OnlyVar
<1>3. PICK x : x = TRUE
  OBVIOUS
<1>4. SetVarSafe(s, n, val, asked) = IF t.failed THEN [s EXCEPT !.optfail = x] ELSE t
  BY <1>1, <1>3, Zenon DEF SetVarSafe
<1>5. Same(s, [s EXCEPT !.optfail = x])
  BY SameSteps DEF Sound
<1>6. Sound([s EXCEPT !.optfail = x], calls)
  BY <1>5, SoundAgain
<1> QED
  BY <1>2, <1>4, <1>6

LEMMA TellOptionIsSound ==
    ASSUME NEW t, Sound(t, calls), NEW optvar \in Names, NEW char, NEW ind, NEW offset, NEW done
    PROVE  Sound(TellOption(t, optvar, char, ind, offset, done), calls)
<1> DEFINE i == [t EXCEPT !.params.optind = ind, !.params.optoff = offset]
           o == SetVarSafe(SetVarSafe(i, "OPTIND", Number(ind), {"nofunc"}), optvar, <<char>>, {})
           e == [o EXCEPT !.params.done = @ \/ done,
                          !.params.got = IF done \/ o.params.done THEN @ ELSE
                           Append(@, <<char, LookupVar(o, "OPTARG")>>)]
<1>1. TellOption(t, optvar, char, ind, offset, done) =
        IF o.optfail THEN [GetoptsReset(o, 1) EXCEPT !.optfail = FALSE] ELSE e
  BY Zenon DEF TellOption
<1>2. Same(t, i)
  <2>1. Shaped(t)
    BY DEF Sound
  <2> QED
    BY <2>1 DEF Shaped, Fields, Same
<1> HIDE DEF i
<1>3. Sound(i, calls)
  BY <1>2, SoundAgain
<1>4. PICK p : p = SetVarSafe(i, "OPTIND", Number(ind), {"nofunc"})
  OBVIOUS
<1>5. Sound(p, calls)
  BY <1>3, <1>4, SetVarSafeIsSound
<1>6. Sound(o, calls)
  BY <1>4, <1>5, SetVarSafeIsSound
<1> HIDE DEF o
<1>7. Shaped(o)
  BY <1>6 DEF Sound
<1>8. Same(o, e)
  <2>1. PICK x : x = (o.params.done \/ done)
    OBVIOUS
  <2>2. PICK y : y = IF done \/ o.params.done THEN o.params.got
                     ELSE Append(o.params.got, <<char, LookupVar(o, "OPTARG")>>)
    OBVIOUS
  <2>3. e = [o EXCEPT !.params.done = x, !.params.got = y]
    BY <2>1, <2>2, Zenon
  <2> QED
    BY <1>7, <2>3 DEF Shaped, Fields, Same
<1> HIDE DEF e
<1>10. Sound(e, calls)
  BY <1>6, <1>8, SoundAgain
<1>11. Sound([GetoptsReset(o, 1) EXCEPT !.optfail = FALSE], calls)
  <2>1. PICK r : r = GetoptsReset(o, 1)
    OBVIOUS
  <2>2. Same(o, r)
    BY <1>7, <2>1, ResetIsSame
  <2>3. Sound(r, calls)
    BY <1>6, <2>2, SoundAgain
  <2>4. PICK no : no = FALSE
    OBVIOUS
  <2>5. Same(r, [r EXCEPT !.optfail = no])
    BY <2>3, SameSteps DEF Sound
  <2> QED
    BY <2>1, <2>3, <2>4, <2>5, SoundAgain
<1> QED
  BY <1>1, <1>10, <1>11

LEMMA GetoptsIsSound ==
    ASSUME NEW s, Sound(s, calls), NEW optvar \in Names
    PROVE  Sound(GetoptsCmd(s, optvar), calls)
<1>1. PICK t : t = IF s.params.optind > Len(s.params.p) + 1 THEN GetoptsReset(s, 1) ELSE s
  OBVIOUS
<1>2. Sound(t, calls)
  <2>1. Same(s, GetoptsReset(s, 1))
    BY ResetIsSame DEF Sound
  <2> QED
    BY <1>1, <2>1, SoundAgain
<1>3. ASSUME NEW u, Sound(u, calls), NEW char, NEW ind, NEW offset, NEW done
      PROVE  Sound(TellOption(u, optvar, char, ind, offset, done), calls)
  BY <1>3, TellOptionIsSound
<1>4. ASSUME NEW val
      PROVE  Sound(SetVarSafe(t, "OPTARG", val, {}), calls)
  BY <1>2, SetVarSafeIsSound
<1>5. Sound(UnsetVar(t, "OPTARG").s, calls)
  BY <1>2, UnsetVarIs DEF OnlyVar
<1>6. Sound(Getopts(t, OptString, optvar), calls)
  BY <1>2, <1>3, <1>4, <1>5 DEF Getopts
<1> QED
  BY <1>1, <1>6 DEF GetoptsCmd

LEMMA LeavesSound ==
    ASSUME NEW s, Sound(s, calls), Leaves(s)
    PROVE  Sound(g', calls') /\ calls' = calls
<1>1. PICK x : x = FALSE
  OBVIOUS
<1>2. g' = [s EXCEPT !.failed = x] /\ calls' = calls
  BY <1>1 DEF Leaves
<1>3. Same(s, [s EXCEPT !.failed = x])
  BY SameSteps DEF Sound
<1>4. Sound([s EXCEPT !.failed = x], calls)
  BY <1>3, SoundAgain
<1> QED
  BY <1>2, <1>4

LEMMA CatchesSound ==
    ASSUME NEW s, Sound(s, calls), Catches(s)
    PROVE  Sound(g', calls') /\ calls' = calls
<1>1. PICK x : x = FALSE
  OBVIOUS
<1>2. Leaves([s EXCEPT !.failed = x])
  BY <1>1 DEF Catches
<1>3. Same(s, [s EXCEPT !.failed = x])
  BY SameSteps DEF Sound
<1>4. Sound([s EXCEPT !.failed = x], calls)
  BY <1>3, SoundAgain
<1> QED
  BY <1>2, <1>4, LeavesSound

(* A frame is put in front of the others: the locals of a function go into *)
(* it, those of a sourced file stay where they are.                        *)
LEMMA EnterSound ==
    ASSUME NEW kind, NEW s, Sound(s, calls), NEW words, Enter(kind, s, words)
    PROVE  Sound(g', calls') /\ Len(calls') = Len(calls) + 1
<1>1. PICK frame : frame = [kind |-> kind, params |-> s.params, locals |-> IF kind = "fun" THEN s.locals ELSE <<>>]
  OBVIOUS
<1>2. PICK cs : cs = calls
  OBVIOUS
<1>3. PICK ds : ds = Cons(frame, cs)
  OBVIOUS
<1>4. PICK t : t = [s EXCEPT !.params = Params(words), !.locals = IF kind = "fun" THEN <<>> ELSE @]
  OBVIOUS
<1>5. calls' = ds /\ g' = t
  BY <1>1, <1>2, <1>3, <1>4 DEF Enter, Cons
<1>6. AnySeq(cs) /\ Len(cs) \in Nat
  BY <1>2, SeqFacts DEF Sound
<1>7. /\ AnySeq(ds) /\ Len(ds) = Len(cs) + 1 /\ ds[1] = frame
      /\ \A i \in 1..Len(cs) : ds[i + 1] = cs[i]
  BY <1>3, <1>6, ConsFacts
<1>8. /\ Shaped(t) /\ t.vars = s.vars /\ t.heap = s.heap
      /\ t.locals = IF kind = "fun" THEN <<>> ELSE s.locals
  BY <1>4 DEF Sound, Shaped, Fields
<1>9. frame.locals = IF kind = "fun" THEN s.locals ELSE <<>>
  BY <1>1
<1>10. PICK a : a = [k \in 0..Len(ds) |-> IF k = 0 THEN 0 ELSE k - 1]
  OBVIOUS
<1>11. PICK d : d = [k \in 0..Len(ds) |-> 0]
  OBVIOUS
<1>12. \A k \in 0..Len(cs) : AnySeq(Level(s, cs, k))
  BY <1>2 DEF Sound, LocalsSound
<1>13. ASSUME NEW k \in 0..Len(ds)
       PROVE  \/ Level(t, ds, k) = <<>> /\ (IF kind = "fun" THEN k = 0 ELSE k = 1)
              \/ a[k] \in 0..Len(cs) /\ Level(t, ds, k) = Level(s, cs, a[k])
  <2>1. CASE k = 0
    BY <1>6, <1>8, <1>10, <2>1 DEF Level
  <2>2. CASE k = 1
    <3>1. a[k] = 0 /\ 0 \in 0..Len(cs)
      BY <1>6, <1>10, <2>2
    <3> QED
      BY <1>7, <1>9, <2>2, <3>1 DEF Level
  <2>3. CASE k \notin {0, 1}
    <3>1. k - 1 \in 1..Len(cs) /\ k - 1 \in 0..Len(cs) /\ k = (k - 1) + 1 /\ k - 1 # 0 /\ k # 0
      BY <1>6, <1>7, <2>3
    <3>2. a[k] = k - 1
      BY <1>10, <3>1
    <3>3. ds[k] = cs[k - 1]
      BY <1>7, <3>1
    <3> QED
      BY <3>1, <3>2, <3>3 DEF Level
  <2> QED
    BY <2>1, <2>2, <2>3
<1>14. \A k \in 0..Len(ds) :
          /\ AnySeq(Level(t, ds, k))
          /\ \A i \in 1..Len(Level(t, ds, k)) :
                /\ a[k] \in 0..Len(cs) /\ d[k] \in Nat
                /\ i + d[k] \in 1..Len(Level(s, cs, a[k]))
                /\ Level(t, ds, k)[i] = Level(s, cs, a[k])[i + d[k]]
  <2> TAKE k \in 0..Len(ds)
  <2>1. CASE Level(t, ds, k) = <<>>
    BY <2>1, EmptyIsASeq
  <2>2. CASE a[k] \in 0..Len(cs) /\ Level(t, ds, k) = Level(s, cs, a[k])
    <3>1. d[k] = 0
      BY <1>11
    <3>2. AnySeq(Level(s, cs, a[k]))
      BY <1>12, <2>2
    <3>3. \A i \in 1..Len(Level(t, ds, k)) : i + d[k] = i
      BY <3>1
    <3> QED
      BY <2>2, <3>1, <3>2, <3>3
  <2> QED
    BY <1>13, <2>1, <2>2
<1>15. ASSUME NEW k \in 0..Len(ds), NEW m \in 0..Len(ds), k < m,
              1..Len(Level(t, ds, k)) # {}, 1..Len(Level(t, ds, m)) # {}
       PROVE  a[k] < a[m]
  <2>1. Level(t, ds, k) # <<>> /\ Level(t, ds, m) # <<>>
    BY <1>15, EmptyIsASeq
  <2>2. CASE kind = "fun"
    <3>1. k # 0
      BY <1>8, <2>1, <2>2 DEF Level
    <3> QED
      BY <1>10, <1>15, <3>1
  <2>3. CASE kind # "fun"
    <3>1. 1 \in 0..Len(ds) => Level(t, ds, 1) = <<>>
      BY <1>7, <1>9, <2>3 DEF Level
    <3>2. k # 1 /\ m # 1
      BY <2>1, <3>1
    <3> QED
      BY <1>10, <1>15, <3>2
  <2> QED
    BY <2>2, <2>3
<1>16. Among(t, ds, s, cs, a, d)
  BY <1>14, <1>15, Zenon DEF Among
<1>17. Sound(t, ds)
  <2>1. Sound(s, cs)
    BY <1>2
  <2> QED
    BY <1>7, <1>8, <1>16, <2>1, Relevel
<1> QED
  BY <1>2, <1>5, <1>6, <1>7, <1>17

(* The innermost frame goes, and the locals in it with it; those of a      *)
(* function are in use again.                                              *)
LEMMA LeaveFrame ==
    ASSUME NEW s, NEW cs, Sound(s, cs), cs # <<>>, NEW t, Shaped(t), t.vars = s.vars, t.heap = s.heap,
           t.locals = s.locals \/ (t.locals = Head(cs).locals)
    PROVE  Sound(t, Tail(cs)) /\ Len(Tail(cs)) = Len(cs) - 1
<1>1. PICK ds : ds = Tail(cs)
  OBVIOUS
<1>2. AnySeq(cs)
  BY DEF Sound
<1>3. /\ Len(cs) \in Nat \ {0} /\ AnySeq(ds) /\ Len(ds) = Len(cs) - 1
      /\ \A i \in 1..(Len(cs) - 1) : ds[i] = cs[i + 1]
      /\ Head(cs) = cs[1]
  BY <1>1, <1>2, TailFacts
<1>4. PICK z : z \in 0..1 /\ Level(t, ds, 0) = Level(s, cs, z)
  <2>1. CASE t.locals = s.locals
    BY <2>1 DEF Level
  <2>2. CASE t.locals = Head(cs).locals
    BY <1>3, <2>2 DEF Level
  <2> QED
    BY <2>1, <2>2
<1>5. PICK a : a = [k \in 0..Len(ds) |-> IF k = 0 THEN z ELSE k + 1]
  OBVIOUS
<1>6. PICK d : d = [k \in 0..Len(ds) |-> 0]
  OBVIOUS
<1>7. ASSUME NEW k \in 0..Len(ds)
      PROVE  a[k] \in 0..Len(cs) /\ Level(t, ds, k) = Level(s, cs, a[k])
  <2>1. CASE k = 0
    <3>1. a[k] = z
      BY <1>5, <2>1
    <3> QED
      BY <1>3, <1>4, <2>1, <3>1
  <2>2. CASE k # 0
    <3>1. a[k] = k + 1
      BY <1>5, <2>2
    <3>2. k \in 1..(Len(cs) - 1) /\ k + 1 \in 0..Len(cs) /\ k + 1 # 0
      BY <1>3, <2>2
    <3>3. ds[k] = cs[k + 1]
      BY <1>3, <3>2
    <3> QED
      BY <2>2, <3>1, <3>2, <3>3 DEF Level
  <2> QED
    BY <2>1, <2>2
<1>8. \A k \in 0..Len(ds) :
          /\ AnySeq(Level(t, ds, k))
          /\ \A i \in 1..Len(Level(t, ds, k)) :
                /\ a[k] \in 0..Len(cs) /\ d[k] \in Nat
                /\ i + d[k] \in 1..Len(Level(s, cs, a[k]))
                /\ Level(t, ds, k)[i] = Level(s, cs, a[k])[i + d[k]]
  <2> TAKE k \in 0..Len(ds)
  <2>1. d[k] = 0
    BY <1>6
  <2>2. AnySeq(Level(s, cs, a[k]))
    BY <1>7 DEF Sound, LocalsSound
  <2>3. \A i \in 1..Len(Level(t, ds, k)) : i + d[k] = i
    BY <2>1
  <2> QED
    BY <1>7, <2>1, <2>2, <2>3
<1>9. \A k, m \in 0..Len(ds) :
          k < m /\ 1..Len(Level(t, ds, k)) # {} /\ 1..Len(Level(t, ds, m)) # {} => a[k] < a[m]
  BY <1>3, <1>4, <1>5
<1>10. Among(t, ds, s, cs, a, d)
  BY <1>8, <1>9, Zenon DEF Among
<1> QED
  BY <1>1, <1>3, <1>10, Relevel

LEMMA FunDoneSound ==
    ASSUME Sound(g, calls), FunDone
    PROVE  /\ Sound(g', calls') /\ Len(calls') = Len(calls) - 1
           /\ \E u : Popped(g, u, Len(g.locals)) /\ g'.vars = u.vars
<1>1. PICK u : u = PopLocalVars(g)
  OBVIOUS
<1>2. Popped(g, u, Len(g.locals))
  BY <1>1, PopLocalVarsIs
<1>3. Sound(u, calls)
  BY <1>2 DEF Popped
<1>4. PICK t : t = [u EXCEPT !.locals = Head(calls).locals, !.params = Head(calls).params]
  OBVIOUS
<1>5. Shaped(t) /\ t.vars = u.vars /\ t.heap = u.heap /\ t.locals = Head(calls).locals
  BY <1>3, <1>4 DEF Sound, Shaped, Fields
<1>6. g' = t /\ calls' = Tail(calls) /\ calls # <<>>
  BY <1>1, <1>4 DEF FunDone
<1>7. Sound(t, Tail(calls)) /\ Len(Tail(calls)) = Len(calls) - 1
  BY <1>3, <1>5, <1>6, LeaveFrame
<1> QED
  BY <1>2, <1>5, <1>6, <1>7

LEMMA DotDoneSound ==
    ASSUME Sound(g, calls), DotDone
    PROVE  Sound(g', calls')
<1>1. PICK p : p = Head(calls).params
  OBVIOUS
<1>2. Shaped(g)
  BY DEF Sound
<1>3. Same(g, g')
  <2>1. CASE raising
    BY <1>2, <2>1 DEF DotDone, Same
  <2>2. CASE ~raising
    <3>1. g' = [g EXCEPT !.params = p]
      BY <1>1, <2>2 DEF DotDone
    <3> QED
      BY <1>2, <3>1, SameSteps
  <2> QED
    BY <2>1, <2>2
<1>4. PICK t : t = g'
  OBVIOUS
<1>5. Shaped(t) /\ t.vars = g.vars /\ t.heap = g.heap /\ t.locals = g.locals
  BY <1>3, <1>4 DEF Same
<1>6. calls # <<>> /\ calls' = Tail(calls)
  BY DEF DotDone
<1>7. Sound(t, Tail(calls))
  BY <1>5, <1>6, LeaveFrame
<1> QED
  BY <1>4, <1>6, <1>7

LEMMA CdSound ==
    ASSUME Sound(g, calls), NEW dir, CdCmd(dir)
    PROVE  Sound(g', calls') /\ calls' = calls
<1>1. PICK moved : moved = [g EXCEPT !.cwd = dir]
  OBVIOUS
<1>2. Sound(moved, calls)
  BY <1>1, SameSteps, SoundAgain DEF Sound
<1>3. PICK asked : asked = {"export"}
  OBVIOUS
<1>4. PICK old : old = SetVar(moved, "OLDPWD", <<g.curdir>>, asked)
  OBVIOUS
<1>5. Sound(old, calls)
  BY <1>2, <1>4, SetVarIsSound DEF OnlyVar
<1>6. PICK there : there = [old EXCEPT !.curdir = dir]
  OBVIOUS
<1>7. Sound(there, calls)
  <2>1. Same(old, there)
    BY <1>5, <1>6, SameSteps DEF Sound
  <2> QED
    BY <1>5, <2>1, SoundAgain
<1>8. PICK new : new = SetVar(there, "PWD", <<dir>>, asked)
  OBVIOUS
<1>9. Sound(new, calls)
  BY <1>7, <1>8, SetVarIsSound DEF OnlyVar
<1>10. Sound(HashCd(new), calls)
  <2>1. Same(new, HashCd(new))
    <3>1. PICK tab : tab = [c \in Commands |->
             IF \/ new.cmds[c].type = "normal"
                \/ new.cmds[c].type = "builtin" /\ Builtins[c] # "regular" /\ new.builtinloc > 0
             THEN [new.cmds[c] EXCEPT !.rehash = TRUE] ELSE new.cmds[c]]
      OBVIOUS
    <3>2. HashCd(new) = [new EXCEPT !.cmds = tab]
      BY <3>1, Zenon DEF HashCd
    <3>3. Shaped(new)
      BY <1>9 DEF Sound
    <3>4. Same(new, [new EXCEPT !.cmds = tab])
      BY <3>3, SameSteps
    <3> QED
      BY <3>2, <3>4, Zenon
  <2> QED
    BY <1>9, <2>1, SoundAgain
<1>11. Catches(IF old.failed THEN old ELSE IF new.failed THEN new ELSE HashCd(new))
  BY <1>1, <1>3, <1>4, <1>6, <1>8 DEF CdCmd
<1> QED
  BY <1>5, <1>9, <1>10, <1>11, CatchesSound

(* Commands that only change the table of commands or the parameters.      *)
LEMMA TableSound ==
    ASSUME Sound(g, calls), NEW name,
           \/ \E nofunc : Run(name, nofunc)
           \/ \E path : RunWithPath(name, path)
           \/ TypeCmd(name) \/ HashCmd(name) \/ DefFun(name) \/ UnsetFunc(name)
    PROVE  Sound(g', calls') /\ calls' = calls
<1>1. \A tab : Sound([g EXCEPT !.cmds = tab], calls)
  <2> TAKE tab
  <2>1. Same(g, [g EXCEPT !.cmds = tab])
    BY SameSteps DEF Sound
  <2> QED
    BY <2>1, SoundAgain
<1>2. ASSUME NEW tab, Leaves([g EXCEPT !.cmds = tab])
      PROVE  Sound(g', calls') /\ calls' = calls
  BY <1>1, <1>2, LeavesSound
<1>3. CASE \E nofunc : Run(name, nofunc)
  BY <1>2, <1>3 DEF Run
<1>4. CASE \E path : RunWithPath(name, path)
  BY <1>2, <1>4 DEF RunWithPath
<1>5. CASE TypeCmd(name)
  BY <1>2, <1>5 DEF TypeCmd
<1>6. CASE HashCmd(name)
  <2>1. PICK e : e = NoEntry
    OBVIOUS
  <2>2. PICK s : /\ s = g \/ s = [g EXCEPT !.cmds[name] = e]
                 /\ Leaves([s EXCEPT !.cmds = FindCommand(s, name, PathVal(s), FALSE, FALSE).cmds])
    BY <1>6, <2>1 DEF HashCmd
  <2>3. Same(g, s)
    BY <2>2 DEF Sound, Shaped, Fields, Same
  <2>4. Sound(s, calls)
    BY <2>3, SoundAgain
  <2>5. PICK tab : tab = FindCommand(s, name, PathVal(s), FALSE, FALSE).cmds
    OBVIOUS
  <2>6. Same(s, [s EXCEPT !.cmds = tab])
    BY <2>4, SameSteps DEF Sound
  <2>7. Sound([s EXCEPT !.cmds = tab], calls)
    BY <2>4, <2>6, SoundAgain
  <2> QED
    BY <2>2, <2>5, <2>7, LeavesSound
<1>7. ASSUME NEW e, Leaves([g EXCEPT !.cmds[name] = e])
      PROVE  Sound(g', calls') /\ calls' = calls
  <2>1. Same(g, [g EXCEPT !.cmds[name] = e])
    BY DEF Sound, Shaped, Fields, Same
  <2> QED
    BY <1>7, <2>1, SoundAgain, LeavesSound
<1>8. CASE DefFun(name)
  BY <1>7, <1>8 DEF DefFun
<1>9. CASE UnsetFunc(name)
  BY <1>7, <1>9 DEF UnsetFunc
<1> QED
  BY <1>3, <1>4, <1>5, <1>6, <1>8, <1>9

LEMMA ParamsSound ==
    ASSUME Sound(g, calls), HashForget \/ AllExport \/ ShiftCmd \/ \E words : SetParam(words)
    PROVE  Sound(g', calls') /\ calls' = calls
<1>1. Shaped(g)
  BY DEF Sound
<1>2. ASSUME NEW s, Same(g, s), Leaves(s)
      PROVE  Sound(g', calls') /\ calls' = calls
  BY <1>2, SoundAgain, LeavesSound
<1>3. CASE HashForget
  <2>1. PICK tab : tab = [c \in Commands |->
        IF \/ g.cmds[c].type = "normal" /\ g.cmds[c].index >= 0
           \/ g.cmds[c].type = "builtin" /\ g.builtinloc >= 0
        THEN NoEntry ELSE g.cmds[c]]
    OBVIOUS
  <2>2. ClearCmdEntry(g, 0) = [g EXCEPT !.cmds = tab]
    BY <2>1, Zenon DEF ClearCmdEntry
  <2>3. Same(g, ClearCmdEntry(g, 0))
    <3>1. Same(g, [g EXCEPT !.cmds = tab])
      BY <1>1, SameSteps
    <3> QED
      BY <2>2, <3>1, Zenon
  <2> QED
    BY <1>2, <1>3, <2>3 DEF HashForget
<1>4. CASE AllExport
  <2>1. PICK x : x = (~g.aflag)
    OBVIOUS
  <2>2. Leaves([g EXCEPT !.aflag = x])
    BY <1>4, <2>1 DEF AllExport
  <2>3. Same(g, [g EXCEPT !.aflag = x])
    BY <1>1, SameSteps
  <2> QED
    BY <1>2, <2>2, <2>3
<1>5. ASSUME NEW p PROVE Same(g, [g EXCEPT !.params = p])
  BY <1>1, SameSteps
<1>6. CASE ShiftCmd
  <2>1. Same(g, Fail(g))
    BY <1>1, SameSteps
  <2>2. Same(g, [g EXCEPT !.params = Params(Tail(g.params.p))])
    BY <1>5
  <2> QED
    BY <1>2, <1>6, <2>1, <2>2 DEF ShiftCmd
<1>7. CASE \E words : SetParam(words)
  BY <1>2, <1>5, <1>7 DEF SetParam
<1> QED
  BY <1>3, <1>4, <1>6, <1>7

(* Commands that set one variable.                                         *)
LEMMA VariableSound ==
    ASSUME Sound(g, calls), NEW n \in Names,
           Assign(n) \/ AssignForBuiltin(n) \/ LocalCmd(n) \/ UnsetCmd(n) \/ GetoptsCommand(n)
    PROVE  Sound(g', calls') /\ calls' = calls
<1>1. ASSUME NEW v, NEW asked, Leaves(SetVarEq(g, n, v, asked))
      PROVE  Sound(g', calls') /\ calls' = calls
  <2>1. Sound(SetVarEq(g, n, v, asked), calls)
    BY SetVarEqIsSound DEF OnlyVar
  <2> QED
    BY <1>1, <2>1, LeavesSound
<1>2. CASE Assign(n)
  BY <1>1, <1>2 DEF Assign
<1>3. CASE AssignForBuiltin(n)
  BY <1>1, <1>3 DEF AssignForBuiltin
<1>4. CASE LocalCmd(n)
  BY <1>4, MkLocalIsSound, CatchesSound DEF LocalCmd
<1>5. CASE UnsetCmd(n)
  <2>1. Sound(UnsetVar(g, n).s, calls)
    BY UnsetVarIs DEF OnlyVar
  <2> QED
    BY <1>5, <2>1, LeavesSound DEF UnsetCmd
<1>6. CASE GetoptsCommand(n)
  BY <1>6, GetoptsIsSound, CatchesSound DEF GetoptsCommand
<1> QED
  BY <1>2, <1>3, <1>4, <1>5, <1>6

LEMMA ExportSound ==
    ASSUME Sound(g, calls), NEW n \in Names, NEW flag, ExportCmd(n, flag)
    PROVE  Sound(g', calls') /\ calls' = calls
<1>1. ASSUME NEW v, Leaves(SetVar(g, n, v, {flag}))
      PROVE  Sound(g', calls') /\ calls' = calls
  <2>1. Sound(SetVar(g, n, v, {flag}), calls)
    BY SetVarIsSound DEF OnlyVar
  <2> QED
    BY <1>1, <2>1, LeavesSound
<1>2. CASE \E v \in ValuesOf(n) : Leaves(SetVar(g, n, v, {flag}))
  BY <1>1, <1>2
<1>3. CASE ~g.vars[n].there /\ Leaves(SetVar(g, n, Unset, {flag}))
  BY <1>1, <1>3
<1>4. CASE g.vars[n].there /\ Leaves([g EXCEPT !.vars[n].flags = @ \cup {flag}])
  <2>1. PICK v : v = g.vars[n]
    OBVIOUS
  <2>2. PICK G : G = v.flags \cup {flag}
    OBVIOUS
  <2>3. PICK w : w = [g.vars[n] EXCEPT !.flags = G]
    OBVIOUS
  <2>4. PICK t : t = [g EXCEPT !.vars[n].flags = G]
    OBVIOUS
  <2>5. Leaves(t)
    BY <1>4, <2>1, <2>2, <2>4
  <2>6. VarRecord(w)
    BY <1>4, <2>3, FlagsRecord
  <2>7. w.there
    BY <1>4, <2>3, FlagsRecord
  <2>8. w.there \in BOOLEAN
    BY <1>4, <2>3, FlagsRecord
  <2>9. w.flags = G /\ w.text = v.text
    BY <1>4, <2>1, <2>3, FlagsRecord
  <2>10. Shaped(t) /\ t.locals = g.locals /\ t.heap = g.heap
    <3>1. Shaped([g EXCEPT !.vars[n].flags = G])
      BY <1>4, <2>3, FlagsRecord
    <3>2. [g EXCEPT !.vars[n].flags = G].locals = g.locals
      BY <1>4, <2>3, FlagsRecord
    <3>3. [g EXCEPT !.vars[n].flags = G].heap = g.heap
      BY <1>4, <2>3, FlagsRecord
    <3> QED
      BY <2>4, <3>1, <3>2, <3>3
  <2>11. t.vars = [g.vars EXCEPT ![n] = w]
    BY <1>4, <2>3, <2>4, FlagsRecord
  <2>12. v.flags \cap {"textfixed", "stack"} # {} => w.flags \cap {"textfixed", "stack"} # {}
    BY <2>2, <2>9
  <2>13. "readonly" \in v.flags => "readonly" \in w.flags
    BY <2>2, <2>9
  <2>14. Sound(t, calls)
    BY <2>1, <2>6, <2>7, <2>8, <2>9, <2>10, <2>11, <2>12, <2>13, FlagsSound
  <2> QED
    BY <2>5, <2>14, LeavesSound
<1>5. \/ \E v \in ValuesOf(n) : Leaves(SetVar(g, n, v, {flag}))
      \/ Leaves(IF g.vars[n].there THEN [g EXCEPT !.vars[n].flags = @ \cup {flag}]
                ELSE SetVar(g, n, Unset, {flag}))
  BY DEF ExportCmd
<1> QED
  BY <1>2, <1>3, <1>4, <1>5

LEMMA CallSound ==
    ASSUME Sound(g, calls), NEW n \in Names, NEW words,
           EvalFunWith(n, words) \/ EvalFun(words) \/ DotCmd(words)
    PROVE  Sound(g', calls') /\ (calls' = calls \/ Len(calls') = Len(calls) + 1)
<1>1. ASSUME NEW kind, NEW s, Sound(s, calls), Enter(kind, s, words)
      PROVE  Sound(g', calls') /\ (calls' = calls \/ Len(calls') = Len(calls) + 1)
  BY <1>1, EnterSound
<1>2. CASE EvalFunWith(n, words)
  <2>1. PICK v : IF SetVarEq(g, n, v, {}).failed THEN Leaves(SetVarEq(g, n, v, {}))
                 ELSE Enter("fun", SetVarEq(g, n, v, {}), words)
    BY <1>2 DEF EvalFunWith
  <2>2. PICK s : s = SetVarEq(g, n, v, {})
    OBVIOUS
  <2>3. Sound(s, calls)
    BY <2>2, SetVarEqIsSound DEF OnlyVar
  <2>4. CASE Leaves(s)
    BY <2>3, <2>4, LeavesSound
  <2>5. CASE Enter("fun", s, words)
    BY <1>1, <2>3, <2>5
  <2> QED
    BY <2>1, <2>2, <2>4, <2>5
<1>3. CASE EvalFun(words)
  BY <1>1, <1>3 DEF EvalFun
<1>4. CASE DotCmd(words)
  BY <1>1, <1>4 DEF DotCmd
<1> QED
  BY <1>2, <1>3, <1>4

-----------------------------------------------------------------------------
(***************************************************************************)
(* The invariant.                                                          *)
(***************************************************************************)
Inv == Sound(g, calls) /\ group \in DOMAIN Groups

LEMMA InitInv == Init => Inv
<1> SUFFICES ASSUME Init
             PROVE  Sound(g, calls)
  BY DEF Init, Inv
<1>0. calls = <<>>
  BY DEF Init
<1>1. PICK path : path = CHOOSE p \in Paths : TRUE
  OBVIOUS
<1>2. PICK first : first = [there |-> TRUE, flags |-> {"strfixed", "textfixed"}, text |-> [val |-> path, block |-> NoBlock]]
  OBVIOUS
<1>3. PICK second : second = [there |-> TRUE, flags |-> {"strfixed", "textfixed"}, text |-> [val |-> Number(1), block |-> NoBlock]]
  OBVIOUS
<1>4. PICK none : none = NoVar
  OBVIOUS
<1>5. PICK table : table = [n \in Names |-> IF n = "PATH" THEN first ELSE IF n = "OPTIND" THEN second ELSE none]
  OBVIOUS
<1>6. PICK no : no = FALSE
  OBVIOUS
<1>7. PICK cmds : cmds = [c \in Commands |-> NoEntry]
  OBVIOUS
<1>8. PICK params : params = Params(<<>>)
  OBVIOUS
<1>9. g = [vars |-> table, heap |-> {}, locals |-> <<>>, aflag |-> no, failed |-> no, optfail |-> no,
           params |-> params, cmds |-> cmds, builtinloc |-> -1, cwd |-> "/a", curdir |-> "/a"]
  BY <1>1, <1>2, <1>3, <1>4, <1>5, <1>6, <1>7, <1>8, Zenon DEF Init
<1>10. Shaped(g) /\ g.vars = table /\ g.heap = {} /\ g.locals = <<>>
  BY <1>9 DEF Shaped, Fields
<1>11. Variable(first, "PATH", {})
  <2>1. VarRecord(first)
    BY <1>2, Zenon DEF VarRecord
  <2>2. PICK text : text = [val |-> path, block |-> NoBlock]
    OBVIOUS
  <2>3. /\ first.there \in BOOLEAN /\ first.there /\ first.text.block = NoBlock
    <3>1. first = [there |-> TRUE, flags |-> {"strfixed", "textfixed"}, text |-> text]
      BY <1>2, <2>2
    <3> QED
      BY <2>2, <3>1, NewVariable
  <2> QED
    BY <2>1, <2>3 DEF Variable, Lives, BlocksOf
<1>12. Variable(second, "OPTIND", {})
  <2>1. VarRecord(second)
    BY <1>3, Zenon DEF VarRecord
  <2>2. PICK text : text = [val |-> Number(1), block |-> NoBlock]
    OBVIOUS
  <2>3. /\ second.there \in BOOLEAN /\ second.there /\ second.text.block = NoBlock
    <3>1. second = [there |-> TRUE, flags |-> {"strfixed", "textfixed"}, text |-> text]
      BY <1>3, <2>2
    <3> QED
      BY <2>2, <3>1, NewVariable
  <2> QED
    BY <2>1, <2>3 DEF Variable, Lives, BlocksOf
<1>13. ASSUME NEW n \in Names PROVE Variable(none, n, {})
  <2>1. ~none.there /\ none.text.block = NoBlock /\ none.there \in BOOLEAN /\ VarRecord(none)
    BY <1>4 DEF NoVar, VarRecord
  <2> QED
    BY <1>4, <2>1 DEF Variable, Lives, BlocksOf
<1>14. VarsSound(g)
  <2>1. \A n \in Names : Variable(table[n], n, {})
    BY <1>5, <1>11, <1>12, <1>13
  <2>2. table = [n \in Names |-> table[n]]
    BY <1>5
  <2> QED
    BY <1>10, <2>1, <2>2 DEF VarsSound
<1>15. \A k \in 0..Len(calls) : Level(g, calls, k) = <<>>
  BY <1>0, <1>10, EmptyIsASeq DEF Level
<1>16. LocalsSound(g, calls) /\ ChainSound(g, calls)
  BY <1>15, EmptyIsASeq DEF LocalsSound, ChainSound
<1>17. IsFiniteSet(g.heap)
  BY <1>10, FS_EmptySet
<1> QED
  BY <1>0, <1>10, <1>14, <1>16, <1>17, EmptyIsASeq DEF Sound

\* What a command or the end of a function does to the frames.
Steps ==
    /\ Sound(g', calls')
    /\ \/ calls' = calls
       \/ Len(calls') = Len(calls) + 1
       \/ Head(calls).kind # "fun"
       \/ \E u : Popped(g, u, Len(g.locals)) /\ g'.vars = u.vars

LEMMA NextSteps ==
    ASSUME Inv, Next
    PROVE  Steps
<1>0. Sound(g, calls) /\ Uses[group] \subseteq Names
  BY DEF Inv
<1>1. ASSUME Sound(g', calls') /\ calls' = calls PROVE Steps
  BY <1>1 DEF Steps
<1>2. ASSUME Sound(g', calls') /\ (calls' = calls \/ Len(calls') = Len(calls) + 1) PROVE Steps
  BY <1>2 DEF Steps
<1>3. ASSUME NEW n \in Uses[group],
             \/ Assign(n) \/ AssignForBuiltin(n) \/ LocalCmd(n)
             \/ \E w \in ArgLists[group] : EvalFunWith(n, w)
      PROVE  Steps
  <2>1. n \in Names
    BY <1>0
  <2>2. CASE Assign(n) \/ AssignForBuiltin(n) \/ LocalCmd(n)
    BY <1>0, <1>1, <2>1, <2>2, VariableSound
  <2>3. CASE \E w \in ArgLists[group] : EvalFunWith(n, w)
    BY <1>0, <1>2, <2>1, <2>3, CallSound
  <2> QED
    BY <1>3, <2>2, <2>3
<1>4. ASSUME NEW n \in Uses[group] \cap Ordinary, ExportCmd(n, "export") \/ ExportCmd(n, "readonly") \/ UnsetCmd(n)
      PROVE  Steps
  <2>1. n \in Names
    BY <1>0
  <2>2. CASE UnsetCmd(n)
    BY <1>0, <1>1, <2>1, <2>2, VariableSound
  <2>3. CASE ExportCmd(n, "export") \/ ExportCmd(n, "readonly")
    BY <1>0, <1>1, <2>1, <2>3, ExportSound
  <2> QED
    BY <1>4, <2>2, <2>3
<1>5. ASSUME NEW n \in OptVars, GetoptsCommand(n)
      PROVE  Steps
  <2>1. n \in Names
    OBVIOUS
  <2> QED
    BY <1>0, <1>1, <1>5, <2>1, VariableSound
<1>6. ASSUME NEW w, EvalFun(w) \/ DotCmd(w)
      PROVE  Steps
  <2>1. "PATH" \in Names
    OBVIOUS
  <2> QED
    BY <1>0, <1>2, <1>6, <2>1, CallSound
<1>7. ASSUME HashForget \/ AllExport \/ ShiftCmd \/ \E w : SetParam(w)
      PROVE  Steps
  BY <1>0, <1>1, <1>7, ParamsSound
<1>8. ASSUME FunDone
      PROVE  Steps
  BY <1>0, <1>8, FunDoneSound DEF Steps
<1>9. ASSUME DotDone
      PROVE  Steps
  <2>1. Head(calls).kind # "fun"
    BY <1>9 DEF DotDone
  <2> QED
    BY <1>0, <1>9, <2>1, DotDoneSound DEF Steps
<1>10. ASSUME NEW c, \/ Run(c, TRUE) \/ Run(c, FALSE) \/ TypeCmd(c) \/ HashCmd(c)
                     \/ DefFun(c) \/ UnsetFunc(c) \/ \E p : RunWithPath(c, p)
       PROVE  Steps
  <2>1. CASE Run(c, TRUE) \/ Run(c, FALSE)
    BY <1>0, <1>1, <2>1, TableSound
  <2>2. CASE \/ TypeCmd(c) \/ HashCmd(c) \/ DefFun(c) \/ UnsetFunc(c) \/ \E p : RunWithPath(c, p)
    BY <1>0, <1>1, <2>2, TableSound
  <2> QED
    BY <1>10, <2>1, <2>2
<1>11. ASSUME NEW d, CdCmd(d)
       PROVE  Steps
  BY <1>0, <1>1, <1>11, CdSound
<1> QED
  BY <1>3, <1>4, <1>5, <1>6, <1>7, <1>8, <1>9, <1>10, <1>11, Zenon DEF Next

LEMMA NextInv == Inv /\ [Next]_vars => Inv'
<1> SUFFICES ASSUME Inv, [Next]_vars
             PROVE  Inv'
  OBVIOUS
<1>1. CASE Next
  <2>1. Sound(g', calls')
    BY <1>1, NextSteps DEF Steps
  <2>2. group' = group
    BY <1>1 DEF Next, Assign, AssignForBuiltin, LocalCmd, EvalFunWith, ExportCmd, UnsetCmd, GetoptsCommand,
                EvalFun, DotCmd, SetParam, AllExport, FunDone, DotDone, ShiftCmd, HashForget, Run, RunWithPath,
                TypeCmd, HashCmd, DefFun, UnsetFunc, CdCmd, Catches, Leaves, Enter
  <2> QED
    BY <2>1, <2>2 DEF Inv
<1>2. CASE UNCHANGED vars
  BY <1>2 DEF vars, Inv
<1> QED
  BY <1>1, <1>2

LEMMA InvHolds == Spec => []Inv
<1> QED
  BY InitInv, NextInv, PTL DEF Spec

-----------------------------------------------------------------------------
(***************************************************************************)
(* What the invariant implies.                                             *)
(***************************************************************************)
\* A text in use is that of a variable, or that of a local.
LEMMA HolderOf ==
    ASSUME Sound(g, calls), NEW t \in TextsOf(g)
    PROVE  \/ \E n \in Names : t = g.vars[n].text
           \/ \E k \in 0..Len(calls) : \E i \in 1..Len(Level(g, calls, k)) : t = Level(g, calls, k)[i].text
<1>1. CASE \E n \in Names : t = g.vars[n].text
  BY <1>1
<1>2. CASE \E l \in {g.locals} \cup {calls[k].locals : k \in DOMAIN calls} : \E i \in DOMAIN l : t = l[i].text
  <2>1. PICK k \in 0..Len(calls) : \E i \in DOMAIN Level(g, calls, k) : t = Level(g, calls, k)[i].text
    <3>1. DOMAIN calls = 1..Len(calls) /\ Len(calls) \in Nat
      BY SeqFacts DEF Sound
    <3> QED
      BY <1>2, <3>1 DEF Level
  <2>2. DOMAIN Level(g, calls, k) = 1..Len(Level(g, calls, k))
    BY SeqFacts DEF Sound, LocalsSound
  <2> QED
    BY <2>1, <2>2
<1> QED
  BY <1>1, <1>2 DEF TextsOf

LEMMA TextsAreAlive ==
    ASSUME Sound(g, calls)
    PROVE  TextsAlive
<1>1. \A n \in Names : Lives(g.vars[n].text, n, g.heap)
  BY DEF Sound, VarsSound, Variable
<1>2. \A k \in 0..Len(calls) : \A i \in 1..Len(Level(g, calls, k)) :
          /\ Level(g, calls, k)[i].name \in Names
          /\ Lives(Level(g, calls, k)[i].text, Level(g, calls, k)[i].name, g.heap)
          /\ Above(g.vars[Level(g, calls, k)[i].name], Level(g, calls, k)[i])
  BY DEF Sound, LocalsSound, Local
<1>3. ASSUME NEW t \in TextsOf(g)
      PROVE  t.block = NoBlock \/ t.block \in g.heap
  BY <1>1, <1>2, HolderOf DEF Lives
\* The text of a local and another text in the same block.
<1>4. ASSUME NEW n \in Names, NEW k \in 0..Len(calls), NEW i \in 1..Len(Level(g, calls, k)), NEW h,
             h = Level(g, calls, k)[i], g.vars[n].text.block = h.text.block, h.text.block # NoBlock
      PROVE  g.vars[n].text = h.text
  <2>1. n = h.name
    BY <1>1, <1>2, <1>4, NamesApart DEF Lives
  <2> QED
    BY <1>2, <1>4, <2>1 DEF Above
<1> DEFINE Saved(l) == \E k \in 0..Len(calls) : \E i \in 1..Len(Level(g, calls, k)) : l = Level(g, calls, k)[i]
<1>5. ASSUME NEW l, Saved(l), NEW h, Saved(h), l.text.block = h.text.block, h.text.block # NoBlock
      PROVE  l.text = h.text
  <2>1. PICK k \in 0..Len(calls) : \E i \in 1..Len(Level(g, calls, k)) : l = Level(g, calls, k)[i]
    BY <1>5
  <2>2. PICK i \in 1..Len(Level(g, calls, k)) : l = Level(g, calls, k)[i]
    BY <2>1
  <2>3. PICK m \in 0..Len(calls) : \E j \in 1..Len(Level(g, calls, m)) : h = Level(g, calls, m)[j]
    BY <1>5
  <2>4. PICK j \in 1..Len(Level(g, calls, m)) : h = Level(g, calls, m)[j]
    BY <2>3
  <2> HIDE DEF Saved
  <2>5. l.name = h.name
    BY <1>2, <1>5, <2>2, <2>4, NamesApart DEF Lives
  <2>6. Len(Level(g, calls, k)) \in Nat /\ Len(Level(g, calls, m)) \in Nat
    BY SeqFacts DEF Sound, LocalsSound
  <2>7. InnerTo(k, i, m, j) \/ InnerTo(m, j, k, i) \/ (k = m /\ i = j)
    BY <2>6 DEF InnerTo
  <2>8. CASE InnerTo(k, i, m, j)
    <3>1. Above(l, h)
      BY <2>2, <2>4, <2>5, <2>8 DEF Sound, ChainSound
    <3> QED
      BY <1>5, <3>1 DEF Above
  <2>9. CASE InnerTo(m, j, k, i)
    <3>1. Above(h, l)
      BY <2>2, <2>4, <2>5, <2>9 DEF Sound, ChainSound
    <3> QED
      BY <1>5, <3>1 DEF Above
  <2> QED
    BY <2>2, <2>4, <2>7, <2>8, <2>9
<1>6. ASSUME NEW n \in Names, NEW m \in Names, g.vars[n].text.block = g.vars[m].text.block,
             g.vars[n].text.block # NoBlock
      PROVE  g.vars[n].text = g.vars[m].text
  BY <1>1, <1>6, NamesApart DEF Lives
<1>7. ASSUME NEW t \in TextsOf(g), NEW u \in TextsOf(g), t.block = u.block, t.block # NoBlock
      PROVE  t = u
  <2>1. CASE \E n \in Names : t = g.vars[n].text
    <3>1. CASE \E n \in Names : u = g.vars[n].text
      BY <1>6, <1>7, <2>1, <3>1
    <3>2. CASE \E k \in 0..Len(calls) : \E i \in 1..Len(Level(g, calls, k)) : u = Level(g, calls, k)[i].text
      BY <1>4, <1>7, <2>1, <3>2
    <3> QED
      BY <3>1, <3>2, HolderOf
  <2>2. CASE \E k \in 0..Len(calls) : \E i \in 1..Len(Level(g, calls, k)) : t = Level(g, calls, k)[i].text
    <3>1. CASE \E n \in Names : u = g.vars[n].text
      BY <1>4, <1>7, <2>2, <3>1
    <3>2. CASE \E k \in 0..Len(calls) : \E i \in 1..Len(Level(g, calls, k)) : u = Level(g, calls, k)[i].text
      <4>1. PICK l : Saved(l) /\ t = l.text
        BY <2>2
      <4>2. PICK h : Saved(h) /\ u = h.text
        BY <3>2
      <4> HIDE DEF Saved
      <4> QED
        BY <1>5, <1>7, <4>1, <4>2
    <3> QED
      BY <3>1, <3>2, HolderOf
  <2> QED
    BY <2>1, <2>2, HolderOf
<1> QED
  BY <1>3, <1>7 DEF TextsAlive

-----------------------------------------------------------------------------
(***************************************************************************)
(* The theorems.                                                           *)
(***************************************************************************)
(* No text of a variable or of a saved local was freed, and no two of them *)
(* share a block unless they are the same text: what VTEXTFIXED is for in  *)
(* mklocal, setvareq, unsetvar and poplocalvars.                           *)
THEOREM TextsStayAlive == Spec => []TextsAlive
<1>1. Inv => TextsAlive
  BY TextsAreAlive DEF Inv
<1> QED
  BY InvHolds, <1>1, PTL

(* A function gives back what it declared local, however it ends and       *)
(* whatever it, the functions it calls and the files it sources do.        *)
THEOREM CallsRestore == Spec => CallRestores
<1>1. ASSUME Inv, Next, Len(calls') < Len(calls), Head(calls).kind = "fun"
      PROVE  \A i \in DOMAIN g.locals :
                 (\A j \in (i + 1)..Len(g.locals) : g.locals[j].name # g.locals[i].name)
                 => \/ LookupVar(g', g.locals[i].name) = g.locals[i].was
                    \/ "unset" \in g.locals[i].flags /\ "readonly" \in g.vars[g.locals[i].name].flags
  <2>1. Steps /\ Sound(g, calls)
    BY <1>1, NextSteps DEF Inv
  <2>2. Len(calls) \in Nat
    BY <2>1, SeqFacts DEF Sound
  <2>3. PICK u : Popped(g, u, Len(g.locals)) /\ g'.vars = u.vars
    <3>1. calls' # calls
      BY <1>1, <2>2
    <3>2. Len(calls') # Len(calls) + 1
      BY <1>1, <2>2
    <3> QED
      BY <1>1, <2>1, <3>1, <3>2 DEF Steps
  <2>4. DOMAIN g.locals = 1..Len(g.locals)
    <3>1. 0 \in 0..Len(calls) /\ Level(g, calls, 0) = g.locals
      BY <2>2 DEF Level
    <3>2. AnySeq(g.locals)
      BY <2>1, <3>1 DEF Sound, LocalsSound
    <3> QED
      BY <3>2, SeqFacts
  <2>5. \A i \in 1..Len(g.locals) :
           (\A j \in (i + 1)..Len(g.locals) : g.locals[j].name # g.locals[i].name)
           => GivenBack(g, u, g.locals[i])
    BY <2>3 DEF Popped
  <2> QED
    BY <2>3, <2>4, <2>5 DEF GivenBack, LookupVar
<1>2. Inv /\ Next => Restored
  BY <1>1 DEF Restored
<1>3. Inv /\ UNCHANGED vars => Restored
  <2> SUFFICES ASSUME Sound(g, calls), calls' = calls
               PROVE  ~(Len(calls') < Len(calls))
    BY DEF Inv, vars, Restored
  <2>1. Len(calls) \in Nat
    BY SeqFacts DEF Sound
  <2> QED
    BY <2>1
<1>4. Inv /\ [Next]_vars => [Restored]_vars
  BY <1>2, <1>3
<1> QED
  BY <1>4, InvHolds, PTL DEF Spec, CallRestores

-----------------------------------------------------------------------------
(***************************************************************************)
(* Writes of the variables.                                                *)
(***************************************************************************)
Put(s, b, n, w) == [s EXCEPT !.heap = @ \cup {b}, !.vars[n] = w]
PutVar(s, n, w) == [s EXCEPT !.vars[n] = w]
PutFlags(s, n, w) == [s EXCEPT !.vars[n].flags = w]
PutLocals(s, l) == [s EXCEPT !.locals = l]

\* A variable of t has other flags than in s.
OnlyFlags(s, t, n, G) ==
    /\ Sound(t, calls) /\ t.locals = s.locals
    /\ t.vars[n].there /\ t.vars[n].flags = G /\ t.vars[n].text = s.vars[n].text
    /\ \A m \in Names : m # n => t.vars[m] = s.vars[m]

LEMMA FlagsAdded ==
    ASSUME NEW s, Sound(s, calls), NEW n \in Names, s.vars[n].there, NEW G, s.vars[n].flags \subseteq G,
           NEW t, t = [s EXCEPT !.vars[n].flags = G]
    PROVE  OnlyFlags(s, t, n, G)
<1> HIDE NamesAssumption
<1>1. PICK v : v = s.vars[n]
  OBVIOUS
<1>2. PICK w : w = [s.vars[n] EXCEPT !.flags = G]
  OBVIOUS
<1>3. VarRecord(w)
  BY <1>2, FlagsRecord
<1>4. w.there
  BY <1>2, FlagsRecord
<1>5. w.there \in BOOLEAN
  BY <1>2, FlagsRecord
<1>6. w.flags = G /\ w.text = v.text
  BY <1>1, <1>2, FlagsRecord
<1>7. Shaped(t) /\ t.locals = s.locals /\ t.heap = s.heap
  <2>1. Shaped([s EXCEPT !.vars[n].flags = G])
    BY <1>2, FlagsRecord
  <2>2. [s EXCEPT !.vars[n].flags = G].locals = s.locals
    BY <1>2, FlagsRecord
  <2>3. [s EXCEPT !.vars[n].flags = G].heap = s.heap
    BY <1>2, FlagsRecord
  <2> QED
    BY <2>1, <2>2, <2>3
<1>8. t.vars = [s.vars EXCEPT ![n] = w]
  BY <1>2, FlagsRecord
<1>9. v.flags \cap {"textfixed", "stack"} # {} => w.flags \cap {"textfixed", "stack"} # {}
  BY <1>1, <1>6
<1>10. "readonly" \in v.flags => "readonly" \in w.flags
  BY <1>1, <1>6
<1>11. Sound(t, calls)
  BY <1>1, <1>3, <1>4, <1>5, <1>6, <1>7, <1>8, <1>9, <1>10, FlagsSound, ZenonT(40)
<1>12. s.vars = [m \in Names |-> s.vars[m]]
  BY DEF Sound, VarsSound
<1>13. t.vars[n] = w /\ \A m \in Names : m # n => t.vars[m] = s.vars[m]
  BY <1>8, <1>12
<1> QED
  BY <1>1, <1>4, <1>6, <1>7, <1>11, <1>13 DEF OnlyFlags

-----------------------------------------------------------------------------
(***************************************************************************)
(* getopts: what it should report.                                         *)
(***************************************************************************)
\* All strings: the provers do not know that these three are some.
Letters == STRING \cup {"?", ":", "*unset*"}
Texts == Seq(Letters)
Reports == Letters \X Texts
Places(words) == (1..(Len(words) + 1)) \X Nat

LEMMA ThereTypes ==
    ASSUME NEW words \in Seq(Texts), NEW i \in 1..Len(words), NEW k \in Nat, k # 0, k < Len(words[i])
    PROVE  /\ OptionThere(words, i, k).report \in Reports
           /\ \/ OptionThere(words, i, k).next \in {<<i, k + 1>>, <<i + 1, 0>>}
              \/ (OptionThere(words, i, k).next = <<i + 2, 0>> /\ i < Len(words))
<1> DEFINE c == words[i][k + 1]
           q == {j \in 1..Len(OptString) : OptString[j] = c /\ c # ":"}
           arg == \E j \in q : j < Len(OptString) /\ OptString[j + 1] = ":"
           rest == Drop(words[i], k + 1)
           silent == Head(OptString) = ":"
           none == IF silent THEN <<c>> ELSE Unset
           there == OptionThere(words, i, k)
<1>1. /\ Len(words) \in Nat /\ words[i] \in Seq(Letters) /\ Len(words[i]) \in Nat
      /\ k + 1 \in 1..Len(words[i])
  BY DEF Texts
<1>2. c \in Letters
  BY <1>1
<1>3. rest \in Texts
  BY <1>1 DEF Drop, Texts
<1>4. none \in Texts /\ <<>> \in Texts
  <2>1. "*unset*" \in Letters
    BY DEF Letters
  <2>2. <<c>> \in Seq(Letters) /\ <<"*unset*">> \in Seq(Letters) /\ <<>> \in Seq(Letters)
    BY <1>2, <2>1
  <2> QED
    BY <2>2 DEF Unset, Texts
<1>5. i # Len(words) => i < Len(words) /\ words[i + 1] \in Texts
  <2>1. i # Len(words) => i < Len(words) /\ i + 1 \in 1..Len(words)
    BY <1>1
  <2> QED
    BY <2>1
<1> HIDE DEF c, q, arg, rest, silent, none
<1>6. there = IF q = {} THEN [report |-> <<"?", none>>, next |-> <<i, k + 1>>]
              ELSE IF ~arg THEN [report |-> <<c, <<>>>>, next |-> <<i, k + 1>>]
              ELSE IF rest # <<>> THEN [report |-> <<c, rest>>, next |-> <<i + 1, 0>>]
              ELSE IF i = Len(words)
                   THEN [report |-> <<IF silent THEN ":" ELSE "?", none>>, next |-> <<i + 1, 0>>]
              ELSE [report |-> <<c, words[i + 1]>>, next |-> <<i + 2, 0>>]
  BY DEF OptionThere, c, q, arg, rest, silent, none
<1> HIDE DEF there
<1>7. \E letter \in Letters, value \in Texts : \E place :
          /\ there = [report |-> <<letter, value>>, next |-> place]
          /\ \/ place \in {<<i, k + 1>>, <<i + 1, 0>>}
             \/ (place = <<i + 2, 0>> /\ i < Len(words))
  <2>1. CASE q = {}
    <3>1. there = [report |-> <<"?", none>>, next |-> <<i, k + 1>>] /\ "?" \in Letters
      BY <1>6, <2>1 DEF Letters
    <3> QED
      BY <1>4, <3>1
  <2>2. CASE q # {} /\ ~arg
    BY <1>2, <1>4, <1>6, <2>2
  <2>3. CASE q # {} /\ arg /\ rest # <<>>
    BY <1>2, <1>3, <1>6, <2>3
  <2>4. CASE q # {} /\ arg /\ rest = <<>> /\ i = Len(words)
    <3>1. PICK letter : letter = (IF silent THEN ":" ELSE "?")
      OBVIOUS
    <3>2. letter \in Letters
      BY <3>1 DEF Letters
    <3>3. there = [report |-> <<letter, none>>, next |-> <<i + 1, 0>>]
      BY <1>6, <2>4, <3>1
    <3> QED
      BY <1>4, <3>2, <3>3
  <2>5. CASE q # {} /\ arg /\ rest = <<>> /\ i # Len(words)
    BY <1>2, <1>5, <1>6, <2>5
  <2> QED
    BY <2>1, <2>2, <2>3, <2>4, <2>5
<1> QED
  BY <1>7 DEF there, Reports

\* What is reported from a place on, if f says it of the later ones.
Answer(words, f, i, k) ==
    IF i > Len(words) THEN <<>>
    ELSE IF k = 0
         THEN IF ~IsOptionWord(words[i]) \/ words[i] = <<"-", "-">> THEN <<>> ELSE f[<<i, 1>>]
    ELSE IF k >= Len(words[i]) THEN f[<<i + 1, 0>>]
    ELSE <<OptionThere(words, i, k).report>> \o f[OptionThere(words, i, k).next]

Answers(words) == [Places(words) -> Seq(Reports)]

LEMMA AnswerTypes ==
    ASSUME NEW words \in Seq(Texts), NEW f, NEW i \in 1..(Len(words) + 1), NEW k \in Nat,
           i <= Len(words) => f[<<i, k + 1>>] \in Seq(Reports) /\ f[<<i + 1, 0>>] \in Seq(Reports),
           i < Len(words) => f[<<i + 2, 0>>] \in Seq(Reports)
    PROVE  Answer(words, f, i, k) \in Seq(Reports)
<1>1. Len(words) \in Nat
  OBVIOUS
<1>2. CASE i > Len(words)
  BY <1>2 DEF Answer
<1>3. CASE i <= Len(words) /\ k = 0
  <2>1. f[<<i, 1>>] \in Seq(Reports) /\ ~(i > Len(words))
    BY <1>1, <1>3
  <2> QED
    BY <1>3, <2>1 DEF Answer
<1>4. CASE i <= Len(words) /\ k # 0 /\ k >= Len(words[i])
  BY <1>1, <1>4 DEF Answer
<1>5. CASE i <= Len(words) /\ k # 0 /\ ~(k >= Len(words[i]))
  <2>1. i \in 1..Len(words) /\ ~(i > Len(words))
    BY <1>1, <1>5
  <2>2. k < Len(words[i])
    <3>1. words[i] \in Seq(Letters)
      BY <2>1 DEF Texts
    <3> QED
      BY <1>5, <3>1
  <2>3. PICK there : there = OptionThere(words, i, k)
    OBVIOUS
  <2>4. /\ there.report \in Reports
        /\ \/ there.next \in {<<i, k + 1>>, <<i + 1, 0>>}
           \/ (there.next = <<i + 2, 0>> /\ i < Len(words))
    BY <1>5, <2>1, <2>2, <2>3, ThereTypes
  <2>5. f[there.next] \in Seq(Reports)
    BY <1>5, <2>4
  <2>6. Answer(words, f, i, k) = <<there.report>> \o f[there.next]
    BY <1>5, <2>1, <2>3 DEF Answer
  <2> QED
    BY <2>4, <2>5, <2>6
<1> QED
  BY <1>1, <1>2, <1>3, <1>4, <1>5

\* It depends on the next letter and on the words behind only.
LEMMA AnswerSame ==
    ASSUME NEW words \in Seq(Texts), NEW f, NEW h, NEW i \in 1..(Len(words) + 1), NEW k \in Nat,
           i <= Len(words) => /\ f[<<i, k + 1>>] = h[<<i, k + 1>>]
                              /\ f[<<i + 1, 0>>] = h[<<i + 1, 0>>],
           i < Len(words) => f[<<i + 2, 0>>] = h[<<i + 2, 0>>]
    PROVE  Answer(words, f, i, k) = Answer(words, h, i, k)
<1>1. Len(words) \in Nat
  OBVIOUS
<1>2. CASE i > Len(words)
  BY <1>2 DEF Answer
<1>3. CASE i <= Len(words) /\ k = 0
  <2>1. f[<<i, 1>>] = h[<<i, 1>>]
    BY <1>3
  <2> QED
    BY <1>3, <2>1 DEF Answer
<1>4. CASE i <= Len(words) /\ k # 0 /\ k >= Len(words[i])
  BY <1>4 DEF Answer
<1>5. CASE i <= Len(words) /\ k # 0 /\ ~(k >= Len(words[i]))
  <2>1. i \in 1..Len(words) /\ ~(i > Len(words))
    BY <1>1, <1>5
  <2>2. k < Len(words[i])
    <3>1. words[i] \in Seq(Letters)
      BY <2>1 DEF Texts
    <3> QED
      BY <1>5, <3>1
  <2>3. PICK there : there = OptionThere(words, i, k)
    OBVIOUS
  <2>4. \/ there.next \in {<<i, k + 1>>, <<i + 1, 0>>}
        \/ (there.next = <<i + 2, 0>> /\ i < Len(words))
    BY <1>5, <2>1, <2>2, <2>3, ThereTypes
  <2>5. f[there.next] = h[there.next]
    BY <1>5, <2>4
  <2> QED
    BY <1>5, <2>1, <2>3, <2>5 DEF Answer
<1> QED
  BY <1>1, <1>2, <1>3, <1>4, <1>5

\* f gives the answers from word j on, or in word j from letter m on.
AnswersFrom(words, f, j) ==
    /\ f \in Answers(words)
    /\ \A i \in j..(Len(words) + 1) : \A k \in Nat : f[<<i, k>>] = Answer(words, f, i, k)
AnswersWord(words, f, j, m) ==
    /\ AnswersFrom(words, f, j + 1)
    /\ \A k \in Nat : k >= m => f[<<j, k>>] = Answer(words, f, j, k)

\* Word j can be changed without a change of the later answers.
LEMMA LaterStay ==
    ASSUME NEW words \in Seq(Texts), NEW j \in 1..Len(words), NEW f, AnswersFrom(words, f, j + 1),
           NEW h \in Answers(words),
           \A i \in (j + 1)..(Len(words) + 1) : \A k \in Nat : h[<<i, k>>] = f[<<i, k>>]
    PROVE  /\ AnswersFrom(words, h, j + 1)
           /\ \A i \in (j + 1)..(Len(words) + 1) : h[<<i, 0>>] = f[<<i, 0>>]
<1>1. Len(words) \in Nat /\ 0 \in Nat
  OBVIOUS
<1>2. ASSUME NEW i \in (j + 1)..(Len(words) + 1), NEW k \in Nat
      PROVE  h[<<i, k>>] = Answer(words, h, i, k)
  <2>1. h[<<i, k>>] = f[<<i, k>>] /\ f[<<i, k>>] = Answer(words, f, i, k)
    BY DEF AnswersFrom
  <2>2. i \in 1..(Len(words) + 1) /\ k + 1 \in Nat
    BY <1>1
  <2>3. i <= Len(words) => f[<<i, k + 1>>] = h[<<i, k + 1>>]
    BY <2>2
  <2>4. i <= Len(words) => i + 1 \in (j + 1)..(Len(words) + 1)
    BY <1>1
  <2>5. i < Len(words) => i + 2 \in (j + 1)..(Len(words) + 1)
    BY <1>1
  <2>6. /\ i <= Len(words) => f[<<i + 1, 0>>] = h[<<i + 1, 0>>]
        /\ i < Len(words) => f[<<i + 2, 0>>] = h[<<i + 2, 0>>]
    BY <1>1, <2>4, <2>5
  <2>7. Answer(words, f, i, k) = Answer(words, h, i, k)
    BY <2>2, <2>3, <2>6, AnswerSame
  <2> QED
    BY <2>1, <2>7
<1> QED
  BY <1>1, <1>2 DEF AnswersFrom

\* Behind its last letter a word has the answer of the next.
LEMMA WordEnds ==
    ASSUME NEW words \in Seq(Texts), NEW j \in 1..Len(words), NEW f, AnswersFrom(words, f, j + 1)
    PROVE  \E h : AnswersWord(words, h, j, Len(words[j]))
<1>1. Len(words) \in Nat /\ j <= Len(words) /\ ~(j > Len(words)) /\ 0 \in Nat
  OBVIOUS
<1>2. words[j] \in Seq(Letters) /\ Len(words[j]) \in Nat
  BY DEF Texts
<1>3. <<j + 1, 0>> \in Places(words) /\ f \in [Places(words) -> Seq(Reports)]
  BY <1>1 DEF Places, AnswersFrom, Answers
<1>4. PICK last : last = f[<<j + 1, 0>>]
  OBVIOUS
<1>5. last \in Seq(Reports) /\ <<>> \in Seq(Reports)
  BY <1>3, <1>4
<1>6. PICK h : h = [at \in Places(words) |-> IF at[1] = j THEN IF at[2] = 0 THEN <<>> ELSE last ELSE f[at]]
  OBVIOUS
<1>7. h \in [Places(words) -> Seq(Reports)]
  BY <1>3, <1>5, <1>6
<1>8. ASSUME NEW i \in (j + 1)..(Len(words) + 1), NEW k \in Nat
      PROVE  h[<<i, k>>] = f[<<i, k>>]
  <2>1. <<i, k>> \in Places(words) /\ i # j
    BY <1>1 DEF Places
  <2>2. <<i, k>>[1] = i
    OBVIOUS
  <2> QED
    BY <1>6, <2>1, <2>2
<1>9. /\ AnswersFrom(words, h, j + 1)
      /\ \A i \in (j + 1)..(Len(words) + 1) : h[<<i, 0>>] = f[<<i, 0>>]
  BY <1>7, <1>8, LaterStay DEF Answers
<1>10. ASSUME NEW k \in Nat, k >= Len(words[j])
       PROVE  h[<<j, k>>] = Answer(words, h, j, k)
  <2>1. <<j, k>> \in Places(words) /\ <<j, k>>[1] = j /\ <<j, k>>[2] = k
    BY <1>1 DEF Places
  <2>2. h[<<j, k>>] = IF k = 0 THEN <<>> ELSE last
    BY <1>6, <2>1
  <2>3. CASE k = 0
    <3>1. ~IsOptionWord(words[j])
      BY <1>2, <1>10, <2>3 DEF IsOptionWord
    <3> QED
      BY <1>1, <2>2, <2>3, <3>1 DEF Answer
  <2>4. CASE k # 0
    <3>1. j + 1 \in (j + 1)..(Len(words) + 1)
      BY <1>1
    <3>2. h[<<j + 1, 0>>] = last
      BY <1>4, <1>9, <3>1
    <3> QED
      BY <1>1, <1>10, <2>2, <2>4, <3>2 DEF Answer
  <2> QED
    BY <2>3, <2>4
<1> QED
  BY <1>9, <1>10 DEF AnswersWord

LEMMA LetterBefore ==
    ASSUME NEW words \in Seq(Texts), NEW j \in 1..Len(words), NEW m \in Nat, NEW f,
           AnswersWord(words, f, j, m + 1)
    PROVE  \E h : AnswersWord(words, h, j, m)
<1>1. Len(words) \in Nat /\ j <= Len(words) /\ j \in 1..(Len(words) + 1)
  OBVIOUS
<1>2. f \in Answers(words) /\ AnswersFrom(words, f, j + 1)
  BY DEF AnswersWord, AnswersFrom
<1>3. PICK this : this = Answer(words, f, j, m)
  OBVIOUS
<1>4. this \in Seq(Reports)
  <2>1. /\ <<j, m + 1>> \in Places(words) /\ <<j + 1, 0>> \in Places(words)
        /\ j < Len(words) => <<j + 2, 0>> \in Places(words)
    BY <1>1 DEF Places
  <2>2. /\ f[<<j, m + 1>>] \in Seq(Reports) /\ f[<<j + 1, 0>>] \in Seq(Reports)
        /\ j < Len(words) => f[<<j + 2, 0>>] \in Seq(Reports)
    BY <1>2, <2>1 DEF Answers
  <2> QED
    BY <1>1, <1>3, <2>2, AnswerTypes
<1>5. PICK h : h = [at \in Places(words) |-> IF at = <<j, m>> THEN this ELSE f[at]]
  OBVIOUS
<1>6. h \in Answers(words)
  BY <1>2, <1>4, <1>5 DEF Answers
<1>7. ASSUME NEW i \in 1..(Len(words) + 1), NEW k \in Nat, <<i, k>> # <<j, m>>
      PROVE  h[<<i, k>>] = f[<<i, k>>]
  <2>1. <<i, k>> \in Places(words)
    BY DEF Places
  <2> QED
    BY <1>5, <1>7, <2>1
<1>8. \A i \in (j + 1)..(Len(words) + 1) : i \in 1..(Len(words) + 1) /\ i # j
  BY <1>1
<1>9. \A i \in (j + 1)..(Len(words) + 1) : \A k \in Nat : h[<<i, k>>] = f[<<i, k>>]
  BY <1>7, <1>8
<1>10. AnswersFrom(words, h, j + 1)
  BY <1>2, <1>6, <1>9, LaterStay
<1>11. ASSUME NEW k \in Nat, k >= m
       PROVE  h[<<j, k>>] = Answer(words, h, j, k)
  <2>1. f[<<j, k + 1>>] = h[<<j, k + 1>>]
    <3>1. k + 1 \in Nat /\ k + 1 # m
      BY <1>11
    <3> QED
      BY <1>1, <1>7, <3>1
  <2>2. f[<<j + 1, 0>>] = h[<<j + 1, 0>>]
    <3>1. j + 1 \in (j + 1)..(Len(words) + 1) /\ 0 \in Nat
      BY <1>1
    <3> QED
      BY <1>9, <3>1
  <2>3. j < Len(words) => f[<<j + 2, 0>>] = h[<<j + 2, 0>>]
    <3>1. j < Len(words) => j + 2 \in (j + 1)..(Len(words) + 1) /\ 0 \in Nat
      BY <1>1
    <3> QED
      BY <1>9, <3>1
  <2>4. Answer(words, f, j, k) = Answer(words, h, j, k)
    BY <1>1, <2>1, <2>2, <2>3, AnswerSame
  <2>5. CASE k = m
    <3>1. <<j, m>> \in Places(words)
      BY <1>1 DEF Places
    <3>2. h[<<j, m>>] = this
      BY <1>5, <3>1
    <3> QED
      BY <1>3, <2>4, <2>5, <3>2
  <2>6. CASE k # m
    <3>1. k >= m + 1
      BY <1>11, <2>6
    <3>2. f[<<j, k>>] = Answer(words, f, j, k)
      BY <3>1 DEF AnswersWord
    <3> QED
      BY <1>1, <1>7, <2>4, <2>6, <3>2
  <2> QED
    BY <2>5, <2>6
<1> QED
  BY <1>10, <1>11 DEF AnswersWord

LEMMA WordBefore ==
    ASSUME NEW words \in Seq(Texts), NEW j \in 1..Len(words), NEW f, AnswersFrom(words, f, j + 1)
    PROVE  \E h : AnswersFrom(words, h, j)
<1>1. PICK n : n = Len(words[j])
  OBVIOUS
<1>2. n \in Nat
  BY <1>1 DEF Texts
<1> DEFINE T == {e \in 0..n : \E h : AnswersWord(words, h, j, n - e)}
<1>3. 0 \in T
  <2>1. n - 0 = n
    BY <1>2
  <2> QED
    BY <1>1, <1>2, <2>1, WordEnds
<1>4. ASSUME NEW e \in 0..(n - 1), e \in T
      PROVE  e + 1 \in T
  <2>1. PICK h : AnswersWord(words, h, j, n - e)
    BY <1>4
  <2>2. PICK m : m = n - (e + 1)
    OBVIOUS
  <2>3. m \in Nat /\ n - e = m + 1 /\ e + 1 \in 0..n
    BY <1>2, <2>2
  <2>4. \E hh : AnswersWord(words, hh, j, m)
    BY <2>1, <2>3, LetterBefore
  <2> QED
    BY <2>2, <2>3, <2>4
<1> HIDE DEF T
<1>5. 0..n \subseteq T
  BY <1>2, <1>3, <1>4, IntervalInduction
<1>6. n \in 0..n /\ n - n = 0
  BY <1>2
<1>7. PICK h : AnswersWord(words, h, j, 0)
  BY <1>5, <1>6 DEF T
<1>8. ASSUME NEW i \in j..(Len(words) + 1), NEW k \in Nat
      PROVE  h[<<i, k>>] = Answer(words, h, i, k)
  <2>1. i = j \/ i \in (j + 1)..(Len(words) + 1)
    OBVIOUS
  <2>2. k >= 0
    OBVIOUS
  <2> QED
    BY <1>7, <2>1, <2>2 DEF AnswersWord, AnswersFrom
<1>9. h \in Answers(words)
  BY <1>7 DEF AnswersWord, AnswersFrom
<1> QED
  BY <1>8, <1>9 DEF AnswersFrom

LEMMA AnswersExist ==
    ASSUME NEW words \in Seq(Texts)
    PROVE  \E f : AnswersFrom(words, f, 1)
<1>1. PICK n : n = Len(words)
  OBVIOUS
<1>2. n \in Nat
  BY <1>1
<1> DEFINE T == {e \in 0..n : \E h : AnswersFrom(words, h, n + 1 - e)}
<1>3. 0 \in T
  <2>1. PICK f : f = [at \in Places(words) |-> <<>>]
    OBVIOUS
  <2>2. f \in Answers(words)
    BY <2>1 DEF Answers
  <2>3. ASSUME NEW i \in (n + 1)..(Len(words) + 1), NEW k \in Nat
        PROVE  f[<<i, k>>] = Answer(words, f, i, k)
    <3>1. i > Len(words) /\ <<i, k>> \in Places(words)
      BY <1>1, <1>2 DEF Places
    <3> QED
      BY <2>1, <3>1 DEF Answer
  <2>4. AnswersFrom(words, f, n + 1) /\ n + 1 - 0 = n + 1 /\ 0 \in 0..n
    BY <1>2, <2>2, <2>3 DEF AnswersFrom
  <2> QED
    BY <2>4
<1>4. ASSUME NEW e \in 0..(n - 1), e \in T
      PROVE  e + 1 \in T
  <2>1. PICK h : AnswersFrom(words, h, n + 1 - e)
    BY <1>4
  <2>2. PICK j : j = n + 1 - (e + 1)
    OBVIOUS
  <2>3. j \in 1..Len(words) /\ n + 1 - e = j + 1 /\ e + 1 \in 0..n
    BY <1>1, <1>2, <2>2
  <2>4. \E hh : AnswersFrom(words, hh, j)
    BY <2>1, <2>3, WordBefore
  <2> QED
    BY <2>2, <2>3, <2>4
<1> HIDE DEF T
<1>5. 0..n \subseteq T
  BY <1>2, <1>3, <1>4, IntervalInduction
<1>6. n \in 0..n /\ n + 1 - n = 1
  BY <1>2
<1> QED
  BY <1>5, <1>6 DEF T

\* What is so defined are sequences of reports.
Defined(words, f) ==
    \A i \in 1..(Len(words) + 1) : \A k \in Nat : f[<<i, k>>] = Answer(words, f, i, k)
TypedFrom(words, f, j) ==
    \A i \in j..(Len(words) + 1) : \A k \in Nat : f[<<i, k>>] \in Seq(Reports)

LEMMA WordTyped ==
    ASSUME NEW words \in Seq(Texts), NEW j \in 1..Len(words), NEW f, Defined(words, f),
           TypedFrom(words, f, j + 1)
    PROVE  TypedFrom(words, f, j)
<1>1. PICK n : n = Len(words[j])
  OBVIOUS
<1>2. n \in Nat /\ Len(words) \in Nat /\ j \in 1..(Len(words) + 1) /\ 0 \in Nat
  BY <1>1 DEF Texts
<1>3. f[<<j + 1, 0>>] \in Seq(Reports) /\ (j < Len(words) => f[<<j + 2, 0>>] \in Seq(Reports))
  <2>1. j + 1 \in (j + 1)..(Len(words) + 1) /\ (j < Len(words) => j + 2 \in (j + 1)..(Len(words) + 1))
    BY <1>2
  <2> QED
    BY <1>2, <2>1 DEF TypedFrom
<1>4. \A k \in Nat : f[<<j, k>>] = Answer(words, f, j, k)
  BY <1>2 DEF Defined
<1> DEFINE T == {e \in 0..n : \A k \in Nat : k >= n - e => f[<<j, k>>] \in Seq(Reports)}
<1>5. 0 \in T
  <2>1. ASSUME NEW k \in Nat, k >= n
        PROVE  f[<<j, k>>] \in Seq(Reports)
    <3>1. ~(j > Len(words))
      BY <1>2
    <3>2. CASE k = 0
      <4>1. words[j] \in Seq(Letters) /\ ~(Len(words[j]) > 1)
        BY <1>1, <1>2, <2>1, <3>2 DEF Texts
      <4>2. ~IsOptionWord(words[j])
        BY <4>1 DEF IsOptionWord
      <4>3. Answer(words, f, j, k) = <<>>
        BY <3>1, <3>2, <4>2 DEF Answer
      <4>4. <<>> \in Seq(Reports)
        OBVIOUS
      <4> QED
        BY <1>4, <4>3, <4>4
    <3>3. CASE k # 0
      BY <1>1, <1>3, <1>4, <2>1, <3>1, <3>3 DEF Answer
    <3> QED
      BY <3>2, <3>3
  <2>2. n - 0 = n /\ 0 \in 0..n
    BY <1>2
  <2> QED
    BY <2>1, <2>2
<1>6. ASSUME NEW e \in 0..(n - 1), e \in T
      PROVE  e + 1 \in T
  <2>1. ASSUME NEW k \in Nat, k >= n - (e + 1)
        PROVE  f[<<j, k>>] \in Seq(Reports)
    <3>1. k + 1 \in Nat /\ k + 1 >= n - e
      BY <1>2, <2>1
    <3>2. f[<<j, k + 1>>] \in Seq(Reports)
      BY <1>6, <3>1
    <3>3. Answer(words, f, j, k) \in Seq(Reports)
      BY <1>2, <1>3, <3>2, AnswerTypes
    <3> QED
      BY <1>4, <3>3
  <2>2. e + 1 \in 0..n
    BY <1>2
  <2> QED
    BY <2>1, <2>2
<1> HIDE DEF T
<1>7. 0..n \subseteq T
  BY <1>2, <1>5, <1>6, IntervalInduction
<1>8. n \in T
  BY <1>2, <1>7
<1>9. ASSUME NEW i \in j..(Len(words) + 1), NEW k \in Nat
      PROVE  f[<<i, k>>] \in Seq(Reports)
  <2>1. i = j \/ i \in (j + 1)..(Len(words) + 1)
    OBVIOUS
  <2>2. k >= n - n
    BY <1>2
  <2> QED
    BY <1>8, <2>1, <2>2 DEF T, TypedFrom
<1> QED
  BY <1>9 DEF TypedFrom

LEMMA AllTyped ==
    ASSUME NEW words \in Seq(Texts), NEW f, Defined(words, f)
    PROVE  TypedFrom(words, f, 1)
<1>1. PICK n : n = Len(words)
  OBVIOUS
<1>2. n \in Nat
  BY <1>1
<1> DEFINE T == {e \in 0..n : TypedFrom(words, f, n + 1 - e)}
<1>3. 0 \in T
  <2>1. ASSUME NEW i \in (n + 1)..(Len(words) + 1), NEW k \in Nat
        PROVE  f[<<i, k>>] \in Seq(Reports)
    <3>1. i > Len(words) /\ i \in 1..(Len(words) + 1)
      BY <1>1, <1>2
    <3>2. Answer(words, f, i, k) = <<>>
      BY <3>1 DEF Answer
    <3>3. <<>> \in Seq(Reports)
      OBVIOUS
    <3>4. f[<<i, k>>] = <<>>
      BY <3>1, <3>2 DEF Defined
    <3> QED
      BY <3>3, <3>4
  <2>2. n + 1 - 0 = n + 1 /\ 0 \in 0..n
    BY <1>2
  <2> QED
    BY <2>1, <2>2 DEF TypedFrom
<1>4. ASSUME NEW e \in 0..(n - 1), e \in T
      PROVE  e + 1 \in T
  <2>1. PICK j : j = n + 1 - (e + 1)
    OBVIOUS
  <2>2. j \in 1..Len(words) /\ n + 1 - e = j + 1 /\ e + 1 \in 0..n
    BY <1>1, <1>2, <2>1
  <2>3. TypedFrom(words, f, j)
    BY <1>4, <2>2, WordTyped
  <2> QED
    BY <2>1, <2>2, <2>3
<1> HIDE DEF T
<1>5. 0..n \subseteq T
  BY <1>2, <1>3, <1>4, IntervalInduction
<1>6. n \in 0..n /\ n + 1 - n = 1
  BY <1>2
<1> QED
  BY <1>5, <1>6 DEF T

\* What getopts should report, word by word and letter by letter.
Telling(words, f) ==
    f = [at \in (1..(Len(words) + 1)) \X Nat |->
            LET i == at[1]
                k == at[2]
            IN  IF i > Len(words) THEN <<>>
                ELSE IF k = 0
                     THEN IF ~IsOptionWord(words[i]) \/ words[i] = <<"-", "-">> THEN <<>> ELSE f[<<i, 1>>]
                ELSE IF k >= Len(words[i]) THEN f[<<i + 1, 0>>]
                ELSE <<OptionThere(words, i, k).report>> \o f[OptionThere(words, i, k).next]]

LEMMA ReportsAre ==
    ASSUME NEW words \in Seq(Texts)
    PROVE  Defined(words, ReportsFrom(words)) /\ TypedFrom(words, ReportsFrom(words), 1)
<1>1. PICK h : AnswersFrom(words, h, 1)
  BY AnswersExist
<1>2. \A f : Telling(words, f) <=> f = [at \in Places(words) |-> Answer(words, f, at[1], at[2])]
  BY DEF Telling, Places, Answer
<1>3. h \in [Places(words) -> Seq(Reports)]
  BY <1>1 DEF AnswersFrom, Answers
<1>4. ASSUME NEW at \in Places(words)
      PROVE  h[at] = Answer(words, h, at[1], at[2])
  <2>1. at[1] \in 1..(Len(words) + 1) /\ at[2] \in Nat /\ at = <<at[1], at[2]>>
    BY DEF Places
  <2> QED
    BY <1>1, <2>1 DEF AnswersFrom
<1>5. Telling(words, h)
  BY <1>2, <1>3, <1>4
<1>6. PICK f : f = CHOOSE t : Telling(words, t)
  OBVIOUS
<1>7. Telling(words, f)
  BY <1>5, <1>6
<1>8. ReportsFrom(words) = f
  BY <1>6 DEF ReportsFrom, Telling
<1>9. ASSUME NEW i \in 1..(Len(words) + 1), NEW k \in Nat
      PROVE  f[<<i, k>>] = Answer(words, f, i, k)
  <2>1. <<i, k>> \in Places(words) /\ <<i, k>>[1] = i /\ <<i, k>>[2] = k
    BY DEF Places
  <2> QED
    BY <1>2, <1>7, <2>1
<1>10. Defined(words, f)
  BY <1>9 DEF Defined
<1> QED
  BY <1>8, <1>10, AllTyped

-----------------------------------------------------------------------------
(***************************************************************************)
(* getopts: where it stands.                                               *)
(***************************************************************************)
\* A letter is asked for once.
AsksOnce ==
    /\ OptString \in Seq(Letters) /\ OptString # <<>>
    /\ \A j, k \in 1..Len(OptString) : OptString[j] = OptString[k] /\ OptString[j] # ":" => j = k

Silent == OptString[1] = ":"

\* The code takes a colon for an option that is asked for if the string begins with one.
WordsOk(words) ==
    /\ words \in Seq(Texts)
    /\ Silent => \A i \in 1..Len(words) : IsOptionWord(words[i])
                     => \A k \in 2..Len(words[i]) : words[i][k] # ":"

\* The option is found where it is asked for.
LEMMA OptionAtIs ==
    ASSUME AsksOnce, NEW c, Silent => c # ":",
           NEW q, q = {j \in 1..Len(OptString) : OptString[j] = c /\ c # ":"}
    PROVE  /\ q = {} => OptionAt(OptString, c) = 0
           /\ q # {} => /\ OptionAt(OptString, c) # 0
                        /\ TakesArgument(OptString, OptionAt(OptString, c))
                           <=> \E j \in q : j < Len(OptString) /\ OptString[j + 1] = ":"
<1>1. Len(OptString) \in Nat
  BY DEF AsksOnce
<1>2. PICK at : at = {r \in 1..Len(OptString) : OptString[r] = c /\ (r = 1 \/ c # ":")}
  OBVIOUS
<1>3. at = q
  BY <1>2 DEF Silent
<1>4. OptionAt(OptString, c) = IF q = {} THEN 0 ELSE CHOOSE r \in q : \A x \in q : r <= x
  <2>1. OptionAt(OptString, c) = IF at = {} THEN 0 ELSE CHOOSE r \in at : \A x \in at : r <= x
    BY <1>2 DEF OptionAt
  <2> QED
    BY <1>3, <2>1
<1>5. CASE q = {}
  BY <1>4, <1>5
<1>6. CASE q # {}
  <2>1. PICK j : j \in q
    BY <1>6
  <2>2. j \in 1..Len(OptString) /\ \A x \in q : x = j
    BY <2>1 DEF AsksOnce
  <2>3. q = {j}
    BY <2>1, <2>2
  <2>4. \A x \in q : j <= x
    BY <1>1, <2>2
  <2>5. PICK r : r = CHOOSE y \in q : \A x \in q : y <= x
    OBVIOUS
  <2>6. r \in q
    BY <2>1, <2>4, <2>5
  <2>7. OptionAt(OptString, c) = j
    BY <1>4, <1>6, <2>2, <2>5, <2>6
  <2> QED
    BY <2>2, <2>3, <2>7 DEF TakesArgument
<1> QED
  BY <1>5, <1>6

\* What there is at letter k of word i, in the words of the code.
LEMMA OptionIs ==
    ASSUME AsksOnce, NEW words, NEW i, NEW k, NEW c, c = words[i][k + 1], Silent => c # ":",
           NEW q, q = OptionAt(OptString, c), NEW rest, rest = Drop(words[i], k + 1),
           NEW none, none = IF Silent THEN <<c>> ELSE Unset,
           NEW there, there = OptionThere(words, i, k)
    PROVE  /\ q = 0 => there = [report |-> <<"?", none>>, next |-> <<i, k + 1>>]
           /\ q # 0 /\ ~TakesArgument(OptString, q) => there = [report |-> <<c, <<>>>>, next |-> <<i, k + 1>>]
           /\ q # 0 /\ TakesArgument(OptString, q) =>
                 /\ rest # <<>> => there = [report |-> <<c, rest>>, next |-> <<i + 1, 0>>]
                 /\ rest = <<>> /\ i = Len(words) =>
                       there = [report |-> <<IF Silent THEN ":" ELSE "?", none>>, next |-> <<i + 1, 0>>]
                 /\ rest = <<>> /\ i # Len(words) =>
                       there = [report |-> <<c, words[i + 1]>>, next |-> <<i + 2, 0>>]
<1>1. PICK Q : Q = {j \in 1..Len(OptString) : OptString[j] = c /\ c # ":"}
  OBVIOUS
<1>2. PICK arg : arg = \E j \in Q : j < Len(OptString) /\ OptString[j + 1] = ":"
  OBVIOUS
<1>3. /\ Q = {} => q = 0
      /\ Q # {} => q # 0 /\ (TakesArgument(OptString, q) <=> arg)
  BY <1>1, <1>2, OptionAtIs
<1>4. Head(OptString) = OptString[1]
  BY DEF AsksOnce
<1>5. there = IF Q = {} THEN [report |-> <<"?", none>>, next |-> <<i, k + 1>>]
              ELSE IF ~arg THEN [report |-> <<c, <<>>>>, next |-> <<i, k + 1>>]
              ELSE IF rest # <<>> THEN [report |-> <<c, rest>>, next |-> <<i + 1, 0>>]
              ELSE IF i = Len(words)
                   THEN [report |-> <<IF Silent THEN ":" ELSE "?", none>>, next |-> <<i + 1, 0>>]
              ELSE [report |-> <<c, words[i + 1]>>, next |-> <<i + 2, 0>>]
  BY <1>1, <1>2, <1>4 DEF OptionThere, Silent
<1>6. CASE Q = {}
  BY <1>3, <1>5, <1>6
<1>7. CASE Q # {} /\ ~arg
  BY <1>3, <1>5, <1>7
<1>8. CASE Q # {} /\ arg
  BY <1>3, <1>5, <1>8
<1> QED
  BY <1>6, <1>7, <1>8

\* The place of the next letter.
Place(ps) == IF ps.optoff >= 0 THEN <<ps.optind - 1, ps.optoff>> ELSE <<ps.optind, 0>>

ReadingShape == [p : Seq(Texts), optind : Nat \ {0}, optoff : Int, got : Seq(Reports), done : BOOLEAN]

\* What has been reported and what is still to be reported are what should be.
Reading(ps) ==
    /\ ps \in ReadingShape /\ WordsOk(ps.p)
    /\ ps.optind <= Len(ps.p) + 1
    /\ ps.optoff >= 0 => ps.optoff # 0 /\ ps.optind > 1 /\ IsOptionWord(ps.p[ps.optind - 1])
    /\ IF ps.done THEN ps.got = Reference(ps.p)
       ELSE ps.got \o ReportsFrom(ps.p)[Place(ps)] = Reference(ps.p)

LEMMA FromAre ==
    ASSUME NEW words \in Seq(Texts), NEW i \in 1..(Len(words) + 1), NEW k \in Nat,
           NEW from, from = ReportsFrom(words)
    PROVE  /\ from[<<i, k>>] \in Seq(Reports)
           /\ from[<<i, k>>] = Answer(words, from, i, k)
BY ReportsAre DEF Defined, TypedFrom

LEMMA ReferenceType ==
    ASSUME NEW words \in Seq(Texts)
    PROVE  Reference(words) \in Seq(Reports) /\ Reference(words) = ReportsFrom(words)[<<1, 0>>]
<1>1. 1 \in 1..(Len(words) + 1) /\ 0 \in Nat
  OBVIOUS
<1> QED
  BY <1>1, FromAre DEF Reference

\* set, shift, a function and `OPTIND=1' begin anew.
LEMMA ParamsRead ==
    ASSUME NEW words, WordsOk(words)
    PROVE  Reading(Params(words)) /\ Params(words).p = words
<1>1. words \in Seq(Texts) /\ Len(words) \in Nat
  BY DEF WordsOk
<1>2. PICK ps : ps = Params(words)
  OBVIOUS
<1>3. ps = [p |-> words, optind |-> 1, optoff |-> -1, got |-> <<>>, done |-> FALSE]
  BY <1>2 DEF Params
<1>4. <<>> \in Seq(Reports) /\ -1 \in Int /\ 1 \in Nat \ {0}
  OBVIOUS
<1>5. ps \in ReadingShape
  BY <1>1, <1>3, <1>4 DEF ReadingShape
<1>6. Place(ps) = <<1, 0>>
  BY <1>3 DEF Place
<1>7. ps.got \o ReportsFrom(words)[<<1, 0>>] = Reference(words)
  <2>1. \A q \in Seq(Reports) : <<>> \o q = q
    OBVIOUS
  <2> QED
    BY <1>1, <1>3, <2>1, ReferenceType
<1>8. ps.p = words /\ ps.optind <= Len(words) + 1 /\ ~(ps.optoff >= 0) /\ ~ps.done
  BY <1>1, <1>3
<1>9. Reading(ps)
  BY <1>5, <1>6, <1>7, <1>8 DEF Reading
<1> QED
  BY <1>2, <1>8, <1>9

LEMMA ReadRight ==
    ASSUME NEW ps, Reading(ps)
    PROVE  /\ IsPrefixOf(ps.got, Reference(ps.p))
           /\ ps.done => ps.got = Reference(ps.p)
<1>1. ps.p \in Seq(Texts) /\ ps.got \in Seq(Reports) /\ ps.optind \in Nat \ {0} /\ ps.optoff \in Int
  BY DEF Reading, ReadingShape
<1>2. Reference(ps.p) \in Seq(Reports)
  BY <1>1, ReferenceType
<1>3. CASE ps.done
  <2>1. \A q \in Seq(Reports) : SubSeq(q, 1, Len(q)) = q /\ Len(q) <= Len(q)
    OBVIOUS
  <2> QED
    BY <1>2, <1>3, <2>1 DEF Reading, IsPrefixOf
<1>4. CASE ~ps.done
  <2>1. PICK later : later = ReportsFrom(ps.p)[Place(ps)]
    OBVIOUS
  <2>2. \E i \in 1..(Len(ps.p) + 1), k \in Nat : Place(ps) = <<i, k>>
    <3>1. CASE ps.optoff >= 0
      <4>1. ps.optind - 1 \in 1..(Len(ps.p) + 1) /\ ps.optoff \in Nat
        BY <1>1, <3>1 DEF Reading
      <4> QED
        BY <3>1, <4>1 DEF Place
    <3>2. CASE ~(ps.optoff >= 0)
      <4>1. ps.optind \in 1..(Len(ps.p) + 1) /\ 0 \in Nat
        BY <1>1 DEF Reading
      <4> QED
        BY <3>2, <4>1 DEF Place
    <3> QED
      BY <3>1, <3>2
  <2>3. later \in Seq(Reports)
    BY <1>1, <2>1, <2>2, FromAre
  <2>4. ps.got \o later = Reference(ps.p)
    BY <1>4, <2>1 DEF Reading
  <2>5. \A q, r \in Seq(Reports) : Len(q) <= Len(q \o r) /\ SubSeq(q \o r, 1, Len(q)) = q
    OBVIOUS
  <2> QED
    BY <1>1, <1>4, <2>3, <2>4, <2>5 DEF IsPrefixOf
<1> QED
  BY <1>3, <1>4

\* What getopts makes of its place.
Told(ps, char, value, ind, offset, done) ==
    [p |-> ps.p, optind |-> ind, optoff |-> offset,
     got |-> IF done \/ ps.done THEN ps.got ELSE Append(ps.got, <<char, value>>),
     done |-> ps.done \/ done]

LEMMA EndRead ==
    ASSUME NEW ps, Reading(ps), ReportsFrom(ps.p)[Place(ps)] = <<>>,
           NEW ind \in 1..(Len(ps.p) + 1), NEW char, NEW value
    PROVE  Reading(Told(ps, char, value, ind, -1, TRUE))
<1>1. ps.p \in Seq(Texts) /\ ps.got \in Seq(Reports) /\ ps.done \in BOOLEAN /\ WordsOk(ps.p)
  BY DEF Reading, ReadingShape
<1>2. PICK t : t = Told(ps, char, value, ind, -1, TRUE)
  OBVIOUS
<1>3. t.p = ps.p /\ t.optind = ind /\ t.optoff = -1 /\ t.got = ps.got /\ t.done = TRUE
  BY <1>2 DEF Told
<1>4. t \in ReadingShape
  <2>1. ind \in Nat \ {0} /\ -1 \in Int
    OBVIOUS
  <2> QED
    BY <1>1, <1>2, <2>1 DEF Told, ReadingShape
<1>5. ps.got = Reference(ps.p)
  <2>1. \A q \in Seq(Reports) : q \o <<>> = q
    OBVIOUS
  <2> QED
    BY <1>1, <2>1 DEF Reading
<1>6. ind <= Len(ps.p) + 1 /\ ~(-1 >= 0)
  OBVIOUS
<1> QED
  BY <1>1, <1>2, <1>3, <1>4, <1>5, <1>6 DEF Reading

LEMMA AppendConcat ==
    ASSUME NEW q \in Seq(Reports), NEW r \in Seq(Reports), NEW e \in Reports
    PROVE  Append(q, e) \o r = q \o (<<e>> \o r)
<1> HIDE NamesAssumption
<1>1. PICK one \in Seq(Reports) : one = <<e>>
  <2>1. <<e>> \in Seq(Reports)
    OBVIOUS
  <2> QED
    BY <2>1
<1>2. Append(q, e) = q \o one
  BY <1>1, AppendIsConcat
<1>3. (q \o one) \o r = q \o (one \o r)
  BY ConcatAssociative
<1> QED
  BY <1>1, <1>2, <1>3, Zenon

\* ind and offset are where there says to go on.
GoesOn(words, i, k, there, ind, offset) ==
    \/ ind = i + 1 /\ offset = k + 1 /\ there.next = <<i, k + 1>>
    \/ ind = i + 1 /\ offset = -1 /\ there.next = <<i + 1, 0>>
    \/ ind = i + 2 /\ offset = -1 /\ there.next = <<i + 2, 0>> /\ i < Len(words)

LEMMA OptionRead ==
    ASSUME NEW ps, Reading(ps), NEW words, words = ps.p, NEW i \in 1..Len(words), NEW k \in Nat,
           k # 0, k < Len(words[i]), IsOptionWord(words[i]),
           ReportsFrom(words)[Place(ps)] = ReportsFrom(words)[<<i, k>>],
           NEW there, there = OptionThere(words, i, k),
           NEW char, NEW value, there.report = <<char, value>>, NEW ind, NEW offset,
           GoesOn(words, i, k, there, ind, offset)
    PROVE  Reading(Told(ps, char, value, ind, offset, FALSE))
<1> HIDE NamesAssumption
<1> USE DEF GoesOn
<1>1. /\ words \in Seq(Texts) /\ ps.got \in Seq(Reports) /\ ps.done \in BOOLEAN /\ WordsOk(words)
      /\ Len(words) \in Nat
  BY DEF Reading, ReadingShape
<1>2. PICK t : t = Told(ps, char, value, ind, offset, FALSE)
  OBVIOUS
<1>3. /\ t.p = words /\ t.optind = ind /\ t.optoff = offset /\ t.done = ps.done
      /\ t.got = IF ps.done THEN ps.got ELSE Append(ps.got, <<char, value>>)
  BY <1>1, <1>2 DEF Told
<1>4. <<char, value>> \in Reports
  BY <1>1, ThereTypes
<1>5. t.got \in Seq(Reports)
  BY <1>1, <1>3, <1>4
<1>6. ind \in Nat \ {0} /\ offset \in Int /\ ind <= Len(words) + 1
  BY <1>1
<1>7. t \in ReadingShape
  <2>1. t = [p |-> words, optind |-> ind, optoff |-> offset, got |-> t.got, done |-> ps.done]
    BY <1>1, <1>2 DEF Told
  <2> QED
    BY <1>1, <1>5, <1>6, <2>1 DEF ReadingShape
<1>8. t.optoff >= 0 => t.optoff # 0 /\ t.optind > 1 /\ IsOptionWord(t.p[t.optind - 1])
  <2>1. offset >= 0 => ind = i + 1 /\ offset = k + 1
    OBVIOUS
  <2>2. offset >= 0 => offset # 0 /\ ind > 1 /\ ind - 1 = i
    BY <2>1
  <2> QED
    BY <1>3, <2>2
<1>9. Place(t) = there.next
  <2>1. CASE offset >= 0
    <3>1. ind - 1 = i /\ offset = k + 1 /\ there.next = <<i, k + 1>>
      BY <2>1
    <3> QED
      BY <1>3, <2>1, <3>1 DEF Place
  <2>2. CASE ~(offset >= 0)
    <3>1. there.next = <<ind, 0>>
      BY <2>2
    <3> QED
      BY <1>3, <2>2, <3>1 DEF Place
  <2> QED
    BY <2>1, <2>2
<1>10. CASE ps.done
  BY <1>1, <1>2, <1>3, <1>6, <1>7, <1>8, <1>10 DEF Reading
<1>11. CASE ~ps.done
  <2> DEFINE from == ReportsFrom(words)
  <2>1. from[<<i, k>>] = <<there.report>> \o from[there.next]
    <3>1. i \in 1..(Len(words) + 1) /\ ~(i > Len(words)) /\ ~(k >= Len(words[i]))
      <4>1. words[i] \in Seq(Letters)
        BY <1>1 DEF Texts
      <4> QED
        BY <1>1, <4>1
    <3>2. from[<<i, k>>] = Answer(words, from, i, k)
      BY <1>1, <3>1, FromAre
    <3> QED
      BY <3>1, <3>2 DEF Answer
  <2>2. from[there.next] \in Seq(Reports)
    <3>1. \E j \in 1..(Len(words) + 1), m \in Nat : there.next = <<j, m>>
      <4>1. i \in 1..(Len(words) + 1) /\ i + 1 \in 1..(Len(words) + 1) /\ k + 1 \in Nat /\ 0 \in Nat
            /\ (i < Len(words) => i + 2 \in 1..(Len(words) + 1))
        BY <1>1
      <4> QED
        BY <4>1
    <3> QED
      BY <1>1, <3>1, FromAre
  <2> HIDE DEF from
  <2>3. ps.got \o (<<<<char, value>>>> \o from[there.next]) = Reference(words)
    BY <1>11, <2>1 DEF Reading, from
  <2>4. t.got \o from[there.next] = Reference(words)
    <3>1. PICK e : e = <<char, value>>
      OBVIOUS
    <3>2. PICK r : r = from[there.next]
      OBVIOUS
    <3>3. e \in Reports /\ r \in Seq(Reports) /\ ps.got \in Seq(Reports)
      BY <1>1, <1>4, <2>2, <3>1, <3>2
    <3>4. Append(ps.got, e) \o r = ps.got \o (<<e>> \o r)
      BY <3>3, AppendConcat, Zenon
    <3>5. t.got = Append(ps.got, e)
      BY <1>3, <1>11, <3>1
    <3> QED
      BY <2>3, <3>1, <3>2, <3>4, <3>5
  <2>5. t.got \o ReportsFrom(t.p)[Place(t)] = Reference(t.p)
    BY <1>3, <1>9, <2>4 DEF from
  <2> QED
    BY <1>1, <1>2, <1>3, <1>6, <1>7, <1>8, <1>11, <2>5 DEF Reading
<1> QED
  BY <1>10, <1>11

\* Where the code reads on.
InWord(ps) == ps.optind > 1 /\ ps.optoff >= 0 /\ Len(ps.p[ps.optind - 1]) > ps.optoff
AtEnd(ps) == ~InWord(ps) /\ (ps.optind > Len(ps.p) \/ ~IsOptionWord(ps.p[ps.optind]))
AtDashes(ps) == ~InWord(ps) /\ ~AtEnd(ps) /\ ps.p[ps.optind] = <<"-", "-">>
NextWord(ps) == IF InWord(ps) \/ AtEnd(ps) THEN ps.optind ELSE ps.optind + 1
NextLetter(ps) == IF InWord(ps) THEN ps.optoff ELSE 1

LEMMA PlaceRead ==
    ASSUME NEW ps, Reading(ps), NEW words, words = ps.p, NEW i, i = NextWord(ps) - 1,
           NEW k, k = NextLetter(ps), NEW here, here = ReportsFrom(words)[Place(ps)]
    PROVE  /\ NextWord(ps) \in Nat
           /\ AtEnd(ps) \/ AtDashes(ps) => here = <<>> /\ NextWord(ps) \in 1..(Len(words) + 1)
           /\ ~AtEnd(ps) /\ ~AtDashes(ps) =>
                 /\ i \in 1..Len(words) /\ k \in Nat /\ k # 0 /\ k < Len(words[i])
                 /\ IsOptionWord(words[i]) /\ here = ReportsFrom(words)[<<i, k>>]
<1> DEFINE n == ps.optind
           off == ps.optoff
           from == ReportsFrom(words)
<1>1. /\ words \in Seq(Texts) /\ Len(words) \in Nat /\ n \in Nat \ {0} /\ n <= Len(words) + 1 /\ off \in Int
      /\ off >= 0 => off # 0 /\ n > 1 /\ IsOptionWord(words[n - 1])
  BY DEF Reading, ReadingShape
<1>2. \A j \in 1..Len(words) : words[j] \in Seq(Letters) /\ Len(words[j]) \in Nat
  BY <1>1 DEF Texts
<1>3. CASE InWord(ps)
  <2>1. n > 1 /\ off >= 0 /\ Len(words[n - 1]) > off /\ ~AtEnd(ps) /\ ~AtDashes(ps)
    BY <1>3 DEF InWord, AtEnd, AtDashes
  <2>2. i = n - 1 /\ k = off /\ NextWord(ps) = n
    BY <1>3 DEF NextWord, NextLetter
  <2>3. i \in 1..Len(words) /\ k \in Nat /\ k # 0 /\ k < Len(words[i]) /\ IsOptionWord(words[i])
    BY <1>1, <1>2, <2>1, <2>2
  <2>4. Place(ps) = <<i, k>>
    BY <2>1, <2>2 DEF Place
  <2> QED
    BY <1>1, <2>1, <2>2, <2>3, <2>4
<1>4. CASE ~InWord(ps)
  <2>1. n \in 1..(Len(words) + 1) /\ 0 \in Nat
    BY <1>1
  <2>2. from[Place(ps)] = from[<<n, 0>>]
    <3>1. CASE off >= 0
      <4>1. n - 1 \in 1..Len(words) /\ n - 1 \in 1..(Len(words) + 1) /\ off \in Nat /\ off # 0 /\ n > 1
        BY <1>1, <3>1
      <4>2. off >= Len(words[n - 1])
        BY <1>2, <1>4, <3>1, <4>1 DEF InWord
      <4>3. from[<<n - 1, off>>] = Answer(words, from, n - 1, off)
        BY <1>1, <4>1, FromAre
      <4>4. ~(n - 1 > Len(words)) /\ (n - 1) + 1 = n
        BY <1>1, <4>1
      <4>5. Answer(words, from, n - 1, off) = from[<<n, 0>>]
        BY <4>1, <4>2, <4>4 DEF Answer
      <4> QED
        BY <3>1, <4>3, <4>5 DEF Place
    <3>2. CASE ~(off >= 0)
      BY <3>2 DEF Place
    <3> QED
      BY <3>1, <3>2
  <2>3. from[<<n, 0>>] = Answer(words, from, n, 0)
    BY <1>1, <2>1, FromAre
  <2> HIDE DEF from
  <2>4. CASE n > Len(words)
    <3>1. AtEnd(ps) /\ ~AtDashes(ps) /\ NextWord(ps) = n
      BY <1>4, <2>4 DEF AtEnd, AtDashes, NextWord
    <3>2. Answer(words, from, n, 0) = <<>>
      BY <2>4 DEF Answer
    <3> QED
      BY <1>1, <2>1, <2>2, <2>3, <3>1, <3>2 DEF from
  <2>5. CASE ~(n > Len(words)) /\ ~IsOptionWord(words[n])
    <3>1. AtEnd(ps) /\ ~AtDashes(ps) /\ NextWord(ps) = n
      BY <1>4, <2>5 DEF AtEnd, AtDashes, NextWord
    <3>2. Answer(words, from, n, 0) = <<>>
      BY <2>5 DEF Answer
    <3> QED
      BY <1>1, <2>1, <2>2, <2>3, <3>1, <3>2 DEF from
  <2>6. CASE ~(n > Len(words)) /\ IsOptionWord(words[n]) /\ words[n] = <<"-", "-">>
    <3>1. ~AtEnd(ps) /\ AtDashes(ps) /\ NextWord(ps) = n + 1
      BY <1>4, <2>6 DEF AtEnd, AtDashes, NextWord
    <3>2. Answer(words, from, n, 0) = <<>>
      BY <2>6 DEF Answer
    <3>3. n + 1 \in 1..(Len(words) + 1)
      BY <1>1, <2>6
    <3> QED
      BY <1>1, <2>1, <2>2, <2>3, <3>1, <3>2, <3>3 DEF from
  <2>7. CASE ~(n > Len(words)) /\ IsOptionWord(words[n]) /\ words[n] # <<"-", "-">>
    <3>1. ~AtEnd(ps) /\ ~AtDashes(ps) /\ NextWord(ps) = n + 1 /\ k = 1
      BY <1>4, <2>7 DEF AtEnd, AtDashes, NextWord, NextLetter
    <3>2. Answer(words, from, n, 0) = from[<<n, 1>>]
      BY <2>7 DEF Answer
    <3>3. i = n /\ n \in 1..Len(words)
      BY <1>1, <2>7, <3>1
    <3>4. 1 < Len(words[n])
      BY <1>2, <2>7, <3>3 DEF IsOptionWord
    <3> QED
      BY <1>1, <2>2, <2>3, <2>7, <3>1, <3>2, <3>3, <3>4 DEF from
  <2> QED
    BY <2>4, <2>5, <2>6, <2>7
<1> QED
  BY <1>3, <1>4

-----------------------------------------------------------------------------
(***************************************************************************)
(* What leaves getopts where it is.                                        *)
(***************************************************************************)
\* The code reads the number of OPTIND back: no two digits look the same.
NumbersDiffer == \A k \in 0..9 : Number(k) = Number(1) => k = 1

Undisturbed(s, t) == Shaped(t) /\ t.params = s.params /\ t.optfail = s.optfail

LEMMA UndisturbedTwice ==
    ASSUME NEW s, NEW t, NEW u, Undisturbed(s, t), Undisturbed(t, u)
    PROVE  Undisturbed(s, u)
BY DEF Undisturbed

LEMMA UndisturbedSteps ==
    ASSUME NEW s, Shaped(s)
    PROVE  /\ Undisturbed(s, s)
           /\ \A text : Undisturbed(s, FreeText(s, text))
           /\ \A b, n, w : Undisturbed(s, Put(s, b, n, w))
           /\ \A n, w : Undisturbed(s, PutVar(s, n, w))
           /\ \A n, w : Undisturbed(s, PutFlags(s, n, w))
           /\ \A l : Undisturbed(s, PutLocals(s, l))
           /\ \A x : Undisturbed(s, [s EXCEPT !.failed = x])
           /\ \A x : Undisturbed(s, [s EXCEPT !.cmds = x])
           /\ \A x : Undisturbed(s, [s EXCEPT !.builtinloc = x])
           /\ \A x : Undisturbed(s, [s EXCEPT !.cwd = x])
           /\ \A x : Undisturbed(s, [s EXCEPT !.curdir = x])
           /\ \A x : Undisturbed(s, [s EXCEPT !.aflag = x])
<1>1. Undisturbed(s, s)
  BY DEF Undisturbed
<1>2. \A text : Undisturbed(s, FreeText(s, text))
  BY DEF Shaped, Fields, Undisturbed, FreeText
<1>3. ASSUME NEW b, NEW n, NEW w
      PROVE  Undisturbed(s, Put(s, b, n, w))
  <2>1. PICK heap : heap = s.heap \cup {b}
    OBVIOUS
  <2>2. PICK table : table = [s.vars EXCEPT ![n] = w]
    OBVIOUS
  <2>3. Put(s, b, n, w) = [s EXCEPT !.heap = heap, !.vars = table]
    BY <2>1, <2>2 DEF Put, Shaped, Fields
  <2>4. Undisturbed(s, [s EXCEPT !.heap = heap, !.vars = table])
    BY DEF Shaped, Fields, Undisturbed
  <2> QED
    BY <2>3, <2>4
<1>4. \A n, w : Undisturbed(s, PutVar(s, n, w))
  BY DEF Shaped, Fields, Undisturbed, PutVar
<1>5. \A n, w : Undisturbed(s, PutFlags(s, n, w))
  BY DEF Shaped, Fields, Undisturbed, PutFlags
<1>6. \A l : Undisturbed(s, PutLocals(s, l))
  BY DEF Shaped, Fields, Undisturbed, PutLocals
<1>7. \A x : Undisturbed(s, [s EXCEPT !.failed = x])
  BY DEF Shaped, Fields, Undisturbed
<1>8. \A x : Undisturbed(s, [s EXCEPT !.cmds = x])
  BY DEF Shaped, Fields, Undisturbed
<1>9. \A x : Undisturbed(s, [s EXCEPT !.builtinloc = x])
  BY DEF Shaped, Fields, Undisturbed
<1>10. \A x : Undisturbed(s, [s EXCEPT !.cwd = x])
  BY DEF Shaped, Fields, Undisturbed
<1>11. \A x : Undisturbed(s, [s EXCEPT !.curdir = x])
  BY DEF Shaped, Fields, Undisturbed
<1>12. \A x : Undisturbed(s, [s EXCEPT !.aflag = x])
  BY DEF Shaped, Fields, Undisturbed
<1> QED
  BY <1>1, <1>2, <1>3, <1>4, <1>5, <1>6, <1>7, <1>8, <1>9, <1>10, <1>11, <1>12

\* getopts starts again on the same words.
StartsAgain(s, t) == Shaped(t) /\ t.optfail = s.optfail /\ t.params = Params(s.params.p)

LEMMA ResetStarts ==
    ASSUME NEW s, Shaped(s), s.params \in ReadingShape
    PROVE  StartsAgain(s, GetoptsReset(s, 1))
<1>1. PICK ps : ps = s.params
  OBVIOUS
<1>2. [ps EXCEPT !.optind = 1, !.optoff = -1, !.got = <<>>, !.done = FALSE] = Params(ps.p)
  <2>1. PICK a \in Seq(Texts), b \in Nat \ {0}, c \in Int, d \in Seq(Reports), e \in BOOLEAN :
           ps = [p |-> a, optind |-> b, optoff |-> c, got |-> d, done |-> e]
    BY <1>1 DEF ReadingShape
  <2>2. PICK q : q = [ps EXCEPT !.optind = 1, !.optoff = -1, !.got = <<>>, !.done = FALSE]
    OBVIOUS
  <2>3. /\ q = [p |-> q.p, optind |-> q.optind, optoff |-> q.optoff, got |-> q.got, done |-> q.done]
        /\ q.p = a /\ q.optind = 1 /\ q.optoff = -1 /\ q.got = <<>> /\ q.done = FALSE
    BY <2>1, <2>2
  <2>4. ps.p = a
    BY <2>1
  <2>5. q = Params(a)
    BY <2>3, Zenon DEF Params
  <2> QED
    BY <2>2, <2>4, <2>5
<1>3. PICK q : q = Params(ps.p)
  OBVIOUS
<1>4. GetoptsReset(s, 1) = [s EXCEPT !.params = q]
  <2>1. GetoptsReset(s, 1) =
          [s EXCEPT !.params = [ps EXCEPT !.optind = 1, !.optoff = -1, !.got = <<>>, !.done = FALSE]]
    BY <1>1 DEF GetoptsReset, Shaped, Fields
  <2> QED
    BY <1>2, <1>3, <2>1
<1>5. PICK t : t = [s EXCEPT !.params = q]
  OBVIOUS
<1>6. Shaped(t) /\ t.optfail = s.optfail /\ t.params = q
  BY <1>5 DEF Shaped, Fields
<1> QED
  BY <1>1, <1>3, <1>4, <1>5, <1>6 DEF StartsAgain

LEMMA CallFuncReads ==
    ASSUME NEW s, Shaped(s), NEW n, NEW val
    PROVE  /\ n # "OPTIND" => Undisturbed(s, CallFunc(s, n, val))
           /\ n = "OPTIND" /\ val = Number(1) /\ NumbersDiffer /\ s.params \in ReadingShape
              => StartsAgain(s, CallFunc(s, n, val))
<1>1. CASE n = "PATH"
  <2>1. ASSUME NEW first PROVE \A u : Shaped(u) => Undisturbed(u, ClearCmdEntry(u, first))
    BY DEF ClearCmdEntry, Shaped, Fields, Undisturbed
  <2>2. \A loc, first, bltin :
           Undisturbed(s, [ClearCmdEntry([s EXCEPT !.builtinloc = loc], first) EXCEPT !.builtinloc = bltin])
    <3> TAKE loc, first, bltin
    <3>1. PICK u : u = [s EXCEPT !.builtinloc = loc]
      OBVIOUS
    <3>2. Undisturbed(s, u)
      BY <3>1, UndisturbedSteps
    <3>3. PICK w : w = ClearCmdEntry(u, first)
      OBVIOUS
    <3>4. Undisturbed(u, w)
      BY <2>1, <3>2, <3>3 DEF Undisturbed
    <3>5. Undisturbed(w, [w EXCEPT !.builtinloc = bltin])
      <4>1. Shaped(w)
        BY <3>4 DEF Undisturbed
      <4> QED
        BY <4>1, UndisturbedSteps
    <3> QED
      BY <3>1, <3>2, <3>3, <3>4, <3>5, UndisturbedTwice
  <2>3. Undisturbed(s, ChangePath(s, val))
    BY <2>2 DEF ChangePath
  <2> QED
    BY <1>1, <2>3 DEF CallFunc
<1>2. CASE n = "OPTIND"
  <2>1. CASE val = Number(1) /\ NumbersDiffer /\ s.params \in ReadingShape
    <3>1. PICK k : k = CHOOSE j \in 0..9 : Number(j) = val
      OBVIOUS
    <3>2. 1 \in 0..9 /\ Number(1) = val
      BY <2>1
    <3>3. k \in 0..9 /\ Number(k) = val
      BY <3>1, <3>2
    <3>4. k = 1
      BY <2>1, <3>3 DEF NumbersDiffer
    <3>5. CallFunc(s, n, val) = GetoptsReset(s, k)
      BY <1>2, <3>1 DEF CallFunc
    <3> QED
      BY <1>2, <2>1, <3>4, <3>5, ResetStarts
  <2> QED
    BY <1>2, <2>1
<1>3. CASE n \notin {"PATH", "OPTIND"}
  BY <1>3 DEF CallFunc, Undisturbed
<1> QED
  BY <1>1, <1>2, <1>3

LEMMA SetVarEqReads ==
    ASSUME NEW s, Sound(s, calls), NEW n \in Names, NEW val, NEW asked
    PROVE  /\ n # "OPTIND" \/ "nofunc" \in asked \/ ~s.vars[n].there => Undisturbed(s, SetVarEq(s, n, val, asked))
           /\ n = "OPTIND" /\ val = Number(1) /\ NumbersDiffer /\ s.params \in ReadingShape
              => \/ Undisturbed(s, SetVarEq(s, n, val, asked))
                 \/ StartsAgain(s, SetVarEq(s, n, val, asked))
<1> DEFINE v     == s.vars[n]
           kept  == (asked \ {"noset", "nofunc"}) \cup (IF s.aflag THEN {"export"} ELSE {})
           block == FreshBlock(s, n)
<1>0. PICK t : t = SetVarEq(s, n, val, asked)
  OBVIOUS
<1>1. Shaped(s) /\ Variable(v, n, s.heap)
  BY DEF Sound, VarsSound
<1>2. "readonly" \in v.flags => v.there
  BY <1>1 DEF Variable, NoVar
<1>3. CASE "readonly" \in v.flags
  <2>1. t = Fail(s)
    BY <1>0, <1>2, <1>3 DEF SetVarEq
  <2>2. PICK x : x = TRUE
    OBVIOUS
  <2>3. t = [s EXCEPT !.failed = x]
    BY <2>1, <2>2, Zenon DEF Fail
  <2>4. Undisturbed(s, t)
    BY <1>1, <2>3, UndisturbedSteps
  <2> QED
    BY <1>0, <2>4
<1>4. CASE "readonly" \notin v.flags /\ "noset" \in asked
  <2>1. t = s
    BY <1>0, <1>4 DEF SetVarEq
  <2>2. Undisturbed(s, t)
    BY <1>1, <2>1 DEF Undisturbed
  <2> QED
    BY <1>0, <2>2
<1>5. ASSUME "readonly" \notin v.flags, "noset" \notin asked, ~v.there
      PROVE  Undisturbed(s, t)
  <2>1. t = [s EXCEPT !.heap = @ \cup {block},
                      !.vars[n] = [there |-> TRUE, flags |-> kept, text |-> [val |-> val, block |-> block]]]
    BY <1>0, <1>5, Zenon DEF SetVarEq
  <2>2. PICK w : w = [there |-> TRUE, flags |-> kept, text |-> [val |-> val, block |-> block]]
    OBVIOUS
  <2> HIDE DEF block, kept
  <2>3. t = [s EXCEPT !.heap = @ \cup {block}, !.vars[n] = w]
    BY <2>1, <2>2
  <2>4. PICK b : b = block
    OBVIOUS
  <2>5. Undisturbed(s, Put(s, b, n, w))
    BY <1>1, UndisturbedSteps
  <2> QED
    BY <2>3, <2>4, <2>5 DEF Put
<1>6. ASSUME "readonly" \notin v.flags, "noset" \notin asked, v.there,
             NEW called, called = (IF "nofunc" \in asked THEN s ELSE CallFunc(s, n, val)), Shaped(called)
      PROVE  Undisturbed(called, t)
  <2>1. PICK freed : freed = IF Owned(v) THEN FreeText(called, v.text) ELSE called
    OBVIOUS
  <2>2. Undisturbed(called, freed)
    BY <1>6, <2>1, UndisturbedSteps
  <2>3. t = [freed EXCEPT !.heap = @ \cup {block},
                          !.vars[n] = [there |-> TRUE, flags |-> kept \cup (v.flags \ {"textfixed", "stack", "unset"}),
                                       text |-> [val |-> val, block |-> block]]]
    BY <1>0, <1>6, <2>1, Zenon DEF SetVarEq
  <2>4. PICK w : w = [there |-> TRUE, flags |-> kept \cup (v.flags \ {"textfixed", "stack", "unset"}),
                      text |-> [val |-> val, block |-> block]]
    OBVIOUS
  <2> HIDE DEF block, kept
  <2>5. t = [freed EXCEPT !.heap = @ \cup {block}, !.vars[n] = w]
    BY <2>3, <2>4
  <2>6. Undisturbed(freed, t)
    <3>1. Shaped(freed)
      BY <2>2 DEF Undisturbed
    <3>2. PICK b : b = block
      OBVIOUS
    <3>3. Undisturbed(freed, Put(freed, b, n, w))
      BY <3>1, UndisturbedSteps
    <3> QED
      BY <2>5, <3>2, <3>3 DEF Put
  <2> QED
    BY <2>2, <2>6, UndisturbedTwice
<1>7. ASSUME "readonly" \notin v.flags, "noset" \notin asked, v.there, "nofunc" \in asked
      PROVE  Undisturbed(s, t)
  BY <1>1, <1>6, <1>7
<1>8. ASSUME "readonly" \notin v.flags, "noset" \notin asked, v.there, "nofunc" \notin asked
      PROVE  /\ n # "OPTIND" => Undisturbed(s, t)
             /\ n = "OPTIND" /\ val = Number(1) /\ NumbersDiffer /\ s.params \in ReadingShape => StartsAgain(s, t)
  <2>1. PICK called : called = CallFunc(s, n, val)
    OBVIOUS
  <2>2. Shaped(called)
    BY <1>1, <2>1, CallFuncIsSame DEF Same
  <2>3. Undisturbed(called, t)
    BY <1>6, <1>8, <2>1, <2>2
  <2>4. n # "OPTIND" => Undisturbed(s, called)
    BY <1>1, <2>1, CallFuncReads
  <2>5. n = "OPTIND" /\ val = Number(1) /\ NumbersDiffer /\ s.params \in ReadingShape => StartsAgain(s, called)
    BY <1>1, <2>1, CallFuncReads
  <2> QED
    BY <2>3, <2>4, <2>5 DEF Undisturbed, StartsAgain
<1> HIDE DEF v
<1> QED
  BY <1>0, <1>3, <1>4, <1>5, <1>7, <1>8 DEF v

LEMMA UnsetVarReads ==
    ASSUME NEW s, Sound(s, calls), NEW n \in Names, n # "OPTIND"
    PROVE  Undisturbed(s, UnsetVar(s, n).s)
<1> DEFINE v == s.vars[n]
<1>0. PICK u : u = UnsetVar(s, n).s
  OBVIOUS
<1>1. Shaped(s)
  BY DEF Sound
<1>2. CASE ~v.there \/ "readonly" \in v.flags \/ "unset" \in v.flags
  <2>1. u = s
    BY <1>0, <1>2 DEF UnsetVar
  <2> QED
    BY <1>0, <1>1, <2>1 DEF Undisturbed
<1>3. CASE v.there /\ "readonly" \notin v.flags /\ "unset" \notin v.flags /\ "strfixed" \notin v.flags
  <2>1. PICK freed : freed = IF Owned(v) THEN FreeText(s, v.text) ELSE s
    OBVIOUS
  <2>2. Undisturbed(s, freed)
    BY <1>1, <2>1, UndisturbedSteps
  <2>3. PICK w : w = NoVar
    OBVIOUS
  <2>4. u = PutVar(freed, n, w)
    BY <1>0, <1>3, <2>1, <2>3 DEF UnsetVar, PutVar
  <2>5. Undisturbed(freed, PutVar(freed, n, w))
    <3>1. Shaped(freed)
      BY <2>2 DEF Undisturbed
    <3> QED
      BY <3>1, UndisturbedSteps
  <2> QED
    BY <1>0, <2>2, <2>4, <2>5, UndisturbedTwice
<1>4. CASE v.there /\ "readonly" \notin v.flags /\ "unset" \notin v.flags /\ "strfixed" \in v.flags
  <2>1. PICK asked : asked = {"unset"}
    OBVIOUS
  <2>2. PICK t : t = SetVarEq(s, n, Unset, asked)
    OBVIOUS
  <2>3. SetVar(s, n, Unset, {}) = t
    BY <2>1, <2>2 DEF SetVar
  <2>4. Undisturbed(s, t)
    BY <2>2, SetVarEqReads
  <2>5. Shaped(t)
    BY <2>4 DEF Undisturbed
  <2>6. PICK G : G = t.vars[n].flags \ {"export"}
    OBVIOUS
  <2>7. u = PutFlags(t, n, G)
    BY <1>0, <1>4, <2>3, <2>6 DEF UnsetVar, PutFlags
  <2>8. Undisturbed(t, PutFlags(t, n, G))
    BY <2>5, UndisturbedSteps
  <2> QED
    BY <1>0, <2>4, <2>7, <2>8, UndisturbedTwice
<1> QED
  BY <1>2, <1>3, <1>4

-----------------------------------------------------------------------------
(***************************************************************************)
(* A call of getopts.                                                      *)
(***************************************************************************)
\* t differs from s in the variable n, and in having failed.
OptionSet(s, t, n) ==
    /\ Sound(t, calls) /\ t.params = s.params
    /\ s.optfail => t.optfail
    /\ \A m \in Names : m # n => t.vars[m] = s.vars[m]
    /\ "readonly" \in t.vars[n].flags => "readonly" \in s.vars[n].flags

\* What a variable has been set to is what it has.
LEMMA SetVarIs ==
    ASSUME NEW s, Sound(s, calls), NEW n \in Names, NEW val, NEW asked, asked \cap {"noset", "unset"} = {},
           NEW t, t = SetVar(s, n, val, asked)
    PROVE  t.failed \/ LookupVar(t, n) = val
<1>1. PICK more : more = IF val = Unset THEN asked \cup {"unset"} ELSE asked
  OBVIOUS
<1>2. t = SetVarEq(s, n, val, more)
  BY <1>1 DEF SetVar
<1>3. CASE "readonly" \in s.vars[n].flags
  BY <1>2, <1>3, SetVarEqIs
<1>4. CASE "readonly" \notin s.vars[n].flags
  <2>1. "noset" \notin more /\ ("unset" \in more => val = Unset)
    BY <1>1
  <2>2. PICK F : NewText(s, t, n, F, val) /\ ("unset" \in F => "unset" \in more)
    BY <1>2, <1>4, <2>1, SetVarEqIs
  <2>3. t.vars[n].there /\ t.vars[n].flags = F /\ t.vars[n].text.val = val
    BY <1>4, <2>2, NewTextIsSound
  <2> QED
    BY <2>1, <2>2, <2>3 DEF LookupVar
<1> QED
  BY <1>3, <1>4

\* Setting a variable makes it readonly only if that is asked for.
LEMMA SetVarEqWrites ==
    ASSUME NEW s, Sound(s, calls), NEW n \in Names, NEW val, NEW asked, "readonly" \notin asked,
           NEW t, t = SetVarEq(s, n, val, asked)
    PROVE  "readonly" \in t.vars[n].flags => "readonly" \in s.vars[n].flags
<1>1. CASE "readonly" \in s.vars[n].flags
  BY <1>1
<1>2. CASE "readonly" \notin s.vars[n].flags /\ "noset" \in asked
  BY <1>2, SetVarEqIs
<1>3. CASE "readonly" \notin s.vars[n].flags /\ "noset" \notin asked
  <2>1. PICK F : NewText(s, t, n, F, val) /\ ("readonly" \in F => "readonly" \in asked)
    BY <1>3, SetVarEqIs
  <2>2. t.vars[n].flags = F
    BY <1>3, <2>1, NewTextIsSound
  <2> QED
    BY <2>1, <2>2
<1> QED
  BY <1>1, <1>2, <1>3

LEMMA SetVarSafeReads ==
    ASSUME NEW s, Sound(s, calls), NEW n \in Names, NEW val, NEW asked,
           asked \cap {"noset", "unset", "readonly"} = {}, n # "OPTIND" \/ "nofunc" \in asked,
           NEW u, u = SetVarSafe(s, n, val, asked)
    PROVE  OptionSet(s, u, n) /\ (u.optfail \/ LookupVar(u, n) = val)
<1>1. PICK t : t = SetVar(s, n, val, asked)
  OBVIOUS
<1>2. PICK x : x = TRUE
  OBVIOUS
<1>3. u = IF t.failed THEN [s EXCEPT !.optfail = x] ELSE t
  BY <1>1, <1>2, Zenon DEF SetVarSafe
<1>4. CASE t.failed
  <2>1. u = [s EXCEPT !.optfail = x]
    BY <1>3, <1>4
  <2>0. Shaped(s)
    BY DEF Sound
  <2>2. Same(s, u)
    BY <2>0, <2>1 DEF Shaped, Fields, Same
  <2>3. u.params = s.params /\ u.optfail = x
    BY <2>0, <2>1 DEF Shaped, Fields
  <2>4. Sound(u, calls) /\ u.vars = s.vars
    BY <2>2, SoundAgain DEF Same
  <2> QED
    BY <1>2, <2>3, <2>4 DEF OptionSet
<1>5. CASE ~t.failed
  <2>1. u = t
    BY <1>3, <1>5
  <2>2. PICK more : more = IF val = Unset THEN asked \cup {"unset"} ELSE asked
    OBVIOUS
  <2>3. t = SetVarEq(s, n, val, more)
    BY <1>1, <2>2 DEF SetVar
  <2>4. Undisturbed(s, t)
    BY <2>2, <2>3, SetVarEqReads
  <2>5. OnlyVar(s, t, n)
    BY <2>3, SetVarEqIsSound
  <2>6. "readonly" \in t.vars[n].flags => "readonly" \in s.vars[n].flags
    BY <2>2, <2>3, SetVarEqWrites
  <2>7. LookupVar(t, n) = val
    BY <1>1, <1>5, SetVarIs
  <2> QED
    BY <2>1, <2>4, <2>5, <2>6, <2>7 DEF OptionSet, OnlyVar, Undisturbed
<1> QED
  BY <1>4, <1>5

\* What getopts leaves when it has told an option: its place, or the beginning.
OptionTold(t, r, char, value, ind, offset, done) ==
    /\ Shaped(r) /\ r.vars["OPTARG"] = t.vars["OPTARG"]
    /\ \/ r.params = Params(t.params.p)
       \/ ~t.optfail /\ r.params = Told(t.params, char, value, ind, offset, done)

LEMMA TellOptionReads ==
    ASSUME NEW t, Sound(t, calls), t.params \in ReadingShape, NEW optvar \in Names \ {"OPTARG", "OPTIND"},
           NEW char, NEW ind \in Nat \ {0}, NEW offset \in Int, NEW done \in BOOLEAN
    PROVE  OptionTold(t, TellOption(t, optvar, char, ind, offset, done), char, LookupVar(t, "OPTARG"),
                      ind, offset, done)
<1>0. /\ "OPTIND" \in Names /\ "OPTARG" \in Names /\ optvar \in Names
      /\ "OPTARG" # "OPTIND" /\ "OPTARG" # optvar /\ "OPTIND" # optvar
  <2>1. "OPTIND" \in Names /\ "OPTARG" \in Names
    BY NamesAssumption
  <2> QED
    BY <2>1
<1> DEFINE i == [t EXCEPT !.params.optind = ind, !.params.optoff = offset]
           o == SetVarSafe(SetVarSafe(i, "OPTIND", Number(ind), {"nofunc"}), optvar, <<char>>, {})
           e == [o EXCEPT !.params.done = @ \/ done,
                          !.params.got = IF done \/ o.params.done THEN @ ELSE
                           Append(@, <<char, LookupVar(o, "OPTARG")>>)]
           z == [GetoptsReset(o, 1) EXCEPT !.optfail = FALSE]
<1>1. TellOption(t, optvar, char, ind, offset, done) = IF o.optfail THEN z ELSE e
  BY Zenon DEF TellOption
<1>2. PICK ps : ps = t.params
  OBVIOUS
<1>3. PICK qs : qs = [ps EXCEPT !.optind = ind, !.optoff = offset]
  OBVIOUS
<1>4. /\ qs = [p |-> qs.p, optind |-> qs.optind, optoff |-> qs.optoff, got |-> qs.got, done |-> qs.done]
      /\ qs.p = ps.p /\ qs.optind = ind /\ qs.optoff = offset /\ qs.got = ps.got /\ qs.done = ps.done
  BY <1>2, <1>3 DEF ReadingShape
<1>5. /\ ps.p \in Seq(Texts) /\ ps.got \in Seq(Reports) /\ ps.done \in BOOLEAN
  BY <1>2 DEF ReadingShape
<1>6. qs \in ReadingShape
  BY <1>4, <1>5 DEF ReadingShape
<1>7. Shaped(t)
  BY DEF Sound
<1>8. i = [t EXCEPT !.params = qs]
  BY <1>2, <1>3, <1>7 DEF Shaped, Fields
<1> HIDE DEF i
<1>9. Same(t, i) /\ i.params = qs /\ i.optfail = t.optfail
  <2>1. Same(t, i)
    BY <1>7, <1>8, SameSteps
  <2> QED
    BY <1>7, <1>8, <2>1 DEF Shaped, Fields
<1>10. Sound(i, calls) /\ i.vars = t.vars
  BY <1>9, SoundAgain DEF Same
<1>11. PICK p : p = SetVarSafe(i, "OPTIND", Number(ind), {"nofunc"})
  OBVIOUS
<1>12. OptionSet(i, p, "OPTIND")
  <2>2. PICK asked : asked = {"nofunc"}
    OBVIOUS
  <2>3. asked \cap {"noset", "unset", "readonly"} = {} /\ "nofunc" \in asked
    BY <2>2
  <2> QED
    BY <1>0, <1>10, <1>11, <2>2, <2>3, SetVarSafeReads
<1>13. o = SetVarSafe(p, optvar, <<char>>, {})
  BY <1>11
<1> HIDE DEF o
<1>14. OptionSet(p, o, optvar)
  <2>1. optvar \in Names /\ optvar # "OPTIND" /\ Sound(p, calls)
    BY <1>0, <1>12 DEF OptionSet
  <2>2. PICK asked : asked = {}
    OBVIOUS
  <2>3. asked \cap {"noset", "unset", "readonly"} = {}
    BY <2>2
  <2> QED
    BY <1>13, <2>1, <2>2, <2>3, SetVarSafeReads
<1>15. /\ Shaped(o) /\ o.params = qs /\ (t.optfail => o.optfail)
       /\ o.vars["OPTARG"] = t.vars["OPTARG"]
  <2>1. o.vars["OPTARG"] = t.vars["OPTARG"]
    BY <1>0, <1>10, <1>12, <1>14 DEF OptionSet
  <2> QED
    BY <1>9, <1>12, <1>14, <2>1 DEF OptionSet, Sound
<1>16. LookupVar(o, "OPTARG") = LookupVar(t, "OPTARG")
  BY <1>15 DEF LookupVar
<1>17. ASSUME ~o.optfail
       PROVE  OptionTold(t, e, char, LookupVar(t, "OPTARG"), ind, offset, done)
  <2>1. PICK value : value = LookupVar(t, "OPTARG")
    OBVIOUS
  <2>2. PICK x : x = (qs.done \/ done)
    OBVIOUS
  <2>3. PICK y : y = IF done \/ qs.done THEN qs.got ELSE Append(qs.got, <<char, value>>)
    OBVIOUS
  <2>4. e = [o EXCEPT !.params.done = x, !.params.got = y]
    BY <1>15, <1>16, <2>1, <2>2, <2>3, Zenon
  <2>5. PICK rs : rs = [qs EXCEPT !.done = x, !.got = y]
    OBVIOUS
  <2> HIDE DEF e
  <2>6. e = [o EXCEPT !.params = rs]
    BY <1>15, <2>4, <2>5 DEF Shaped, Fields
  <2>7. Shaped(e) /\ e.params = rs /\ e.vars = o.vars
    BY <1>15, <2>6 DEF Shaped, Fields
  <2>8. /\ rs = [p |-> rs.p, optind |-> rs.optind, optoff |-> rs.optoff, got |-> rs.got, done |-> rs.done]
        /\ rs.p = ps.p /\ rs.optind = ind /\ rs.optoff = offset /\ rs.got = y /\ rs.done = x
    BY <1>4, <2>5
  <2>9. PICK ts : ts = Told(ps, char, value, ind, offset, done)
    OBVIOUS
  <2>10. /\ ts = [p |-> ts.p, optind |-> ts.optind, optoff |-> ts.optoff, got |-> ts.got, done |-> ts.done]
         /\ ts.p = ps.p /\ ts.optind = ind /\ ts.optoff = offset /\ ts.got = y /\ ts.done = x
    <3>1. ts.p = ps.p /\ ts.optind = ind /\ ts.optoff = offset
      BY <2>9 DEF Told
    <3>2. ts.got = IF done \/ ps.done THEN ps.got ELSE Append(ps.got, <<char, value>>)
      BY <2>9 DEF Told
    <3>3. ts.done = (ps.done \/ done)
      BY <2>9 DEF Told
    <3>4. ts = [p |-> ts.p, optind |-> ts.optind, optoff |-> ts.optoff, got |-> ts.got, done |-> ts.done]
      BY <2>9 DEF Told
    <3>5. ts.got = y
      BY <1>4, <2>3, <3>2, Zenon
    <3>6. ts.done = x
      BY <1>4, <2>2, <3>3
    <3> QED
      BY <3>1, <3>4, <3>5, <3>6
  <2>11. rs = ts
    BY <2>8, <2>10, Zenon
  <2> QED
    BY <1>2, <1>15, <1>17, <2>1, <2>7, <2>9, <2>11 DEF OptionTold
<1>18. OptionTold(t, z, char, LookupVar(t, "OPTARG"), ind, offset, done)
  <2>1. PICK r : r = GetoptsReset(o, 1)
    OBVIOUS
  <2>2. StartsAgain(o, r) /\ Same(o, r)
    BY <1>6, <1>15, <2>1, ResetStarts, ResetIsSame
  <2>3. Shaped(r) /\ r.params = Params(ps.p) /\ r.vars = o.vars
    BY <1>4, <1>15, <2>2 DEF StartsAgain, Same
  <2>4. PICK no : no = FALSE
    OBVIOUS
  <2>5. z = [r EXCEPT !.optfail = no]
    BY <2>1, <2>4
  <2> HIDE DEF z
  <2>6. Shaped(z) /\ z.params = r.params /\ z.vars = r.vars
    BY <2>3, <2>5 DEF Shaped, Fields
  <2> QED
    BY <1>2, <1>15, <2>3, <2>6 DEF OptionTold
<1> HIDE DEF e, z
<1> QED
  BY <1>1, <1>17, <1>18

\* OPTARG can be unset where getopts has no argument to tell.
Writable(s) == Silent \/ "readonly" \notin s.vars["OPTARG"].flags

\* Where getopts is in s is right.
Reads(s) == Shaped(s) /\ Reading(s.params) /\ Writable(s)

LEMMA EndTold ==
    ASSUME NEW s, Sound(s, calls), Reads(s), NEW optvar \in Names \ {"OPTARG", "OPTIND"},
           ReportsFrom(s.params.p)[Place(s.params)] = <<>>, NEW char, NEW ind \in 1..(Len(s.params.p) + 1)
    PROVE  Reads(TellOption(s, optvar, char, ind, -1, TRUE))
<1>1. PICK ps : ps = s.params
  OBVIOUS
<1>2. Reading(ps) /\ ps \in ReadingShape /\ WordsOk(ps.p)
  BY <1>1 DEF Reads, Reading
<1>3. PICK done \in BOOLEAN : done = TRUE
  OBVIOUS
<1>4. PICK offset \in Int : offset = -1
  OBVIOUS
<1>5. ind \in Nat \ {0}
  OBVIOUS
<1>6. PICK r : r = TellOption(s, optvar, char, ind, offset, done)
  OBVIOUS
<1>7. PICK value : value = LookupVar(s, "OPTARG")
  OBVIOUS
<1>8. OptionTold(s, r, char, value, ind, offset, done)
  BY <1>1, <1>2, <1>5, <1>6, <1>7, TellOptionReads
<1>9. Reading(Told(ps, char, value, ind, offset, done))
  BY <1>1, <1>2, <1>3, <1>4, EndRead
<1>10. Reading(Params(ps.p))
  BY <1>2, ParamsRead
<1>11. Reads(r)
  BY <1>1, <1>8, <1>9, <1>10 DEF OptionTold, Reads, Writable
<1> QED
  BY <1>3, <1>4, <1>6, <1>11

LEMMA SomeTold ==
    ASSUME NEW s, Reads(s), NEW optvar \in Names \ {"OPTARG", "OPTIND"},
           NEW words, words = s.params.p, NEW i \in 1..Len(words), NEW k \in Nat,
           k # 0, k < Len(words[i]), IsOptionWord(words[i]),
           ReportsFrom(words)[Place(s.params)] = ReportsFrom(words)[<<i, k>>],
           NEW there, there = OptionThere(words, i, k),
           NEW char, NEW value, there.report = <<char, value>>, NEW ind, NEW offset,
           GoesOn(words, i, k, there, ind, offset),
           NEW t, Sound(t, calls), t.params = s.params, Writable(s) => Writable(t),
           t.optfail \/ LookupVar(t, "OPTARG") = value
    PROVE  Reads(TellOption(t, optvar, char, ind, offset, FALSE))
<1>1. PICK ps : ps = s.params
  OBVIOUS
<1>2. Reading(ps) /\ ps \in ReadingShape /\ WordsOk(ps.p) /\ t.params = ps
  BY <1>1 DEF Reads, Reading
<1>3. PICK done \in BOOLEAN : done = FALSE
  OBVIOUS
<1>4. ind \in Nat \ {0} /\ offset \in Int
  BY DEF GoesOn
<1>5. PICK r : r = TellOption(t, optvar, char, ind, offset, done)
  OBVIOUS
<1>6. PICK told : told = LookupVar(t, "OPTARG")
  OBVIOUS
<1>7. OptionTold(t, r, char, told, ind, offset, done)
  BY <1>2, <1>4, <1>5, <1>6, TellOptionReads
<1>8. Reading(Told(ps, char, value, ind, offset, FALSE))
  BY <1>1, <1>2, OptionRead
<1>9. Reading(Told(ps, char, value, ind, offset, done))
  BY <1>3, <1>8
<1>10. Reading(Params(ps.p))
  BY <1>2, ParamsRead
<1>11. Reading(r.params)
  <2>1. CASE r.params = Params(t.params.p)
    BY <1>2, <1>10, <2>1
  <2>2. CASE ~t.optfail /\ r.params = Told(t.params, char, told, ind, offset, done)
    BY <1>2, <1>6, <1>9, <2>2
  <2> QED
    BY <1>7, <2>1, <2>2 DEF OptionTold
<1>12. Reads(r)
  BY <1>7, <1>11 DEF OptionTold, Reads, Writable
<1> QED
  BY <1>3, <1>5, <1>12

\* What getopts does, with its place.
OneCall(s, optvar, ps, words, next, k, c, rest, q, none) ==
    IF AtEnd(ps) THEN TellOption(s, optvar, "?", next, -1, TRUE)
    ELSE IF AtDashes(ps) THEN TellOption(s, optvar, "?", next, -1, TRUE)
    ELSE IF q = 0 THEN TellOption(none, optvar, "?", next, k + 1, FALSE)
    ELSE IF ~TakesArgument(OptString, q)
         THEN TellOption(SetVarSafe(s, "OPTARG", <<>>, {}), optvar, c, next, k + 1, FALSE)
    ELSE IF rest # <<>> THEN TellOption(SetVarSafe(s, "OPTARG", rest, {}), optvar, c, next, -1, FALSE)
    ELSE IF next > Len(words)
         THEN TellOption(none, optvar, IF Silent THEN ":" ELSE "?", next, -1, FALSE)
    ELSE TellOption(SetVarSafe(s, "OPTARG", words[next], {}), optvar, c, next + 1, -1, FALSE)

LEMMA GetoptsIs ==
    ASSUME NEW s, NEW optvar, NEW ps, ps = s.params, NEW words, words = ps.p,
           NEW next, next = NextWord(ps), NEW k, k = NextLetter(ps), NEW c, c = words[next - 1][k + 1],
           NEW rest, rest = Drop(words[next - 1], k + 1), NEW q, q = OptionAt(OptString, c),
           NEW none, none = IF Silent THEN SetVarSafe(s, "OPTARG", <<c>>, {}) ELSE UnsetVar(s, "OPTARG").s
    PROVE  Getopts(s, OptString, optvar) = OneCall(s, optvar, ps, words, next, k, c, rest, q, none)
<1>1. InWord(ps) = (ps.optind > 1 /\ ps.optoff >= 0 /\ Len(words[ps.optind - 1]) > ps.optoff)
  BY DEF InWord
<1>2. AtEnd(ps) = (~InWord(ps) /\ (ps.optind > Len(words) \/ ~IsOptionWord(words[ps.optind])))
  BY DEF AtEnd
<1>3. AtDashes(ps) = (~InWord(ps) /\ ~AtEnd(ps) /\ words[ps.optind] = <<"-", "-">>)
  BY DEF AtDashes
<1>4. next = IF InWord(ps) \/ AtEnd(ps) THEN ps.optind ELSE ps.optind + 1
  BY DEF NextWord
<1>5. k = IF InWord(ps) THEN ps.optoff ELSE 1
  BY DEF NextLetter
<1> QED
  BY <1>1, <1>2, <1>3, <1>4, <1>5, Zenon DEF Getopts, Silent, OneCall

\* OPTARG is t's, or has been set or unset for an option.
Prepared(s, t, value) ==
    /\ Sound(t, calls) /\ t.params = s.params /\ (Writable(s) => Writable(t))
    /\ t.optfail \/ LookupVar(t, "OPTARG") = value

LEMMA ArgumentSet ==
    ASSUME NEW s, Sound(s, calls), NEW val
    PROVE  Prepared(s, SetVarSafe(s, "OPTARG", val, {}), val)
<1>1. "OPTARG" \in Names /\ "OPTARG" # "OPTIND"
  BY NamesAssumption
<1>2. PICK asked : asked = {}
  OBVIOUS
<1>3. PICK u : u = SetVarSafe(s, "OPTARG", val, asked)
  OBVIOUS
<1>4. asked \cap {"noset", "unset", "readonly"} = {}
  BY <1>2
<1>5. OptionSet(s, u, "OPTARG") /\ (u.optfail \/ LookupVar(u, "OPTARG") = val)
  BY <1>1, <1>3, <1>4, SetVarSafeReads
<1>6. Prepared(s, u, val)
  BY <1>5 DEF OptionSet, Prepared, Writable
<1> QED
  BY <1>2, <1>3, <1>6

LEMMA ArgumentUnset ==
    ASSUME NEW s, Sound(s, calls), Writable(s), ~Silent
    PROVE  Prepared(s, UnsetVar(s, "OPTARG").s, Unset)
<1>1. "OPTARG" \in Names /\ "OPTARG" # "OPTIND"
  BY NamesAssumption
<1>2. PICK u : u = UnsetVar(s, "OPTARG").s
  OBVIOUS
<1>3. "readonly" \notin s.vars["OPTARG"].flags
  BY DEF Writable
<1>4. Sound(u, calls) /\ LookupVar(u, "OPTARG") = Unset /\ "readonly" \notin u.vars["OPTARG"].flags
  BY <1>1, <1>2, <1>3, UnsetVarIs DEF OnlyVar
<1>5. u.params = s.params
  BY <1>1, <1>2, UnsetVarReads DEF Undisturbed
<1> QED
  BY <1>2, <1>4, <1>5 DEF Prepared, Writable

LEMMA GetoptsReads ==
    ASSUME AsksOnce, NEW s, Sound(s, calls), Reads(s), NEW optvar \in Names \ {"OPTARG", "OPTIND"}
    PROVE  Reads(GetoptsCmd(s, optvar))
<1> HIDE NamesAssumption
<1>1. PICK ps : ps = s.params
  OBVIOUS
<1>2. PICK words : words = ps.p
  OBVIOUS
<1>3. Reading(ps) /\ WordsOk(words) /\ words \in Seq(Texts) /\ Writable(s)
  BY <1>1, <1>2 DEF Reads, Reading, ReadingShape
<1>4. GetoptsCmd(s, optvar) = Getopts(s, OptString, optvar)
  <2>1. ~(ps.optind > Len(words) + 1)
    BY <1>2, <1>3 DEF Reading, ReadingShape
  <2> QED
    BY <1>1, <1>2, <2>1 DEF GetoptsCmd
<1>5. PICK next : next = NextWord(ps)
  OBVIOUS
<1>6. PICK k : k = NextLetter(ps)
  OBVIOUS
<1>7. PICK c : c = words[next - 1][k + 1]
  OBVIOUS
<1>8. PICK rest : rest = Drop(words[next - 1], k + 1)
  OBVIOUS
<1>9. PICK q : q = OptionAt(OptString, c)
  OBVIOUS
<1>10. PICK none : none = IF Silent THEN SetVarSafe(s, "OPTARG", <<c>>, {}) ELSE UnsetVar(s, "OPTARG").s
  OBVIOUS
<1>11. PICK r : r = GetoptsCmd(s, optvar)
  OBVIOUS
<1>12. r = IF AtEnd(ps) THEN TellOption(s, optvar, "?", next, -1, TRUE)
             ELSE IF AtDashes(ps) THEN TellOption(s, optvar, "?", next, -1, TRUE)
             ELSE IF q = 0 THEN TellOption(none, optvar, "?", next, k + 1, FALSE)
             ELSE IF ~TakesArgument(OptString, q)
                  THEN TellOption(SetVarSafe(s, "OPTARG", <<>>, {}), optvar, c, next, k + 1, FALSE)
             ELSE IF rest # <<>> THEN TellOption(SetVarSafe(s, "OPTARG", rest, {}), optvar, c, next, -1, FALSE)
             ELSE IF next > Len(words)
                  THEN TellOption(none, optvar, IF Silent THEN ":" ELSE "?", next, -1, FALSE)
             ELSE TellOption(SetVarSafe(s, "OPTARG", words[next], {}), optvar, c, next + 1, -1, FALSE)
  <2>1. Getopts(s, OptString, optvar) = OneCall(s, optvar, ps, words, next, k, c, rest, q, none)
    BY <1>1, <1>2, <1>5, <1>6, <1>7, <1>8, <1>9, <1>10, GetoptsIs
  <2>2. r = OneCall(s, optvar, ps, words, next, k, c, rest, q, none)
    BY <1>4, <1>11, <2>1
  <2> QED
    BY <2>2, Zenon DEF OneCall
<1>13. PICK i : i = next - 1
  OBVIOUS
<1>14. /\ next \in Nat
       /\ AtEnd(ps) \/ AtDashes(ps) => ReportsFrom(words)[Place(ps)] = <<>> /\ next \in 1..(Len(words) + 1)
       /\ ~AtEnd(ps) /\ ~AtDashes(ps) =>
             /\ i \in 1..Len(words) /\ k \in Nat /\ k # 0 /\ k < Len(words[i])
             /\ IsOptionWord(words[i]) /\ ReportsFrom(words)[Place(ps)] = ReportsFrom(words)[<<i, k>>]
  BY <1>2, <1>3, <1>5, <1>6, <1>13, PlaceRead
<1>15. CASE AtEnd(ps) \/ AtDashes(ps)
  <2>1. r = TellOption(s, optvar, "?", next, -1, TRUE)
    BY <1>12, <1>15
  <2> QED
    BY <1>1, <1>2, <1>11, <1>14, <1>15, <2>1, EndTold
<1>16. CASE ~AtEnd(ps) /\ ~AtDashes(ps)
  <2>1. /\ i \in 1..Len(words) /\ k \in Nat /\ k # 0 /\ k < Len(words[i]) /\ IsOptionWord(words[i])
        /\ ReportsFrom(words)[Place(ps)] = ReportsFrom(words)[<<i, k>>]
    BY <1>14, <1>16
  <2>2. next = i + 1 /\ Len(words) \in Nat
    BY <1>3, <1>13, <1>14
  <2>3. Silent => c # ":"
    <3>1. k + 1 \in 2..Len(words[i])
      <4>1. words[i] \in Seq(Letters)
        BY <1>3, <2>1 DEF Texts
      <4> QED
        BY <2>1, <4>1
    <3> QED
      BY <1>3, <1>7, <1>13, <2>1, <3>1 DEF WordsOk
  <2>4. PICK there : there = OptionThere(words, i, k)
    OBVIOUS
  <2>5. PICK value : value = IF Silent THEN <<c>> ELSE Unset
    OBVIOUS
  <2>6. /\ q = 0 => there = [report |-> <<"?", value>>, next |-> <<i, k + 1>>]
        /\ q # 0 /\ ~TakesArgument(OptString, q) => there = [report |-> <<c, <<>>>>, next |-> <<i, k + 1>>]
        /\ q # 0 /\ TakesArgument(OptString, q) =>
              /\ rest # <<>> => there = [report |-> <<c, rest>>, next |-> <<i + 1, 0>>]
              /\ rest = <<>> /\ i = Len(words) =>
                    there = [report |-> <<IF Silent THEN ":" ELSE "?", value>>, next |-> <<i + 1, 0>>]
              /\ rest = <<>> /\ i # Len(words) =>
                    there = [report |-> <<c, words[i + 1]>>, next |-> <<i + 2, 0>>]
    BY <1>7, <1>8, <1>9, <1>13, <2>3, <2>4, <2>5, OptionIs
  <2>7. Prepared(s, none, value)
    <3>1. CASE Silent
      BY <1>10, <2>5, <3>1, ArgumentSet
    <3>2. CASE ~Silent
      BY <1>3, <1>10, <2>5, <3>2, ArgumentUnset
    <3> QED
      BY <3>1, <3>2
  <2>8. ASSUME NEW t, NEW told, Prepared(s, t, told), NEW char, there.report = <<char, told>>, NEW ind, NEW offset,
               GoesOn(words, i, k, there, ind, offset)
        PROVE  Reads(TellOption(t, optvar, char, ind, offset, FALSE))
    <3>1. /\ Sound(t, calls) /\ t.params = s.params /\ (Writable(s) => Writable(t))
          /\ t.optfail \/ LookupVar(t, "OPTARG") = told
      BY <2>8 DEF Prepared
    <3>2. words = s.params.p /\ ReportsFrom(words)[Place(s.params)] = ReportsFrom(words)[<<i, k>>]
      BY <1>1, <1>2, <2>1
    <3> QED
      BY <2>1, <2>4, <2>8, <3>1, <3>2, SomeTold, ZenonT(60)
  <2>9. CASE q = 0
    <3>1. r = TellOption(none, optvar, "?", next, k + 1, FALSE)
      BY <1>12, <1>16, <2>9
    <3>2. there.report = <<"?", value>> /\ there.next = <<i, k + 1>>
      BY <2>6, <2>9
    <3>3. GoesOn(words, i, k, there, next, k + 1)
      BY <2>2, <3>2 DEF GoesOn
    <3> QED
      BY <1>11, <2>2, <2>7, <2>8, <3>1, <3>2, <3>3
  <2>10. CASE q # 0 /\ ~TakesArgument(OptString, q)
    <3>1. PICK empty : empty = <<>>
      OBVIOUS
    <3>2. PICK t : t = SetVarSafe(s, "OPTARG", empty, {})
      OBVIOUS
    <3>3. r = TellOption(t, optvar, c, next, k + 1, FALSE)
      BY <1>12, <1>16, <2>10, <3>1, <3>2
    <3>4. there.report = <<c, empty>> /\ there.next = <<i, k + 1>>
      BY <2>6, <2>10, <3>1
    <3>5. Prepared(s, t, empty)
      BY <3>2, ArgumentSet
    <3>6. GoesOn(words, i, k, there, next, k + 1)
      BY <2>2, <3>4 DEF GoesOn
    <3> QED
      BY <1>11, <2>2, <2>8, <3>3, <3>4, <3>5, <3>6
  <2>11. CASE q # 0 /\ TakesArgument(OptString, q) /\ rest # <<>>
    <3>1. PICK t : t = SetVarSafe(s, "OPTARG", rest, {})
      OBVIOUS
    <3>2. r = TellOption(t, optvar, c, next, -1, FALSE)
      BY <1>12, <1>16, <2>11, <3>1
    <3>3. there.report = <<c, rest>> /\ there.next = <<i + 1, 0>>
      BY <2>6, <2>11
    <3>4. Prepared(s, t, rest)
      BY <3>1, ArgumentSet
    <3>5. GoesOn(words, i, k, there, next, -1)
      BY <2>2, <3>3 DEF GoesOn
    <3> QED
      BY <1>11, <2>2, <2>8, <3>2, <3>3, <3>4, <3>5
  <2>12. CASE q # 0 /\ TakesArgument(OptString, q) /\ rest = <<>> /\ i = Len(words)
    <3>1. PICK char : char = IF Silent THEN ":" ELSE "?"
      OBVIOUS
    <3>2. next > Len(words)
      BY <2>2, <2>12
    <3>3. r = TellOption(none, optvar, char, next, -1, FALSE)
      BY <1>12, <1>16, <2>12, <3>1, <3>2
    <3>4. there.report = <<char, value>> /\ there.next = <<i + 1, 0>>
      BY <2>6, <2>12, <3>1
    <3>5. GoesOn(words, i, k, there, next, -1)
      BY <2>2, <3>4 DEF GoesOn
    <3> QED
      BY <1>11, <2>2, <2>7, <2>8, <3>3, <3>4, <3>5
  <2>13. CASE q # 0 /\ TakesArgument(OptString, q) /\ rest = <<>> /\ i # Len(words)
    <3>1. PICK arg : arg = words[next]
      OBVIOUS
    <3>2. PICK t : t = SetVarSafe(s, "OPTARG", arg, {})
      OBVIOUS
    <3>3. ~(next > Len(words)) /\ i < Len(words) /\ next + 1 = i + 2
      BY <2>1, <2>2, <2>13
    <3>4. r = TellOption(t, optvar, c, next + 1, -1, FALSE)
      BY <1>12, <1>16, <2>13, <3>1, <3>2, <3>3
    <3>5. there.report = <<c, arg>> /\ there.next = <<i + 2, 0>>
      BY <2>2, <2>6, <2>13, <3>1
    <3>6. Prepared(s, t, arg)
      BY <3>2, ArgumentSet
    <3>7. GoesOn(words, i, k, there, next + 1, -1)
      BY <2>2, <3>3, <3>5 DEF GoesOn
    <3> QED
      BY <1>11, <2>8, <3>3, <3>4, <3>5, <3>6, <3>7
  <2> QED
    BY <2>9, <2>10, <2>11, <2>12, <2>13
<1> QED
  BY <1>15, <1>16

-----------------------------------------------------------------------------
(***************************************************************************)
(* getopts and the other commands.                                         *)
(***************************************************************************)
SameArgument(s, t) == "readonly" \in t.vars["OPTARG"].flags => "readonly" \in s.vars["OPTARG"].flags

LEMMA ReadsOn ==
    ASSUME NEW s, Reads(s), NEW t, Undisturbed(s, t) \/ StartsAgain(s, t), SameArgument(s, t)
    PROVE  Reads(t)
<1>1. Reading(s.params) /\ WordsOk(s.params.p) /\ Writable(s)
  BY DEF Reads, Reading
<1>2. Writable(t)
  BY <1>1 DEF Writable, SameArgument
<1>3. Reading(Params(s.params.p))
  BY <1>1, ParamsRead
<1> QED
  BY <1>1, <1>2, <1>3 DEF Reads, Undisturbed, StartsAgain

LEMMA LeavesReads ==
    ASSUME NEW s, Reads(s), Leaves(s) \/ Catches(s)
    PROVE  Reads(g') /\ calls' = calls
<1>1. PICK x : x = FALSE
  OBVIOUS
<1>2. ASSUME NEW u, Reads(u)
      PROVE  Reads([u EXCEPT !.failed = x])
  <2>1. PICK w : w = [u EXCEPT !.failed = x]
    OBVIOUS
  <2>2. Shaped(u)
    BY <1>2 DEF Reads
  <2>3. Shaped(w) /\ w.params = u.params /\ w.vars = u.vars
    BY <2>1, <2>2 DEF Shaped, Fields
  <2>4. Reads(w)
    BY <1>2, <2>3 DEF Reads, Writable
  <2> QED
    BY <2>1, <2>4
<1>3. ASSUME NEW u, Reads(u), Leaves(u)
      PROVE  Reads(g') /\ calls' = calls
  <2>1. g' = [u EXCEPT !.failed = x] /\ calls' = calls
    BY <1>1, <1>3 DEF Leaves
  <2> QED
    BY <1>2, <1>3, <2>1
<1>4. CASE Leaves(s)
  BY <1>3, <1>4
<1>5. CASE Catches(s)
  <2>1. PICK w : w = [s EXCEPT !.failed = x]
    OBVIOUS
  <2>2. Leaves(w)
    BY <1>1, <1>5, <2>1 DEF Catches
  <2> QED
    BY <1>2, <1>3, <2>1, <2>2
<1> QED
  BY <1>4, <1>5

\* An assignment to any variable; OPTIND is only set to 1.
LEMMA AssignedReads ==
    ASSUME NumbersDiffer, NEW s, Sound(s, calls), Reads(s), NEW n \in Names, NEW val, NEW asked,
           "readonly" \notin asked \/ n # "OPTARG",
           n # "OPTIND" \/ val = Number(1) \/ "nofunc" \in asked \/ ~s.vars[n].there
    PROVE  Reads(SetVarEq(s, n, val, asked))
<1>1. PICK t : t = SetVarEq(s, n, val, asked)
  OBVIOUS
<1>2. s.params \in ReadingShape
  BY DEF Reads, Reading
<1>3. Undisturbed(s, t) \/ StartsAgain(s, t)
  BY <1>1, <1>2, SetVarEqReads
<1>4. SameArgument(s, t)
  <2>1. "OPTARG" \in Names
    BY NamesAssumption
  <2>2. CASE n = "OPTARG"
    BY <1>1, <2>2, SetVarEqWrites DEF SameArgument
  <2>3. CASE n # "OPTARG"
    BY <1>1, <2>1, <2>3, SetVarEqIsSound DEF OnlyVar, SameArgument
  <2> QED
    BY <2>2, <2>3
<1> QED
  BY <1>1, <1>3, <1>4, ReadsOn

LEMMA SetVarAssigned ==
    ASSUME NumbersDiffer, NEW s, Sound(s, calls), Reads(s), NEW n \in Names, NEW val, NEW asked,
           "readonly" \notin asked \/ n # "OPTARG",
           n # "OPTIND" \/ val = Number(1) \/ "nofunc" \in asked \/ ~s.vars[n].there
    PROVE  Reads(SetVar(s, n, val, asked))
<1>1. PICK more : more = IF val = Unset THEN asked \cup {"unset"} ELSE asked
  OBVIOUS
<1>2. SetVar(s, n, val, asked) = SetVarEq(s, n, val, more)
  BY <1>1 DEF SetVar
<1>3. ("readonly" \notin more \/ n # "OPTARG") /\ ("nofunc" \in asked => "nofunc" \in more)
  BY <1>1
<1> QED
  BY <1>2, <1>3, AssignedReads

LEMMA FlagsRead ==
    ASSUME NEW s, Sound(s, calls), Reads(s), NEW n \in Names, s.vars[n].there, NEW G, s.vars[n].flags \subseteq G,
           "readonly" \in G => "readonly" \in s.vars[n].flags \/ n # "OPTARG",
           NEW t, t = [s EXCEPT !.vars[n].flags = G]
    PROVE  Sound(t, calls) /\ Reads(t) /\ t.vars[n].there
<1>1. OnlyFlags(s, t, n, G)
  BY FlagsAdded
<1>2. Undisturbed(s, t)
  <2>1. Shaped(s)
    BY DEF Sound
  <2>2. Undisturbed(s, PutFlags(s, n, G))
    BY <2>1, UndisturbedSteps
  <2> QED
    BY <2>2 DEF PutFlags
<1>3. SameArgument(s, t)
  <2>1. "OPTARG" \in Names
    BY NamesAssumption
  <2> QED
    BY <1>1, <2>1 DEF OnlyFlags, SameArgument
<1> QED
  BY <1>1, <1>2, <1>3, ReadsOn DEF OnlyFlags

LEMMA MkLocalReads ==
    ASSUME NumbersDiffer, NEW s, Sound(s, calls), Reads(s), NEW n \in Names, NEW val,
           n # "OPTIND" \/ val \in {Number(1), Unset}
    PROVE  Reads(MkLocal(s, n, val))
<1>1. PICK v : v = s.vars[n]
  OBVIOUS
<1>2. PICK f : f = IF v.there THEN v.flags ELSE {"unset"}
  OBVIOUS
<1>3. PICK was : was = LookupVar(s, n)
  OBVIOUS
<1>4. PICK l : l = [name |-> n, text |-> v.text, was |-> was, flags |-> f]
  OBVIOUS
<1>5. ASSUME NEW made, Reads(made)
      PROVE  Reads([made EXCEPT !.locals = <<l>> \o @])
  <2>1. PICK q : q = <<l>> \o made.locals
    OBVIOUS
  <2>2. PICK u : u = PutLocals(made, q)
    OBVIOUS
  <2>3. [made EXCEPT !.locals = <<l>> \o @] = u
    BY <2>1, <2>2 DEF PutLocals
  <2>4. Shaped(made)
    BY <1>5 DEF Reads
  <2>5. Shaped(u) /\ u.params = made.params /\ u.vars = made.vars
    BY <2>2, <2>4 DEF Shaped, Fields, PutLocals
  <2> QED
    BY <1>5, <2>3, <2>5 DEF Reads, Writable
<1>6. CASE ~v.there
  <2>0. PICK asked : asked = {"strfixed"}
    OBVIOUS
  <2>1. PICK made : made = SetVar(s, n, val, asked)
    OBVIOUS
  <2>2. Reads(made)
    BY <1>1, <1>6, <2>0, <2>1, SetVarAssigned
  <2>3. MkLocal(s, n, val) = IF made.failed THEN made ELSE [made EXCEPT !.locals = <<l>> \o @]
    BY <1>1, <1>2, <1>3, <1>4, <1>6, <2>0, <2>1, Zenon DEF MkLocal
  <2> QED
    BY <1>5, <2>2, <2>3
<1>7. CASE v.there
  <2>1. PICK held : held = [s EXCEPT !.vars[n].flags = @ \cup {"strfixed", "textfixed"}]
    OBVIOUS
  <2>2. PICK G : G = v.flags \cup {"strfixed", "textfixed"}
    OBVIOUS
  <2>3. held = [s EXCEPT !.vars[n].flags = G]
    BY <1>1, <2>1, <2>2
  <2>4. s.vars[n].there /\ s.vars[n].flags \subseteq G /\ ("readonly" \in G => "readonly" \in s.vars[n].flags)
    BY <1>1, <1>7, <2>2
  <2>5. Sound(held, calls) /\ Reads(held)
    BY <2>3, <2>4, FlagsRead
  <2>6. PICK asked : asked = {}
    OBVIOUS
  <2>7. PICK set : set = SetVarEq(held, n, val, asked)
    OBVIOUS
  <2>8. val # Unset => Reads(set)
    BY <2>5, <2>6, <2>7, AssignedReads
  <2>9. PICK made : made = IF val = Unset THEN held ELSE set
    OBVIOUS
  <2>10. MkLocal(s, n, val) = IF made.failed THEN made ELSE [made EXCEPT !.locals = <<l>> \o @]
    BY <1>1, <1>2, <1>3, <1>4, <1>7, <2>1, <2>6, <2>7, <2>9, Zenon DEF MkLocal
  <2>11. Reads(made)
    BY <2>5, <2>8, <2>9
  <2> QED
    BY <1>5, <2>10, <2>11
<1> QED
  BY <1>6, <1>7

FramesRead(cs) == \A k \in 1..Len(cs) : Reading(cs[k].params)
ReadOutcome == Reads(g') /\ FramesRead(calls')

\* How the script uses getopts.
GetoptsUse ==
    /\ AsksOnce /\ NumbersDiffer
    /\ OptVars \cap {"OPTARG", "OPTIND"} = {}
    /\ \A u \in DOMAIN Groups : \A w \in ArgLists[u] : WordsOk(w)
    /\ Silent \/ \A u \in DOMAIN Groups : "export" \in Groups[u] => "OPTARG" \notin Uses[u]

InPlace == Sound(g, calls) /\ Reads(g) /\ FramesRead(calls)

LEMMA OutcomeReads ==
    ASSUME InPlace, NEW s, Reads(s), Leaves(s) \/ Catches(s)
    PROVE  ReadOutcome
<1>1. Reads(g') /\ calls' = calls
  BY LeavesReads
<1> QED
  BY <1>1 DEF InPlace, ReadOutcome

LEMMA CdReads ==
    ASSUME InPlace, NumbersDiffer, NEW dir, CdCmd(dir)
    PROVE  ReadOutcome
<1>0. Shaped(g) /\ Sound(g, calls) /\ Reads(g)
  BY DEF InPlace, Sound
<1>1. PICK moved : moved = [g EXCEPT !.cwd = dir]
  OBVIOUS
<1>2. Undisturbed(g, moved) /\ Same(g, moved)
  BY <1>0, <1>1, UndisturbedSteps, SameSteps
<1>3. Sound(moved, calls) /\ Reads(moved)
  <2>1. SameArgument(g, moved)
    BY <1>2 DEF Same, SameArgument
  <2> QED
    BY <1>0, <1>2, <2>1, ReadsOn, SoundAgain
<1>4. PICK asked : asked = {"export"}
  OBVIOUS
<1>5. "readonly" \notin asked /\ "OLDPWD" \in Names /\ "PWD" \in Names /\ "OLDPWD" # "OPTIND" /\ "PWD" # "OPTIND"
  BY <1>4, NamesAssumption
<1>6. PICK old : old = SetVar(moved, "OLDPWD", <<g.curdir>>, asked)
  OBVIOUS
<1>7. Sound(old, calls) /\ Reads(old)
  BY <1>3, <1>5, <1>6, SetVarAssigned, SetVarIsSound DEF OnlyVar
<1>8. PICK there : there = [old EXCEPT !.curdir = dir]
  OBVIOUS
<1>9. Sound(there, calls) /\ Reads(there)
  <2>1. Shaped(old)
    BY <1>7 DEF Sound
  <2>2. Undisturbed(old, there) /\ Same(old, there)
    BY <1>8, <2>1, UndisturbedSteps, SameSteps
  <2>3. SameArgument(old, there)
    BY <2>2 DEF Same, SameArgument
  <2> QED
    BY <1>7, <2>2, <2>3, ReadsOn, SoundAgain
<1>10. PICK new : new = SetVar(there, "PWD", <<dir>>, asked)
  OBVIOUS
<1>11. Sound(new, calls) /\ Reads(new)
  BY <1>5, <1>9, <1>10, SetVarAssigned, SetVarIsSound DEF OnlyVar
<1>12. Reads(HashCd(new))
  <2>1. PICK u : u = [c \in Commands |->
             IF \/ new.cmds[c].type = "normal"
                \/ new.cmds[c].type = "builtin" /\ Builtins[c] # "regular" /\ new.builtinloc > 0
             THEN [new.cmds[c] EXCEPT !.rehash = TRUE] ELSE new.cmds[c]]
    OBVIOUS
  <2>2. HashCd(new) = [new EXCEPT !.cmds = u]
    BY <2>1, Zenon DEF HashCd
  <2>3. PICK t : t = [new EXCEPT !.cmds = u]
    OBVIOUS
  <2>4. Undisturbed(new, t) /\ Same(new, t)
    BY <1>11, <2>3, UndisturbedSteps, SameSteps DEF Sound
  <2>5. SameArgument(new, t)
    BY <2>4 DEF Same, SameArgument
  <2> QED
    BY <1>11, <2>2, <2>3, <2>4, <2>5, ReadsOn
<1>13. Catches(IF old.failed THEN old ELSE IF new.failed THEN new ELSE HashCd(new))
  BY <1>1, <1>4, <1>6, <1>8, <1>10 DEF CdCmd
<1> QED
  BY <1>7, <1>11, <1>12, <1>13, OutcomeReads

LEMMA TableReads ==
    ASSUME InPlace, NEW name,
           \/ \E nofunc : Run(name, nofunc)
           \/ \E path : RunWithPath(name, path)
           \/ TypeCmd(name) \/ HashCmd(name) \/ DefFun(name) \/ UnsetFunc(name) \/ HashForget
    PROVE  ReadOutcome
<1>0. Shaped(g) /\ Reads(g)
  BY DEF InPlace, Sound
<1>1. ASSUME NEW s, Reads(s), NEW tab
      PROVE  Reads([s EXCEPT !.cmds = tab])
  <2>1. PICK t : t = [s EXCEPT !.cmds = tab]
    OBVIOUS
  <2>2. Shaped(s)
    BY <1>1 DEF Reads
  <2>3. Undisturbed(s, t) /\ Same(s, t)
    BY <2>1, <2>2, UndisturbedSteps, SameSteps
  <2>4. SameArgument(s, t)
    BY <2>3 DEF Same, SameArgument
  <2> QED
    BY <1>1, <2>1, <2>3, <2>4, ReadsOn
<1>2. ASSUME NEW s, Reads(s), NEW tab, Leaves([s EXCEPT !.cmds = tab])
      PROVE  ReadOutcome
  BY <1>1, <1>2, OutcomeReads
<1>3. ASSUME NEW e
      PROVE  [g EXCEPT !.cmds[name] = e] = [g EXCEPT !.cmds = [g.cmds EXCEPT ![name] = e]]
  BY <1>0 DEF Shaped, Fields
<1>4. CASE \E nofunc : Run(name, nofunc)
  BY <1>0, <1>2, <1>4 DEF Run
<1>5. CASE \E path : RunWithPath(name, path)
  BY <1>0, <1>2, <1>5 DEF RunWithPath
<1>6. CASE TypeCmd(name)
  BY <1>0, <1>2, <1>6 DEF TypeCmd
<1>7. CASE DefFun(name)
  <2>1. PICK e : e = Entry("function", -1)
    OBVIOUS
  <2>2. Leaves([g EXCEPT !.cmds[name] = e])
    BY <1>7, <2>1 DEF DefFun
  <2> QED
    BY <1>0, <1>2, <1>3, <2>2
<1>8. CASE UnsetFunc(name)
  <2>1. PICK e : e = NoEntry
    OBVIOUS
  <2>2. Leaves([g EXCEPT !.cmds[name] = e])
    BY <1>8, <2>1 DEF UnsetFunc
  <2> QED
    BY <1>0, <1>2, <1>3, <2>2
<1>9. CASE HashCmd(name)
  <2>1. PICK e : e = NoEntry
    OBVIOUS
  <2>2. PICK s : /\ s = g \/ s = [g EXCEPT !.cmds[name] = e]
                 /\ Leaves([s EXCEPT !.cmds = FindCommand(s, name, PathVal(s), FALSE, FALSE).cmds])
    BY <1>9, <2>1 DEF HashCmd
  <2>3. Reads(s)
    BY <1>0, <1>1, <1>3, <2>2
  <2> QED
    BY <1>2, <2>2, <2>3
<1>10. CASE HashForget
  <2>1. PICK tab : tab = [c \in Commands |->
           IF \/ g.cmds[c].type = "normal" /\ g.cmds[c].index >= 0
              \/ g.cmds[c].type = "builtin" /\ g.builtinloc >= 0
           THEN NoEntry ELSE g.cmds[c]]
    OBVIOUS
  <2>2. Leaves([g EXCEPT !.cmds = tab])
    BY <1>10, <2>1, Zenon DEF HashForget, ClearCmdEntry
  <2> QED
    BY <1>0, <1>2, <2>2
<1> QED
  BY <1>4, <1>5, <1>6, <1>7, <1>8, <1>9, <1>10

LEMMA TailWords ==
    ASSUME NEW words, WordsOk(words), words # <<>>
    PROVE  WordsOk(Tail(words))
<1>1. words \in Seq(Texts) /\ Len(words) \in Nat /\ Tail(words) \in Seq(Texts) /\ Len(Tail(words)) = Len(words) - 1
  BY DEF WordsOk
<1>2. \A i \in 1..Len(Tail(words)) : Tail(words)[i] = words[i + 1] /\ i + 1 \in 1..Len(words)
  BY <1>1
<1>3. PICK tail : tail = Tail(words)
  OBVIOUS
<1>4. ASSUME Silent, NEW i \in 1..Len(tail), IsOptionWord(tail[i]), NEW k \in 2..Len(tail[i])
      PROVE  tail[i][k] # ":"
  <2>1. tail[i] = words[i + 1] /\ i + 1 \in 1..Len(words)
    BY <1>2, <1>3
  <2>2. \A j \in 1..Len(words) : IsOptionWord(words[j]) => \A m \in 2..Len(words[j]) : words[j][m] # ":"
    BY <1>4 DEF WordsOk
  <2> QED
    BY <1>4, <2>1, <2>2
<1>5. WordsOk(tail)
  BY <1>1, <1>3, <1>4 DEF WordsOk
<1> QED
  BY <1>3, <1>5

LEMMA ParamsReads ==
    ASSUME InPlace, AllExport \/ ShiftCmd \/ \E words : WordsOk(words) /\ SetParam(words)
    PROVE  ReadOutcome
<1>0. Shaped(g) /\ Reads(g)
  BY DEF InPlace, Sound
<1>1. ASSUME NEW t, Undisturbed(g, t), Same(g, t), Leaves(t)
      PROVE  ReadOutcome
  <2>1. SameArgument(g, t)
    BY <1>1 DEF Same, SameArgument
  <2> QED
    BY <1>0, <1>1, <2>1, ReadsOn, OutcomeReads
<1>2. CASE AllExport
  <2>1. PICK x : x = (~g.aflag)
    OBVIOUS
  <2>2. Leaves([g EXCEPT !.aflag = x])
    BY <1>2, <2>1, Zenon DEF AllExport
  <2>3. Same(g, [g EXCEPT !.aflag = x]) /\ Undisturbed(g, [g EXCEPT !.aflag = x])
    BY <1>0, SameSteps, UndisturbedSteps
  <2> QED
    BY <1>1, <2>2, <2>3
<1>3. ASSUME NEW words, WordsOk(words), Leaves([g EXCEPT !.params = Params(words)])
      PROVE  ReadOutcome
  <2>1. PICK x : x = Params(words)
    OBVIOUS
  <2>2. PICK t : t = [g EXCEPT !.params = x]
    OBVIOUS
  <2>3. Shaped(t) /\ t.vars = g.vars /\ t.params = x
    BY <1>0, <2>2 DEF Shaped, Fields
  <2>4. Reading(x)
    BY <1>3, <2>1, ParamsRead
  <2>5. Reads(t)
    BY <1>0, <2>3, <2>4 DEF Reads, Writable
  <2> QED
    BY <1>3, <2>1, <2>2, <2>5, OutcomeReads
<1>4. CASE \E words : WordsOk(words) /\ SetParam(words)
  BY <1>3, <1>4 DEF SetParam
<1>5. CASE ShiftCmd
  <2>1. PICK x : x = TRUE
    OBVIOUS
  <2>2. Same(g, [g EXCEPT !.failed = x]) /\ Undisturbed(g, [g EXCEPT !.failed = x])
    BY <1>0, SameSteps, UndisturbedSteps
  <2>3. CASE Leaves([g EXCEPT !.failed = x])
    BY <1>1, <2>2, <2>3
  <2>4. CASE g.params.p # <<>> /\ Leaves([g EXCEPT !.params = Params(Tail(g.params.p))])
    <3>1. WordsOk(Tail(g.params.p))
      BY <1>0, <2>4, TailWords DEF Reads, Reading
    <3> QED
      BY <1>3, <2>4, <3>1
  <2>5. \/ Leaves([g EXCEPT !.failed = x])
        \/ g.params.p # <<>> /\ Leaves([g EXCEPT !.params = Params(Tail(g.params.p))])
    BY <1>5, <2>1, Zenon DEF ShiftCmd, Fail
  <2> QED
    BY <2>3, <2>4, <2>5
<1> QED
  BY <1>2, <1>4, <1>5

LEMMA VariableReads ==
    ASSUME InPlace, AsksOnce, NumbersDiffer, NEW n \in Names,
           \/ Assign(n) \/ AssignForBuiltin(n) \/ LocalCmd(n)
           \/ GetoptsCommand(n) /\ n \notin {"OPTARG", "OPTIND"}
           \/ UnsetCmd(n) /\ n # "OPTIND"
    PROVE  ReadOutcome
<1> HIDE NamesAssumption
<1>0. Sound(g, calls) /\ Reads(g)
  BY DEF InPlace
<1>1. \A v \in ValuesOf(n) : n # "OPTIND" \/ v = Number(1)
  BY DEF ValuesOf
<1>2. ASSUME NEW v \in ValuesOf(n), NEW asked \in {{}, {"noset"}}
      PROVE  Reads(SetVarEq(g, n, v, asked))
  <2>1. "readonly" \notin asked
    OBVIOUS
  <2> QED
    BY <1>0, <1>1, <2>1, AssignedReads
<1>3. CASE Assign(n)
  <2>1. PICK asked \in {{}, {"noset"}} : asked = {}
    OBVIOUS
  <2>2. PICK v \in ValuesOf(n) : Leaves(SetVarEq(g, n, v, asked))
    BY <1>3, <2>1 DEF Assign
  <2> QED
    BY <1>2, <2>2, OutcomeReads
<1>4. CASE AssignForBuiltin(n)
  <2>1. PICK asked \in {{}, {"noset"}} : asked = {"noset"}
    OBVIOUS
  <2>2. PICK v \in ValuesOf(n) : Leaves(SetVarEq(g, n, v, asked))
    BY <1>4, <2>1 DEF AssignForBuiltin
  <2> QED
    BY <1>2, <2>2, OutcomeReads
<1>5. CASE GetoptsCommand(n) /\ n \notin {"OPTARG", "OPTIND"}
  <2>1. Reads(GetoptsCmd(g, n))
    BY <1>0, <1>5, GetoptsReads
  <2> QED
    BY <1>5, <2>1, OutcomeReads DEF GetoptsCommand
<1>6. CASE UnsetCmd(n) /\ n # "OPTIND"
  <2>1. PICK t : t = UnsetVar(g, n).s
    OBVIOUS
  <2>2. Undisturbed(g, t)
    BY <1>0, <1>6, <2>1, UnsetVarReads
  <2>3. SameArgument(g, t)
    <3>1. "OPTARG" \in Names
      BY NamesAssumption
    <3>2. CASE n = "OPTARG"
      BY <1>0, <2>1, <3>2, UnsetVarIs DEF SameArgument
    <3>3. CASE n # "OPTARG"
      BY <1>0, <2>1, <3>1, <3>3, UnsetVarIs DEF OnlyVar, SameArgument
    <3> QED
      BY <3>2, <3>3
  <2>4. Leaves(t)
    BY <1>6, <2>1 DEF UnsetCmd
  <2> QED
    BY <1>0, <2>2, <2>3, <2>4, ReadsOn, OutcomeReads
<1>7. CASE LocalCmd(n)
  <2>1. PICK v \in ValuesOf(n) \cup {Unset} : Catches(MkLocal(g, n, v))
    BY <1>7 DEF LocalCmd
  <2>2. n # "OPTIND" \/ v \in {Number(1), Unset}
    BY <1>1, <2>1
  <2>3. Reads(MkLocal(g, n, v))
    BY <1>0, <2>2, MkLocalReads
  <2> QED
    BY <2>1, <2>3, OutcomeReads
<1> QED
  BY <1>3, <1>4, <1>5, <1>6, <1>7

LEMMA ExportReads ==
    ASSUME InPlace, NumbersDiffer, NEW n \in Ordinary, NEW flag \in {"export", "readonly"},
           ExportCmd(n, flag), Silent \/ n # "OPTARG"
    PROVE  ReadOutcome
<1>0. Sound(g, calls) /\ Reads(g) /\ n \in Names /\ n # "OPTIND"
  BY DEF InPlace, Ordinary
<1>1. ASSUME NEW v, Leaves(SetVar(g, n, v, {flag}))
      PROVE  ReadOutcome
  <2>1. PICK asked : asked = {flag}
    OBVIOUS
  <2>2. PICK t : t = SetVar(g, n, v, asked)
    OBVIOUS
  <2>3. PICK more : t = SetVarEq(g, n, v, more)
    BY <2>2 DEF SetVar
  <2>4. Undisturbed(g, t) /\ OnlyVar(g, t, n)
    BY <1>0, <2>3, SetVarEqReads, SetVarEqIsSound
  <2>5. Reads(t)
    <3>1. "OPTARG" \in Names
      BY NamesAssumption
    <3>2. Writable(g) => Writable(t)
      BY <2>4, <3>1 DEF OnlyVar, Writable
    <3> QED
      BY <1>0, <2>4, <3>2 DEF Reads, Undisturbed
  <2> QED
    BY <1>1, <2>1, <2>2, <2>5, OutcomeReads
<1>2. ASSUME g.vars[n].there, Leaves([g EXCEPT !.vars[n].flags = @ \cup {flag}])
      PROVE  ReadOutcome
  <2>1. PICK G : G = g.vars[n].flags \cup {flag}
    OBVIOUS
  <2>2. PICK t : t = [g EXCEPT !.vars[n].flags = G]
    OBVIOUS
  <2>3. OnlyFlags(g, t, n, G)
    BY <1>0, <1>2, <2>1, <2>2, FlagsAdded
  <2>4. Undisturbed(g, t)
    <3>1. Undisturbed(g, PutFlags(g, n, G))
      BY <1>0, UndisturbedSteps DEF Sound
    <3> QED
      BY <2>2, <3>1 DEF PutFlags
  <2>5. Reads(t)
    <3>1. "OPTARG" \in Names
      BY NamesAssumption
    <3>2. Writable(g) => Writable(t)
      BY <2>3, <3>1 DEF OnlyFlags, Writable
    <3> QED
      BY <1>0, <2>4, <3>2 DEF Reads, Undisturbed
  <2>6. Leaves(t)
    BY <1>2, <2>1, <2>2
  <2> QED
    BY <2>5, <2>6, OutcomeReads
<1>3. \/ \E v \in ValuesOf(n) : Leaves(SetVar(g, n, v, {flag}))
      \/ g.vars[n].there /\ Leaves([g EXCEPT !.vars[n].flags = @ \cup {flag}])
      \/ Leaves(SetVar(g, n, Unset, {flag}))
  BY DEF ExportCmd
<1> QED
  BY <1>1, <1>2, <1>3

LEMMA PushRead ==
    ASSUME AnySeq(calls), FramesRead(calls), NEW f, Reading(f.params)
    PROVE  FramesRead(Cons(f, calls))
<1>1. PICK q : q = calls
  OBVIOUS
<1>2. /\ Len(q) \in Nat /\ Len(Cons(f, q)) = Len(q) + 1 /\ Cons(f, q)[1] = f
      /\ \A i \in 1..Len(q) : Cons(f, q)[i + 1] = q[i]
  BY <1>1, SeqFacts, ConsFacts
<1>3. \A i \in 1..Len(q) : Reading(q[i].params)
  BY <1>1 DEF FramesRead
<1>4. ASSUME NEW k \in 1..Len(Cons(f, q))
      PROVE  Reading(Cons(f, q)[k].params)
  <2>1. CASE k = 1
    BY <1>2, <2>1
  <2>2. CASE k # 1
    <3>1. k - 1 \in 1..Len(q) /\ (k - 1) + 1 = k
      BY <1>2, <2>2
    <3>2. Cons(f, q)[(k - 1) + 1] = q[k - 1]
      BY <1>2, <3>1
    <3>3. Reading(q[k - 1].params)
      BY <1>3, <3>1
    <3> QED
      BY <3>1, <3>2, <3>3
  <2> QED
    BY <2>1, <2>2
<1>5. FramesRead(Cons(f, q))
  BY <1>4 DEF FramesRead
<1> QED
  BY <1>1, <1>5

LEMMA TailRead ==
    ASSUME AnySeq(calls), FramesRead(calls), calls # <<>>
    PROVE  FramesRead(Tail(calls)) /\ Reading(Head(calls).params)
<1>1. PICK q : q = calls
  OBVIOUS
<1>2. /\ Len(q) \in Nat \ {0} /\ Len(Tail(q)) = Len(q) - 1
      /\ \A i \in 1..(Len(q) - 1) : Tail(q)[i] = q[i + 1]
      /\ Head(q) = q[1]
  BY <1>1, TailFacts
<1>3. \A i \in 1..Len(q) : Reading(q[i].params)
  BY <1>1 DEF FramesRead
<1>4. 1 \in 1..Len(q) /\ \A i \in 1..(Len(q) - 1) : i + 1 \in 1..Len(q)
  BY <1>2
<1>5. Reading(Head(q).params)
  BY <1>2, <1>3, <1>4
<1>6. \A i \in 1..(Len(q) - 1) : Reading(Tail(q)[i].params)
  BY <1>2, <1>3, <1>4
<1>7. FramesRead(Tail(q))
  BY <1>2, <1>6 DEF FramesRead
<1> QED
  BY <1>1, <1>5, <1>7

LEMMA EnterReads ==
    ASSUME InPlace, NEW kind, NEW s, Reads(s), NEW words, WordsOk(words), Enter(kind, s, words)
    PROVE  ReadOutcome
<1>1. PICK frame : frame = [kind |-> kind, params |-> s.params, locals |-> IF kind = "fun" THEN s.locals ELSE <<>>]
  OBVIOUS
<1>2. PICK new : new = Params(words)
  OBVIOUS
<1>3. PICK t : t = [s EXCEPT !.params = new, !.locals = IF kind = "fun" THEN <<>> ELSE @]
  OBVIOUS
<1>4. calls' = Cons(frame, calls) /\ g' = t
  BY <1>1, <1>2, <1>3 DEF Enter, Cons
<1>5. Shaped(t) /\ t.params = new /\ t.vars = s.vars
  BY <1>3 DEF Reads, Shaped, Fields
<1>6. Reading(new)
  BY <1>2, ParamsRead
<1>7. Reads(t)
  BY <1>5, <1>6 DEF Reads, Writable
<1>8. Reading(frame.params)
  BY <1>1 DEF Reads
<1>9. FramesRead(calls')
  BY <1>4, <1>8, PushRead DEF InPlace, Sound
<1> QED
  BY <1>4, <1>7, <1>9 DEF ReadOutcome

LEMMA CallReads ==
    ASSUME InPlace, NumbersDiffer, NEW n \in Names, NEW words, WordsOk(words),
           EvalFunWith(n, words) \/ EvalFun(words) \/ DotCmd(words)
    PROVE  ReadOutcome
<1>0. Sound(g, calls) /\ Reads(g)
  BY DEF InPlace
<1>1. CASE EvalFun(words)
  BY <1>0, <1>1, EnterReads DEF EvalFun
<1>2. CASE DotCmd(words)
  BY <1>0, <1>2, EnterReads DEF DotCmd
<1>3. CASE EvalFunWith(n, words)
  <2>1. PICK v \in ValuesOf(n) : IF SetVarEq(g, n, v, {}).failed THEN Leaves(SetVarEq(g, n, v, {}))
                                 ELSE Enter("fun", SetVarEq(g, n, v, {}), words)
    BY <1>3 DEF EvalFunWith
  <2>2. PICK asked : asked = {}
    OBVIOUS
  <2>3. PICK s : s = SetVarEq(g, n, v, asked)
    OBVIOUS
  <2>4. n # "OPTIND" \/ v = Number(1)
    BY <2>1 DEF ValuesOf
  <2>5. Reads(s)
    BY <1>0, <2>2, <2>3, <2>4, AssignedReads
  <2>6. IF s.failed THEN Leaves(s) ELSE Enter("fun", s, words)
    BY <2>1, <2>2, <2>3
  <2>7. CASE Leaves(s)
    BY <2>5, <2>7, OutcomeReads
  <2>8. CASE Enter("fun", s, words)
    BY <2>5, <2>8, EnterReads
  <2> QED
    BY <2>6, <2>7, <2>8
<1> QED
  BY <1>1, <1>2, <1>3

LEMMA FunDoneReads ==
    ASSUME InPlace, FunDone
    PROVE  ReadOutcome
<1>1. PICK u : u = PopLocalVars(g)
  OBVIOUS
<1>2. Sound(u, calls) /\ \A m \in Names : "readonly" \in u.vars[m].flags => "readonly" \in g.vars[m].flags
  BY <1>1, PopLocalVarsIs DEF InPlace, Popped
<1>3. PICK p : p = Head(calls).params
  OBVIOUS
<1>4. PICK t : t = [u EXCEPT !.locals = Head(calls).locals, !.params = p]
  OBVIOUS
<1>5. g' = t /\ calls' = Tail(calls) /\ calls # <<>>
  BY <1>1, <1>3, <1>4 DEF FunDone
<1>6. Shaped(t) /\ t.vars = u.vars /\ t.params = p
  BY <1>2, <1>4 DEF Sound, Shaped, Fields
<1>7. FramesRead(Tail(calls)) /\ Reading(p)
  BY <1>3, <1>5, TailRead DEF InPlace, Sound
<1>8. Writable(t)
  <2>1. "OPTARG" \in Names
    BY NamesAssumption
  <2> QED
    BY <1>2, <1>6, <2>1 DEF InPlace, Reads, Writable
<1> QED
  BY <1>5, <1>6, <1>7, <1>8 DEF Reads, ReadOutcome

LEMMA DotDoneReads ==
    ASSUME InPlace, DotDone
    PROVE  ReadOutcome
<1>1. PICK p : p = Head(calls).params
  OBVIOUS
<1>2. Shaped(g) /\ Reads(g)
  BY DEF InPlace, Sound
<1>3. calls # <<>> /\ calls' = Tail(calls)
  BY DEF DotDone
<1>4. FramesRead(Tail(calls)) /\ Reading(p)
  BY <1>1, <1>3, TailRead DEF InPlace, Sound
<1>5. PICK t : t = [g EXCEPT !.params = p]
  OBVIOUS
<1>6. Shaped(t) /\ t.vars = g.vars /\ t.params = p
  BY <1>2, <1>5 DEF Shaped, Fields
<1>7. Reads(t)
  BY <1>2, <1>4, <1>6 DEF Reads, Writable
<1>8. g' = g \/ g' = t
  BY <1>1, <1>5 DEF DotDone
<1> QED
  BY <1>2, <1>3, <1>4, <1>7, <1>8 DEF ReadOutcome

-----------------------------------------------------------------------------
(***************************************************************************)
(* The invariant and the theorem.                                          *)
(***************************************************************************)
GInv == InPlace /\ group \in DOMAIN Groups

LEMMA InitGInv == Init => GInv
<1> SUFFICES ASSUME Init
             PROVE  GInv
  OBVIOUS
<1>1. Sound(g, calls) /\ group \in DOMAIN Groups
  BY InitInv DEF Inv
<1>2. calls = <<>> /\ FramesRead(calls)
  BY EmptyIsASeq DEF Init, FramesRead
<1>3. PICK none : none = <<>>
  OBVIOUS
<1>4. WordsOk(none)
  <2>1. none \in Seq(Texts) /\ 1..Len(none) = {}
    BY <1>3
  <2> QED
    BY <2>1 DEF WordsOk
<1>5. g.params = Params(none)
  BY <1>3 DEF Init
<1>6. Reading(g.params)
  BY <1>4, <1>5, ParamsRead
<1>7. PICK table : table = [n \in Names |->
          IF n = "PATH" THEN [there |-> TRUE, flags |-> {"strfixed", "textfixed"},
                              text |-> [val |-> CHOOSE p \in Paths : TRUE, block |-> NoBlock]]
          ELSE IF n = "OPTIND" THEN [there |-> TRUE, flags |-> {"strfixed", "textfixed"},
                                     text |-> [val |-> Number(1), block |-> NoBlock]]
          ELSE NoVar]
  OBVIOUS
<1>8. g.vars = table
  BY <1>7 DEF Init
<1>9. g.vars["OPTARG"] = NoVar
  <2>1. "OPTARG" \in Names
    BY NamesAssumption
  <2> QED
    BY <1>7, <1>8, <2>1
<1>10. Writable(g)
  BY <1>9 DEF Writable, NoVar
<1> QED
  BY <1>1, <1>2, <1>6, <1>10 DEF GInv, InPlace, Reads, Sound

LEMMA NextReads ==
    ASSUME GetoptsUse, GInv, Next
    PROVE  ReadOutcome
<1>0. /\ InPlace /\ group \in DOMAIN Groups /\ Uses[group] \subseteq Names
      /\ AsksOnce /\ NumbersDiffer /\ \A w \in ArgLists[group] : WordsOk(w)
  <2>1. InPlace /\ group \in DOMAIN Groups
    BY DEF GInv
  <2>2. Uses[group] \subseteq Names
    BY <2>1, NamesAssumption
  <2>3. AsksOnce /\ NumbersDiffer
    BY DEF GetoptsUse
  <2>4. \A w \in ArgLists[group] : WordsOk(w)
    BY <2>1 DEF GetoptsUse
  <2> QED
    BY <2>1, <2>2, <2>3, <2>4
<1>1. ASSUME NEW n \in Uses[group],
             \/ Assign(n) \/ AssignForBuiltin(n) \/ LocalCmd(n)
             \/ \E w \in ArgLists[group] : EvalFunWith(n, w)
      PROVE  ReadOutcome
  <2>1. n \in Names
    BY <1>0
  <2>2. CASE Assign(n) \/ AssignForBuiltin(n) \/ LocalCmd(n)
    BY <1>0, <2>1, <2>2, VariableReads
  <2>3. CASE \E w \in ArgLists[group] : EvalFunWith(n, w)
    BY <1>0, <2>1, <2>3, CallReads
  <2> QED
    BY <1>1, <2>2, <2>3
<1>2. ASSUME NEW n \in Uses[group] \cap Ordinary, ExportCmd(n, "export") \/ ExportCmd(n, "readonly") \/ UnsetCmd(n)
      PROVE  ReadOutcome
  <2>1. n \in Ordinary /\ n \in Names /\ n # "OPTIND"
    BY DEF Ordinary
  <2>2. CASE UnsetCmd(n)
    BY <1>0, <2>1, <2>2, VariableReads
  <2>3. CASE ExportCmd(n, "export") \/ ExportCmd(n, "readonly")
    <3>1. "export" \in Groups[group]
      BY <2>3 DEF ExportCmd, Executes
    <3>2. Silent \/ n # "OPTARG"
      BY <1>0, <3>1 DEF GetoptsUse
    <3> QED
      BY <1>0, <2>1, <2>3, <3>2, ExportReads
  <2> QED
    BY <1>2, <2>2, <2>3
<1>3. ASSUME NEW n \in OptVars, GetoptsCommand(n)
      PROVE  ReadOutcome
  <2>1. n \in Names
    BY NamesAssumption
  <2>2. n \notin {"OPTARG", "OPTIND"}
    BY DEF GetoptsUse
  <2> QED
    BY <1>0, <1>3, <2>1, <2>2, VariableReads
<1>4. ASSUME NEW w \in ArgLists[group], EvalFun(w) \/ DotCmd(w) \/ SetParam(w)
      PROVE  ReadOutcome
  <2>1. "PATH" \in Names /\ WordsOk(w)
    BY <1>0, NamesAssumption
  <2>2. CASE SetParam(w)
    BY <1>0, <2>1, <2>2, ParamsReads
  <2>3. CASE EvalFun(w) \/ DotCmd(w)
    BY <1>0, <2>1, <2>3, CallReads
  <2> QED
    BY <1>4, <2>2, <2>3
<1>5. ASSUME AllExport \/ ShiftCmd
      PROVE  ReadOutcome
  BY <1>0, <1>5, ParamsReads
<1>6. ASSUME FunDone \/ DotDone
      PROVE  ReadOutcome
  BY <1>0, <1>6, FunDoneReads, DotDoneReads
<1>7. ASSUME NEW c \in Commands,
             \/ Run(c, TRUE) \/ Run(c, FALSE) \/ TypeCmd(c) \/ HashCmd(c)
             \/ DefFun(c) \/ UnsetFunc(c) \/ \E p \in Paths : RunWithPath(c, p)
      PROVE  ReadOutcome
  BY <1>0, <1>7, TableReads
<1>8. ASSUME HashForget
      PROVE  ReadOutcome
  BY <1>0, <1>8, TableReads
<1>9. ASSUME NEW d, CdCmd(d)
      PROVE  ReadOutcome
  BY <1>0, <1>9, CdReads
<1> QED
  BY <1>1, <1>2, <1>3, <1>4, <1>5, <1>6, <1>7, <1>8, <1>9, Zenon DEF Next

LEMMA NextGInv == GetoptsUse /\ GInv /\ [Next]_vars => GInv'
<1> SUFFICES ASSUME GetoptsUse, GInv, [Next]_vars
             PROVE  GInv'
  OBVIOUS
<1>1. CASE Next
  <2>1. Reads(g') /\ FramesRead(calls')
    BY <1>1, NextReads DEF ReadOutcome
  <2>2. Inv
    BY DEF GInv, InPlace, Inv
  <2>3. Sound(g', calls') /\ group' \in DOMAIN Groups
    BY <2>2, NextInv DEF Inv
  <2> QED
    BY <2>1, <2>3 DEF GInv, InPlace
<1>2. CASE UNCHANGED vars
  BY <1>2 DEF vars, GInv, InPlace
<1> QED
  BY <1>1, <1>2

LEMMA InPlaceReports == GInv => GetoptsReportsAll
<1> SUFFICES ASSUME GInv
             PROVE  GetoptsReportsAll
  OBVIOUS
<1>1. DOMAIN calls = 1..Len(calls)
  BY SeqFacts DEF GInv, InPlace, Sound
<1>2. \A ps \in {g.params} \cup {calls[k].params : k \in DOMAIN calls} : Reading(ps)
  BY <1>1 DEF GInv, InPlace, Reads, FramesRead
<1> QED
  BY <1>2, ReadRight DEF GetoptsReportsAll

(* getopts reports every option of the parameters once and in order, also  *)
(* when a function it calls in between uses getopts on its own.            *)
THEOREM OptionsAreReported ==
    ASSUME GetoptsUse
    PROVE  Spec => []GetoptsReportsAll
<1>1. GInv => GetoptsReportsAll
  BY InPlaceReports
<1>2. GInv /\ [Next]_vars => GInv'
  BY NextGInv
<1> QED
  BY InitGInv, <1>1, <1>2, PTL DEF Spec

-----------------------------------------------------------------------------
(***************************************************************************)
(* The table of commands: what it remembers is what a search of the path   *)
(* would find.                                                             *)
(***************************************************************************)
USE LookupAssumption

-----------------------------------------------------------------------------
(***************************************************************************)
(* The invariant.                                                          *)
(***************************************************************************)
\* An element of a path in which a search for c goes on.
Skips(c, e, cwd) ==
    IF Option(e) = "builtin" THEN Builtins[c] = "no" ELSE Files[Where(e, cwd)][c] \in {"none", "directory"}

\* The name is not one that a %func directory defines.
Claimed(c) == Files["/f"][c] # "functions"

\* A search for c goes on in the first n elements; if the entry is to be looked
\* up again this is known of the elements that do not depend on the directory.
Before(s, c, n, rehash) ==
    \A j \in 0..(n - 1) : (rehash => Absolute(PathVal(s)[j + 1])) => Skips(c, PathVal(s)[j + 1], s.cwd)

IsEntry(h) == h = [type |-> h.type, index |-> h.index, rehash |-> h.rehash] /\ h.rehash \in BOOLEAN

NormalOk(s, c, h) ==
    /\ h.index \in 0..(Len(PathVal(s)) - 1)
    /\ c \notin Applets /\ Builtins[c] # "regular"
    /\ Builtins[c] = "plain" => s.builtinloc > 0
    /\ Before(s, c, h.index, h.rehash)
    /\ Option(PathVal(s)[h.index + 1]) = "none"
    /\ (h.rehash => Absolute(PathVal(s)[h.index + 1])) => ~Skips(c, PathVal(s)[h.index + 1], s.cwd)

BuiltinOk(s, c, h) ==
    /\ h.index = -1 /\ Builtins[c] # "no"
    /\ Builtins[c] = "plain" /\ s.builtinloc > 0 => c \notin Applets /\ Before(s, c, s.builtinloc, h.rehash)

EntryOk(s, c, h) ==
    /\ IsEntry(h) /\ h.type \in {"unknown", "normal", "builtin", "function"}
    /\ h.type = "normal" => NormalOk(s, c, h)
    /\ h.type = "builtin" => BuiltinOk(s, c, h)
    /\ h.type = "function" => ~h.rehash

TableOk(s) == \A c \in Commands : Claimed(c) => EntryOk(s, c, s.cmds[c])

PathOk(s) ==
    /\ s.cmds = [c \in Commands |-> s.cmds[c]]
    /\ s.vars["PATH"].there /\ "strfixed" \in s.vars["PATH"].flags
    /\ AnySeq(PathVal(s)) /\ s.builtinloc = BuiltinIndex(PathVal(s))

\* A cd can fail half-way.
Wary(s) == "readonly" \in s.vars["PWD"].flags \/ "readonly" \in s.vars["OLDPWD"].flags

\* What a function saved of PATH can be given back; PWD and OLDPWD are not saved.
LocalOk(l) ==
    /\ l.name = "PATH" => "strfixed" \in l.flags /\ AnySeq(l.text.val)
    /\ l.name \notin {"PWD", "OLDPWD"}
LevelOk(q) == \A i \in 1..Len(q) : LocalOk(q[i])
FramesOk(cs) == \A k \in 1..Len(cs) : LevelOk(cs[k].locals)

-----------------------------------------------------------------------------
(***************************************************************************)
(* Searching a path.                                                       *)
(***************************************************************************)
LEMMA Elements ==
    /\ \A e : Option(e) \in {"builtin", "func", "none"}
    /\ \A e : Absolute(e) => Option(e) # "builtin" /\ e # "."
    /\ \A e, d, f : Absolute(e) => Where(e, d) = Where(e, f)
    /\ \A c \in Commands : \A e, d, f : Absolute(e) => (Skips(c, e, d) <=> Skips(c, e, f))
    /\ \A c \in Commands : \A e, d : Claimed(c) /\ Option(e) = "func" => Skips(c, e, d)
<1>1. \A e : Option(e) \in {"builtin", "func", "none"}
  BY DEF Option
<1>2. \A e : Absolute(e) => Option(e) # "builtin" /\ e # "."
  BY DEF Option, Absolute, IsBuiltinDir, IsFuncDir
<1>3. \A e, d, f : Absolute(e) => Where(e, d) = Where(e, f)
  BY DEF Where, Absolute
<1>4. \A c \in Commands : \A e, d, f : Absolute(e) => (Skips(c, e, d) <=> Skips(c, e, f))
  BY <1>3 DEF Skips
<1>5. \A c \in Commands : \A e, d : Claimed(c) /\ Option(e) = "func" => Skips(c, e, d)
  BY DEF Claimed, Skips, Option, Where, IsFuncDir
<1> QED
  BY <1>1, <1>2, <1>3, <1>4, <1>5

\* What the search finds at one element.
Kind(c, e, cwd, i, prev) ==
    IF Absolute(e) /\ i <= prev /\ Option(e) = "none" THEN (IF i = prev THEN "same" ELSE "skip")
    ELSE IF Skips(c, e, cwd) THEN "skip"
    ELSE IF Option(e) = "builtin" THEN "builtin" ELSE "file"

LEMMA AtElementIs ==
    ASSUME NEW s, NEW c \in Commands, Claimed(c), NEW path, NEW i \in Nat, NEW prev \in Int, NEW nofunc,
           Option(path[i + 1]) = "func" => i # prev
    PROVE  AtElement(s, c, path, i, prev, nofunc) = Kind(c, path[i + 1], s.cwd, i, prev)
<1>1. PICK e : e = path[i + 1]
  OBVIOUS
<1>2. CASE Option(e) = "builtin"
  <2>1. ~Absolute(e)
    BY <1>2, Elements
  <2> QED
    BY <1>1, <1>2, <2>1 DEF AtElement, Kind, Skips
<1>3. CASE Option(e) = "func"
  <2>1. Skips(c, e, s.cwd)
    BY <1>3, Elements
  <2>2. Files[Where(e, s.cwd)][c] \in {"none", "directory"}
    BY <1>3, <2>1 DEF Skips
  <2> QED
    BY <1>1, <1>3, <2>1, <2>2 DEF AtElement, Kind
<1>4. CASE Option(e) = "none"
  BY <1>1, <1>4 DEF AtElement, Kind, Skips
<1> QED
  BY <1>1, <1>2, <1>3, <1>4, Elements

\* The indices at which something is found, and the first of them.
Founds(c, path, cwd, prev) == {i \in 0..(Len(path) - 1) : Kind(c, path[i + 1], cwd, i, prev) # "skip"}
FirstOf(found) == CHOOSE i \in found : \A j \in found : i <= j

LEMMA FirstOfIs ==
    ASSUME NEW found \in SUBSET Nat, NEW m \in found, \A j \in found : m <= j
    PROVE  FirstOf(found) = m
<1>1. \E i \in found : \A j \in found : i <= j
  OBVIOUS
<1>2. FirstOf(found) \in found /\ \A j \in found : FirstOf(found) <= j
  BY <1>1 DEF FirstOf
<1>3. PICK f : f = FirstOf(found)
  OBVIOUS
<1>4. f \in Nat /\ m \in Nat /\ f <= m /\ m <= f
  BY <1>2, <1>3
<1> QED
  BY <1>3, <1>4

LEMMA FirstOfIn ==
    ASSUME NEW found \in SUBSET Nat, found # {}
    PROVE  FirstOf(found) \in found /\ \A j \in found : FirstOf(found) <= j
<1>1. \E i \in found : \A j \in found : i <= j
  BY LeastElement
<1> QED
  BY <1>1 DEF FirstOf

LEMMA BuiltinIndexIs ==
    ASSUME NEW path, AnySeq(path)
    PROVE  \/ /\ BuiltinIndex(path) = -1
              /\ \A i \in 1..Len(path) : Option(path[i]) # "builtin"
           \/ /\ BuiltinIndex(path) \in 0..(Len(path) - 1)
              /\ Option(path[BuiltinIndex(path) + 1]) = "builtin"
              /\ \A i \in 1..BuiltinIndex(path) : Option(path[i]) # "builtin"
<1>1. Len(path) \in Nat
  BY SeqFacts
<1>2. PICK at : at = {i \in 1..Len(path) : IsBuiltinDir(path[i])}
  OBVIOUS
<1>3. BuiltinIndex(path) = IF at = {} THEN -1 ELSE FirstOf(at) - 1
  BY <1>2 DEF BuiltinIndex, FirstOf
<1>4. \A e : Option(e) = "builtin" <=> IsBuiltinDir(e)
  BY DEF Option
<1>5. CASE at = {}
  BY <1>2, <1>3, <1>4, <1>5
<1>6. CASE at # {}
  <2>1. at \in SUBSET Nat
    BY <1>1, <1>2
  <2>2. FirstOf(at) \in at /\ \A j \in at : FirstOf(at) <= j
    BY <1>6, <2>1, FirstOfIn
  <2>3. PICK b : b = FirstOf(at)
    OBVIOUS
  <2>4. b \in 1..Len(path) /\ IsBuiltinDir(path[b]) /\ BuiltinIndex(path) = b - 1 /\ (b - 1) + 1 = b
    BY <1>1, <1>2, <1>3, <1>6, <2>2, <2>3
  <2>5. \A i \in 1..(b - 1) : ~IsBuiltinDir(path[i])
    BY <1>1, <1>2, <2>2, <2>3, <2>4
  <2>6. PICK x : x = BuiltinIndex(path)
    OBVIOUS
  <2>7. x \in 0..(Len(path) - 1) /\ x + 1 = b /\ x = b - 1
    BY <1>1, <2>4, <2>6
  <2> QED
    BY <1>4, <2>4, <2>5, <2>6, <2>7
<1> QED
  BY <1>5, <1>6

-----------------------------------------------------------------------------
(***************************************************************************)
(* find_command.                                                           *)
(***************************************************************************)
\* What find_command finds if the table does not help.
FreshEntry(s, c, path, alt) ==
    LET first == FirstOf(Founds(c, path, s.cwd, -1))
    IN  IF \/ Builtins[c] = "regular"
           \/ Builtins[c] = "plain" /\ (IF alt THEN ~(BuiltinIndex(path) >= 0) ELSE s.builtinloc <= 0)
        THEN Entry("builtin", -1)
        ELSE IF c \in Applets THEN Entry("normal", -1)
        ELSE IF Founds(c, path, s.cwd, -1) = {} THEN NoEntry
        ELSE IF Kind(c, path[first + 1], s.cwd, first, -1) = "builtin" THEN Entry("builtin", -1)
        ELSE Entry("normal", first)

\* The entry of the table does not count.
Ignored(h, path, alt, nofunc) ==
    \/ h.type = "normal" /\ alt
    \/ h.type = "function" /\ nofunc
    \/ h.type = "builtin" /\ alt /\ BuiltinIndex(path) >= 0
Counts(s, c, path, alt, nofunc) == InTable(s.cmds, c) /\ ~Ignored(s.cmds[c], path, alt, nofunc)

\* What is found goes into the table.
Updates(s, c, path, alt, nofunc) == ~alt /\ ~(InTable(s.cmds, c) /\ Ignored(s.cmds[c], path, alt, nofunc))

\* The index an entry is looked up again from.
Again(s, h) == IF h.type = "builtin" THEN s.builtinloc ELSE h.index

\* find_command with a search of Founds from prev on.
FindsFrom(s, c, path, alt, nofunc, prev, found, first, r) ==
    /\ Counts(s, c, path, alt, nofunc) /\ ~s.cmds[c].rehash => r = [entry |-> s.cmds[c], cmds |-> s.cmds]
    /\ ~(Counts(s, c, path, alt, nofunc) /\ ~s.cmds[c].rehash) =>
          IF \/ Builtins[c] = "regular"
             \/ Builtins[c] = "plain" /\ (IF alt THEN ~(BuiltinIndex(path) >= 0) ELSE s.builtinloc <= 0)
          THEN r = [entry |-> Entry("builtin", -1),
                    cmds |-> IF Updates(s, c, path, alt, nofunc) THEN [s.cmds EXCEPT ![c] = Entry("builtin", -1)] ELSE s.cmds]
          ELSE IF c \in Applets THEN r = [entry |-> Entry("normal", -1), cmds |-> s.cmds]
          ELSE IF found = {}
          THEN r = [entry |-> NoEntry,
                    cmds |-> IF Counts(s, c, path, alt, nofunc) /\ Updates(s, c, path, alt, nofunc) THEN [s.cmds EXCEPT ![c] = NoEntry] ELSE s.cmds]
          ELSE /\ Kind(c, path[first + 1], s.cwd, first, prev) = "builtin" =>
                     r = [entry |-> Entry("builtin", -1),
                          cmds |-> IF Updates(s, c, path, alt, nofunc) THEN [s.cmds EXCEPT ![c] = Entry("builtin", -1)] ELSE s.cmds]
               /\ Kind(c, path[first + 1], s.cwd, first, prev) = "same" =>
                     r = [entry |-> [s.cmds[c] EXCEPT !.rehash = FALSE],
                          cmds |-> [s.cmds EXCEPT ![c] = [s.cmds[c] EXCEPT !.rehash = FALSE]]]
               /\ Kind(c, path[first + 1], s.cwd, first, prev) = "file" =>
                     r = [entry |-> Entry("normal", first),
                          cmds |-> IF Updates(s, c, path, alt, nofunc) THEN [s.cmds EXCEPT ![c] = Entry("normal", first)] ELSE s.cmds]

\* prev is what find_command starts from.
StartsFrom(s, c, path, alt, nofunc, prev) ==
    /\ prev \in Int
    /\ prev = IF ~Counts(s, c, path, alt, nofunc) \/ ~s.cmds[c].rehash THEN -1 ELSE Again(s, s.cmds[c])
    /\ \A i \in 0..(Len(path) - 1) : Option(path[i + 1]) = "func" => i # prev

LEMMA FindCommandIs ==
    ASSUME NEW s, NEW c \in Commands, Claimed(c), NEW path, AnySeq(path), NEW alt \in BOOLEAN, NEW nofunc,
           NEW prev, StartsFrom(s, c, path, alt, nofunc, prev)
    PROVE  FindsFrom(s, c, path, alt, nofunc, prev, Founds(c, path, s.cwd, prev),
                     FirstOf(Founds(c, path, s.cwd, prev)), FindCommand(s, c, path, alt, nofunc))
<1>a. PICK found : found = Founds(c, path, s.cwd, prev)
  OBVIOUS
<1>b. PICK first : first = FirstOf(found)
  OBVIOUS
<1>c. PICK r : r = FindCommand(s, c, path, alt, nofunc)
  OBVIOUS
<1>d. /\ prev \in Int
      /\ prev = IF ~Counts(s, c, path, alt, nofunc) \/ ~s.cmds[c].rehash THEN -1 ELSE Again(s, s.cmds[c])
      /\ \A i \in 0..(Len(path) - 1) : Option(path[i + 1]) = "func" => i # prev
  BY DEF StartsFrom
<1> SUFFICES FindsFrom(s, c, path, alt, nofunc, prev, found, first, r)
  BY <1>a, <1>b, <1>c
<1> DEFINE hit     == s.cmds[c]
           altbl   == alt /\ BuiltinIndex(path) >= 0
           ignore  == \/ hit.type = "normal" /\ alt
                      \/ hit.type = "function" /\ nofunc
                      \/ hit.type = "builtin" /\ altbl
           known   == InTable(s.cmds, c) /\ ~ignore
           upd     == ~alt /\ ~(InTable(s.cmds, c) /\ ignore)
           prv     == IF ~known \/ ~hit.rehash THEN -1
                      ELSE IF hit.type = "builtin" THEN s.builtinloc ELSE hit.index
           fnd     == {i \in 0..(Len(path) - 1) : AtElement(s, c, path, i, prv, nofunc) # "skip"}
           at      == CHOOSE i \in fnd : \A j \in fnd : i <= j
           what    == AtElement(s, c, path, at, prv, nofunc)
           Result(e) == [entry |-> e, cmds |-> IF upd THEN [s.cmds EXCEPT ![c] = e] ELSE s.cmds]
<1>1. r = IF known /\ ~hit.rehash THEN [entry |-> hit, cmds |-> s.cmds]
          ELSE IF \/ Builtins[c] = "regular"
                  \/ Builtins[c] = "plain" /\ (IF alt THEN ~altbl ELSE s.builtinloc <= 0)
               THEN Result(Entry("builtin", -1))
          ELSE IF c \in Applets THEN [entry |-> Entry("normal", -1), cmds |-> s.cmds]
          ELSE IF fnd = {}
               THEN [entry |-> NoEntry,
                     cmds |-> IF known /\ upd THEN [s.cmds EXCEPT ![c] = NoEntry] ELSE s.cmds]
          ELSE IF what = "builtin" THEN Result(Entry("builtin", -1))
          ELSE IF what = "same"
               THEN LET e == [hit EXCEPT !.rehash = FALSE]
                    IN  [entry |-> e, cmds |-> [s.cmds EXCEPT ![c] = e]]
          ELSE IF what = "func"
               THEN [entry |-> Entry("function", -1),
                     cmds |-> [s.cmds EXCEPT ![c] = Entry("function", -1)]]
          ELSE Result(Entry("normal", at))
  BY <1>c, Zenon DEF FindCommand
<1>2. known <=> Counts(s, c, path, alt, nofunc)
  BY DEF Counts, Ignored
<1>3. upd <=> Updates(s, c, path, alt, nofunc)
  BY DEF Updates, Ignored
<1>4. prv = prev
  BY <1>2, <1>d DEF Again
<1>5. Len(path) \in Nat
  BY SeqFacts
<1> HIDE DEF known, upd, prv
<1>6. \A i \in 0..(Len(path) - 1) : AtElement(s, c, path, i, prv, nofunc) = Kind(c, path[i + 1], s.cwd, i, prev)
  BY <1>4, <1>d, AtElementIs
<1>7. fnd = found
  BY <1>6, <1>a DEF Founds
<1>8. at = first
  BY <1>7, <1>b DEF FirstOf
<1> HIDE DEF fnd, at
<1>9. found # {} => first \in 0..(Len(path) - 1)
  <2>1. found \in SUBSET Nat /\ found \subseteq 0..(Len(path) - 1)
    BY <1>a DEF Founds
  <2> QED
    BY <1>b, <2>1, FirstOfIn
<1>10. found # {} => what = Kind(c, path[first + 1], s.cwd, first, prev)
  BY <1>6, <1>8, <1>9
<1> HIDE DEF what
<1>11. ASSUME NEW k, k = Kind(c, path[first + 1], s.cwd, first, prev)
       PROVE  k = "builtin" => k # "same"
  OBVIOUS
<1>12. \A e : Result(e) = [entry |-> e, cmds |-> IF Updates(s, c, path, alt, nofunc) THEN [s.cmds EXCEPT ![c] = e] ELSE s.cmds]
  BY <1>3
<1>13. (IF alt THEN ~altbl ELSE s.builtinloc <= 0) <=> (IF alt THEN ~(BuiltinIndex(path) >= 0) ELSE s.builtinloc <= 0)
  OBVIOUS
<1> HIDE DEF Result, altbl
<1> USE DEF FindsFrom
<1>14. CASE Counts(s, c, path, alt, nofunc) /\ ~hit.rehash
  BY <1>1, <1>2, <1>14
<1>15. CASE ~(Counts(s, c, path, alt, nofunc) /\ ~hit.rehash)
  <2>1. CASE \/ Builtins[c] = "regular"
             \/ Builtins[c] = "plain" /\ (IF alt THEN ~altbl ELSE s.builtinloc <= 0)
    BY <1>1, <1>2, <1>12, <1>13, <1>15, <2>1
  <2>2. CASE ~(\/ Builtins[c] = "regular"
               \/ Builtins[c] = "plain" /\ (IF alt THEN ~altbl ELSE s.builtinloc <= 0))
    <3>1. CASE c \in Applets
      BY <1>1, <1>2, <1>13, <1>15, <2>2, <3>1
    <3>2. CASE c \notin Applets /\ found = {}
      BY <1>1, <1>2, <1>3, <1>7, <1>13, <1>15, <2>2, <3>2
    <3>3. CASE c \notin Applets /\ found # {}
      <4>1. r = IF what = "builtin" THEN Result(Entry("builtin", -1))
                ELSE IF what = "same"
                     THEN LET e == [hit EXCEPT !.rehash = FALSE]
                          IN  [entry |-> e, cmds |-> [s.cmds EXCEPT ![c] = e]]
                ELSE IF what = "func"
                     THEN [entry |-> Entry("function", -1),
                           cmds |-> [s.cmds EXCEPT ![c] = Entry("function", -1)]]
                ELSE Result(Entry("normal", first))
        BY <1>1, <1>2, <1>7, <1>8, <1>13, <1>15, <2>2, <3>3
      <4>2. CASE what = "builtin"
        BY <1>10, <1>12, <1>13, <1>15, <2>2, <3>3, <4>1, <4>2
      <4>3. CASE what = "same"
        BY <1>10, <1>12, <1>13, <1>15, <2>2, <3>3, <4>1, <4>3
      <4>4. CASE what = "file"
        BY <1>10, <1>12, <1>13, <1>15, <2>2, <3>3, <4>1, <4>4
      <4>5. CASE what \notin {"builtin", "same", "file"}
        BY <1>10, <1>13, <1>15, <2>2, <3>3, <4>5
      <4> QED
        BY <4>2, <4>3, <4>4, <4>5
    <3> QED
      BY <3>1, <3>2, <3>3
  <2> QED
    BY <2>1, <2>2
<1> QED
  BY <1>14, <1>15

LEMMA EntryFields ==
    \A type, index :
        /\ Entry(type, index).type = type /\ Entry(type, index).index = index
        /\ Entry(type, index).rehash = FALSE /\ IsEntry(Entry(type, index))
<1> TAKE type, index
<1>1. PICK no : no = FALSE
  OBVIOUS
<1>2. PICK h : h = [type |-> type, index |-> index, rehash |-> no]
  OBVIOUS
<1>3. Entry(type, index) = h
  BY <1>1, <1>2, Zenon DEF Entry
<1>4. h.type = type /\ h.index = index /\ h.rehash = no
  BY <1>2
<1>5. h = [type |-> h.type, index |-> h.index, rehash |-> h.rehash]
  BY <1>2
<1> QED
  BY <1>1, <1>3, <1>4, <1>5 DEF IsEntry

LEMMA NoEntryFields ==
    NoEntry.type = "unknown" /\ NoEntry.rehash = FALSE /\ IsEntry(NoEntry)
<1>1. NoEntry = Entry("unknown", -1)
  BY Zenon DEF NoEntry, Entry
<1> QED
  BY <1>1, EntryFields

LEMMA EntryIs ==
    ASSUME NEW h, IsEntry(h)
    PROVE  /\ ~h.rehash => h = Entry(h.type, h.index)
           /\ [h EXCEPT !.rehash = FALSE] = Entry(h.type, h.index)
<1>1. PICK no : no = FALSE
  OBVIOUS
<1>2. h = [type |-> h.type, index |-> h.index, rehash |-> h.rehash] /\ h.rehash \in BOOLEAN
  BY DEF IsEntry
<1>3. Entry(h.type, h.index) = [type |-> h.type, index |-> h.index, rehash |-> no]
  BY <1>1, Zenon DEF Entry
<1>4. [h EXCEPT !.rehash = no] = [type |-> h.type, index |-> h.index, rehash |-> no]
  BY <1>2
<1>5. ~h.rehash => h.rehash = no
  BY <1>1, <1>2
<1>6. ~h.rehash => h = [type |-> h.type, index |-> h.index, rehash |-> no]
  BY <1>2, <1>5
<1> QED
  BY <1>1, <1>3, <1>4, <1>6

\* The command is found as from the beginning; what goes into the table is that, or nothing.
FoundAnew(s, c, path, alt, r, e) ==
    /\ r.entry = e
    /\ r.cmds = s.cmds \/ (~alt /\ ~(e.type = "normal" /\ e.index = -1) /\ r.cmds = [s.cmds EXCEPT ![c] = e])

(* The table does not help: the search starts at the first element.        *)
LEMMA FindAnew ==
    ASSUME NEW s, NEW c \in Commands, Claimed(c), NEW path, AnySeq(path), NEW alt \in BOOLEAN, NEW nofunc,
           ~Counts(s, c, path, alt, nofunc)
    PROVE  FoundAnew(s, c, path, alt, FindCommand(s, c, path, alt, nofunc), FreshEntry(s, c, path, alt))
<1>a. PICK e : e = FreshEntry(s, c, path, alt)
  OBVIOUS
<1>0. PICK r : r = FindCommand(s, c, path, alt, nofunc)
  OBVIOUS
<1>1. PICK prev : prev = -1
  OBVIOUS
<1>3. PICK found : found = Founds(c, path, s.cwd, prev)
  OBVIOUS
<1>4. PICK first : first = FirstOf(found)
  OBVIOUS
<1>6. PICK kind : kind = Kind(c, path[first + 1], s.cwd, first, prev)
  OBVIOUS
<1>7. prev \in Int /\ \A i \in 0..(Len(path) - 1) : i # prev
  <2>1. Len(path) \in Nat
    BY SeqFacts
  <2> QED
    BY <1>1, <2>1
<1>8. IF \/ Builtins[c] = "regular"
         \/ Builtins[c] = "plain" /\ (IF alt THEN ~(BuiltinIndex(path) >= 0) ELSE s.builtinloc <= 0)
      THEN r = [entry |-> Entry("builtin", -1),
                cmds |-> IF Updates(s, c, path, alt, nofunc) THEN [s.cmds EXCEPT ![c] = Entry("builtin", -1)] ELSE s.cmds]
      ELSE IF c \in Applets THEN r = [entry |-> Entry("normal", -1), cmds |-> s.cmds]
      ELSE IF found = {}
      THEN r = [entry |-> NoEntry, cmds |-> s.cmds]
      ELSE /\ kind = "builtin" =>
                 r = [entry |-> Entry("builtin", -1),
                      cmds |-> IF Updates(s, c, path, alt, nofunc) THEN [s.cmds EXCEPT ![c] = Entry("builtin", -1)] ELSE s.cmds]
           /\ kind = "file" =>
                 r = [entry |-> Entry("normal", first),
                      cmds |-> IF Updates(s, c, path, alt, nofunc) THEN [s.cmds EXCEPT ![c] = Entry("normal", first)] ELSE s.cmds]
  <2>1. StartsFrom(s, c, path, alt, nofunc, prev)
    BY <1>1, <1>7 DEF StartsFrom
  <2>2. FindsFrom(s, c, path, alt, nofunc, prev, found, first, r)
    BY <1>0, <1>3, <1>4, <2>1, FindCommandIs
  <2>3. IF \/ Builtins[c] = "regular"
           \/ Builtins[c] = "plain" /\ (IF alt THEN ~(BuiltinIndex(path) >= 0) ELSE s.builtinloc <= 0)
        THEN r = [entry |-> Entry("builtin", -1),
                  cmds |-> IF Updates(s, c, path, alt, nofunc) THEN [s.cmds EXCEPT ![c] = Entry("builtin", -1)] ELSE s.cmds]
        ELSE IF c \in Applets THEN r = [entry |-> Entry("normal", -1), cmds |-> s.cmds]
        ELSE IF found = {}
        THEN r = [entry |-> NoEntry,
                  cmds |-> IF Counts(s, c, path, alt, nofunc) /\ Updates(s, c, path, alt, nofunc)
                           THEN [s.cmds EXCEPT ![c] = NoEntry] ELSE s.cmds]
        ELSE /\ kind = "builtin" =>
                   r = [entry |-> Entry("builtin", -1),
                        cmds |-> IF Updates(s, c, path, alt, nofunc) THEN [s.cmds EXCEPT ![c] = Entry("builtin", -1)] ELSE s.cmds]
             /\ kind = "file" =>
                   r = [entry |-> Entry("normal", first),
                        cmds |-> IF Updates(s, c, path, alt, nofunc) THEN [s.cmds EXCEPT ![c] = Entry("normal", first)] ELSE s.cmds]
    BY <1>6, <2>2 DEF FindsFrom
  <2> QED
    BY <2>3
<1>9. Len(path) \in Nat
  BY SeqFacts
<1>10. found # {} => first \in found
  <2>1. found \in SUBSET Nat
    BY <1>3, <1>9 DEF Founds
  <2> QED
    BY <1>4, <2>1, FirstOfIn
<1>11. found # {} => kind \in {"builtin", "file"} /\ first \in Nat
  BY <1>1, <1>3, <1>6, <1>9, <1>10 DEF Founds, Kind
<1>12. e = IF \/ Builtins[c] = "regular"
              \/ Builtins[c] = "plain" /\ (IF alt THEN ~(BuiltinIndex(path) >= 0) ELSE s.builtinloc <= 0)
           THEN Entry("builtin", -1)
           ELSE IF c \in Applets THEN Entry("normal", -1)
           ELSE IF found = {} THEN NoEntry
           ELSE IF kind = "builtin" THEN Entry("builtin", -1)
           ELSE Entry("normal", first)
  BY <1>a, <1>1, <1>3, <1>4, <1>6 DEF FreshEntry
<1>13. r.entry = e /\ (r.cmds = s.cmds \/ (~alt /\ r.cmds = [s.cmds EXCEPT ![c] = e]))
  BY <1>8, <1>11, <1>12 DEF Updates
<1>14. e.type = "normal" /\ e.index = -1 => r.cmds = s.cmds
  <2>1. Entry("builtin", -1).type = "builtin" /\ NoEntry.type = "unknown"
    BY EntryFields, NoEntryFields
  <2>2. found # {} => Entry("normal", first).index # -1
    BY <1>11, EntryFields
  <2> QED
    BY <1>8, <1>11, <1>12, <2>1, <2>2
<1> QED
  BY <1>0, <1>a, <1>13, <1>14 DEF FoundAnew

(* What a second search skips does not matter.                             *)
LEMMA FoundsAgain ==
    ASSUME NEW c \in Commands, Claimed(c), NEW path, AnySeq(path), NEW cwd, NEW prev \in 0..(Len(path) - 1),
           \A j \in 0..(prev - 1) : Absolute(path[j + 1]) => Skips(c, path[j + 1], cwd),
           Absolute(path[prev + 1]) => ~Skips(c, path[prev + 1], cwd)
    PROVE  /\ Founds(c, path, cwd, prev) = Founds(c, path, cwd, -1)
           /\ \A i \in 0..(Len(path) - 1) :
                 \/ Kind(c, path[i + 1], cwd, i, prev) = Kind(c, path[i + 1], cwd, i, -1)
                 \/ /\ i = prev /\ Kind(c, path[i + 1], cwd, i, prev) = "same"
                    /\ Kind(c, path[i + 1], cwd, i, -1) = "file"
<1>1. Len(path) \in Nat
  BY SeqFacts
<1>2. ASSUME NEW i \in 0..(Len(path) - 1)
      PROVE  /\ \/ Kind(c, path[i + 1], cwd, i, prev) = Kind(c, path[i + 1], cwd, i, -1)
                \/ /\ i = prev /\ Kind(c, path[i + 1], cwd, i, prev) = "same"
                   /\ Kind(c, path[i + 1], cwd, i, -1) = "file"
             /\ Kind(c, path[i + 1], cwd, i, prev) # "skip" <=> Kind(c, path[i + 1], cwd, i, -1) # "skip"
  <2>1. CASE i < prev
    <3>1. i \in 0..(prev - 1) /\ ~(i <= -1) /\ i # prev /\ i <= prev
      BY <2>1
    <3> QED
      BY <3>1, Elements DEF Kind
  <2>2. CASE i = prev
    BY <2>2 DEF Kind
  <2>3. CASE i > prev
    <3>1. ~(i <= -1) /\ ~(i <= prev)
      BY <2>3
    <3> QED
      BY <3>1 DEF Kind
  <2> QED
    BY <1>1, <2>1, <2>2, <2>3
<1> QED
  BY <1>2 DEF Founds

\* The entry tells where c is found in the path.
Located(s, c, h) == h.type = "normal" \/ (h.type = "builtin" /\ Builtins[c] = "plain" /\ s.builtinloc > 0)

LEMMA LocatedIs ==
    ASSUME NEW s, PathOk(s), NEW c \in Commands, NEW h, EntryOk(s, c, h), Located(s, c, h),
           NEW p, p = Again(s, h), NEW path, path = PathVal(s)
    PROVE  /\ p \in 0..(Len(path) - 1) /\ c \notin Applets /\ Builtins[c] # "regular"
           /\ Builtins[c] = "plain" => s.builtinloc > 0
           /\ \A j \in 0..(p - 1) : (h.rehash => Absolute(path[j + 1])) => Skips(c, path[j + 1], s.cwd)
           /\ (h.rehash => Absolute(path[p + 1])) => ~Skips(c, path[p + 1], s.cwd)
           /\ Option(path[p + 1]) = IF h.type = "normal" THEN "none" ELSE "builtin"
<1>1. CASE h.type = "normal"
  <2>1. NormalOk(s, c, h) /\ p = h.index
    BY <1>1 DEF EntryOk, Again
  <2> QED
    BY <1>1, <2>1 DEF NormalOk, Before
<1>2. CASE h.type # "normal"
  <2>1. h.type = "builtin" /\ Builtins[c] = "plain" /\ s.builtinloc > 0
    BY <1>2 DEF Located
  <2>2. BuiltinOk(s, c, h) /\ p = s.builtinloc /\ p = BuiltinIndex(path) /\ AnySeq(path)
    BY <2>1 DEF EntryOk, Again, PathOk
  <2>3. p \in 0..(Len(path) - 1) /\ Option(path[p + 1]) = "builtin"
    BY <2>1, <2>2, BuiltinIndexIs
  <2>4. ~Skips(c, path[p + 1], s.cwd)
    BY <2>1, <2>3 DEF Skips
  <2> QED
    BY <2>1, <2>2, <2>3, <2>4 DEF BuiltinOk, Before
<1> QED
  BY <1>1, <1>2

(* The entry is what a search from the beginning finds, or is corrected.   *)
LEMMA FindAgain ==
    ASSUME NEW s, PathOk(s), NEW c \in Commands, Claimed(c), EntryOk(s, c, s.cmds[c]), NEW nofunc,
           NEW path, path = PathVal(s), NEW alt \in BOOLEAN, ~alt,
           Counts(s, c, path, alt, nofunc), s.cmds[c].type # "function"
    PROVE  FoundAnew(s, c, path, alt, FindCommand(s, c, path, alt, nofunc), FreshEntry(s, c, path, alt))
<1>a. PICK e : e = FreshEntry(s, c, path, alt)
  OBVIOUS
<1>0. PICK r : r = FindCommand(s, c, path, alt, nofunc)
  OBVIOUS
<1> SUFFICES /\ r.entry = e /\ ~(e.type = "normal" /\ e.index = -1)
             /\ r.cmds = s.cmds \/ r.cmds = [s.cmds EXCEPT ![c] = e]
  BY <1>0, <1>a DEF FoundAnew
<1>1. PICK h : h = s.cmds[c]
  OBVIOUS
<1>2. AnySeq(path) /\ Len(path) \in Nat
  BY SeqFacts DEF PathOk
<1>3. h.type \in {"normal", "builtin"} /\ IsEntry(h)
  BY <1>1 DEF Counts, InTable, EntryOk
<1>4. PICK p : p = Again(s, h)
  OBVIOUS
<1>5. PICK prev : prev = IF ~h.rehash THEN -1 ELSE p
  OBVIOUS
<1>6. p \in Int
  <2>1. CASE h.type = "normal"
    <3>1. NormalOk(s, c, h)
      BY <1>1, <2>1 DEF EntryOk
    <3> QED
      BY <1>2, <1>4, <2>1, <3>1 DEF Again, NormalOk
  <2>2. CASE h.type = "builtin"
    <3>1. BuiltinIndex(path) \in Int
      BY <1>2, BuiltinIndexIs
    <3> QED
      BY <1>4, <2>2, <3>1 DEF Again, PathOk
  <2> QED
    BY <1>3, <2>1, <2>2
<1>7. ASSUME ~Located(s, c, h)
      PROVE  e = Entry("builtin", -1) /\ h.type = "builtin" /\ h.index = -1
  <2>1. h.type = "builtin" /\ (Builtins[c] = "plain" => ~(s.builtinloc > 0))
    BY <1>3, <1>7 DEF Located
  <2>2. BuiltinOk(s, c, h)
    BY <1>1, <2>1 DEF EntryOk
  <2>3. Builtins[c] \in {"regular", "plain"}
    BY <2>2 DEF BuiltinOk
  <2>4. s.builtinloc \in Int
    BY <1>2, BuiltinIndexIs DEF PathOk
  <2> QED
    BY <1>a, <2>1, <2>2, <2>3, <2>4 DEF FreshEntry, BuiltinOk
<1>8. PICK found : found = Founds(c, path, s.cwd, -1)
  OBVIOUS
<1>9. PICK first : first = FirstOf(found)
  OBVIOUS
<1>10. found \in SUBSET Nat /\ found \subseteq 0..(Len(path) - 1)
  BY <1>2, <1>8 DEF Founds
<1>11. ASSUME Located(s, c, h)
       PROVE  /\ p \in 0..(Len(path) - 1) /\ c \notin Applets /\ Builtins[c] # "regular"
              /\ Builtins[c] = "plain" => ~(s.builtinloc <= 0)
              /\ \A j \in 0..(p - 1) : (h.rehash => Absolute(path[j + 1])) => Skips(c, path[j + 1], s.cwd)
              /\ (h.rehash => Absolute(path[p + 1])) => ~Skips(c, path[p + 1], s.cwd)
              /\ Option(path[p + 1]) = IF h.type = "normal" THEN "none" ELSE "builtin"
  <2>1. s.builtinloc \in Int
    BY <1>2, BuiltinIndexIs DEF PathOk
  <2>2. EntryOk(s, c, h)
    BY <1>1
  <2>3. /\ p \in 0..(Len(path) - 1) /\ c \notin Applets /\ Builtins[c] # "regular"
        /\ Builtins[c] = "plain" => s.builtinloc > 0
        /\ \A j \in 0..(p - 1) : (h.rehash => Absolute(path[j + 1])) => Skips(c, path[j + 1], s.cwd)
        /\ (h.rehash => Absolute(path[p + 1])) => ~Skips(c, path[p + 1], s.cwd)
        /\ Option(path[p + 1]) = IF h.type = "normal" THEN "none" ELSE "builtin"
    BY <1>4, <1>11, <2>2, LocatedIs
  <2> QED
    BY <2>1, <2>3
<1>12. ASSUME Located(s, c, h)
       PROVE  e = IF found = {} THEN NoEntry
                  ELSE IF Kind(c, path[first + 1], s.cwd, first, -1) = "builtin" THEN Entry("builtin", -1)
                  ELSE Entry("normal", first)
  <2>1. /\ ~(Builtins[c] = "regular" \/ (Builtins[c] = "plain" /\ s.builtinloc <= 0))
        /\ c \notin Applets
    BY <1>11, <1>12
  <2> QED
    BY <1>a, <1>8, <1>9, <2>1 DEF FreshEntry
<1>13. ASSUME ~h.rehash
       PROVE  h = e
  <2>1. h = Entry(h.type, h.index)
    BY <1>3, <1>13, EntryIs
  <2>2. CASE ~Located(s, c, h)
    BY <1>7, <2>1, <2>2
  <2>3. CASE Located(s, c, h)
    <3>1. \A j \in 0..(p - 1) : Kind(c, path[j + 1], s.cwd, j, -1) = "skip"
      BY <1>11, <1>13, <2>3 DEF Kind
    <3>2. Kind(c, path[p + 1], s.cwd, p, -1) = IF h.type = "normal" THEN "file" ELSE "builtin"
      BY <1>3, <1>11, <1>13, <2>3 DEF Kind
    <3>3. p \in found /\ \A j \in found : p <= j
      BY <1>3, <1>6, <1>8, <1>11, <2>3, <3>1, <3>2 DEF Founds
    <3>4. first = p
      BY <1>9, <1>10, <3>3, FirstOfIs
    <3>5. e = IF h.type = "normal" THEN Entry("normal", p) ELSE Entry("builtin", -1)
      BY <1>3, <1>12, <2>3, <3>2, <3>3, <3>4
    <3>6. h.type = "normal" => p = h.index
      BY <1>4 DEF Again
    <3>7. h.type = "builtin" => h.index = -1
      BY <1>1 DEF EntryOk, BuiltinOk
    <3> QED
      BY <1>3, <2>1, <3>5, <3>6, <3>7
  <2> QED
    BY <2>2, <2>3
<1>14. ~(e.type = "normal" /\ e.index = -1)
  <2>1. CASE ~Located(s, c, h)
    BY <1>7, <2>1, EntryFields
  <2>2. CASE Located(s, c, h)
    <3>1. found # {} => first \in Nat
      BY <1>9, <1>10, FirstOfIn
    <3> QED
      BY <1>12, <2>2, <3>1, EntryFields, NoEntryFields
  <2> QED
    BY <2>1, <2>2
<1>15. StartsFrom(s, c, path, alt, nofunc, prev)
  <2>1. prev = IF ~Counts(s, c, path, alt, nofunc) \/ ~s.cmds[c].rehash THEN -1 ELSE Again(s, s.cmds[c])
    BY <1>1, <1>4, <1>5
  <2>2. prev \in Int
    BY <1>5, <1>6
  <2>3. ASSUME NEW i \in 0..(Len(path) - 1), Option(path[i + 1]) = "func", i = prev
        PROVE  FALSE
    <3>1. i = p
      BY <1>2, <1>5, <2>3
    <3>2. Located(s, c, h)
      <4>1. CASE h.type = "normal"
        BY <4>1 DEF Located
      <4>2. CASE h.type = "builtin"
        <5>1. p = BuiltinIndex(path)
          BY <1>4, <4>2 DEF Again, PathOk
        <5>2. Option(path[p + 1]) = "builtin"
          BY <1>2, <2>3, <3>1, <5>1, BuiltinIndexIs
        <5> QED
          BY <2>3, <3>1, <5>2
      <4> QED
        BY <1>3, <4>1, <4>2
    <3> QED
      BY <1>3, <1>11, <2>3, <3>1, <3>2
  <2> QED
    BY <2>1, <2>2, <2>3 DEF StartsFrom
<1>16. FindsFrom(s, c, path, alt, nofunc, prev, Founds(c, path, s.cwd, prev),
                 FirstOf(Founds(c, path, s.cwd, prev)), r)
  BY <1>0, <1>2, <1>15, FindCommandIs
<1>17. CASE ~h.rehash
  <2>1. r = [entry |-> h, cmds |-> s.cmds]
    BY <1>1, <1>16, <1>17 DEF FindsFrom
  <2> QED
    BY <1>13, <1>14, <1>17, <2>1
<1>18. CASE h.rehash /\ ~Located(s, c, h)
  <2>1. Builtins[c] = "regular" \/ (Builtins[c] = "plain" /\ s.builtinloc <= 0)
    <3>1. BuiltinOk(s, c, h)
      BY <1>1, <1>7, <1>18 DEF EntryOk
    <3>2. Builtins[c] \in {"regular", "plain"}
      BY <3>1 DEF BuiltinOk
    <3>3. s.builtinloc \in Int
      BY <1>2, BuiltinIndexIs DEF PathOk
    <3> QED
      BY <1>7, <1>18, <3>2, <3>3 DEF Located
  <2>2. \/ r = [entry |-> Entry("builtin", -1), cmds |-> [s.cmds EXCEPT ![c] = Entry("builtin", -1)]]
        \/ r = [entry |-> Entry("builtin", -1), cmds |-> s.cmds]
    BY <1>1, <1>16, <1>18, <2>1 DEF FindsFrom
  <2> QED
    BY <1>7, <1>14, <1>18, <2>2
<1>19. CASE h.rehash /\ Located(s, c, h)
  <2>1. prev = p
    BY <1>5, <1>19
  <2>2. /\ Founds(c, path, s.cwd, prev) = found
        /\ \A i \in 0..(Len(path) - 1) :
                 \/ Kind(c, path[i + 1], s.cwd, i, prev) = Kind(c, path[i + 1], s.cwd, i, -1)
                 \/ /\ i = prev /\ Kind(c, path[i + 1], s.cwd, i, prev) = "same"
                    /\ Kind(c, path[i + 1], s.cwd, i, -1) = "file"
    <3>1. /\ prev \in 0..(Len(path) - 1)
          /\ \A j \in 0..(prev - 1) : Absolute(path[j + 1]) => Skips(c, path[j + 1], s.cwd)
          /\ Absolute(path[prev + 1]) => ~Skips(c, path[prev + 1], s.cwd)
      BY <1>11, <1>19, <2>1
    <3> QED
      BY <1>2, <1>8, <3>1, FoundsAgain
  <2>3. ~(Builtins[c] = "regular" \/ (Builtins[c] = "plain" /\ s.builtinloc <= 0)) /\ c \notin Applets
    BY <1>11, <1>19
  <2>4. FindsFrom(s, c, path, alt, nofunc, prev, found, first, r)
    BY <1>9, <1>16, <2>2
  <2>5. CASE found = {}
    <3>1. r = [entry |-> NoEntry, cmds |-> [s.cmds EXCEPT ![c] = NoEntry]] \/ r = [entry |-> NoEntry, cmds |-> s.cmds]
      BY <1>1, <1>19, <2>3, <2>4, <2>5 DEF FindsFrom
    <3> QED
      BY <1>12, <1>14, <1>19, <2>5, <3>1
  <2>6. CASE found # {}
    <3>1. PICK kind : kind = Kind(c, path[first + 1], s.cwd, first, prev)
      OBVIOUS
    <3>2. first \in found /\ first \in 0..(Len(path) - 1)
      BY <1>9, <1>10, <2>6, FirstOfIn
    <3>3. PICK fresh : fresh = Kind(c, path[first + 1], s.cwd, first, -1)
      OBVIOUS
    <3>4. fresh \in {"builtin", "file"} /\ (kind = fresh \/ (first = prev /\ kind = "same" /\ fresh = "file"))
      <4>1. fresh # "skip"
        BY <1>8, <3>2, <3>3 DEF Founds
      <4>2. fresh \in {"builtin", "file"}
        BY <1>2, <3>2, <3>3, <4>1 DEF Kind
      <4> QED
        BY <2>2, <3>1, <3>2, <3>3, <4>2
    <3>5. e = IF fresh = "builtin" THEN Entry("builtin", -1) ELSE Entry("normal", first)
      BY <1>12, <1>19, <2>6, <3>3
    <3>6. CASE kind = "same"
      <4>0. PICK again : again = [h EXCEPT !.rehash = FALSE]
        OBVIOUS
      <4>1. r = [entry |-> again, cmds |-> [s.cmds EXCEPT ![c] = again]]
        BY <1>1, <4>0, <1>19, <2>3, <2>4, <2>6, <3>1, <3>6 DEF FindsFrom
      <4>2. again = Entry(h.type, h.index)
        BY <1>3, <4>0, EntryIs
      <4>3. h.type = "normal" /\ h.index = first
        <5>1. first = p /\ fresh = "file"
          BY <2>1, <3>4, <3>6
        <5>2. h.type = "normal"
          <6>1. Option(path[p + 1]) = "builtin" => fresh # "file"
            BY <3>3, <5>1, Elements DEF Kind
          <6> QED
            BY <1>3, <1>11, <1>19, <5>1, <6>1
        <5> QED
          BY <1>4, <5>1, <5>2 DEF Again
      <4>4. e = Entry("normal", first)
        BY <3>4, <3>5, <3>6
      <4>5. again = e
        BY <4>2, <4>3, <4>4
      <4> QED
        BY <1>14, <4>1, <4>5
    <3>7. CASE kind = "builtin"
      <4>1. \/ r = [entry |-> Entry("builtin", -1), cmds |-> [s.cmds EXCEPT ![c] = Entry("builtin", -1)]]
            \/ r = [entry |-> Entry("builtin", -1), cmds |-> s.cmds]
        BY <1>1, <1>19, <2>3, <2>4, <2>6, <3>1, <3>7 DEF FindsFrom
      <4> QED
        BY <1>14, <3>4, <3>5, <3>7, <4>1
    <3>8. CASE kind = "file"
      <4>1. \/ r = [entry |-> Entry("normal", first), cmds |-> [s.cmds EXCEPT ![c] = Entry("normal", first)]]
            \/ r = [entry |-> Entry("normal", first), cmds |-> s.cmds]
        BY <1>1, <1>19, <2>3, <2>4, <2>6, <3>1, <3>8 DEF FindsFrom
      <4> QED
        BY <1>14, <3>4, <3>5, <3>8, <4>1
    <3> QED
      BY <3>4, <3>6, <3>7, <3>8
  <2> QED
    BY <2>5, <2>6
<1> QED
  BY <1>17, <1>18, <1>19

(* What a search from the beginning finds can be remembered.               *)
LEMMA FreshIsOk ==
    ASSUME NEW s, PathOk(s), NEW c \in Commands, Claimed(c), NEW alt \in BOOLEAN, ~alt,
           NEW path, path = PathVal(s), NEW e, e = FreshEntry(s, c, path, alt),
           ~(e.type = "normal" /\ e.index = -1)
    PROVE  EntryOk(s, c, e)
<1>1. AnySeq(path) /\ Len(path) \in Nat /\ s.builtinloc = BuiltinIndex(path) /\ s.builtinloc \in Int
  <2>1. AnySeq(path) /\ s.builtinloc = BuiltinIndex(path)
    BY DEF PathOk
  <2> QED
    BY <2>1, SeqFacts, BuiltinIndexIs
<1>2. PICK found : found = Founds(c, path, s.cwd, -1)
  OBVIOUS
<1>3. PICK first : first = FirstOf(found)
  OBVIOUS
<1>4. PICK kind : kind = Kind(c, path[first + 1], s.cwd, first, -1)
  OBVIOUS
<1>5. PICK x : x = path[first + 1]
  OBVIOUS
<1>6. found # {} => /\ first \in found /\ \A j \in found : first <= j
                    /\ first \in 0..(Len(path) - 1)
  <2>1. found \in SUBSET Nat /\ found \subseteq 0..(Len(path) - 1)
    BY <1>1, <1>2 DEF Founds
  <2> QED
    BY <1>3, <2>1, FirstOfIn
<1>7. \A j \in 0..(Len(path) - 1) : j \notin found => Skips(c, path[j + 1], s.cwd)
  <2>1. \A j \in 0..(Len(path) - 1) : ~(j <= -1)
    BY <1>1
  <2> QED
    BY <1>2, <2>1 DEF Founds, Kind
<1>8. found # {} => ~Skips(c, x, s.cwd) /\ kind = IF Option(x) = "builtin" THEN "builtin" ELSE "file"
  <2>1. found # {} => kind # "skip" /\ ~(first <= -1)
    BY <1>1, <1>2, <1>4, <1>6 DEF Founds
  <2> QED
    BY <1>4, <1>5, <2>1 DEF Kind
<1>9. found # {} => \A j \in 0..(first - 1) : Skips(c, path[j + 1], s.cwd)
  BY <1>1, <1>6, <1>7
<1> DEFINE sure == \/ Builtins[c] = "regular"
                   \/ Builtins[c] = "plain" /\ s.builtinloc <= 0
<1>10. e = IF sure THEN Entry("builtin", -1)
           ELSE IF c \in Applets THEN Entry("normal", -1)
           ELSE IF found = {} THEN NoEntry
           ELSE IF kind = "builtin" THEN Entry("builtin", -1)
           ELSE Entry("normal", first)
  BY <1>2, <1>3, <1>4 DEF FreshEntry
<1>11. ASSUME NEW type, NEW index, e = Entry(type, index)
       PROVE  e.type = type /\ e.index = index /\ e.rehash = FALSE /\ IsEntry(e)
  BY <1>11, EntryFields
<1>12. CASE sure
  <2>1. e.type = "builtin" /\ e.index = -1 /\ IsEntry(e)
    BY <1>10, <1>11, <1>12
  <2>2. BuiltinOk(s, c, e)
    BY <1>1, <1>12, <2>1 DEF BuiltinOk
  <2> QED
    BY <2>1, <2>2 DEF EntryOk
<1>13. CASE ~sure /\ c \in Applets
  BY <1>10, <1>11, <1>13
<1>14. CASE ~sure /\ c \notin Applets /\ found = {}
  <2>1. e = NoEntry
    BY <1>10, <1>14
  <2> QED
    BY <2>1, NoEntryFields DEF EntryOk
<1>15. CASE ~sure /\ c \notin Applets /\ found # {} /\ kind = "builtin"
  <2>1. e.type = "builtin" /\ e.index = -1 /\ IsEntry(e)
    BY <1>10, <1>11, <1>15
  <2>2. Option(x) = "builtin" /\ Builtins[c] # "no"
    <3>1. Option(x) = "builtin"
      BY <1>8, <1>15
    <3> QED
      BY <1>8, <1>15, <3>1 DEF Skips
  <2>3. Builtins[c] = "plain" /\ s.builtinloc > 0
    BY <1>1, <1>15, <2>2
  <2>4. PICK b : b = s.builtinloc
    OBVIOUS
  <2>5. b \in 0..(Len(path) - 1) /\ Option(path[b + 1]) = "builtin" /\ \A i \in 1..b : Option(path[i]) # "builtin"
    BY <1>1, <2>3, <2>4, BuiltinIndexIs
  <2>6. ~Skips(c, path[b + 1], s.cwd)
    BY <2>2, <2>5 DEF Skips
  <2>7. first <= b
    BY <1>6, <1>7, <1>15, <2>5, <2>6
  <2>8. ~(first < b)
    <3>1. ASSUME first < b PROVE FALSE
      <4>1. first + 1 \in 1..b
        BY <1>1, <1>6, <1>15, <2>5, <3>1
      <4> QED
        BY <1>5, <2>2, <2>5, <4>1
    <3> QED
      BY <3>1
  <2>9. first = b
    BY <1>1, <1>6, <1>15, <2>5, <2>7, <2>8
  <2>10. Before(s, c, s.builtinloc, e.rehash)
    BY <1>9, <1>15, <2>4, <2>9 DEF Before
  <2>11. BuiltinOk(s, c, e)
    BY <1>15, <2>1, <2>2, <2>10 DEF BuiltinOk
  <2> QED
    BY <2>1, <2>11 DEF EntryOk
<1>16. CASE ~sure /\ c \notin Applets /\ found # {} /\ kind # "builtin"
  <2>1. e.type = "normal" /\ e.index = first /\ IsEntry(e) /\ e.rehash = FALSE
    BY <1>10, <1>11, <1>16
  <2>2. Option(x) = "none"
    <3>1. Option(x) # "builtin"
      BY <1>8, <1>16
    <3>2. Option(x) # "func"
      BY <1>8, <1>16, Elements
    <3> QED
      BY <3>1, <3>2, Elements
  <2>3. Before(s, c, first, e.rehash)
    BY <1>9, <1>16 DEF Before
  <2>4. NormalOk(s, c, e)
    BY <1>1, <1>5, <1>6, <1>8, <1>16, <2>1, <2>2, <2>3 DEF NormalOk
  <2> QED
    BY <2>1, <2>4 DEF EntryOk
<1> QED
  BY <1>12, <1>13, <1>14, <1>15, <1>16

IsBuiltin(s, r, e) == r.entry.type = "builtin" /\ r.cmds = s.cmds /\ e.type = "builtin"

(* A builtin of the table is found in a path without %builtin.             *)
LEMMA FindBuiltin ==
    ASSUME NEW s, NEW c \in Commands, NEW path, NEW alt \in BOOLEAN, alt, NEW nofunc,
           Counts(s, c, path, alt, nofunc), s.cmds[c].type = "builtin", Builtins[c] # "no"
    PROVE  IsBuiltin(s, FindCommand(s, c, path, alt, nofunc), FreshEntry(s, c, path, alt))
<1> DEFINE hit     == s.cmds[c]
           altbl   == alt /\ BuiltinIndex(path) >= 0
           ignore  == \/ hit.type = "normal" /\ alt
                      \/ hit.type = "function" /\ nofunc
                      \/ hit.type = "builtin" /\ altbl
           known   == InTable(s.cmds, c) /\ ~ignore
           upd     == ~alt /\ ~(InTable(s.cmds, c) /\ ignore)
           prv     == IF ~known \/ ~hit.rehash THEN -1
                      ELSE IF hit.type = "builtin" THEN s.builtinloc ELSE hit.index
           fnd     == {i \in 0..(Len(path) - 1) : AtElement(s, c, path, i, prv, nofunc) # "skip"}
           at      == CHOOSE i \in fnd : \A j \in fnd : i <= j
           what    == AtElement(s, c, path, at, prv, nofunc)
           Result(e) == [entry |-> e, cmds |-> IF upd THEN [s.cmds EXCEPT ![c] = e] ELSE s.cmds]
           sure    == \/ Builtins[c] = "regular"
                      \/ Builtins[c] = "plain" /\ (IF alt THEN ~altbl ELSE s.builtinloc <= 0)
           rest    == IF c \in Applets THEN [entry |-> Entry("normal", -1), cmds |-> s.cmds]
                      ELSE IF fnd = {}
                           THEN [entry |-> NoEntry,
                                 cmds |-> IF known /\ upd THEN [s.cmds EXCEPT ![c] = NoEntry] ELSE s.cmds]
                      ELSE IF what = "builtin" THEN Result(Entry("builtin", -1))
                      ELSE IF what = "same"
                           THEN LET e == [hit EXCEPT !.rehash = FALSE]
                                IN  [entry |-> e, cmds |-> [s.cmds EXCEPT ![c] = e]]
                      ELSE IF what = "func"
                           THEN [entry |-> Entry("function", -1),
                                 cmds |-> [s.cmds EXCEPT ![c] = Entry("function", -1)]]
                      ELSE Result(Entry("normal", at))
<1>0. PICK r : r = FindCommand(s, c, path, alt, nofunc)
  OBVIOUS
<1>1. r = IF known /\ ~hit.rehash THEN [entry |-> hit, cmds |-> s.cmds]
          ELSE IF sure THEN Result(Entry("builtin", -1))
          ELSE rest
  BY <1>0, Zenon DEF FindCommand
<1>2. ~(BuiltinIndex(path) >= 0)
  BY DEF Counts, Ignored
<1>3. sure
  BY <1>2
<1>4. Result(Entry("builtin", -1)) = [entry |-> Entry("builtin", -1), cmds |-> s.cmds]
  OBVIOUS
<1>5. FreshEntry(s, c, path, alt) = Entry("builtin", -1)
  BY <1>2 DEF FreshEntry
<1> HIDE DEF known, sure, rest, Result
<1>6. r = [entry |-> hit, cmds |-> s.cmds] \/ r = [entry |-> Entry("builtin", -1), cmds |-> s.cmds]
  BY <1>1, <1>3, <1>4
<1>7. Entry("builtin", -1).type = "builtin"
  BY EntryFields
<1>8. PICK h : h = s.cmds[c] /\ h.type = "builtin"
  OBVIOUS
<1>9. PICK b : b = Entry("builtin", -1) /\ b.type = "builtin"
  BY <1>7
<1>10. r = [entry |-> h, cmds |-> s.cmds] \/ r = [entry |-> b, cmds |-> s.cmds]
  BY <1>6, <1>8, <1>9
<1> HIDE DEF hit
<1>11. r.entry.type = "builtin" /\ r.cmds = s.cmds
  BY <1>8, <1>9, <1>10
<1> QED
  BY <1>0, <1>5, <1>7, <1>11 DEF IsBuiltin

(* A function of the table is found in every path.                         *)
LEMMA FindFunction ==
    ASSUME NEW s, NEW c \in Commands, Claimed(c), NEW path, AnySeq(path), NEW alt \in BOOLEAN, NEW nofunc,
           Counts(s, c, path, alt, nofunc), ~s.cmds[c].rehash
    PROVE  /\ FindCommand(s, c, path, alt, nofunc).entry = s.cmds[c]
           /\ FindCommand(s, c, path, alt, nofunc).cmds = s.cmds
<1>0. PICK r : r = FindCommand(s, c, path, alt, nofunc)
  OBVIOUS
<1>1. PICK prev : prev = -1
  OBVIOUS
<1>2. Len(path) \in Nat
  BY SeqFacts
<1>3. StartsFrom(s, c, path, alt, nofunc, prev)
  BY <1>1, <1>2 DEF StartsFrom
<1>4. FindsFrom(s, c, path, alt, nofunc, prev, Founds(c, path, s.cwd, prev), FirstOf(Founds(c, path, s.cwd, prev)), r)
  BY <1>0, <1>3, FindCommandIs
<1>5. r = [entry |-> s.cmds[c], cmds |-> s.cmds]
  BY <1>4 DEF FindsFrom
<1> QED
  BY <1>0, <1>5

MeansTheSame(s, c, path, alt, nofunc) == Meaning(s, c, path, alt, nofunc) = Meaning(Forget(s), c, path, alt, nofunc)

(* If the entries are right the table does not change what a name means.   *)
LEMMA MeaningIsFresh ==
    ASSUME NEW s, Shaped(s), PathOk(s), NEW c \in Commands, Claimed(c), EntryOk(s, c, s.cmds[c]),
           NEW path, AnySeq(path), NEW alt \in BOOLEAN, ~alt => path = PathVal(s), NEW nofunc
    PROVE  MeansTheSame(s, c, path, alt, nofunc)
<1>1. PICK t : t = Forget(s)
  OBVIOUS
<1>2. t.cwd = s.cwd /\ t.builtinloc = s.builtinloc
      /\ t.cmds[c] = IF s.cmds[c].type = "function" THEN s.cmds[c] ELSE NoEntry
  BY <1>1 DEF Forget, Shaped, Fields
<1>3. FreshEntry(t, c, path, alt) = FreshEntry(s, c, path, alt)
  BY <1>2 DEF FreshEntry
<1>4. \A i : ExecFrom(t, c, path, i) = ExecFrom(s, c, path, i)
  BY <1>2 DEF ExecFrom
<1>5. PICK e : e = FreshEntry(s, c, path, alt)
  OBVIOUS
<1>6. PICK x : x = FindCommand(s, c, path, alt, nofunc)
  OBVIOUS
<1>7. PICK y : y = FindCommand(t, c, path, alt, nofunc)
  OBVIOUS
<1>8. SUFFICES x.entry = y.entry \/ (x.entry.type = "builtin" /\ y.entry.type = "builtin")
  BY <1>1, <1>4, <1>6, <1>7, <1>8 DEF Meaning, MeansTheSame
<1>9. ~Counts(s, c, path, alt, nofunc) => x.entry = e
  <2>1. ASSUME ~Counts(s, c, path, alt, nofunc)
        PROVE  FoundAnew(s, c, path, alt, FindCommand(s, c, path, alt, nofunc), FreshEntry(s, c, path, alt))
    BY <2>1, FindAnew
  <2> QED
    BY <1>5, <1>6, <2>1 DEF FoundAnew
<1>10. ~Counts(t, c, path, alt, nofunc) => y.entry = e
  <2>1. ASSUME ~Counts(t, c, path, alt, nofunc)
        PROVE  FoundAnew(t, c, path, alt, FindCommand(t, c, path, alt, nofunc), FreshEntry(t, c, path, alt))
    BY <2>1, FindAnew
  <2> QED
    BY <1>3, <1>5, <1>7, <2>1 DEF FoundAnew
<1>11. CASE s.cmds[c].type = "function"
  <2>1. ~s.cmds[c].rehash /\ t.cmds[c] = s.cmds[c]
    BY <1>2, <1>11 DEF EntryOk
  <2>2. Counts(s, c, path, alt, nofunc) <=> Counts(t, c, path, alt, nofunc)
    BY <2>1 DEF Counts, Ignored, InTable
  <2>3. CASE Counts(s, c, path, alt, nofunc)
    <3>1. x.entry = s.cmds[c]
      BY <1>6, <2>1, <2>3, FindFunction
    <3>2. y.entry = t.cmds[c]
      BY <1>7, <2>1, <2>2, <2>3, FindFunction
    <3> QED
      BY <2>1, <3>1, <3>2
  <2> QED
    BY <1>9, <1>10, <2>2, <2>3
<1>12. CASE s.cmds[c].type # "function"
  <2>1. ~Counts(t, c, path, alt, nofunc)
    BY <1>2, <1>12, NoEntryFields DEF Counts, InTable
  <2>2. y.entry = e
    BY <1>10, <2>1
  <2>3. CASE ~Counts(s, c, path, alt, nofunc)
    BY <1>9, <2>2, <2>3
  <2>4. CASE Counts(s, c, path, alt, nofunc) /\ ~alt
    <3>1. path = PathVal(s) /\ ~alt /\ Counts(s, c, path, alt, nofunc)
      BY <2>4
    <3>2. FoundAnew(s, c, path, alt, FindCommand(s, c, path, alt, nofunc), FreshEntry(s, c, path, alt))
      BY <1>12, <3>1, FindAgain
    <3> QED
      BY <1>5, <1>6, <2>2, <3>2 DEF FoundAnew
  <2>5. CASE Counts(s, c, path, alt, nofunc) /\ alt
    <3>1. s.cmds[c].type = "builtin"
      BY <1>12, <2>5 DEF Counts, Ignored, InTable, EntryOk
    <3>2. Builtins[c] # "no"
      BY <3>1 DEF EntryOk, BuiltinOk
    <3>3. IsBuiltin(s, FindCommand(s, c, path, alt, nofunc), FreshEntry(s, c, path, alt))
      BY <2>5, <3>1, <3>2, FindBuiltin
    <3> QED
      BY <1>5, <1>6, <2>2, <3>3 DEF IsBuiltin
  <2> QED
    BY <2>3, <2>4, <2>5
<1> QED
  BY <1>11, <1>12

LEMMA LookupsFresh ==
    ASSUME NEW s, s = g, Shaped(s), PathOk(s), Wary(s) \/ TableOk(s)
    PROVE  LookupsAreFresh
<1> SUFFICES ASSUME \A n \in {"PWD", "OLDPWD"} \cap Names : "readonly" \notin g.vars[n].flags,
                    NEW c \in Commands, NEW nofunc \in BOOLEAN, Files["/f"][c] # "functions"
             PROVE  /\ Meaning(g, c, PathVal(g), FALSE, nofunc) = Meaning(Forget(g), c, PathVal(g), FALSE, nofunc)
                    /\ \A p \in Paths : Meaning(g, c, p, TRUE, nofunc) = Meaning(Forget(g), c, p, TRUE, nofunc)
  BY Zenon DEF LookupsAreFresh
<1>1. Claimed(c)
  BY DEF Claimed
<1>2. EntryOk(s, c, s.cmds[c])
  BY <1>1 DEF Wary, TableOk
<1>3. ASSUME NEW alt \in BOOLEAN, ~alt
      PROVE  MeansTheSame(s, c, PathVal(s), alt, nofunc)
  BY <1>1, <1>2, <1>3, MeaningIsFresh DEF PathOk
<1>4. ASSUME NEW alt \in BOOLEAN, alt, NEW p \in Paths
      PROVE  MeansTheSame(s, c, p, alt, nofunc)
  <2>1. AnySeq(p)
    BY DEF AnySeq
  <2> QED
    BY <1>1, <1>2, <1>4, <2>1, MeaningIsFresh
<1> QED
  BY <1>3, <1>4 DEF MeansTheSame

-----------------------------------------------------------------------------
(***************************************************************************)
(* A change of PATH.                                                       *)
(***************************************************************************)
\* Two paths have the same first n elements.
Agree(old, new, n) == \A i \in 0..(n - 1) : i < Len(old) /\ i < Len(new) /\ old[i + 1] = new[i + 1]

LEMMA FirstChangeIs ==
    ASSUME NEW old, AnySeq(old), NEW new, AnySeq(new)
    PROVE  old = new \/ (FirstChange(old, new) \in Nat /\ Agree(old, new, FirstChange(old, new)))
<1>1. Len(old) \in Nat /\ Len(new) \in Nat
  BY SeqFacts
<1> DEFINE n == IF Len(old) < Len(new) THEN Len(old) ELSE Len(new)
           at == {i \in 1..n : old[i] # new[i]}
<1>3. n \in Nat /\ n <= Len(old) /\ n <= Len(new)
  BY <1>1
<1>4. \A i \in 1..n : old[i] # new[i] <=> i \in at
  OBVIOUS
<1>5. at \in SUBSET Nat /\ at \subseteq 1..n
  BY <1>3
<1>6. FirstChange(old, new) = IF old = new THEN 9999 ELSE IF at = {} THEN n ELSE FirstOf(at) - 1
  <2>1. PICK h : h = n
    OBVIOUS
  <2>2. PICK found : found = at
    OBVIOUS
  <2>3. FirstChange(old, new) = IF old = new THEN 9999 ELSE IF found = {} THEN h ELSE FirstOf(found) - 1
    <3>1. CASE old = new
      BY <3>1 DEF FirstChange
    <3>2. CASE old # new /\ found = {}
      BY <2>1, <2>2, <3>2 DEF FirstChange
    <3>3. CASE old # new /\ found # {}
      BY <2>1, <2>2, <3>3 DEF FirstChange, FirstOf
    <3> QED
      BY <3>1, <3>2, <3>3
  <2> QED
    BY <2>1, <2>2, <2>3
<1> HIDE DEF n, at
<1>7. CASE old = new
  BY <1>7
<1>8. CASE old # new /\ at = {}
  <2>1. FirstChange(old, new) = n
    BY <1>6, <1>8
  <2>2. \A i \in 0..(n - 1) : i + 1 \in 1..n /\ i < n
    BY <1>3
  <2> QED
    BY <1>1, <1>3, <1>4, <1>8, <2>1, <2>2 DEF Agree
<1>9. CASE old # new /\ at # {}
  <2>1. PICK f : f = FirstOf(at)
    OBVIOUS
  <2>2. f \in at /\ \A j \in at : f <= j
    BY <1>5, <1>9, <2>1, FirstOfIn
  <2>3. FirstChange(old, new) = f - 1
    BY <1>6, <1>9, <2>1
  <2>4. f \in 1..n
    BY <1>5, <2>2
  <2>5. \A i \in 0..((f - 1) - 1) : i + 1 \in 1..n /\ i < n /\ ~(f <= i + 1)
    BY <1>3, <2>4
  <2>6. \A i \in 0..((f - 1) - 1) : old[i + 1] = new[i + 1]
    BY <1>4, <2>2, <2>5
  <2>7. f - 1 \in Nat
    BY <1>3, <2>4
  <2> QED
    BY <1>1, <1>3, <2>3, <2>5, <2>6, <2>7 DEF Agree
<1> QED
  BY <1>7, <1>8, <1>9

\* What changepath does: entries from the index `first' on are forgotten.
Forgotten(s, h, loc, first) ==
    \/ h.type = "normal" /\ h.index >= first
    \/ h.type = "builtin" /\ loc >= first

PathChanged(s, new, loc, first, t) ==
    /\ first = IF s.builtinloc >= 0 /\ BuiltinIndex(new) < 0 THEN 0 ELSE FirstChange(PathVal(s), new)
    /\ loc = IF s.builtinloc < 0 /\ BuiltinIndex(new) >= 0 THEN BuiltinIndex(new) ELSE s.builtinloc
    /\ t.builtinloc = BuiltinIndex(new) /\ t.cwd = s.cwd /\ t.failed = s.failed
    /\ t.cmds = [c \in Commands |-> IF Forgotten(s, s.cmds[c], loc, first) THEN NoEntry ELSE s.cmds[c]]

LEMMA ChangePathIs ==
    ASSUME NEW s, Shaped(s), NEW new
    PROVE  \E loc, first : PathChanged(s, new, loc, first, ChangePath(s, new))
<1>1. PICK bltin : bltin = BuiltinIndex(new)
  OBVIOUS
<1>2. PICK first : first = IF s.builtinloc >= 0 /\ bltin < 0 THEN 0 ELSE FirstChange(PathVal(s), new)
  OBVIOUS
<1>3. PICK loc : loc = IF s.builtinloc < 0 /\ bltin >= 0 THEN bltin ELSE s.builtinloc
  OBVIOUS
<1>4. PICK u : u = [s EXCEPT !.builtinloc = loc]
  OBVIOUS
<1>5. Shaped(u) /\ u.cmds = s.cmds /\ u.builtinloc = loc /\ u.cwd = s.cwd /\ u.failed = s.failed
  BY <1>4 DEF Shaped, Fields
<1>6. PICK tab : tab = [c \in Commands |-> IF Forgotten(s, s.cmds[c], loc, first) THEN NoEntry ELSE s.cmds[c]]
  OBVIOUS
<1>7. PICK w : w = ClearCmdEntry(u, first)
  OBVIOUS
<1>8. w = [u EXCEPT !.cmds = tab]
  <2>1. w = [u EXCEPT !.cmds = [c \in Commands |->
                IF \/ u.cmds[c].type = "normal" /\ u.cmds[c].index >= first
                   \/ u.cmds[c].type = "builtin" /\ u.builtinloc >= first
                THEN NoEntry ELSE u.cmds[c]]]
    BY <1>7, Zenon DEF ClearCmdEntry
  <2>2. tab = [c \in Commands |->
                IF \/ u.cmds[c].type = "normal" /\ u.cmds[c].index >= first
                   \/ u.cmds[c].type = "builtin" /\ u.builtinloc >= first
                THEN NoEntry ELSE u.cmds[c]]
    BY <1>5, <1>6 DEF Forgotten
  <2> QED
    BY <2>1, <2>2
<1>9. Shaped(w) /\ w.cmds = tab /\ w.cwd = s.cwd /\ w.failed = s.failed
  BY <1>5, <1>8 DEF Shaped, Fields
<1>10. PICK t : t = [w EXCEPT !.builtinloc = bltin]
  OBVIOUS
<1>11. t.cmds = tab /\ t.builtinloc = bltin /\ t.cwd = s.cwd /\ t.failed = s.failed
  BY <1>9, <1>10 DEF Shaped, Fields
<1>12. ChangePath(s, new) = t
  BY <1>1, <1>2, <1>3, <1>4, <1>7, <1>10, Zenon DEF ChangePath, PathVal
<1>13. PathChanged(s, new, loc, first, t)
  BY <1>1, <1>2, <1>3, <1>6, <1>11 DEF PathChanged
<1> QED
  BY <1>12, <1>13

\* t has the table that changepath leaves, and the new path.
NewPath(s, new, t) ==
    \E loc, first, u : /\ PathChanged(s, new, loc, first, u)
                       /\ t.cmds = u.cmds /\ t.builtinloc = u.builtinloc /\ t.cwd = u.cwd
                       /\ PathVal(t) = new

(* What changepath keeps is right for the new path.                        *)
LEMMA NewPathIsOk ==
    ASSUME NEW s, PathOk(s), NEW new, AnySeq(new), NEW t, NewPath(s, new, t)
    PROVE  /\ t.cmds = [c \in Commands |-> t.cmds[c]] /\ t.builtinloc = BuiltinIndex(new)
           /\ TableOk(s) => TableOk(t)
<1>1. PICK loc, first, u : /\ PathChanged(s, new, loc, first, u)
                           /\ t.cmds = u.cmds /\ t.builtinloc = u.builtinloc /\ t.cwd = u.cwd
                           /\ PathVal(t) = new
  BY DEF NewPath
<1>2. PICK old : old = PathVal(s)
  OBVIOUS
<1>3. PICK b : b = s.builtinloc
  OBVIOUS
<1>4. PICK x : x = BuiltinIndex(new)
  OBVIOUS
<1>5. /\ first = IF b >= 0 /\ x < 0 THEN 0 ELSE FirstChange(old, new)
      /\ loc = IF b < 0 /\ x >= 0 THEN x ELSE b
      /\ t.builtinloc = x /\ t.cwd = s.cwd
      /\ t.cmds = [c \in Commands |-> IF Forgotten(s, s.cmds[c], loc, first) THEN NoEntry ELSE s.cmds[c]]
  BY <1>1, <1>2, <1>3, <1>4 DEF PathChanged
<1>6. AnySeq(old) /\ Len(old) \in Nat /\ Len(new) \in Nat /\ b = BuiltinIndex(old)
  BY <1>2, <1>3, SeqFacts DEF PathOk
<1>7. /\ \/ b = -1 /\ \A i \in 1..Len(old) : Option(old[i]) # "builtin"
         \/ /\ b \in 0..(Len(old) - 1) /\ Option(old[b + 1]) = "builtin"
            /\ \A i \in 1..b : Option(old[i]) # "builtin"
      /\ \/ x = -1 /\ \A i \in 1..Len(new) : Option(new[i]) # "builtin"
         \/ /\ x \in 0..(Len(new) - 1) /\ Option(new[x + 1]) = "builtin"
            /\ \A i \in 1..x : Option(new[i]) # "builtin"
  BY <1>4, <1>6, BuiltinIndexIs
<1>8. b \in Int /\ x \in Int /\ loc \in Int
  BY <1>5, <1>6, <1>7
<1>9. old = new \/ (first \in Nat /\ Agree(old, new, first))
  <2>1. CASE b >= 0 /\ x < 0
    <3>1. first = 0
      BY <1>5, <2>1
    <3>2. \A i \in 0..(0 - 1) : FALSE
      OBVIOUS
    <3> QED
      BY <3>1, <3>2 DEF Agree
  <2>2. CASE ~(b >= 0 /\ x < 0)
    <3>1. first = FirstChange(old, new)
      BY <1>5, <2>2
    <3> QED
      BY <1>6, <3>1, FirstChangeIs
  <2> QED
    BY <2>1, <2>2
<1>10. old = new => b = x
  BY <1>4, <1>6
<1>11. ASSUME NEW n \in Int, n < first, old # new
       PROVE  /\ b >= 0 /\ n >= 0 => x >= 0
              /\ \A i \in 0..n : i < Len(old) /\ i < Len(new) /\ old[i + 1] = new[i + 1]
  <2>1. first \in Nat /\ Agree(old, new, first)
    BY <1>9, <1>11
  <2>2. b >= 0 /\ n >= 0 => x >= 0
    BY <1>5, <1>8, <1>11
  <2>3. \A i \in 0..n : i \in 0..(first - 1)
    BY <1>11, <2>1
  <2> QED
    BY <2>1, <2>2, <2>3 DEF Agree
<1>12. ASSUME TableOk(s), NEW c \in Commands, Claimed(c)
       PROVE  EntryOk(t, c, t.cmds[c])
  <2>1. PICK h : h = s.cmds[c]
    OBVIOUS
  <2>2. EntryOk(s, c, h)
    BY <1>12, <2>1 DEF TableOk
  <2>3. CASE Forgotten(s, h, loc, first)
    <3>1. t.cmds[c] = NoEntry
      BY <1>5, <2>1, <2>3
    <3> QED
      BY <3>1, NoEntryFields DEF EntryOk
  <2>4. CASE ~Forgotten(s, h, loc, first)
    <3>1. t.cmds[c] = h
      BY <1>5, <2>1, <2>4
    <3>2. CASE old = new
      <4>1. PathVal(t) = PathVal(s) /\ t.builtinloc = s.builtinloc /\ t.cwd = s.cwd
        BY <1>1, <1>2, <1>3, <1>5, <1>10, <3>2
      <4> QED
        BY <2>2, <3>1, <4>1 DEF EntryOk, NormalOk, BuiltinOk, Before
    <3>3. CASE old # new
      <4>0. first \in Nat
        BY <1>9, <3>3
      <4>1. ASSUME h.type = "normal"
            PROVE  NormalOk(t, c, h)
        <5>1. PICK n : n = h.index
          OBVIOUS
        <5>2. /\ n \in 0..(Len(old) - 1)
              /\ c \notin Applets /\ Builtins[c] # "regular"
              /\ Builtins[c] = "plain" => b > 0
              /\ \A j \in 0..(n - 1) : (h.rehash => Absolute(old[j + 1])) => Skips(c, old[j + 1], s.cwd)
              /\ Option(old[n + 1]) = "none"
              /\ (h.rehash => Absolute(old[n + 1])) => ~Skips(c, old[n + 1], s.cwd)
          BY <1>2, <1>3, <2>2, <4>1, <5>1 DEF EntryOk, NormalOk, Before
        <5>3. n < first
          BY <1>6, <2>4, <4>0, <4>1, <5>1, <5>2 DEF Forgotten
        <5>4. n \in Int /\ n >= 0
          BY <1>6, <5>2
        <5>5. \A i \in 0..n : i < Len(old) /\ i < Len(new) /\ old[i + 1] = new[i + 1]
          BY <1>11, <3>3, <5>3, <5>4
        <5>6. n \in 0..n /\ 0 \in 0..n /\ \A j \in 0..(n - 1) : j \in 0..n
          BY <5>4
        <5>7. b > 0 => x > 0
          <6>1. ASSUME b > 0 PROVE x > 0
            <7>1. x >= 0
              BY <1>8, <1>11, <3>3, <5>3, <5>4, <6>1
            <7>2. Option(old[0 + 1]) # "builtin" /\ old[0 + 1] = new[0 + 1]
              BY <1>7, <1>8, <5>5, <5>6, <6>1
            <7>3. x # 0
              BY <1>7, <7>2
            <7> QED
              BY <1>8, <7>1, <7>3
          <6> QED
            BY <6>1
        <5>8. n \in 0..(Len(new) - 1) /\ Option(new[n + 1]) = "none"
          <6>1. n < Len(new) /\ old[n + 1] = new[n + 1]
            BY <5>5, <5>6
          <6>2. n \in 0..(Len(new) - 1)
            BY <1>6, <5>4, <6>1
          <6> QED
            BY <5>2, <6>1, <6>2
        <5>9. (h.rehash => Absolute(new[n + 1])) => ~Skips(c, new[n + 1], s.cwd)
          BY <5>2, <5>5, <5>6
        <5>10. \A j \in 0..(n - 1) : (h.rehash => Absolute(new[j + 1])) => Skips(c, new[j + 1], s.cwd)
          BY <5>2, <5>5, <5>6
        <5> QED
          BY <1>1, <1>5, <5>1, <5>2, <5>7, <5>8, <5>9, <5>10 DEF NormalOk, Before
      <4>2. ASSUME h.type = "builtin"
            PROVE  BuiltinOk(t, c, h)
        <5>1. /\ h.index = -1 /\ Builtins[c] # "no"
              /\ Builtins[c] = "plain" /\ b > 0 =>
                    /\ c \notin Applets
                    /\ \A j \in 0..(b - 1) : (h.rehash => Absolute(old[j + 1])) => Skips(c, old[j + 1], s.cwd)
          BY <1>2, <1>3, <2>2, <4>2 DEF EntryOk, BuiltinOk, Before
        <5>2. loc < first
          BY <1>8, <2>4, <4>0, <4>2 DEF Forgotten
        <5>3. \A i \in 0..loc : i < Len(old) /\ i < Len(new) /\ old[i + 1] = new[i + 1]
          BY <1>8, <1>11, <3>3, <5>2
        <5>4. ASSUME x > 0
              PROVE  b = x
          <6>1. b >= 0
            <7>1. ASSUME b < 0 PROVE FALSE
              <8>1. loc = x /\ b = -1
                BY <1>5, <1>7, <1>8, <5>4, <7>1
              <8>2. x \in 0..loc /\ Option(new[x + 1]) = "builtin"
                BY <1>7, <1>8, <5>4, <8>1
              <8>3. x + 1 \in 1..Len(old) /\ Option(old[x + 1]) = "builtin"
                <9>1. x < Len(old) /\ old[x + 1] = new[x + 1]
                  BY <5>3, <8>2
                <9>2. x + 1 \in 1..Len(old)
                  BY <1>6, <1>8, <5>4, <9>1
                <9> QED
                  BY <8>2, <9>1, <9>2
              <8> QED
                BY <1>7, <8>1, <8>3
            <7> QED
              BY <1>8, <7>1
          <6>2. loc = b
            BY <1>5, <1>8, <6>1
          <6>3. Option(old[b + 1]) = "builtin" /\ \A i \in 1..b : Option(old[i]) # "builtin"
            BY <1>7, <1>8, <6>1
          <6>4. b \in 0..loc /\ Option(new[b + 1]) = "builtin"
            <7>1. b \in 0..loc
              BY <1>8, <6>1, <6>2
            <7>2. old[b + 1] = new[b + 1]
              BY <5>3, <7>1
            <7> QED
              BY <6>3, <7>1, <7>2
          <6>5. ~(b < x)
            <7>1. b < x => b + 1 \in 1..x
              BY <1>8, <6>1
            <7> QED
              BY <1>7, <1>8, <5>4, <6>4, <7>1
          <6>6. ~(x < b)
            <7>1. x < b => x + 1 \in 1..b /\ x \in 0..loc
              BY <1>8, <5>4, <6>2
            <7>2. Option(new[x + 1]) = "builtin"
              BY <1>7, <5>4
            <7> QED
              BY <5>3, <6>3, <7>1, <7>2
          <6> QED
            BY <1>8, <6>5, <6>6
        <5>5. ASSUME Builtins[c] = "plain", x > 0
              PROVE  c \notin Applets /\ Before(t, c, x, h.rehash)
          <6>1. b = x /\ b > 0 /\ loc = b
            BY <1>5, <1>8, <5>4, <5>5
          <6>2. \A j \in 0..(b - 1) : j \in 0..loc
            BY <1>8, <6>1
          <6>3. \A j \in 0..(b - 1) : (h.rehash => Absolute(new[j + 1])) => Skips(c, new[j + 1], s.cwd)
            BY <5>1, <5>3, <5>5, <6>1, <6>2
          <6> QED
            BY <1>1, <1>5, <5>1, <5>5, <6>1, <6>3 DEF Before
        <5> QED
          BY <1>5, <5>1, <5>5 DEF BuiltinOk
      <4> QED
        BY <2>2, <3>1, <4>1, <4>2 DEF EntryOk
    <3> QED
      BY <3>2, <3>3
  <2> QED
    BY <2>3, <2>4
<1>13. t.cmds = [c \in Commands |-> t.cmds[c]]
  BY <1>5
<1> QED
  BY <1>4, <1>5, <1>12, <1>13 DEF TableOk

-----------------------------------------------------------------------------
(***************************************************************************)
(* What the operators on variables do to the table.                        *)
(***************************************************************************)
SameTable(s, t) == t.cmds = s.cmds /\ t.builtinloc = s.builtinloc /\ t.cwd = s.cwd

\* A step does not make the table wrong, nor a cd safe.
Keeps(s, t) == PathOk(s) => PathOk(t) /\ (TableOk(s) => TableOk(t)) /\ (Wary(s) => Wary(t))

LEMMA KeepsTwice ==
    ASSUME NEW s, NEW t, NEW u, Keeps(s, t), Keeps(t, u)
    PROVE  Keeps(s, u)
BY DEF Keeps

\* PATH is still there, and its value is val.
PathIs(t, val) == t.vars["PATH"].there /\ "strfixed" \in t.vars["PATH"].flags /\ PathVal(t) = val

LEMMA KeepsSame ==
    ASSUME NEW s, NEW t, SameTable(s, t), PathOk(s) => PathIs(t, PathVal(s)), Wary(s) => Wary(t)
    PROVE  Keeps(s, t)
BY DEF Keeps, SameTable, PathIs, PathOk, TableOk, EntryOk, NormalOk, BuiltinOk, Before

LEMMA KeepsNew ==
    ASSUME NEW s, NEW new, AnySeq(new), NEW t, NewPath(s, new, t), PathOk(s) => PathIs(t, new), Wary(s) => Wary(t)
    PROVE  Keeps(s, t)
<1> SUFFICES ASSUME PathOk(s)
             PROVE  PathOk(t) /\ (TableOk(s) => TableOk(t)) /\ (Wary(s) => Wary(t))
  BY DEF Keeps
<1>1. /\ t.cmds = [c \in Commands |-> t.cmds[c]] /\ t.builtinloc = BuiltinIndex(new)
      /\ TableOk(s) => TableOk(t)
  BY NewPathIsOk
<1> QED
  BY <1>1 DEF PathOk, PathIs

\* Steps that change neither variables nor locals nor the table.
Beside(s, t) == SameTable(s, t) /\ t.vars = s.vars /\ t.locals = s.locals

LEMMA BesideSteps ==
    ASSUME NEW s, Shaped(s)
    PROVE  /\ \A x : Beside(s, [s EXCEPT !.failed = x]) /\ [s EXCEPT !.failed = x].failed = x
           /\ \A x : Beside(s, [s EXCEPT !.optfail = x]) /\ [s EXCEPT !.optfail = x].failed = s.failed
           /\ \A x : Beside(s, [s EXCEPT !.params = x]) /\ [s EXCEPT !.params = x].failed = s.failed
           /\ \A x : Beside(s, [s EXCEPT !.aflag = x]) /\ [s EXCEPT !.aflag = x].failed = s.failed
           /\ \A x : Beside(s, [s EXCEPT !.curdir = x]) /\ [s EXCEPT !.curdir = x].failed = s.failed
           /\ \A x : Beside(s, [s EXCEPT !.heap = x]) /\ [s EXCEPT !.heap = x].failed = s.failed
           /\ \A n : Beside(s, GetoptsReset(s, n)) /\ GetoptsReset(s, n).failed = s.failed
<1>1. \A x : Beside(s, [s EXCEPT !.failed = x]) /\ [s EXCEPT !.failed = x].failed = x
  BY DEF Shaped, Fields, Beside, SameTable
<1>2. \A x : Beside(s, [s EXCEPT !.optfail = x]) /\ [s EXCEPT !.optfail = x].failed = s.failed
  BY DEF Shaped, Fields, Beside, SameTable
<1>3. \A x : Beside(s, [s EXCEPT !.params = x]) /\ [s EXCEPT !.params = x].failed = s.failed
  BY DEF Shaped, Fields, Beside, SameTable
<1>4. \A x : Beside(s, [s EXCEPT !.aflag = x]) /\ [s EXCEPT !.aflag = x].failed = s.failed
  BY DEF Shaped, Fields, Beside, SameTable
<1>5. \A x : Beside(s, [s EXCEPT !.curdir = x]) /\ [s EXCEPT !.curdir = x].failed = s.failed
  BY DEF Shaped, Fields, Beside, SameTable
<1>6. \A x : Beside(s, [s EXCEPT !.heap = x]) /\ [s EXCEPT !.heap = x].failed = s.failed
  BY DEF Shaped, Fields, Beside, SameTable
<1>7. \A n : Beside(s, GetoptsReset(s, n)) /\ GetoptsReset(s, n).failed = s.failed
  BY DEF Shaped, Fields, Beside, SameTable, GetoptsReset
<1> QED
  BY <1>1, <1>2, <1>3, <1>4, <1>5, <1>6, <1>7

LEMMA BesideKeeps ==
    ASSUME NEW s, NEW t, Beside(s, t)
    PROVE  Keeps(s, t)
BY KeepsSame DEF Beside, PathIs, PathOk, Wary, PathVal

(* The function of a variable: only that of PATH touches the table.        *)
LEMMA CallFuncTable ==
    ASSUME NEW s, Shaped(s), NEW n, NEW val
    PROVE  /\ n # "PATH" => SameTable(s, CallFunc(s, n, val))
           /\ n = "PATH" => \E loc, first : PathChanged(s, val, loc, first, CallFunc(s, n, val))
           /\ CallFunc(s, n, val).failed = s.failed /\ CallFunc(s, n, val).cwd = s.cwd
<1>1. CASE n = "PATH"
  <2>1. CallFunc(s, n, val) = ChangePath(s, val)
    BY <1>1 DEF CallFunc
  <2>2. PICK u : u = CallFunc(s, n, val)
    OBVIOUS
  <2>3. PICK loc, first : PathChanged(s, val, loc, first, u)
    BY <2>1, <2>2, ChangePathIs
  <2>4. u.failed = s.failed /\ u.cwd = s.cwd
    BY <2>3 DEF PathChanged
  <2> QED
    BY <1>1, <2>2, <2>3, <2>4
<1>2. CASE n = "OPTIND"
  <2>1. PICK k : CallFunc(s, n, val) = GetoptsReset(s, k)
    BY <1>2 DEF CallFunc
  <2> QED
    BY <1>2, <2>1, BesideSteps DEF Beside, SameTable
<1>3. CASE n \notin {"PATH", "OPTIND"}
  BY <1>3 DEF CallFunc, SameTable
<1> QED
  BY <1>1, <1>2, <1>3

\* The table of t is that of u, or what changepath makes of that of s.
TableAfter(s, t, n, val) ==
    /\ n # "PATH" => SameTable(s, t)
    /\ n = "PATH" => \E loc, first, u : /\ PathChanged(s, val, loc, first, u)
                                        /\ t.cmds = u.cmds /\ t.builtinloc = u.builtinloc /\ t.cwd = u.cwd

\* u has the table of t, and fails if t does.
Alike(t, u) == Shaped(u) /\ SameTable(t, u) /\ u.failed = t.failed

LEMMA AlikeTwice ==
    ASSUME NEW s, NEW t, NEW u, Alike(s, t), Alike(t, u)
    PROVE  Alike(s, u)
BY DEF Alike, SameTable

(* Freeing a text and replacing a variable.                                *)
LEMMA FreeAlike ==
    ASSUME NEW s, Shaped(s), NEW text
    PROVE  Alike(s, FreeText(s, text))
BY DEF Shaped, Fields, Alike, SameTable, FreeText

LEMMA PutAlike ==
    ASSUME NEW s, Shaped(s), NEW b, NEW n, NEW w
    PROVE  Alike(s, Put(s, b, n, w))
BY DEF Shaped, Fields, Alike, SameTable, Put

LEMMA VarAlike ==
    ASSUME NEW s, Shaped(s), NEW n, NEW w
    PROVE  Alike(s, PutVar(s, n, w))
BY DEF Shaped, Fields, Alike, SameTable, PutVar

LEMMA FlagsAlike ==
    ASSUME NEW s, Shaped(s), NEW n, NEW w
    PROVE  Alike(s, PutFlags(s, n, w))
BY DEF Shaped, Fields, Alike, SameTable, PutFlags

LEMMA LocalsAlike ==
    ASSUME NEW s, Shaped(s), NEW l
    PROVE  Alike(s, PutLocals(s, l))
BY DEF Shaped, Fields, Alike, SameTable, PutLocals

LEMMA TableLater ==
    ASSUME NEW s, NEW n, NEW val, NEW t, TableAfter(s, t, n, val), NEW u, Alike(t, u)
    PROVE  TableAfter(s, u, n, val)
<1>1. u.cmds = t.cmds /\ u.builtinloc = t.builtinloc /\ u.cwd = t.cwd
  BY DEF Alike, SameTable
<1>2. CASE n # "PATH"
  BY <1>1, <1>2 DEF TableAfter, SameTable
<1>3. CASE n = "PATH"
  <2>1. PICK loc, first, w : /\ PathChanged(s, val, loc, first, w)
                             /\ t.cmds = w.cmds /\ t.builtinloc = w.builtinloc /\ t.cwd = w.cwd
    BY <1>3 DEF TableAfter
  <2> QED
    BY <1>1, <1>3, <2>1 DEF TableAfter
<1> QED
  BY <1>2, <1>3

LEMMA SetVarEqTable ==
    ASSUME NEW s, Sound(s, calls), NEW n \in Names, NEW val, NEW asked
    PROVE  /\ "readonly" \in s.vars[n].flags \/ "noset" \in asked \/ ~s.vars[n].there \/ "nofunc" \in asked
              => SameTable(s, SetVarEq(s, n, val, asked))
           /\ "readonly" \notin s.vars[n].flags /\ "noset" \notin asked /\ s.vars[n].there /\ "nofunc" \notin asked
              => TableAfter(s, SetVarEq(s, n, val, asked), n, val)
           /\ "readonly" \notin s.vars[n].flags => SetVarEq(s, n, val, asked).failed = s.failed
<1> DEFINE v     == s.vars[n]
           kept  == (asked \ {"noset", "nofunc"}) \cup (IF s.aflag THEN {"export"} ELSE {})
           block == FreshBlock(s, n)
<1>0. PICK t : t = SetVarEq(s, n, val, asked)
  OBVIOUS
<1>1. Shaped(s) /\ Variable(v, n, s.heap)
  BY DEF Sound, VarsSound
<1>2. "readonly" \in v.flags => v.there
  BY <1>1 DEF Variable, NoVar
<1>3. CASE "readonly" \in v.flags
  <2>1. t = Fail(s)
    BY <1>0, <1>2, <1>3 DEF SetVarEq
  <2>2. PICK x : x = TRUE
    OBVIOUS
  <2>3. t = [s EXCEPT !.failed = x]
    BY <2>1, <2>2, Zenon DEF Fail
  <2>4. SameTable(s, t)
    BY <1>1, <2>3, BesideSteps DEF Beside
  <2> QED
    BY <1>0, <1>3, <2>4
<1>4. CASE "readonly" \notin v.flags /\ "noset" \in asked
  <2>1. t = s
    BY <1>0, <1>4 DEF SetVarEq
  <2>2. SameTable(s, t) /\ t.failed = s.failed
    BY <2>1 DEF SameTable
  <2> QED
    BY <1>0, <1>4, <2>2
<1>5. ASSUME "readonly" \notin v.flags, "noset" \notin asked, ~v.there
      PROVE  Alike(s, t)
  <2>1. t = [s EXCEPT !.heap = @ \cup {block},
                      !.vars[n] = [there |-> TRUE, flags |-> kept, text |-> [val |-> val, block |-> block]]]
    BY <1>0, <1>5, Zenon DEF SetVarEq
  <2>2. PICK w : w = [there |-> TRUE, flags |-> kept, text |-> [val |-> val, block |-> block]]
    OBVIOUS
  <2> HIDE DEF block, kept
  <2>3. t = [s EXCEPT !.heap = @ \cup {block}, !.vars[n] = w]
    BY <2>1, <2>2
  <2>4. PICK b : b = block
    OBVIOUS
  <2>5. Alike(s, Put(s, b, n, w))
    BY <1>1, PutAlike
  <2> QED
    BY <2>3, <2>4, <2>5 DEF Put
<1>6. ASSUME "readonly" \notin v.flags, "noset" \notin asked, v.there,
             NEW called, called = (IF "nofunc" \in asked THEN s ELSE CallFunc(s, n, val)), Shaped(called)
      PROVE  Alike(called, t)
  <2>1. PICK freed : freed = IF Owned(v) THEN FreeText(called, v.text) ELSE called
    OBVIOUS
  <2>2. Alike(called, freed)
    <3>1. Alike(called, called)
      BY <1>6 DEF Alike, SameTable
    <3>2. Alike(called, FreeText(called, v.text))
      BY <1>6, FreeAlike
    <3> QED
      BY <2>1, <3>1, <3>2
  <2>3. t = [freed EXCEPT !.heap = @ \cup {block},
                          !.vars[n] = [there |-> TRUE, flags |-> kept \cup (v.flags \ {"textfixed", "stack", "unset"}),
                                       text |-> [val |-> val, block |-> block]]]
    BY <1>0, <1>6, <2>1, Zenon DEF SetVarEq
  <2>4. PICK w : w = [there |-> TRUE, flags |-> kept \cup (v.flags \ {"textfixed", "stack", "unset"}),
                      text |-> [val |-> val, block |-> block]]
    OBVIOUS
  <2> HIDE DEF block, kept
  <2>5. t = [freed EXCEPT !.heap = @ \cup {block}, !.vars[n] = w]
    BY <2>3, <2>4
  <2>6. Alike(freed, t)
    <3>1. Shaped(freed)
      BY <2>2 DEF Alike
    <3>2. PICK b : b = block
      OBVIOUS
    <3>3. Alike(freed, Put(freed, b, n, w))
      BY <3>1, PutAlike
    <3> QED
      BY <2>5, <3>2, <3>3 DEF Put
  <2> QED
    BY <2>2, <2>6, AlikeTwice
<1>7. ASSUME "readonly" \notin v.flags, "noset" \notin asked, v.there, "nofunc" \in asked
      PROVE  Alike(s, t)
  BY <1>1, <1>6, <1>7
<1>8. ASSUME "readonly" \notin v.flags, "noset" \notin asked, v.there, "nofunc" \notin asked
      PROVE  TableAfter(s, t, n, val) /\ t.failed = s.failed
  <2>1. PICK called : called = CallFunc(s, n, val)
    OBVIOUS
  <2>2. Shaped(called)
    BY <1>1, <2>1, CallFuncIsSame DEF Same
  <2>3. TableAfter(s, called, n, val) /\ called.failed = s.failed
    BY <1>1, <2>1, CallFuncTable DEF TableAfter
  <2>4. Alike(called, t)
    BY <1>6, <1>8, <2>1, <2>2
  <2> QED
    BY <2>3, <2>4, TableLater DEF Alike
<1> QED
  BY <1>0, <1>3, <1>4, <1>5, <1>7, <1>8 DEF Alike

LEMMA SetVarEqKeeps ==
    ASSUME NEW s, Sound(s, calls), NEW n \in Names, NEW val, NEW asked,
           n = "PATH" => AnySeq(val) /\ "nofunc" \notin asked
    PROVE  Keeps(s, SetVarEq(s, n, val, asked))
<1> SUFFICES ASSUME PathOk(s)
             PROVE  Keeps(s, SetVarEq(s, n, val, asked))
  BY DEF Keeps
<1>1. PICK t : t = SetVarEq(s, n, val, asked)
  OBVIOUS
<1>2. \A m \in Names : m # n => t.vars[m] = s.vars[m]
  BY <1>1, SetVarEqIsSound DEF OnlyVar
<1>3. "readonly" \in s.vars[n].flags => t.vars = s.vars
  BY <1>1, SetVarEqIs DEF Same
<1>4. \A m \in Names : "readonly" \in s.vars[m].flags => "readonly" \in t.vars[m].flags
  BY <1>2, <1>3
<1>5. Wary(s) => Wary(t)
  BY <1>4 DEF Wary
<1>6. /\ "readonly" \in s.vars[n].flags \/ "noset" \in asked \/ ~s.vars[n].there \/ "nofunc" \in asked => SameTable(s, t)
      /\ "readonly" \notin s.vars[n].flags /\ "noset" \notin asked /\ s.vars[n].there /\ "nofunc" \notin asked
         => TableAfter(s, t, n, val)
  BY <1>1, SetVarEqTable
<1>7. CASE n # "PATH"
  <2>1. SameTable(s, t)
    BY <1>6, <1>7 DEF TableAfter
  <2>2. t.vars["PATH"] = s.vars["PATH"]
    BY <1>2, <1>7
  <2> QED
    BY <1>1, <1>5, <2>1, <2>2, KeepsSame DEF PathOk, PathIs, PathVal
<1>8. CASE n = "PATH" /\ ("readonly" \in s.vars[n].flags \/ "noset" \in asked)
  <2>1. SameTable(s, t)
    BY <1>6, <1>8
  <2>2. t.vars = s.vars
    <3>1. "readonly" \notin s.vars[n].flags => t = s
      BY <1>1, <1>8, SetVarEqIs
    <3> QED
      BY <1>3, <3>1
  <2> QED
    BY <1>1, <1>5, <2>1, <2>2, KeepsSame DEF PathOk, PathIs, PathVal
<1>9. CASE n = "PATH" /\ "readonly" \notin s.vars[n].flags /\ "noset" \notin asked
  <2>1. s.vars[n].there /\ "strfixed" \in s.vars[n].flags /\ "nofunc" \notin asked /\ AnySeq(val)
    BY <1>9 DEF PathOk
  <2>2. PICK F : NewText(s, t, n, F, val) /\ s.vars[n].flags \ {"textfixed", "stack", "unset"} \subseteq F
    BY <1>1, <1>9, <2>1, SetVarEqIs
  <2>3. t.vars[n].there /\ t.vars[n].flags = F /\ t.vars[n].text.val = val
    BY <1>9, <2>2, NewTextIsSound
  <2>4. PathIs(t, val)
    BY <1>9, <2>1, <2>2, <2>3 DEF PathIs, PathVal
  <2>5. NewPath(s, val, t)
    <3>1. TableAfter(s, t, n, val) /\ PathVal(t) = val
      BY <1>6, <1>9, <2>1, <2>4 DEF PathIs
    <3> QED
      BY <1>9, <3>1 DEF TableAfter, NewPath
  <2> QED
    BY <1>1, <1>5, <2>1, <2>4, <2>5, KeepsNew
<1> QED
  BY <1>7, <1>8, <1>9

LEMMA SetVarKeeps ==
    ASSUME NEW s, Sound(s, calls), NEW n \in Names, NEW val, NEW asked,
           n = "PATH" => AnySeq(val) /\ "nofunc" \notin asked
    PROVE  Keeps(s, SetVar(s, n, val, asked))
<1>1. PICK more : more = IF val = Unset THEN asked \cup {"unset"} ELSE asked
  OBVIOUS
<1>2. n = "PATH" => AnySeq(val) /\ "nofunc" \notin more
  BY <1>1
<1>3. SetVar(s, n, val, asked) = SetVarEq(s, n, val, more)
  BY <1>1 DEF SetVar
<1> QED
  BY <1>2, <1>3, SetVarEqKeeps

(* unsetvar of any variable but PATH.                                      *)
LEMMA UnsetVarTable ==
    ASSUME NEW s, Sound(s, calls), NEW n \in Names, n # "PATH"
    PROVE  SameTable(s, UnsetVar(s, n).s) /\ UnsetVar(s, n).s.failed = s.failed
<1> DEFINE v == s.vars[n]
<1>0. PICK u : u = UnsetVar(s, n).s
  OBVIOUS
<1>1. Shaped(s)
  BY DEF Sound
<1>2. CASE ~v.there \/ "readonly" \in v.flags \/ "unset" \in v.flags
  <2>1. u = s
    BY <1>0, <1>2 DEF UnsetVar
  <2> QED
    BY <1>0, <2>1 DEF SameTable
<1>3. CASE v.there /\ "readonly" \notin v.flags /\ "unset" \notin v.flags /\ "strfixed" \notin v.flags
  <2>1. PICK freed : freed = IF Owned(v) THEN FreeText(s, v.text) ELSE s
    OBVIOUS
  <2>2. Alike(s, freed)
    <3>1. Alike(s, s)
      BY <1>1 DEF Alike, SameTable
    <3>2. Alike(s, FreeText(s, v.text))
      BY <1>1, FreeAlike
    <3> QED
      BY <2>1, <3>1, <3>2
  <2>3. PICK w : w = NoVar
    OBVIOUS
  <2>4. u = PutVar(freed, n, w)
    BY <1>0, <1>3, <2>1, <2>3 DEF UnsetVar, PutVar
  <2>5. Alike(freed, PutVar(freed, n, w))
    BY <2>2, VarAlike DEF Alike
  <2> QED
    BY <1>0, <2>2, <2>4, <2>5 DEF Alike, SameTable
<1>4. CASE v.there /\ "readonly" \notin v.flags /\ "unset" \notin v.flags /\ "strfixed" \in v.flags
  <2>1. PICK asked : asked = {"unset"}
    OBVIOUS
  <2>2. PICK t : t = SetVarEq(s, n, Unset, asked)
    OBVIOUS
  <2>3. SetVar(s, n, Unset, {}) = t
    BY <2>1, <2>2 DEF SetVar
  <2>4. SameTable(s, t) /\ t.failed = s.failed
    <3>1. TableAfter(s, t, n, Unset) /\ t.failed = s.failed
      BY <1>4, <2>1, <2>2, SetVarEqTable
    <3> QED
      BY <3>1 DEF TableAfter
  <2>5. Shaped(t)
    BY <2>2, SetVarEqIsSound DEF OnlyVar, Sound
  <2>6. PICK G : G = t.vars[n].flags \ {"export"}
    OBVIOUS
  <2>7. u = PutFlags(t, n, G)
    BY <1>0, <1>4, <2>3, <2>6 DEF UnsetVar, PutFlags
  <2>8. Alike(t, PutFlags(t, n, G))
    BY <2>5, FlagsAlike
  <2> QED
    BY <1>0, <2>4, <2>7, <2>8 DEF Alike, SameTable
<1> QED
  BY <1>2, <1>3, <1>4

LEMMA UnsetVarKeeps ==
    ASSUME NEW s, Sound(s, calls), NEW n \in Names, n # "PATH"
    PROVE  Keeps(s, UnsetVar(s, n).s)
<1>1. PICK t : t = UnsetVar(s, n).s
  OBVIOUS
<1>2. \A m \in Names : m # n => t.vars[m] = s.vars[m]
  BY <1>1, UnsetVarIs DEF OnlyVar
<1>3. "readonly" \in s.vars[n].flags => t = s
  BY <1>1, UnsetVarIs
<1>4. Wary(s) => Wary(t)
  BY <1>2, <1>3 DEF Wary
<1>5. SameTable(s, t)
  BY <1>1, UnsetVarTable
<1>6. t.vars["PATH"] = s.vars["PATH"]
  BY <1>2
<1> QED
  BY <1>1, <1>4, <1>5, <1>6, KeepsSame DEF PathOk, PathIs, PathVal

LEMMA VarsKeep ==
    ASSUME NEW s, NEW t, SameTable(s, t), t.vars = s.vars
    PROVE  Keeps(s, t)
BY KeepsSame DEF PathIs, PathOk, Wary, PathVal

-----------------------------------------------------------------------------
(***************************************************************************)
(* getopts and locals.                                                     *)
(***************************************************************************)
LEMMA SetVarSafeKeeps ==
    ASSUME NEW s, Sound(s, calls), NEW n \in Names, NEW val, NEW asked,
           n = "PATH" => AnySeq(val) /\ "nofunc" \notin asked
    PROVE  Keeps(s, SetVarSafe(s, n, val, asked))
<1>1. PICK t : t = SetVar(s, n, val, asked)
  OBVIOUS
<1>2. Keeps(s, t)
  BY <1>1, SetVarKeeps
<1>3. PICK x : x = TRUE
  OBVIOUS
<1>4. SetVarSafe(s, n, val, asked) = IF t.failed THEN [s EXCEPT !.optfail = x] ELSE t
  BY <1>1, <1>3, Zenon DEF SetVarSafe
<1>5. Keeps(s, [s EXCEPT !.optfail = x])
  <2>1. Beside(s, [s EXCEPT !.optfail = x])
    BY BesideSteps DEF Sound
  <2> QED
    BY <2>1, BesideKeeps
<1> QED
  BY <1>2, <1>4, <1>5

LEMMA SingletonIsASeq ==
    ASSUME NEW e
    PROVE  AnySeq(<<e>>)
<1>1. <<e>> \in Seq({e})
  OBVIOUS
<1> QED
  BY <1>1, Zenon DEF AnySeq

LEMMA TellOptionKeeps ==
    ASSUME NEW t, Sound(t, calls), NEW optvar \in Names, NEW char, NEW ind, NEW offset, NEW done
    PROVE  Keeps(t, TellOption(t, optvar, char, ind, offset, done))
<1> DEFINE i == [t EXCEPT !.params.optind = ind, !.params.optoff = offset]
           o == SetVarSafe(SetVarSafe(i, "OPTIND", Number(ind), {"nofunc"}), optvar, <<char>>, {})
           e == [o EXCEPT !.params.done = @ \/ done,
                          !.params.got = IF done \/ o.params.done THEN @ ELSE
                           Append(@, <<char, LookupVar(o, "OPTARG")>>)]
<1>1. TellOption(t, optvar, char, ind, offset, done) =
        IF o.optfail THEN [GetoptsReset(o, 1) EXCEPT !.optfail = FALSE] ELSE e
  BY Zenon DEF TellOption
<1>2. Same(t, i) /\ Beside(t, i)
  <2>1. Shaped(t)
    BY DEF Sound
  <2> QED
    BY <2>1 DEF Shaped, Fields, Same, Beside, SameTable
<1> HIDE DEF i
<1>3. Sound(i, calls)
  BY <1>2, SoundAgain
<1>4. PICK none : none = {"nofunc"}
  OBVIOUS
<1>5. PICK p : p = SetVarSafe(i, "OPTIND", Number(ind), none)
  OBVIOUS
<1>6. Sound(p, calls) /\ Keeps(i, p)
  <2>1. "OPTIND" \in Names /\ "OPTIND" # "PATH"
    OBVIOUS
  <2>2. Keeps(i, p)
    BY <1>3, <1>5, <2>1, SetVarSafeKeeps
  <2> QED
    BY <1>3, <1>5, <2>1, <2>2, SetVarSafeIsSound
<1>7. PICK empty : empty = {}
  OBVIOUS
<1>8. PICK val : val = <<char>>
  OBVIOUS
<1>9. o = SetVarSafe(p, optvar, val, empty)
  BY <1>4, <1>5, <1>7, <1>8
<1> HIDE DEF o
<1>10. Sound(o, calls) /\ Keeps(p, o)
  <2>1. AnySeq(val) /\ "nofunc" \notin empty
    BY <1>7, <1>8, SingletonIsASeq
  <2>2. Keeps(p, o)
    BY <1>6, <1>9, <2>1, SetVarSafeKeeps
  <2> QED
    BY <1>6, <1>9, <2>2, SetVarSafeIsSound
<1>11. Shaped(o)
  BY <1>10 DEF Sound
<1>12. Beside(o, e)
  <2>1. PICK x : x = (o.params.done \/ done)
    OBVIOUS
  <2>2. PICK y : y = IF done \/ o.params.done THEN o.params.got
                     ELSE Append(o.params.got, <<char, LookupVar(o, "OPTARG")>>)
    OBVIOUS
  <2>3. e = [o EXCEPT !.params.done = x, !.params.got = y]
    BY <2>1, <2>2, Zenon
  <2> QED
    BY <1>11, <2>3 DEF Shaped, Fields, Beside, SameTable
<1> HIDE DEF e
<1>13. Keeps(o, [GetoptsReset(o, 1) EXCEPT !.optfail = FALSE])
  <2>1. PICK r : r = GetoptsReset(o, 1)
    OBVIOUS
  <2>2. Beside(o, r) /\ Same(o, r)
    BY <1>11, <2>1, ResetIsSame, BesideSteps
  <2>3. PICK no : no = FALSE
    OBVIOUS
  <2>4. Beside(r, [r EXCEPT !.optfail = no])
    BY <2>2, BesideSteps DEF Same
  <2>5. Keeps(o, r) /\ Keeps(r, [r EXCEPT !.optfail = no])
    BY <2>2, <2>4, BesideKeeps
  <2> QED
    BY <2>1, <2>3, <2>5, KeepsTwice
<1>14. Keeps(t, o)
  <2>1. Keeps(t, i)
    BY <1>2, BesideKeeps
  <2>2. Keeps(t, p)
    BY <1>6, <2>1, KeepsTwice
  <2> QED
    BY <1>10, <2>2, KeepsTwice
<1>15. Keeps(o, e)
  BY <1>12, BesideKeeps
<1>16. PICK r : r = TellOption(t, optvar, char, ind, offset, done)
  OBVIOUS
<1>17. Keeps(o, r)
  BY <1>1, <1>13, <1>15, <1>16
<1> QED
  BY <1>14, <1>16, <1>17, KeepsTwice

SoundKept(t, u) == Sound(u, calls) /\ Keeps(t, u)

LEMMA GetoptsKeeps ==
    ASSUME NEW s, Sound(s, calls), NEW optvar \in Names
    PROVE  Keeps(s, GetoptsCmd(s, optvar))
<1>1. PICK w : w = IF s.params.optind > Len(s.params.p) + 1 THEN GetoptsReset(s, 1) ELSE s
  OBVIOUS
<1>2. Sound(w, calls) /\ Keeps(s, w)
  <2>1. Same(s, GetoptsReset(s, 1)) /\ Beside(s, GetoptsReset(s, 1))
    BY ResetIsSame, BesideSteps DEF Sound
  <2>2. Keeps(s, GetoptsReset(s, 1)) /\ Keeps(s, s)
    BY <2>1, BesideKeeps DEF Keeps
  <2> QED
    BY <1>1, <2>1, <2>2, SoundAgain
<1>3. ASSUME NEW u, SoundKept(w, u), NEW char, NEW ind, NEW offset, NEW done
      PROVE  SoundKept(w, TellOption(u, optvar, char, ind, offset, done))
  <2>1. Sound(u, calls) /\ Keeps(w, u)
    BY <1>3 DEF SoundKept
  <2>2. Keeps(u, TellOption(u, optvar, char, ind, offset, done))
    BY <2>1, TellOptionKeeps
  <2>3. Sound(TellOption(u, optvar, char, ind, offset, done), calls)
    BY <2>1, TellOptionIsSound
  <2> QED
    BY <2>1, <2>2, <2>3, KeepsTwice DEF SoundKept
<1>4. ASSUME NEW val
      PROVE  SoundKept(w, SetVarSafe(w, "OPTARG", val, {}))
  <2>1. PICK empty : empty = {}
    OBVIOUS
  <2>2. "OPTARG" \in Names /\ "OPTARG" # "PATH"
    OBVIOUS
  <2>3. Sound(SetVarSafe(w, "OPTARG", val, empty), calls)
    BY <1>2, <2>2, SetVarSafeIsSound
  <2>4. Keeps(w, SetVarSafe(w, "OPTARG", val, empty))
    BY <1>2, <2>2, SetVarSafeKeeps
  <2> QED
    BY <2>1, <2>3, <2>4 DEF SoundKept
<1>5. SoundKept(w, UnsetVar(w, "OPTARG").s)
  <2>1. "OPTARG" \in Names /\ "OPTARG" # "PATH"
    OBVIOUS
  <2> QED
    BY <1>2, <2>1, UnsetVarIs, UnsetVarKeeps DEF OnlyVar, SoundKept
<1>6. SoundKept(w, w)
  BY <1>2 DEF Keeps, SoundKept
<1>a. SoundKept(w, Getopts(w, OptString, optvar))
  BY <1>3, <1>4, <1>5, <1>6 DEF Getopts
<1>7. Keeps(w, Getopts(w, OptString, optvar))
  BY <1>a DEF SoundKept
<1>8. GetoptsCmd(s, optvar) = Getopts(w, OptString, optvar)
  BY <1>1 DEF GetoptsCmd
<1> QED
  BY <1>2, <1>7, <1>8, KeepsTwice

(* getopts leaves the locals alone.                                        *)
LEMMA SetVarSafeLocals ==
    ASSUME NEW s, Sound(s, calls), NEW n \in Names, NEW val, NEW asked
    PROVE  SetVarSafe(s, n, val, asked).locals = s.locals
<1>1. PICK t : t = SetVar(s, n, val, asked)
  OBVIOUS
<1>2. t.locals = s.locals
  BY <1>1, SetVarIsSound DEF OnlyVar
<1>3. PICK x : x = TRUE
  OBVIOUS
<1>4. SetVarSafe(s, n, val, asked) = IF t.failed THEN [s EXCEPT !.optfail = x] ELSE t
  BY <1>1, <1>3, Zenon DEF SetVarSafe
<1>5. [s EXCEPT !.optfail = x].locals = s.locals
  BY BesideSteps DEF Sound, Beside
<1> QED
  BY <1>2, <1>4, <1>5

LEMMA TellOptionLocals ==
    ASSUME NEW t, Sound(t, calls), NEW optvar \in Names, NEW char, NEW ind, NEW offset, NEW done
    PROVE  TellOption(t, optvar, char, ind, offset, done).locals = t.locals
<1> DEFINE i == [t EXCEPT !.params.optind = ind, !.params.optoff = offset]
           o == SetVarSafe(SetVarSafe(i, "OPTIND", Number(ind), {"nofunc"}), optvar, <<char>>, {})
           e == [o EXCEPT !.params.done = @ \/ done,
                          !.params.got = IF done \/ o.params.done THEN @ ELSE
                           Append(@, <<char, LookupVar(o, "OPTARG")>>)]
           z == [GetoptsReset(o, 1) EXCEPT !.optfail = FALSE]
<1>1. TellOption(t, optvar, char, ind, offset, done) = IF o.optfail THEN z ELSE e
  BY Zenon DEF TellOption
<1>2. Same(t, i)
  BY DEF Sound, Shaped, Fields, Same
<1> HIDE DEF i
<1>3. Sound(i, calls) /\ i.locals = t.locals
  BY <1>2, SoundAgain DEF Same
<1>4. PICK p : p = SetVarSafe(i, "OPTIND", Number(ind), {"nofunc"})
  OBVIOUS
<1>5. "OPTIND" \in Names
  OBVIOUS
<1>6. Sound(p, calls) /\ p.locals = t.locals
  BY <1>3, <1>4, <1>5, SetVarSafeIsSound, SetVarSafeLocals
<1>7. o = SetVarSafe(p, optvar, <<char>>, {})
  BY <1>4
<1> HIDE DEF o
<1>8. Sound(o, calls) /\ o.locals = t.locals
  BY <1>6, <1>7, SetVarSafeIsSound, SetVarSafeLocals
<1>9. e.locals = t.locals
  <2>1. PICK x : x = (o.params.done \/ done)
    OBVIOUS
  <2>2. PICK y : y = IF done \/ o.params.done THEN o.params.got
                     ELSE Append(o.params.got, <<char, LookupVar(o, "OPTARG")>>)
    OBVIOUS
  <2>3. e = [o EXCEPT !.params.done = x, !.params.got = y]
    BY <2>1, <2>2, Zenon
  <2> QED
    BY <1>8, <2>3 DEF Sound, Shaped, Fields
<1>10. z.locals = t.locals
  <2>1. PICK r : r = GetoptsReset(o, 1)
    OBVIOUS
  <2>2. Same(o, r)
    BY <1>8, <2>1, ResetIsSame DEF Sound
  <2>3. PICK no : no = FALSE
    OBVIOUS
  <2>4. [r EXCEPT !.optfail = no].locals = r.locals
    BY <2>2, SameSteps DEF Same
  <2> QED
    BY <1>8, <2>1, <2>2, <2>3, <2>4 DEF Same
<1> QED
  BY <1>1, <1>9, <1>10

SoundHeld(t, u) == Sound(u, calls) /\ u.locals = t.locals

LEMMA GetoptsLocals ==
    ASSUME NEW s, Sound(s, calls), NEW optvar \in Names
    PROVE  SoundHeld(s, GetoptsCmd(s, optvar))
<1>1. PICK w : w = IF s.params.optind > Len(s.params.p) + 1 THEN GetoptsReset(s, 1) ELSE s
  OBVIOUS
<1>2. SoundHeld(s, w)
  <2>1. Same(s, GetoptsReset(s, 1))
    BY ResetIsSame DEF Sound
  <2> QED
    BY <1>1, <2>1, SoundAgain DEF SoundHeld, Same
<1>3. ASSUME NEW u, SoundHeld(s, u), NEW char, NEW ind, NEW offset, NEW done
      PROVE  SoundHeld(s, TellOption(u, optvar, char, ind, offset, done))
  BY <1>3, TellOptionIsSound, TellOptionLocals DEF SoundHeld
<1>4. ASSUME NEW val
      PROVE  SoundHeld(s, SetVarSafe(w, "OPTARG", val, {}))
  <2>1. "OPTARG" \in Names
    OBVIOUS
  <2> QED
    BY <1>2, <2>1, SetVarSafeIsSound, SetVarSafeLocals DEF SoundHeld
<1>5. SoundHeld(s, UnsetVar(w, "OPTARG").s)
  <2>1. "OPTARG" \in Names
    OBVIOUS
  <2> QED
    BY <1>2, <2>1, UnsetVarIs DEF OnlyVar, SoundHeld
<1>6. SoundHeld(s, Getopts(w, OptString, optvar))
  BY <1>2, <1>3, <1>4, <1>5 DEF Getopts
<1>7. GetoptsCmd(s, optvar) = Getopts(w, OptString, optvar)
  BY <1>1 DEF GetoptsCmd
<1> QED
  BY <1>6, <1>7

LEMMA LocalsAreASeq ==
    ASSUME NEW s, Sound(s, calls)
    PROVE  AnySeq(s.locals)
<1>1. 0 \in 0..Len(calls) /\ Level(s, calls, 0) = s.locals
  BY SeqFacts DEF Sound, Level
<1> QED
  BY <1>1 DEF Sound, LocalsSound

LEMMA PushIsOk ==
    ASSUME NEW q, AnySeq(q), LevelOk(q), NEW l, LocalOk(l)
    PROVE  LevelOk(Cons(l, q))
<1>1. /\ Len(q) \in Nat /\ Len(Cons(l, q)) = Len(q) + 1 /\ Cons(l, q)[1] = l
      /\ \A i \in 1..Len(q) : Cons(l, q)[i + 1] = q[i]
  BY SeqFacts, ConsFacts
<1>2. ASSUME NEW i \in 1..Len(Cons(l, q))
      PROVE  LocalOk(Cons(l, q)[i])
  <2>1. CASE i = 1
    BY <1>1, <2>1
  <2>2. CASE i # 1
    <3>1. i - 1 \in 1..Len(q) /\ (i - 1) + 1 = i
      BY <1>1, <2>2
    <3>2. Cons(l, q)[(i - 1) + 1] = q[i - 1]
      BY <1>1, <3>1
    <3>3. LocalOk(q[i - 1])
      BY <3>1 DEF LevelOk
    <3> QED
      BY <3>1, <3>2, <3>3
  <2> QED
    BY <2>1, <2>2
<1> QED
  BY <1>2 DEF LevelOk

\* The locals are those of s, and the table is right if that of s is.
Held(s, t) == Sound(t, calls) /\ t.locals = s.locals /\ Keeps(s, t)

LEMMA FlagsKeep ==
    ASSUME NEW s, Sound(s, calls), NEW n \in Names, s.vars[n].there, NEW G, s.vars[n].flags \subseteq G
    PROVE  Held(s, [s EXCEPT !.vars[n].flags = G])
<1>1. PICK t : t = [s EXCEPT !.vars[n].flags = G]
  OBVIOUS
<1>2. OnlyFlags(s, t, n, G)
  BY <1>1, FlagsAdded
<1>3. /\ Sound(t, calls) /\ t.locals = s.locals
      /\ \A m \in Names : m # n => t.vars[m] = s.vars[m]
  BY <1>2 DEF OnlyFlags
<1>4. SameTable(s, t)
  <2>1. Shaped(s)
    BY DEF Sound
  <2>2. Alike(s, PutFlags(s, n, G))
    BY <2>1, FlagsAlike
  <2> QED
    BY <1>1, <2>2 DEF Alike, PutFlags
<1>5. PathOk(s) => PathIs(t, PathVal(s))
  <2>1. CASE n = "PATH"
    BY <1>2, <1>3, <2>1 DEF PathOk, PathIs, PathVal, OnlyFlags
  <2>2. CASE n # "PATH"
    BY <1>3, <2>2 DEF PathOk, PathIs, PathVal
  <2> QED
    BY <2>1, <2>2
<1>6. Wary(s) => Wary(t)
  <2>1. \A m \in Names : s.vars[m].flags \subseteq t.vars[m].flags
    BY <1>2, <1>3 DEF OnlyFlags
  <2> QED
    BY <2>1 DEF Wary
<1>7. Keeps(s, t)
  BY <1>4, <1>5, <1>6, KeepsSame
<1> QED
  BY <1>1, <1>3, <1>7 DEF Held

\* A step of mklocal.
LocalMade(s, u) == Keeps(s, u) /\ (PathOk(s) /\ LevelOk(s.locals) => LevelOk(u.locals))

(* mklocal of any variable but the names of the directories.               *)
LEMMA MkLocalKeeps ==
    ASSUME NEW s, Sound(s, calls), NEW n \in Names, n \notin {"PWD", "OLDPWD"}, NEW val,
           n = "PATH" => AnySeq(val)
    PROVE  LocalMade(s, MkLocal(s, n, val))
<1>1. PICK v : v = s.vars[n]
  OBVIOUS
<1>2. PICK f : f = IF v.there THEN v.flags ELSE {"unset"}
  OBVIOUS
<1>3. PICK was : was = LookupVar(s, n)
  OBVIOUS
<1>4. PICK l : l = [name |-> n, text |-> v.text, was |-> was, flags |-> f]
  OBVIOUS
<1>5. l.name = n /\ l.text = v.text /\ l.flags = f
  BY <1>4
<1>6. Shaped(s)
  BY DEF Sound
<1>7. PathOk(s) => LocalOk(l)
  BY <1>1, <1>2, <1>5 DEF PathOk, LocalOk, PathVal
<1>8. ASSUME NEW made, Sound(made, calls), made.locals = s.locals, Keeps(s, made)
      PROVE  /\ LocalMade(s, made)
             /\ LocalMade(s, [made EXCEPT !.locals = <<l>> \o @])
  <2>1. PICK q : q = Cons(l, s.locals)
    OBVIOUS
  <2>2. [made EXCEPT !.locals = <<l>> \o @] = PutLocals(made, q)
    BY <1>8, <2>1 DEF Cons, PutLocals
  <2>3. PICK u : u = PutLocals(made, q)
    OBVIOUS
  <2>4. SameTable(made, u) /\ u.vars = made.vars /\ u.locals = q
    <3>1. Shaped(made)
      BY <1>8 DEF Sound
    <3> QED
      BY <2>3, <3>1 DEF Shaped, Fields, PutLocals, SameTable
  <2>5. Keeps(made, u)
    BY <2>4, VarsKeep
  <2>6. Keeps(s, u)
    BY <1>8, <2>5, KeepsTwice
  <2>7. PathOk(s) /\ LevelOk(s.locals) => LevelOk(q)
    BY <1>7, <2>1, LocalsAreASeq, PushIsOk
  <2>8. LocalMade(s, u)
    BY <2>4, <2>6, <2>7 DEF LocalMade
  <2>9. LocalMade(s, made)
    BY <1>8 DEF LocalMade
  <2> QED
    BY <2>2, <2>3, <2>8, <2>9
<1>9. CASE ~v.there
  <2>0. PICK asked : asked = {"strfixed"}
    OBVIOUS
  <2>1. PICK made : made = SetVar(s, n, val, asked)
    OBVIOUS
  <2>2. Sound(made, calls) /\ made.locals = s.locals
    BY <2>1, SetVarIsSound DEF OnlyVar
  <2>3. Keeps(s, made)
    BY <2>0, <2>1, SetVarKeeps
  <2>4. MkLocal(s, n, val) = IF made.failed THEN made ELSE [made EXCEPT !.locals = <<l>> \o @]
    BY <1>1, <1>2, <1>3, <1>4, <1>9, <2>0, <2>1, Zenon DEF MkLocal
  <2> QED
    BY <1>8, <2>2, <2>3, <2>4
<1>10. CASE v.there
  <2>1. PICK held : held = [s EXCEPT !.vars[n].flags = @ \cup {"strfixed", "textfixed"}]
    OBVIOUS
  <2>2. PICK G : G = v.flags \cup {"strfixed", "textfixed"}
    OBVIOUS
  <2>4. held = [s EXCEPT !.vars[n].flags = G]
    BY <1>1, <2>1, <2>2
  <2>5. s.vars[n].there
    BY <1>1, <1>10
  <2>6. Held(s, held)
    BY <1>1, <2>2, <2>4, <2>5, FlagsKeep
  <2>7. Sound(held, calls) /\ held.locals = s.locals /\ Keeps(s, held)
    BY <2>6 DEF Held
  <2>14. PICK asked : asked = {}
    OBVIOUS
  <2>15. PICK set : set = SetVarEq(held, n, val, asked)
    OBVIOUS
  <2>16. Sound(set, calls) /\ set.locals = s.locals
    BY <2>7, <2>15, SetVarEqIsSound DEF OnlyVar
  <2>17. Keeps(s, set)
    <3>1. Keeps(held, set)
      BY <2>7, <2>14, <2>15, SetVarEqKeeps
    <3> QED
      BY <2>7, <3>1, KeepsTwice
  <2>18. PICK made : made = IF val = Unset THEN held ELSE set
    OBVIOUS
  <2>19. MkLocal(s, n, val) = IF made.failed THEN made ELSE [made EXCEPT !.locals = <<l>> \o @]
    BY <1>1, <1>2, <1>3, <1>4, <1>10, <2>1, <2>14, <2>15, <2>18, Zenon DEF MkLocal
  <2>20. Sound(made, calls) /\ made.locals = s.locals /\ Keeps(s, made)
    BY <2>7, <2>16, <2>17, <2>18
  <2> QED
    BY <1>8, <2>19, <2>20
<1> QED
  BY <1>9, <1>10

(* One step of poplocalvars.                                               *)
LocalPopped(s, t) == Keeps(s, t) /\ t.failed = s.failed /\ t.locals = Tail(s.locals)

LEMMA PopLocalKeeps ==
    ASSUME NEW s, Sound(s, calls), s.locals # <<>>, LocalOk(Head(s.locals))
    PROVE  LocalPopped(s, PopLocal(s))
<1>0. PICK t : t = PopLocal(s)
  OBVIOUS
<1>a. PICK l : l = Head(s.locals)
  OBVIOUS
<1>1. PICK v : v = s.vars[l.name]
  OBVIOUS
<1>2. PICK u : u = [s EXCEPT !.locals = Tail(@)]
  OBVIOUS
<1>3. Shaped(u) /\ u.vars = s.vars /\ u.heap = s.heap /\ u.locals = Tail(s.locals)
      /\ SameTable(s, u) /\ u.failed = s.failed
  BY <1>2 DEF Sound, Shaped, Fields, SameTable
<1>4. Sound(u, calls) /\ Local(l, s.heap)
  BY <1>3, <1>a, TailIsSound
<1>5. /\ Sound(t, calls) /\ t.locals = Tail(s.locals)
      /\ \A m \in Names : m # l.name => t.vars[m] = s.vars[m]
  BY <1>0, <1>a, PopLocalIs
<1>6. PICK n \in Names : n = l.name
  BY <1>4 DEF Local
<1>7. n \notin {"PWD", "OLDPWD"} /\ (n = "PATH" => "strfixed" \in l.flags /\ AnySeq(l.text.val))
  BY <1>6, <1>a DEF LocalOk
<1>8. Wary(s) => Wary(t)
  <2>1. "PWD" \in Names /\ "OLDPWD" \in Names
    OBVIOUS
  <2> QED
    BY <1>5, <1>6, <1>7, <2>1 DEF Wary
<1>9. Keeps(s, u)
  BY <1>3, VarsKeep
<1>10. CASE "unset" \in l.flags /\ "strfixed" \notin l.flags
  <2>1. t = UnsetVar(u, n).s
    BY <1>0, <1>2, <1>6, <1>a, <1>10 DEF PopLocal
  <2>2. n # "PATH"
    BY <1>7, <1>10
  <2>3. Keeps(u, t) /\ t.failed = u.failed
    BY <1>4, <2>1, <2>2, UnsetVarKeeps, UnsetVarTable
  <2>4. Keeps(s, t)
    BY <1>9, <2>3, KeepsTwice
  <2> QED
    BY <1>0, <1>3, <1>5, <2>3, <2>4 DEF LocalPopped
<1>11. CASE ~("unset" \in l.flags /\ "strfixed" \notin l.flags)
  <2>0. PICK val : val = l.text.val
    OBVIOUS
  <2>1. PICK called : called = CallFunc(u, n, val)
    OBVIOUS
  <2>2. Shaped(called) /\ called.vars = s.vars
    BY <1>3, <2>1, CallFuncIsSame DEF Same
  <2>3. PICK freed : freed = IF Owned(v) THEN FreeText(called, v.text) ELSE called
    OBVIOUS
  <2>4. Alike(called, freed) /\ freed.vars = s.vars
    <3>1. Alike(called, called)
      BY <2>2 DEF Alike, SameTable
    <3>2. Alike(called, FreeText(called, v.text))
      BY <2>2, FreeAlike
    <3>3. FreeText(called, v.text).vars = called.vars
      BY <2>2 DEF FreeText, Shaped, Fields
    <3> QED
      BY <2>2, <2>3, <3>1, <3>2, <3>3
  <2>5. PICK w : w = [there |-> TRUE, flags |-> l.flags, text |-> l.text]
    OBVIOUS
  <2>6. t = PutVar(freed, n, w)
    BY <1>0, <1>1, <1>2, <1>6, <1>11, <1>a, <2>0, <2>1, <2>3, <2>5, Zenon DEF PopLocal, PutVar
  <2>7. Alike(freed, t)
    <3>1. Shaped(freed)
      BY <2>4 DEF Alike
    <3> QED
      BY <2>6, <3>1, VarAlike
  <2>8. Alike(called, t)
    BY <2>4, <2>7, AlikeTwice
  <2>9. TableAfter(u, t, n, val) /\ t.failed = s.failed
    <3>1. TableAfter(u, called, n, val) /\ called.failed = u.failed
      BY <1>3, <2>1, CallFuncTable DEF TableAfter
    <3> QED
      BY <1>3, <2>8, <3>1, TableLater DEF Alike
  <2>10. w.there /\ w.flags = l.flags /\ w.text = l.text
    <3>1. w.there = TRUE /\ w.flags = l.flags /\ w.text = l.text
      BY <2>5, RecordFields
    <3> QED
      BY <3>1
  <2>11. t.vars[n] = w
    <3>1. Shaped(freed) /\ freed.vars = [m \in Names |-> freed.vars[m]]
      BY <2>4 DEF Alike, Sound, VarsSound
    <3>2. t.vars = [freed.vars EXCEPT ![n] = w]
      BY <2>6, <3>1 DEF Shaped, Fields, PutVar
    <3> QED
      BY <3>1, <3>2
  <2>12. Wary(u) => Wary(t)
    BY <1>3, <1>8 DEF Wary
  <2>13. CASE n = "PATH"
    <3>1. PathIs(t, val)
      BY <1>7, <2>0, <2>10, <2>11, <2>13 DEF PathIs, PathVal
    <3>2. NewPath(u, val, t)
      BY <2>9, <2>13, <3>1 DEF TableAfter, NewPath, PathIs
    <3>3. Keeps(u, t)
      BY <1>7, <2>0, <2>12, <2>13, <3>1, <3>2, KeepsNew
    <3> QED
      BY <1>0, <1>5, <1>9, <2>9, <3>3, KeepsTwice DEF LocalPopped
  <2>14. CASE n # "PATH"
    <3>1. SameTable(u, t)
      BY <2>9, <2>14 DEF TableAfter
    <3>2. t.vars["PATH"] = u.vars["PATH"]
      BY <1>3, <1>5, <1>6, <2>14
    <3>3. Keeps(u, t)
      BY <2>12, <3>1, <3>2, KeepsSame DEF PathOk, PathIs, PathVal
    <3> QED
      BY <1>0, <1>5, <1>9, <2>9, <3>3, KeepsTwice DEF LocalPopped
  <2> QED
    BY <2>13, <2>14
<1> QED
  BY <1>10, <1>11

LEMMA TailIsOk ==
    ASSUME NEW q, AnySeq(q), q # <<>>, LevelOk(q)
    PROVE  LocalOk(Head(q)) /\ LevelOk(Tail(q))
<1>1. /\ Len(q) \in Nat \ {0} /\ Len(Tail(q)) = Len(q) - 1
      /\ \A i \in 1..(Len(q) - 1) : Tail(q)[i] = q[i + 1]
      /\ Head(q) = q[1]
  BY TailFacts
<1>2. 1 \in 1..Len(q) /\ \A i \in 1..(Len(q) - 1) : i + 1 \in 1..Len(q)
  BY <1>1
<1> QED
  BY <1>1, <1>2 DEF LevelOk

\* u is s after k steps, and its table is right if that of s is.
PoppedRight(s, u, k) == Popped(s, u, k) /\ Keeps(s, u) /\ u.failed = s.failed /\ LevelOk(u.locals)

LEMMA PopRight ==
    ASSUME NEW s, Sound(s, calls), NEW k \in Nat, k < Len(s.locals), NEW u, PoppedRight(s, u, k)
    PROVE  PoppedRight(s, PopLocal(u), k + 1)
<1>0. Popped(s, u, k) /\ Keeps(s, u) /\ u.failed = s.failed /\ LevelOk(u.locals)
  BY DEF PoppedRight
<1>1. Popped(s, PopLocal(u), k + 1)
  BY <1>0, PopStep
<1>2. Sound(u, calls) /\ Len(u.locals) = Len(s.locals) - k
  BY <1>0 DEF Popped
<1>3. AnySeq(u.locals) /\ Len(s.locals) \in Nat
  BY <1>2, LocalsAreASeq, SeqFacts
<1>4. u.locals # <<>>
  <2>1. Len(u.locals) # 0
    BY <1>2, <1>3
  <2> QED
    BY <2>1, EmptyIsASeq
<1>5. LocalOk(Head(u.locals)) /\ LevelOk(Tail(u.locals))
  BY <1>0, <1>3, <1>4, TailIsOk
<1>6. LocalPopped(u, PopLocal(u))
  BY <1>2, <1>4, <1>5, PopLocalKeeps
<1>7. PICK t : t = PopLocal(u)
  OBVIOUS
<1>8. Keeps(u, t) /\ t.failed = u.failed /\ t.locals = Tail(u.locals)
  BY <1>6, <1>7 DEF LocalPopped
<1>9. Keeps(s, t)
  BY <1>0, <1>8, KeepsTwice
<1> QED
  BY <1>0, <1>1, <1>5, <1>7, <1>8, <1>9 DEF PoppedRight

(* poplocalvars.                                                           *)
LEMMA PopLocalVarsKeep ==
    ASSUME NEW s, Sound(s, calls), LevelOk(s.locals)
    PROVE  PoppedRight(s, PopLocalVars(s), Len(s.locals))
<1>0. PICK n : n = Len(s.locals)
  OBVIOUS
<1>1. n \in Nat
  BY <1>0, LocalsAreASeq, SeqFacts
<1>2. \E f : Popping(f, n, s)
  BY <1>1, PoppingExists
<1>3. PICK f : f = CHOOSE h : Popping(h, n, s)
  OBVIOUS
<1>4. Popping(f, n, s)
  BY <1>2, <1>3
<1>5. PopLocalVars(s) = f[n]
  BY <1>0, <1>3 DEF PopLocalVars, Popping
<1> DEFINE T == {k \in 0..n : PoppedRight(s, f[k], k)}
<1>6. f[0] = s /\ \A k \in 0..(n - 1) : f[k + 1] = PopLocal(f[k])
  <2>1. f[0] = s
    BY <1>1, <1>4 DEF Popping
  <2>2. ASSUME NEW k \in 0..(n - 1)
        PROVE  f[k + 1] = PopLocal(f[k])
    <3>1. k + 1 \in 0..n /\ k + 1 # 0 /\ (k + 1) - 1 = k
      BY <1>1
    <3> QED
      BY <1>4, <3>1 DEF Popping
  <2> QED
    BY <2>1, <2>2
<1>7. 0 \in T
  <2>1. Popped(s, s, 0)
    BY <1>0, <1>1 DEF Popped
  <2>2. PoppedRight(s, s, 0)
    BY <2>1 DEF PoppedRight, Keeps
  <2> QED
    BY <1>1, <1>6, <2>2
<1>8. ASSUME NEW k \in 0..(n - 1), k \in T
      PROVE  k + 1 \in T
  <2>1. PoppedRight(s, f[k], k) /\ k \in Nat /\ k < Len(s.locals) /\ k + 1 \in 0..n
    BY <1>0, <1>1, <1>8
  <2>2. PoppedRight(s, PopLocal(f[k]), k + 1)
    BY <2>1, PopRight
  <2> QED
    BY <1>6, <2>1, <2>2
<1> HIDE DEF T
<1>9. 0..n \subseteq T
  BY <1>1, <1>7, <1>8, IntervalInduction
<1>10. n \in T
  BY <1>1, <1>9
<1> QED
  BY <1>0, <1>5, <1>10 DEF T

-----------------------------------------------------------------------------
(***************************************************************************)
(* The commands that look into the table.                                  *)
(***************************************************************************)
(* A new table is right if its entries are.                                *)
SetTable(s, tab) == [s EXCEPT !.cmds = tab]

LEMMA SetTableKeeps ==
    ASSUME NEW s, Shaped(s), NEW tab, tab = [c \in Commands |-> tab[c]],
           PathOk(s) /\ TableOk(s) => \A c \in Commands : Claimed(c) => EntryOk(s, c, tab[c])
    PROVE  Keeps(s, SetTable(s, tab)) /\ SetTable(s, tab).failed = s.failed
<1>1. PICK t : t = SetTable(s, tab)
  OBVIOUS
<1>2. /\ t.cmds = tab /\ t.vars = s.vars /\ t.builtinloc = s.builtinloc /\ t.cwd = s.cwd
      /\ t.failed = s.failed
  BY <1>1 DEF Shaped, Fields, SetTable
<1>3. ASSUME PathOk(s)
      PROVE  PathOk(t)
  BY <1>2, <1>3 DEF PathOk, PathVal
<1>4. ASSUME NEW c, NEW h
      PROVE  EntryOk(s, c, h) => EntryOk(t, c, h)
  BY <1>2 DEF EntryOk, NormalOk, BuiltinOk, Before, PathVal
<1>5. ASSUME PathOk(s), TableOk(s)
      PROVE  TableOk(t)
  BY <1>2, <1>4, <1>5 DEF TableOk
<1>6. Wary(s) => Wary(t)
  BY <1>2 DEF Wary
<1> QED
  BY <1>1, <1>2, <1>3, <1>5, <1>6 DEF Keeps

LEMMA SetEntryKeeps ==
    ASSUME NEW s, Shaped(s), NEW name \in Commands, NEW e,
           PathOk(s) /\ TableOk(s) /\ Claimed(name) => EntryOk(s, name, e),
           NEW tab, tab = [s.cmds EXCEPT ![name] = e]
    PROVE  Keeps(s, SetTable(s, tab))
<1> SUFFICES ASSUME PathOk(s)
             PROVE  Keeps(s, SetTable(s, tab))
  BY DEF Keeps
<1>1. s.cmds = [c \in Commands |-> s.cmds[c]]
  BY DEF PathOk
<1>2. tab = [c \in Commands |-> IF c = name THEN e ELSE s.cmds[c]]
  BY <1>1
<1>3. tab = [c \in Commands |-> tab[c]] /\ \A c \in Commands : tab[c] = IF c = name THEN e ELSE s.cmds[c]
  BY <1>2
<1>4. ASSUME TableOk(s), NEW c \in Commands, Claimed(c)
      PROVE  EntryOk(s, c, tab[c])
  BY <1>3, <1>4 DEF TableOk
<1> QED
  BY <1>3, <1>4, SetTableKeeps

(* find_command changes at most the entry of the name.                     *)
LEMMA FindChangesOne ==
    ASSUME NEW s, NEW name, NEW path, NEW alt, NEW nofunc
    PROVE  \E e : FindCommand(s, name, path, alt, nofunc).cmds \in {s.cmds, [s.cmds EXCEPT ![name] = e]}
<1> DEFINE hit     == s.cmds[name]
           altbl   == alt /\ BuiltinIndex(path) >= 0
           ignore  == \/ hit.type = "normal" /\ alt
                      \/ hit.type = "function" /\ nofunc
                      \/ hit.type = "builtin" /\ altbl
           known   == InTable(s.cmds, name) /\ ~ignore
           upd     == ~alt /\ ~(InTable(s.cmds, name) /\ ignore)
           prv     == IF ~known \/ ~hit.rehash THEN -1
                      ELSE IF hit.type = "builtin" THEN s.builtinloc ELSE hit.index
           fnd     == {i \in 0..(Len(path) - 1) : AtElement(s, name, path, i, prv, nofunc) # "skip"}
           at      == CHOOSE i \in fnd : \A j \in fnd : i <= j
           what    == AtElement(s, name, path, at, prv, nofunc)
           Result(e) == [entry |-> e, cmds |-> IF upd THEN [s.cmds EXCEPT ![name] = e] ELSE s.cmds]
           sure    == \/ Builtins[name] = "regular"
                      \/ Builtins[name] = "plain" /\ (IF alt THEN ~altbl ELSE s.builtinloc <= 0)
           lost    == known /\ upd
<1>0. PICK r : r = FindCommand(s, name, path, alt, nofunc)
  OBVIOUS
<1>1. r = IF known /\ ~hit.rehash THEN [entry |-> hit, cmds |-> s.cmds]
          ELSE IF sure THEN Result(Entry("builtin", -1))
          ELSE IF name \in Applets THEN [entry |-> Entry("normal", -1), cmds |-> s.cmds]
          ELSE IF fnd = {}
               THEN [entry |-> NoEntry,
                     cmds |-> IF lost THEN [s.cmds EXCEPT ![name] = NoEntry] ELSE s.cmds]
          ELSE IF what = "builtin" THEN Result(Entry("builtin", -1))
          ELSE IF what = "same"
               THEN LET e == [hit EXCEPT !.rehash = FALSE]
                    IN  [entry |-> e, cmds |-> [s.cmds EXCEPT ![name] = e]]
          ELSE IF what = "func"
               THEN [entry |-> Entry("function", -1),
                     cmds |-> [s.cmds EXCEPT ![name] = Entry("function", -1)]]
          ELSE Result(Entry("normal", at))
  BY <1>0, Zenon DEF FindCommand
<1>2. PICK b : b = Entry("builtin", -1)
  OBVIOUS
<1>3. PICK f : f = Entry("function", -1)
  OBVIOUS
<1>4. PICK n : n = Entry("normal", at)
  OBVIOUS
<1>5. PICK m : m = Entry("normal", -1)
  OBVIOUS
<1>6. PICK again : again = [hit EXCEPT !.rehash = FALSE]
  OBVIOUS
<1>7. PICK h : h = hit
  OBVIOUS
<1>8. PICK none : none = NoEntry
  OBVIOUS
<1>9. PICK tab : tab = s.cmds
  OBVIOUS
<1> HIDE DEF known, sure, lost, fnd, at, what, hit, altbl, ignore, prv, upd
<1>10. \/ r = [entry |-> h, cmds |-> tab]
       \/ r = Result(b)
       \/ r = [entry |-> m, cmds |-> tab]
       \/ r = [entry |-> none, cmds |-> IF lost THEN [tab EXCEPT ![name] = none] ELSE tab]
       \/ r = [entry |-> again, cmds |-> [tab EXCEPT ![name] = again]]
       \/ r = [entry |-> f, cmds |-> [tab EXCEPT ![name] = f]]
       \/ r = Result(n)
  <2> HIDE DEF Result
  <2> QED
    BY <1>1, <1>2, <1>3, <1>4, <1>5, <1>6, <1>7, <1>8, <1>9
<1>11. \A e : Result(e) = [entry |-> e, cmds |-> IF upd THEN [tab EXCEPT ![name] = e] ELSE tab]
  BY <1>9
<1> HIDE DEF Result
<1>12. \E e : r.cmds \in {tab, [tab EXCEPT ![name] = e]}
  BY <1>10, <1>11
<1> QED
  BY <1>0, <1>9, <1>12

(* A search leaves the table right, whatever path it is made in.           *)
Found(s, name, path, alt, nofunc) == FindCommand(s, name, path, alt, nofunc).cmds

LEMMA FindKeeps ==
    ASSUME NEW s, Shaped(s), NEW name \in Commands, NEW path, AnySeq(path), NEW alt \in BOOLEAN,
           ~alt => path = PathVal(s), NEW nofunc
    PROVE  Keeps(s, SetTable(s, Found(s, name, path, alt, nofunc)))
<1> SUFFICES ASSUME PathOk(s)
             PROVE  Keeps(s, SetTable(s, Found(s, name, path, alt, nofunc)))
  BY DEF Keeps
<1>1. PICK tab : tab = Found(s, name, path, alt, nofunc)
  OBVIOUS
<1>2. PICK r : r = FindCommand(s, name, path, alt, nofunc)
  OBVIOUS
<1>3. r.cmds = tab
  BY <1>1, <1>2 DEF Found
<1>4. PICK e : tab \in {s.cmds, [s.cmds EXCEPT ![name] = e]}
  BY <1>2, <1>3, FindChangesOne
<1>5. PICK same : same = s.cmds
  OBVIOUS
<1>6. CASE tab = same
  <2>1. same = [c \in Commands |-> same[c]]
    BY <1>5 DEF PathOk
  <2>2. TableOk(s) => \A c \in Commands : Claimed(c) => EntryOk(s, c, same[c])
    BY <1>5 DEF TableOk
  <2>3. Keeps(s, SetTable(s, same))
    BY <2>1, <2>2, SetTableKeeps
  <2> QED
    BY <1>1, <1>6, <2>3
<1>7. CASE tab # same /\ ~(TableOk(s) /\ Claimed(name))
  <2>1. tab = [s.cmds EXCEPT ![name] = e]
    BY <1>4, <1>5, <1>7
  <2>2. Keeps(s, SetTable(s, tab))
    BY <1>7, <2>1, SetEntryKeeps
  <2> QED
    BY <1>1, <2>2
<1>8. CASE tab # same /\ TableOk(s) /\ Claimed(name)
  <2>0. Claimed(name) /\ EntryOk(s, name, s.cmds[name])
    BY <1>8 DEF TableOk
  <2>1. PICK x : x = FreshEntry(s, name, path, alt)
    OBVIOUS
  <2>2. FoundAnew(s, name, path, alt, r, x)
    <3>1. CASE ~Counts(s, name, path, alt, nofunc)
      <4>1. FoundAnew(s, name, path, alt, FindCommand(s, name, path, alt, nofunc), FreshEntry(s, name, path, alt))
        BY <2>0, <3>1, FindAnew
      <4> QED
        BY <1>2, <2>1, <4>1
    <3>2. CASE Counts(s, name, path, alt, nofunc) /\ s.cmds[name].type = "function"
      <4>1. ~s.cmds[name].rehash
        BY <2>0, <3>2 DEF EntryOk
      <4>2. FindCommand(s, name, path, alt, nofunc).cmds = s.cmds
        BY <2>0, <3>2, <4>1, FindFunction
      <4> QED
        BY <1>2, <1>3, <1>5, <1>8, <4>2
    <3>3. CASE Counts(s, name, path, alt, nofunc) /\ s.cmds[name].type # "function" /\ ~alt
      <4>1. path = PathVal(s) /\ ~alt /\ Counts(s, name, path, alt, nofunc) /\ s.cmds[name].type # "function"
        BY <3>3
      <4>2. FoundAnew(s, name, path, alt, FindCommand(s, name, path, alt, nofunc), FreshEntry(s, name, path, alt))
        BY <2>0, <4>1, FindAgain
      <4> QED
        BY <1>2, <2>1, <4>2
    <3>4. CASE Counts(s, name, path, alt, nofunc) /\ s.cmds[name].type # "function" /\ alt
      <4>1. s.cmds[name].type = "builtin"
        BY <2>0, <3>4 DEF Counts, Ignored, InTable, EntryOk
      <4>2. Builtins[name] # "no"
        BY <2>0, <4>1 DEF EntryOk, BuiltinOk
      <4>3. IsBuiltin(s, FindCommand(s, name, path, alt, nofunc), FreshEntry(s, name, path, alt))
        BY <3>4, <4>1, <4>2, FindBuiltin
      <4> QED
        BY <1>2, <1>3, <1>5, <1>8, <4>3 DEF IsBuiltin
    <3> QED
      BY <3>1, <3>2, <3>3, <3>4
  <2>3. ~alt /\ ~(x.type = "normal" /\ x.index = -1) /\ tab = [s.cmds EXCEPT ![name] = x]
    BY <1>3, <1>5, <1>8, <2>2 DEF FoundAnew
  <2>4. EntryOk(s, name, x)
    BY <2>0, <2>1, <2>3, FreshIsOk
  <2>5. Keeps(s, SetTable(s, tab))
    BY <2>3, <2>4, SetEntryKeeps
  <2> QED
    BY <1>1, <2>5
<1> QED
  BY <1>6, <1>7, <1>8

-----------------------------------------------------------------------------
(***************************************************************************)
(* cd.                                                                     *)
(***************************************************************************)
\* What hashcd makes of an entry.
Rehashed(c, h, loc) ==
    IF \/ h.type = "normal"
       \/ h.type = "builtin" /\ Builtins[c] # "regular" /\ loc > 0
    THEN [h EXCEPT !.rehash = TRUE] ELSE h

\* r is h but for its flag.
AsBefore(h, r, yes) == IsEntry(r) /\ r.type = h.type /\ r.index = h.index /\ r.rehash = yes

LEMMA RehashFields ==
    ASSUME NEW h, IsEntry(h), NEW yes \in BOOLEAN
    PROVE  AsBefore(h, [h EXCEPT !.rehash = yes], yes)
<1>0. PICK r : r = [h EXCEPT !.rehash = yes]
  OBVIOUS
<1>1. h = [type |-> h.type, index |-> h.index, rehash |-> h.rehash]
  BY DEF IsEntry
<1>2. r = [type |-> h.type, index |-> h.index, rehash |-> yes]
  BY <1>0, <1>1
<1>3. r.type = h.type /\ r.index = h.index /\ r.rehash = yes
  BY <1>2
<1>4. r = [type |-> r.type, index |-> r.index, rehash |-> r.rehash]
  BY <1>2, <1>3
<1> QED
  BY <1>0, <1>3, <1>4 DEF IsEntry, AsBefore

(* The directory changes: what does not depend on it stays right.          *)
LEMMA RehashedIsOk ==
    ASSUME NEW s, NEW t, PathVal(t) = PathVal(s), t.builtinloc = s.builtinloc,
           NEW c \in Commands, NEW h, EntryOk(s, c, h)
    PROVE  EntryOk(t, c, Rehashed(c, h, s.builtinloc))
<1>1. PICK yes \in BOOLEAN : yes = TRUE
  OBVIOUS
<1>2. PICK r : r = [h EXCEPT !.rehash = yes]
  OBVIOUS
<1>3. IsEntry(h) /\ h.type \in {"unknown", "normal", "builtin", "function"}
  BY DEF EntryOk
<1>4. IsEntry(r) /\ r.type = h.type /\ r.index = h.index /\ r.rehash
  <2>1. AsBefore(h, r, yes)
    BY <1>2, <1>3, RehashFields
  <2> QED
    BY <1>1, <2>1 DEF AsBefore
<1>5. ASSUME NEW n, Before(s, c, n, h.rehash)
      PROVE  Before(t, c, n, r.rehash)
  <2>1. \A j \in 0..(n - 1) : Absolute(PathVal(s)[j + 1]) => Skips(c, PathVal(s)[j + 1], s.cwd)
    BY <1>5 DEF Before
  <2>2. \A j \in 0..(n - 1) : Absolute(PathVal(s)[j + 1]) => Skips(c, PathVal(s)[j + 1], t.cwd)
    BY <2>1, Elements
  <2> QED
    BY <1>4, <2>2 DEF Before
<1>6. CASE h.type = "normal"
  <2>1. NormalOk(s, c, h)
    BY <1>6 DEF EntryOk
  <2>2. Absolute(PathVal(s)[h.index + 1]) => ~Skips(c, PathVal(s)[h.index + 1], t.cwd)
    BY <2>1, Elements DEF NormalOk
  <2>3. Before(t, c, h.index, r.rehash)
    BY <1>5, <2>1 DEF NormalOk
  <2>4. NormalOk(t, c, r)
    BY <1>4, <2>1, <2>2, <2>3 DEF NormalOk
  <2>5. Rehashed(c, h, s.builtinloc) = r
    BY <1>1, <1>2, <1>6 DEF Rehashed
  <2> QED
    BY <1>4, <1>6, <2>4, <2>5 DEF EntryOk
<1>7. CASE h.type = "builtin" /\ Builtins[c] # "regular" /\ s.builtinloc > 0
  <2>1. BuiltinOk(s, c, h)
    BY <1>7 DEF EntryOk
  <2>2. Builtins[c] = "plain"
    BY <1>7, <2>1 DEF BuiltinOk
  <2>3. Before(t, c, s.builtinloc, r.rehash)
    BY <1>5, <1>7, <2>1, <2>2 DEF BuiltinOk
  <2>4. BuiltinOk(t, c, r)
    BY <1>4, <1>7, <2>1, <2>2, <2>3 DEF BuiltinOk
  <2>5. Rehashed(c, h, s.builtinloc) = r
    BY <1>1, <1>2, <1>7 DEF Rehashed
  <2> QED
    BY <1>4, <1>7, <2>4, <2>5 DEF EntryOk
<1>8. CASE h.type # "normal" /\ ~(h.type = "builtin" /\ Builtins[c] # "regular" /\ s.builtinloc > 0)
  <2>1. Rehashed(c, h, s.builtinloc) = h
    BY <1>8 DEF Rehashed
  <2>2. h.type = "builtin" => BuiltinOk(t, c, h)
    BY <1>8 DEF EntryOk, BuiltinOk
  <2> QED
    BY <1>8, <2>1, <2>2 DEF EntryOk
<1> QED
  BY <1>6, <1>7, <1>8

\* A directory is noted in one of its variables.
Noted(s, n, t) ==
    /\ Sound(t, calls) /\ SameTable(s, t) /\ Keeps(s, t) /\ t.locals = s.locals
    /\ PathVal(t) = PathVal(s)
    /\ ~s.failed /\ t.failed => "readonly" \in s.vars[n].flags

LEMMA NoteDir ==
    ASSUME NEW s, Sound(s, calls), NEW n \in Names, n # "PATH", NEW val, NEW asked, "noset" \notin asked
    PROVE  Noted(s, n, SetVar(s, n, val, asked))
<1>1. PICK more : more = IF val = Unset THEN asked \cup {"unset"} ELSE asked
  OBVIOUS
<1>2. PICK t : t = SetVarEq(s, n, val, more)
  OBVIOUS
<1>3. SetVar(s, n, val, asked) = t
  BY <1>1, <1>2 DEF SetVar
<1>4. Sound(t, calls) /\ t.locals = s.locals /\ \A m \in Names : m # n => t.vars[m] = s.vars[m]
  BY <1>2, SetVarEqIsSound DEF OnlyVar
<1>5. PathVal(t) = PathVal(s)
  BY <1>4 DEF PathVal
<1>6. Keeps(s, t)
  BY <1>2, SetVarEqKeeps
<1>7. SameTable(s, t) /\ ("readonly" \notin s.vars[n].flags => t.failed = s.failed)
  BY <1>2, SetVarEqTable DEF TableAfter
<1> QED
  BY <1>3, <1>4, <1>5, <1>6, <1>7 DEF Noted

\* The table can be used: it is right, or the user made a directory readonly.
Right(s) == PathOk(s) /\ (Wary(s) \/ TableOk(s))

LEMMA KeepsRight ==
    ASSUME NEW s, Right(s), NEW t, Keeps(s, t)
    PROVE  Right(t)
BY DEF Right, Keeps

\* What a command leaves.
Steady(s) == Shaped(s) /\ Right(s) /\ LevelOk(s.locals)
Outcome == Right(g') /\ LevelOk(g'.locals) /\ FramesOk(calls') /\ ~g'.failed

LEMMA LeavesRight ==
    ASSUME FramesOk(calls), NEW s, Steady(s), Leaves(s) \/ Catches(s)
    PROVE  Outcome
<1>1. PICK x : x = FALSE
  OBVIOUS
<1>2. ASSUME NEW u, Steady(u)
      PROVE  Steady([u EXCEPT !.failed = x]) /\ [u EXCEPT !.failed = x].failed = x
  <2>1. PICK w : w = [u EXCEPT !.failed = x]
    OBVIOUS
  <2>2. Shaped(u) /\ Right(u) /\ LevelOk(u.locals)
    BY <1>2 DEF Steady
  <2>3. Beside(u, w) /\ w.failed = x
    BY <2>1, <2>2, BesideSteps
  <2>4. Shaped(w)
    BY <2>1, <2>2 DEF Shaped, Fields
  <2>5. Right(w)
    BY <2>2, <2>3, BesideKeeps, KeepsRight
  <2> QED
    BY <2>1, <2>2, <2>3, <2>4, <2>5 DEF Steady, Beside
<1>3. ASSUME NEW u, Steady(u), Leaves(u)
      PROVE  Outcome
  <2>1. g' = [u EXCEPT !.failed = x] /\ calls' = calls
    BY <1>1, <1>3 DEF Leaves
  <2>2. PICK w : w = [u EXCEPT !.failed = x]
    OBVIOUS
  <2>3. Steady(w) /\ w.failed = x
    BY <1>2, <1>3, <2>2
  <2> QED
    BY <1>1, <2>1, <2>2, <2>3 DEF Outcome, Steady
<1>4. CASE Leaves(s)
  BY <1>3, <1>4
<1>5. CASE Catches(s)
  <2>1. PICK w : w = [s EXCEPT !.failed = x]
    OBVIOUS
  <2>2. Leaves(w)
    BY <1>1, <1>5, <2>1 DEF Catches
  <2>3. Steady(w)
    BY <1>2, <2>1
  <2> QED
    BY <1>3, <2>2, <2>3
<1> QED
  BY <1>4, <1>5

LEMMA CdRight ==
    ASSUME Sound(g, calls), Right(g), LevelOk(g.locals), FramesOk(calls), ~g.failed, NEW dir, CdCmd(dir)
    PROVE  Outcome
<1>0. Shaped(g)
  BY DEF Sound
<1>1. PICK moved : moved = [g EXCEPT !.cwd = dir]
  OBVIOUS
<1>2. /\ moved.vars = g.vars /\ moved.cmds = g.cmds /\ moved.builtinloc = g.builtinloc
      /\ moved.locals = g.locals /\ moved.failed = g.failed
  BY <1>0, <1>1 DEF Shaped, Fields
<1>3. Sound(moved, calls)
  BY <1>0, <1>1, SameSteps, SoundAgain
<1>4. PathOk(moved) /\ PathVal(moved) = PathVal(g)
  BY <1>2 DEF Right, PathOk, PathVal
<1>5. PICK asked : asked = {"export"}
  OBVIOUS
<1>6. PICK old : old = SetVar(moved, "OLDPWD", <<g.curdir>>, asked)
  OBVIOUS
<1>7. Noted(moved, "OLDPWD", old)
  <2>1. "OLDPWD" \in Names /\ "OLDPWD" # "PATH" /\ "noset" \notin asked
    BY <1>5
  <2> QED
    BY <1>3, <1>6, <2>1, NoteDir
<1>8. /\ Sound(old, calls) /\ SameTable(moved, old) /\ Keeps(moved, old) /\ old.locals = g.locals
      /\ PathVal(old) = PathVal(g)
      /\ old.failed => "readonly" \in moved.vars["OLDPWD"].flags
  BY <1>2, <1>4, <1>7 DEF Noted
<1>9. PICK there : there = [old EXCEPT !.curdir = dir]
  OBVIOUS
<1>10. Beside(old, there) /\ there.failed = old.failed
  BY <1>8, <1>9, BesideSteps DEF Sound
<1>11. Sound(there, calls)
  <2>1. Same(old, there)
    BY <1>8, <1>9, SameSteps DEF Sound
  <2> QED
    BY <1>8, <2>1, SoundAgain
<1>12. Keeps(moved, there)
  BY <1>8, <1>10, BesideKeeps, KeepsTwice
<1>13. PICK new : new = SetVar(there, "PWD", <<dir>>, asked)
  OBVIOUS
<1>14. Noted(there, "PWD", new)
  <2>1. "PWD" \in Names /\ "PWD" # "PATH" /\ "noset" \notin asked
    BY <1>5
  <2> QED
    BY <1>11, <1>13, <2>1, NoteDir
<1>15. /\ Sound(new, calls) /\ SameTable(there, new) /\ Keeps(there, new) /\ new.locals = g.locals
       /\ PathVal(new) = PathVal(g)
       /\ ~there.failed /\ new.failed => "readonly" \in there.vars["PWD"].flags
  BY <1>8, <1>10, <1>14 DEF Noted, Beside, PathVal
<1>16. Keeps(moved, new)
  BY <1>12, <1>15, KeepsTwice
<1>17. Catches(IF old.failed THEN old ELSE IF new.failed THEN new ELSE HashCd(new))
  BY <1>1, <1>5, <1>6, <1>9, <1>13 DEF CdCmd
<1>18. CASE old.failed
  <2>1. Wary(moved)
    BY <1>8, <1>18 DEF Wary
  <2>2. Steady(old)
    BY <1>4, <1>8, <2>1 DEF Steady, Right, Keeps, Sound
  <2>3. Catches(old)
    BY <1>17, <1>18
  <2> QED
    BY <2>2, <2>3, LeavesRight
<1>19. CASE ~old.failed /\ new.failed
  <2>1. Wary(there)
    BY <1>10, <1>15, <1>19 DEF Wary
  <2>2. PathOk(there)
    BY <1>4, <1>12 DEF Keeps
  <2>3. Steady(new)
    BY <1>15, <2>1, <2>2 DEF Steady, Right, Keeps, Sound
  <2>4. Catches(new)
    BY <1>17, <1>19
  <2> QED
    BY <2>3, <2>4, LeavesRight
<1>20. CASE ~old.failed /\ ~new.failed
  <2>1. PICK tab : tab = [c \in Commands |-> Rehashed(c, new.cmds[c], new.builtinloc)]
    OBVIOUS
  <2>2. HashCd(new) = SetTable(new, tab)
    <3>1. PICK u : u = [c \in Commands |->
             IF \/ new.cmds[c].type = "normal"
                \/ new.cmds[c].type = "builtin" /\ Builtins[c] # "regular" /\ new.builtinloc > 0
             THEN [new.cmds[c] EXCEPT !.rehash = TRUE] ELSE new.cmds[c]]
      OBVIOUS
    <3>2. HashCd(new) = [new EXCEPT !.cmds = u]
      BY <3>1, Zenon DEF HashCd
    <3>3. u = tab
      BY <2>1, <3>1, Zenon DEF Rehashed
    <3> QED
      BY <3>2, <3>3 DEF SetTable
  <2>3. PICK t : t = SetTable(new, tab)
    OBVIOUS
  <2>4. /\ Shaped(t) /\ t.cmds = tab /\ t.vars = new.vars /\ t.builtinloc = new.builtinloc
        /\ t.locals = new.locals
    BY <1>15, <2>3 DEF Sound, Shaped, Fields, SetTable
  <2>5. PathOk(new)
    BY <1>4, <1>16 DEF Keeps
  <2>6. PathOk(t) /\ PathVal(t) = PathVal(g)
    BY <1>15, <2>1, <2>4, <2>5 DEF PathOk, PathVal
  <2>7. Wary(g) => Wary(t)
    <3>1. Wary(g) => Wary(moved)
      BY <1>2 DEF Wary
    <3>2. Wary(moved) => Wary(new)
      BY <1>4, <1>16 DEF Keeps
    <3> QED
      BY <2>4, <3>1, <3>2 DEF Wary
  <2>8. new.cmds = g.cmds /\ new.builtinloc = g.builtinloc
    BY <1>2, <1>8, <1>10, <1>15 DEF SameTable, Beside
  <2>9. ASSUME TableOk(g), NEW c \in Commands, Claimed(c)
        PROVE  EntryOk(t, c, t.cmds[c])
    <3>1. EntryOk(g, c, g.cmds[c])
      BY <2>9 DEF TableOk
    <3>2. PathVal(t) = PathVal(g) /\ t.builtinloc = g.builtinloc
      BY <2>4, <2>6, <2>8
    <3>3. EntryOk(t, c, Rehashed(c, g.cmds[c], g.builtinloc))
      BY <3>1, <3>2, RehashedIsOk
    <3>4. t.cmds[c] = Rehashed(c, g.cmds[c], g.builtinloc)
      BY <2>1, <2>4, <2>8
    <3> QED
      BY <3>3, <3>4
  <2>10. Steady(t)
    BY <1>15, <2>4, <2>6, <2>7, <2>9 DEF Steady, Right, TableOk
  <2>11. Catches(t)
    BY <1>17, <1>20, <2>2, <2>3
  <2> QED
    BY <2>10, <2>11, LeavesRight
<1> QED
  BY <1>18, <1>19, <1>20

-----------------------------------------------------------------------------
(***************************************************************************)
(* Every command leaves the table in order.                                *)
(***************************************************************************)
InOrder == Sound(g, calls) /\ Right(g) /\ LevelOk(g.locals) /\ FramesOk(calls) /\ ~g.failed

LEMMA StepsToRight ==
    ASSUME InOrder, NEW s, Shaped(s), Keeps(g, s), s.locals = g.locals, Leaves(s) \/ Catches(s)
    PROVE  Outcome
<1>1. Right(s)
  BY KeepsRight DEF InOrder
<1>2. Steady(s)
  BY <1>1 DEF InOrder, Steady
<1> QED
  BY <1>2, LeavesRight DEF InOrder

LEMMA SetTableShape ==
    ASSUME NEW s, Shaped(s), NEW tab
    PROVE  Shaped(SetTable(s, tab)) /\ SetTable(s, tab).locals = s.locals
           /\ SetTable(s, tab).failed = s.failed
BY DEF Shaped, Fields, SetTable

LEMMA TableRight ==
    ASSUME InOrder, NEW name \in Commands,
           \/ \E nofunc : Run(name, nofunc)
           \/ \E path \in Paths : RunWithPath(name, path)
           \/ TypeCmd(name) \/ HashCmd(name) \/ DefFun(name) \/ UnsetFunc(name)
    PROVE  Outcome
<1>0. Shaped(g) /\ PathOk(g)
  BY DEF InOrder, Sound, Right
<1>1. ASSUME NEW tab, Keeps(g, SetTable(g, tab)), Leaves([g EXCEPT !.cmds = tab])
      PROVE  Outcome
  <2>1. PICK t : t = SetTable(g, tab)
    OBVIOUS
  <2>2. Shaped(t) /\ t.locals = g.locals /\ Keeps(g, t) /\ Leaves(t)
    BY <1>0, <1>1, <2>1, SetTableShape DEF SetTable
  <2> QED
    BY <2>2, StepsToRight
<1>2. ASSUME NEW alt \in BOOLEAN, ~alt, NEW nofunc,
             Leaves([g EXCEPT !.cmds = Found(g, name, PathVal(g), alt, nofunc)])
      PROVE  Outcome
  <2>1. AnySeq(PathVal(g))
    BY <1>0 DEF PathOk
  <2>2. Keeps(g, SetTable(g, Found(g, name, PathVal(g), alt, nofunc)))
    BY <1>0, <1>2, <2>1, FindKeeps
  <2> QED
    BY <1>1, <1>2, <2>2
<1>3. CASE \E nofunc : Run(name, nofunc)
  BY <1>2, <1>3 DEF Run, Found
<1>4. CASE TypeCmd(name)
  BY <1>2, <1>4 DEF TypeCmd, Found
<1>5. CASE \E path \in Paths : RunWithPath(name, path)
  <2>1. PICK path \in Paths : RunWithPath(name, path)
    BY <1>5
  <2>2. PICK alt \in BOOLEAN : alt = TRUE
    OBVIOUS
  <2>3. PICK nofunc : nofunc = FALSE
    OBVIOUS
  <2>4. Leaves([g EXCEPT !.cmds = Found(g, name, path, alt, nofunc)])
    BY <2>1, <2>2, <2>3 DEF RunWithPath, Found
  <2>5. AnySeq(path)
    BY DEF AnySeq
  <2>6. Keeps(g, SetTable(g, Found(g, name, path, alt, nofunc)))
    BY <1>0, <2>2, <2>5, FindKeeps
  <2> QED
    BY <1>1, <2>4, <2>6
<1>6. ASSUME NEW e, PathOk(g) /\ TableOk(g) /\ Claimed(name) => EntryOk(g, name, e),
             NEW tab, tab = [g.cmds EXCEPT ![name] = e]
      PROVE  Keeps(g, SetTable(g, tab))
  BY <1>0, <1>6, SetEntryKeeps
<1>7. ASSUME NEW e, EntryOk(g, name, e), Leaves([g EXCEPT !.cmds[name] = e])
      PROVE  Outcome
  <2>1. PICK tab : tab = [g.cmds EXCEPT ![name] = e]
    OBVIOUS
  <2>2. [g EXCEPT !.cmds[name] = e] = [g EXCEPT !.cmds = tab]
    BY <1>0, <2>1 DEF Shaped, Fields
  <2>3. Keeps(g, SetTable(g, tab))
    BY <1>6, <1>7, <2>1
  <2> QED
    BY <1>1, <1>7, <2>2, <2>3
<1>8. CASE DefFun(name)
  <2>1. PICK e : e = Entry("function", -1)
    OBVIOUS
  <2>2. EntryOk(g, name, e)
    BY <2>1, EntryFields DEF EntryOk
  <2> QED
    BY <1>7, <1>8, <2>1, <2>2 DEF DefFun
<1>9. PICK none : none = NoEntry
  OBVIOUS
<1>10. \A s : EntryOk(s, name, none)
  BY <1>9, NoEntryFields DEF EntryOk
<1>11. CASE UnsetFunc(name)
  BY <1>7, <1>9, <1>10, <1>11 DEF UnsetFunc
<1>12. CASE HashCmd(name)
  <2>1. PICK no \in BOOLEAN : no = FALSE
    OBVIOUS
  <2>2. PICK s : /\ s = g \/ s = [g EXCEPT !.cmds[name] = none]
                 /\ Leaves([s EXCEPT !.cmds = Found(s, name, PathVal(s), no, no)])
    BY <1>9, <1>12, <2>1 DEF HashCmd, Found
  <2>3. Shaped(s) /\ s.locals = g.locals /\ Keeps(g, s)
    <3>1. CASE s = g
      BY <1>0, <3>1 DEF Keeps
    <3>2. CASE s = [g EXCEPT !.cmds[name] = none]
      <4>1. PICK tab : tab = [g.cmds EXCEPT ![name] = none]
        OBVIOUS
      <4>2. s = SetTable(g, tab)
        BY <1>0, <3>2, <4>1 DEF Shaped, Fields, SetTable
      <4>3. Keeps(g, SetTable(g, tab))
        BY <1>6, <1>10, <4>1
      <4> QED
        BY <1>0, <4>2, <4>3, SetTableShape
    <3> QED
      BY <2>2, <3>1, <3>2
  <2>4. PathOk(s)
    BY <1>0, <2>3 DEF Keeps
  <2>5. PICK tab : tab = Found(s, name, PathVal(s), no, no)
    OBVIOUS
  <2>6. AnySeq(PathVal(s))
    BY <2>4 DEF PathOk
  <2>7. Keeps(s, SetTable(s, tab))
    BY <2>1, <2>3, <2>5, <2>6, FindKeeps
  <2>8. PICK t : t = SetTable(s, tab)
    OBVIOUS
  <2>9. Shaped(t) /\ t.locals = g.locals /\ Leaves(t)
    <3>1. Leaves(SetTable(s, Found(s, name, PathVal(s), no, no)))
      BY <2>2 DEF SetTable
    <3> QED
      BY <2>3, <2>5, <2>8, <3>1, SetTableShape
  <2>10. Keeps(g, t)
    BY <2>3, <2>7, <2>8, KeepsTwice
  <2> QED
    BY <2>9, <2>10, StepsToRight
<1> QED
  BY <1>3, <1>4, <1>5, <1>8, <1>11, <1>12

(* hash -r, set and shift.                                                 *)
LEMMA ParamsRight ==
    ASSUME InOrder, HashForget \/ AllExport \/ ShiftCmd \/ \E words : SetParam(words)
    PROVE  Outcome
<1>0. Shaped(g)
  BY DEF InOrder, Sound
<1>1. ASSUME NEW t, Same(g, t), Beside(g, t), Leaves(t)
      PROVE  Outcome
  <2>1. Shaped(t) /\ t.locals = g.locals /\ Keeps(g, t)
    BY <1>1, BesideKeeps DEF Same
  <2> QED
    BY <1>1, <2>1, StepsToRight
<1>2. CASE AllExport
  <2>1. PICK x : x = (~g.aflag)
    OBVIOUS
  <2>2. Leaves([g EXCEPT !.aflag = x])
    BY <1>2, <2>1, Zenon DEF AllExport
  <2>3. Same(g, [g EXCEPT !.aflag = x]) /\ Beside(g, [g EXCEPT !.aflag = x])
    BY <1>0, SameSteps, BesideSteps
  <2> QED
    BY <1>1, <2>2, <2>3
<1>3. ASSUME NEW x, Leaves([g EXCEPT !.params = x])
      PROVE  Outcome
  <2>1. Same(g, [g EXCEPT !.params = x]) /\ Beside(g, [g EXCEPT !.params = x])
    BY <1>0, SameSteps, BesideSteps
  <2> QED
    BY <1>1, <1>3, <2>1
<1>4. CASE \E words : SetParam(words)
  BY <1>3, <1>4 DEF SetParam
<1>5. CASE ShiftCmd
  <2>1. PICK x : x = TRUE
    OBVIOUS
  <2>2. Same(g, [g EXCEPT !.failed = x]) /\ Beside(g, [g EXCEPT !.failed = x])
    BY <1>0, SameSteps, BesideSteps
  <2>3. CASE Leaves([g EXCEPT !.failed = x])
    BY <1>1, <2>2, <2>3
  <2>4. Leaves([g EXCEPT !.failed = x]) \/ Leaves([g EXCEPT !.params = Params(Tail(g.params.p))])
    BY <1>5, <2>1, Zenon DEF ShiftCmd, Fail
  <2> QED
    BY <1>3, <2>3, <2>4
<1>6. CASE HashForget
  <2>1. PICK none : none = NoEntry
    OBVIOUS
  <2>2. \A s : \A c \in Commands : EntryOk(s, c, none)
    BY <2>1, NoEntryFields DEF EntryOk
  <2>3. PICK tab : tab = [c \in Commands |->
           IF \/ g.cmds[c].type = "normal" /\ g.cmds[c].index >= 0
              \/ g.cmds[c].type = "builtin" /\ g.builtinloc >= 0
           THEN none ELSE g.cmds[c]]
    OBVIOUS
  <2>4. ClearCmdEntry(g, 0) = SetTable(g, tab)
    BY <2>1, <2>3, Zenon DEF ClearCmdEntry, SetTable
  <2>5. tab = [c \in Commands |-> tab[c]] /\ \A c \in Commands : tab[c] \in {none, g.cmds[c]}
    BY <2>3
  <2>6. TableOk(g) => \A c \in Commands : Claimed(c) => EntryOk(g, c, tab[c])
    BY <2>2, <2>5 DEF TableOk
  <2>7. PICK t : t = SetTable(g, tab)
    OBVIOUS
  <2>8. Keeps(g, t)
    BY <1>0, <2>5, <2>6, <2>7, SetTableKeeps
  <2>9. Shaped(t) /\ t.locals = g.locals
    BY <1>0, <2>7, SetTableShape
  <2>10. Leaves(t)
    BY <1>6, <2>4, <2>7 DEF HashForget
  <2> QED
    BY <2>8, <2>9, <2>10, StepsToRight
<1> QED
  BY <1>2, <1>4, <1>5, <1>6

(* The commands that change variables.                                     *)
LEMMA VariableRight ==
    ASSUME InOrder, NEW n \in Names,
           \/ Assign(n) \/ AssignForBuiltin(n) \/ GetoptsCommand(n)
           \/ LocalCmd(n) /\ n \notin {"PWD", "OLDPWD"}
           \/ UnsetCmd(n) /\ n # "PATH"
    PROVE  Outcome
<1>0. Sound(g, calls) /\ PathOk(g) /\ LevelOk(g.locals)
  BY DEF InOrder, Right
<1>1. ASSUME NEW t, Held(g, t), Leaves(t) \/ Catches(t)
      PROVE  Outcome
  <2>1. Shaped(t) /\ t.locals = g.locals /\ Keeps(g, t)
    BY <1>1 DEF Held, Sound
  <2> QED
    BY <1>1, <2>1, StepsToRight
<1>2. ASSUME NEW v \in ValuesOf(n), NEW asked \in {{}, {"noset"}}
      PROVE  Held(g, SetVarEq(g, n, v, asked))
  <2>1. n = "PATH" => AnySeq(v) /\ "nofunc" \notin asked
    BY <1>2 DEF ValuesOf, AnySeq
  <2>2. Keeps(g, SetVarEq(g, n, v, asked))
    BY <1>0, <2>1, SetVarEqKeeps
  <2>3. Sound(SetVarEq(g, n, v, asked), calls) /\ SetVarEq(g, n, v, asked).locals = g.locals
    BY <1>0, SetVarEqIsSound DEF OnlyVar
  <2> QED
    BY <2>2, <2>3 DEF Held
<1>3. CASE Assign(n)
  <2>1. PICK asked \in {{}, {"noset"}} : asked = {}
    OBVIOUS
  <2>2. PICK v \in ValuesOf(n) : Leaves(SetVarEq(g, n, v, asked))
    BY <1>3, <2>1 DEF Assign
  <2> QED
    BY <1>1, <1>2, <2>2
<1>4. CASE AssignForBuiltin(n)
  <2>1. PICK asked \in {{}, {"noset"}} : asked = {"noset"}
    OBVIOUS
  <2>2. PICK v \in ValuesOf(n) : Leaves(SetVarEq(g, n, v, asked))
    BY <1>4, <2>1 DEF AssignForBuiltin
  <2> QED
    BY <1>1, <1>2, <2>2
<1>5. CASE GetoptsCommand(n)
  <2>1. PICK t : t = GetoptsCmd(g, n)
    OBVIOUS
  <2>2. Keeps(g, t) /\ SoundHeld(g, t)
    BY <1>0, <2>1, GetoptsKeeps, GetoptsLocals
  <2>3. Catches(t)
    BY <1>5, <2>1 DEF GetoptsCommand
  <2> QED
    BY <1>1, <2>2, <2>3 DEF SoundHeld, Held
<1>6. CASE UnsetCmd(n) /\ n # "PATH"
  <2>1. PICK t : t = UnsetVar(g, n).s
    OBVIOUS
  <2>2. Held(g, t)
    BY <1>0, <1>6, <2>1, UnsetVarKeeps, UnsetVarIs DEF OnlyVar, Held
  <2>3. Leaves(t)
    BY <1>6, <2>1 DEF UnsetCmd
  <2> QED
    BY <1>1, <2>2, <2>3
<1>7. CASE LocalCmd(n) /\ n \notin {"PWD", "OLDPWD"}
  <2>1. PICK v \in ValuesOf(n) \cup {Unset} : Catches(MkLocal(g, n, v))
    BY <1>7 DEF LocalCmd
  <2>2. n = "PATH" => AnySeq(v)
    <3>1. v = Unset => AnySeq(v)
      BY SingletonIsASeq DEF Unset
    <3>2. n = "PATH" /\ v \in ValuesOf(n) => AnySeq(v)
      BY DEF ValuesOf, AnySeq
    <3> QED
      BY <2>1, <3>1, <3>2
  <2>3. PICK t : t = MkLocal(g, n, v)
    OBVIOUS
  <2>4. LocalMade(g, t)
    BY <1>0, <1>7, <2>2, <2>3, MkLocalKeeps
  <2>5. Keeps(g, t) /\ LevelOk(t.locals)
    BY <1>0, <2>4 DEF LocalMade
  <2>6. Shaped(t)
    BY <1>0, <2>3, MkLocalIsSound DEF Sound
  <2>7. Right(t)
    BY <2>5, KeepsRight DEF InOrder
  <2>8. Steady(t) /\ Catches(t)
    BY <2>1, <2>3, <2>5, <2>6, <2>7 DEF Steady
  <2> QED
    BY <2>8, LeavesRight DEF InOrder
<1> QED
  BY <1>3, <1>4, <1>5, <1>6, <1>7

LEMMA ExportRight ==
    ASSUME InOrder, NEW n \in Ordinary, NEW flag \in {"export", "readonly"}, ExportCmd(n, flag)
    PROVE  Outcome
<1>0. Sound(g, calls) /\ n \in Names /\ n # "PATH"
  BY DEF InOrder, Ordinary
<1>1. ASSUME NEW t, Held(g, t), Leaves(t)
      PROVE  Outcome
  <2>1. Shaped(t) /\ t.locals = g.locals /\ Keeps(g, t)
    BY <1>1 DEF Held, Sound
  <2> QED
    BY <1>1, <2>1, StepsToRight
<1>2. ASSUME NEW v, Leaves(SetVar(g, n, v, {flag}))
      PROVE  Outcome
  <2>1. PICK asked : asked = {flag}
    OBVIOUS
  <2>2. PICK t : t = SetVar(g, n, v, asked)
    OBVIOUS
  <2>3. Keeps(g, t)
    BY <1>0, <2>2, SetVarKeeps
  <2>4. Sound(t, calls) /\ t.locals = g.locals
    BY <1>0, <2>2, SetVarIsSound DEF OnlyVar
  <2> QED
    BY <1>1, <1>2, <2>1, <2>2, <2>3, <2>4 DEF Held
<1>3. ASSUME g.vars[n].there, Leaves([g EXCEPT !.vars[n].flags = @ \cup {flag}])
      PROVE  Outcome
  <2>1. PICK G : G = g.vars[n].flags \cup {flag}
    OBVIOUS
  <2>2. PICK t : t = [g EXCEPT !.vars[n].flags = G]
    OBVIOUS
  <2>3. Held(g, t)
    BY <1>0, <1>3, <2>1, <2>2, FlagsKeep
  <2>4. Leaves(t)
    BY <1>3, <2>1, <2>2
  <2> QED
    BY <1>1, <2>3, <2>4
<1>4. \/ \E v \in ValuesOf(n) : Leaves(SetVar(g, n, v, {flag}))
      \/ g.vars[n].there /\ Leaves([g EXCEPT !.vars[n].flags = @ \cup {flag}])
      \/ Leaves(SetVar(g, n, Unset, {flag}))
  BY DEF ExportCmd
<1> QED
  BY <1>2, <1>3, <1>4

-----------------------------------------------------------------------------
(***************************************************************************)
(* Functions and files.                                                    *)
(***************************************************************************)
LEMMA PushFrame ==
    ASSUME AnySeq(calls), FramesOk(calls), NEW f, LevelOk(f.locals)
    PROVE  FramesOk(Cons(f, calls))
<1>1. PICK q : q = calls
  OBVIOUS
<1>2. /\ Len(q) \in Nat /\ Len(Cons(f, q)) = Len(q) + 1 /\ Cons(f, q)[1] = f
      /\ \A i \in 1..Len(q) : Cons(f, q)[i + 1] = q[i]
  BY <1>1, SeqFacts, ConsFacts
<1>3. \A i \in 1..Len(q) : LevelOk(q[i].locals)
  BY <1>1 DEF FramesOk
<1>4. ASSUME NEW k \in 1..Len(Cons(f, q))
      PROVE  LevelOk(Cons(f, q)[k].locals)
  <2>1. CASE k = 1
    BY <1>2, <2>1
  <2>2. CASE k # 1
    <3>1. k - 1 \in 1..Len(q) /\ (k - 1) + 1 = k
      BY <1>2, <2>2
    <3>2. Cons(f, q)[(k - 1) + 1] = q[k - 1]
      BY <1>2, <3>1
    <3>3. LevelOk(q[k - 1].locals)
      BY <1>3, <3>1
    <3> QED
      BY <3>1, <3>2, <3>3
  <2> QED
    BY <2>1, <2>2
<1>5. FramesOk(Cons(f, q))
  BY <1>4 DEF FramesOk
<1> QED
  BY <1>1, <1>5

LEMMA TailFrames ==
    ASSUME AnySeq(calls), FramesOk(calls), calls # <<>>
    PROVE  FramesOk(Tail(calls)) /\ LevelOk(Head(calls).locals)
<1>1. PICK q : q = calls
  OBVIOUS
<1>2. /\ Len(q) \in Nat \ {0} /\ Len(Tail(q)) = Len(q) - 1
      /\ \A i \in 1..(Len(q) - 1) : Tail(q)[i] = q[i + 1]
      /\ Head(q) = q[1]
  BY <1>1, TailFacts
<1>3. \A i \in 1..Len(q) : LevelOk(q[i].locals)
  BY <1>1 DEF FramesOk
<1>4. 1 \in 1..Len(q) /\ \A i \in 1..(Len(q) - 1) : i + 1 \in 1..Len(q)
  BY <1>2
<1>5. LevelOk(Head(q).locals)
  BY <1>2, <1>3, <1>4
<1>6. \A i \in 1..(Len(q) - 1) : LevelOk(Tail(q)[i].locals)
  BY <1>2, <1>3, <1>4
<1>7. FramesOk(Tail(q))
  BY <1>2, <1>6 DEF FramesOk
<1> QED
  BY <1>1, <1>5, <1>7

LEMMA EmptyLevel == LevelOk(<<>>)
BY EmptyIsASeq DEF LevelOk

LEMMA EnterRight ==
    ASSUME InOrder, NEW kind, NEW s, Held(g, s), ~s.failed, NEW words, Enter(kind, s, words)
    PROVE  Outcome
<1>1. PICK frame : frame = [kind |-> kind, params |-> s.params, locals |-> IF kind = "fun" THEN s.locals ELSE <<>>]
  OBVIOUS
<1>2. PICK t : t = [s EXCEPT !.params = Params(words), !.locals = IF kind = "fun" THEN <<>> ELSE @]
  OBVIOUS
<1>3. calls' = Cons(frame, calls) /\ g' = t
  BY <1>1, <1>2 DEF Enter, Cons
<1>4. Sound(s, calls) /\ s.locals = g.locals /\ Keeps(g, s)
  BY DEF Held
<1>5. /\ SameTable(s, t) /\ t.vars = s.vars /\ t.failed = s.failed
      /\ t.locals = IF kind = "fun" THEN <<>> ELSE s.locals
  BY <1>2, <1>4 DEF Sound, Shaped, Fields, SameTable
<1>6. frame.locals = IF kind = "fun" THEN s.locals ELSE <<>>
  BY <1>1
<1>7. LevelOk(s.locals)
  BY <1>4 DEF InOrder
<1>8. LevelOk(t.locals) /\ LevelOk(frame.locals)
  BY <1>5, <1>6, <1>7, EmptyLevel
<1>9. AnySeq(calls) /\ FramesOk(calls)
  BY DEF InOrder, Sound
<1>10. FramesOk(calls')
  BY <1>3, <1>8, <1>9, PushFrame
<1>11. Right(t)
  <2>1. Keeps(g, t)
    BY <1>4, <1>5, VarsKeep, KeepsTwice
  <2> QED
    BY <2>1, KeepsRight DEF InOrder
<1> QED
  BY <1>3, <1>5, <1>8, <1>10, <1>11 DEF Outcome

LEMMA CallRight ==
    ASSUME InOrder, NEW n \in Names, NEW words, EvalFunWith(n, words) \/ EvalFun(words) \/ DotCmd(words)
    PROVE  Outcome
<1>0. Sound(g, calls)
  BY DEF InOrder
<1>1. Held(g, g) /\ ~g.failed
  BY DEF InOrder, Held, Keeps
<1>2. CASE EvalFun(words)
  BY <1>1, <1>2, EnterRight DEF EvalFun
<1>3. CASE DotCmd(words)
  BY <1>1, <1>3, EnterRight DEF DotCmd
<1>4. CASE EvalFunWith(n, words)
  <2>1. PICK v \in ValuesOf(n) : IF SetVarEq(g, n, v, {}).failed THEN Leaves(SetVarEq(g, n, v, {}))
                                 ELSE Enter("fun", SetVarEq(g, n, v, {}), words)
    BY <1>4 DEF EvalFunWith
  <2>2. PICK asked : asked = {}
    OBVIOUS
  <2>3. PICK s : s = SetVarEq(g, n, v, asked)
    OBVIOUS
  <2>4. n = "PATH" => AnySeq(v) /\ "nofunc" \notin asked
    BY <2>2 DEF ValuesOf, AnySeq
  <2>5. Keeps(g, s)
    BY <1>0, <2>3, <2>4, SetVarEqKeeps
  <2>6. Held(g, s)
    BY <1>0, <2>3, <2>5, SetVarEqIsSound DEF OnlyVar, Held
  <2>7. CASE Leaves(s)
    <3>1. Shaped(s) /\ s.locals = g.locals
      BY <2>6 DEF Held, Sound
    <3> QED
      BY <2>5, <2>7, <3>1, StepsToRight
  <2>8. CASE ~s.failed /\ Enter("fun", s, words)
    BY <2>6, <2>8, EnterRight
  <2>9. IF s.failed THEN Leaves(s) ELSE Enter("fun", s, words)
    BY <2>1, <2>2, <2>3
  <2> QED
    BY <2>7, <2>8, <2>9
<1> QED
  BY <1>2, <1>3, <1>4

LEMMA FunDoneRight ==
    ASSUME InOrder, FunDone
    PROVE  Outcome
<1>1. PICK u : u = PopLocalVars(g)
  OBVIOUS
<1>2. PoppedRight(g, u, Len(g.locals))
  BY <1>1, PopLocalVarsKeep DEF InOrder
<1>3. Sound(u, calls) /\ Keeps(g, u) /\ u.failed = g.failed
  BY <1>2 DEF PoppedRight, Popped
<1>4. PICK t : t = [u EXCEPT !.locals = Head(calls).locals, !.params = Head(calls).params]
  OBVIOUS
<1>5. SameTable(u, t) /\ t.vars = u.vars /\ t.failed = u.failed /\ t.locals = Head(calls).locals
  BY <1>3, <1>4 DEF Sound, Shaped, Fields, SameTable
<1>6. g' = t /\ calls' = Tail(calls) /\ calls # <<>>
  BY <1>1, <1>4 DEF FunDone
<1>7. FramesOk(Tail(calls)) /\ LevelOk(t.locals)
  BY <1>5, <1>6, TailFrames DEF InOrder, Sound
<1>8. Right(t)
  <2>1. Keeps(g, t)
    BY <1>3, <1>5, VarsKeep, KeepsTwice
  <2> QED
    BY <2>1, KeepsRight DEF InOrder
<1> QED
  BY <1>3, <1>5, <1>6, <1>7, <1>8 DEF Outcome, InOrder

LEMMA DotDoneRight ==
    ASSUME InOrder, DotDone
    PROVE  Outcome
<1>1. PICK p : p = Head(calls).params
  OBVIOUS
<1>2. Shaped(g)
  BY DEF InOrder, Sound
<1>3. PICK t : t = g'
  OBVIOUS
<1>4. Beside(g, t) /\ t.failed = g.failed
  <2>1. CASE raising
    BY <1>3, <2>1 DEF DotDone, Beside, SameTable
  <2>2. CASE ~raising
    <3>1. t = [g EXCEPT !.params = p]
      BY <1>1, <1>3, <2>2 DEF DotDone
    <3> QED
      BY <1>2, <3>1, BesideSteps
  <2> QED
    BY <2>1, <2>2
<1>5. calls # <<>> /\ calls' = Tail(calls)
  BY DEF DotDone
<1>6. FramesOk(Tail(calls))
  BY <1>5, TailFrames DEF InOrder, Sound
<1>7. Right(t)
  BY <1>4, BesideKeeps, KeepsRight DEF InOrder
<1> QED
  BY <1>3, <1>4, <1>5, <1>6, <1>7 DEF Outcome, Beside, InOrder

-----------------------------------------------------------------------------
(***************************************************************************)
(* The invariant and the theorem.                                          *)
(***************************************************************************)
\* No script makes the names of the directories local: the end of the function
\* would give back, and make writable again, what made a cd fail half-way.
DirsNotLocal == \A u \in DOMAIN Groups : "local" \in Groups[u] => Uses[u] \cap {"PWD", "OLDPWD"} = {}

LInv == InOrder /\ group \in DOMAIN Groups

LEMMA InitLInv == Init => LInv
<1> SUFFICES ASSUME Init
             PROVE  LInv
  OBVIOUS
<1>1. Sound(g, calls) /\ group \in DOMAIN Groups
  BY InitInv DEF Inv
<1>2. calls = <<>>
  BY DEF Init
<1>3. PICK path : path = CHOOSE p \in Paths : TRUE
  OBVIOUS
<1>4. path \in Paths
  BY <1>3
<1>5. PICK text : text = [val |-> path, block |-> NoBlock]
  OBVIOUS
<1>6. PICK first : first = [there |-> TRUE, flags |-> {"strfixed", "textfixed"}, text |-> text]
  OBVIOUS
<1>7. first.there /\ first.flags = {"strfixed", "textfixed"} /\ first.text.val = path
  BY <1>5, <1>6, NewVariable
<1>8. PICK table : table = [n \in Names |->
          IF n = "PATH" THEN first
          ELSE IF n = "OPTIND" THEN [there |-> TRUE, flags |-> {"strfixed", "textfixed"},
                                     text |-> [val |-> Number(1), block |-> NoBlock]]
          ELSE NoVar]
  OBVIOUS
<1>9. PICK no : no = FALSE
  OBVIOUS
<1>10. PICK cmds : cmds = [c \in Commands |-> NoEntry]
  OBVIOUS
<1>11. PICK params : params = Params(<<>>)
  OBVIOUS
<1>12. g = [vars |-> table, heap |-> {}, locals |-> <<>>, aflag |-> no, failed |-> no, optfail |-> no,
            params |-> params, cmds |-> cmds, builtinloc |-> -1, cwd |-> "/a", curdir |-> "/a"]
  BY <1>3, <1>5, <1>6, <1>8, <1>9, <1>10, <1>11, Zenon DEF Init
<1>13. g.vars = table /\ g.cmds = cmds /\ g.builtinloc = -1 /\ g.locals = <<>> /\ g.failed = no
  BY <1>12
<1>14. g.vars["PATH"] = first
  <2>1. "PATH" \in Names
    OBVIOUS
  <2> QED
    BY <1>8, <1>13, <2>1
<1>15. AnySeq(path) /\ \A i \in 1..Len(path) : path[i] # "%builtin"
  BY <1>3, <1>4, DefaultPathAssumption DEF AnySeq
<1>16. BuiltinIndex(path) = -1
  <2>1. \A i \in 1..Len(path) : ~IsBuiltinDir(path[i])
    BY <1>15 DEF IsBuiltinDir
  <2>2. {i \in 1..Len(path) : IsBuiltinDir(path[i])} = {}
    BY <2>1
  <2> QED
    BY <2>2 DEF BuiltinIndex
<1>17. PathOk(g)
  <2>1. g.cmds = [c \in Commands |-> g.cmds[c]]
    BY <1>10, <1>13
  <2>2. PathVal(g) = path
    BY <1>7, <1>14 DEF PathVal
  <2> QED
    BY <1>7, <1>13, <1>14, <1>15, <1>16, <2>1, <2>2 DEF PathOk
<1>18. TableOk(g)
  <2>1. PICK none : none = NoEntry
    OBVIOUS
  <2>2. \A c \in Commands : g.cmds[c] = none
    BY <1>10, <1>13, <2>1
  <2>3. \A c \in Commands : EntryOk(g, c, none)
    BY <2>1, NoEntryFields DEF EntryOk
  <2> QED
    BY <2>2, <2>3 DEF TableOk
<1>19. LevelOk(g.locals)
  BY <1>13, EmptyLevel
<1>20. FramesOk(calls)
  BY <1>2, EmptyIsASeq DEF FramesOk
<1> QED
  BY <1>1, <1>9, <1>13, <1>17, <1>18, <1>19, <1>20 DEF LInv, InOrder, Right

LEMMA NextRight ==
    ASSUME DirsNotLocal, LInv, Next
    PROVE  Outcome
<1>0. InOrder /\ group \in DOMAIN Groups /\ Uses[group] \subseteq Names
  BY DEF LInv
<1>1. ASSUME NEW n \in Uses[group],
             \/ Assign(n) \/ AssignForBuiltin(n) \/ LocalCmd(n)
             \/ \E w \in ArgLists[group] : EvalFunWith(n, w)
      PROVE  Outcome
  <2>1. n \in Names
    BY <1>0
  <2>2. CASE Assign(n) \/ AssignForBuiltin(n)
    BY <1>0, <2>1, <2>2, VariableRight
  <2>3. CASE LocalCmd(n)
    <3>1. "local" \in Groups[group]
      BY <2>3 DEF LocalCmd, Executes
    <3>2. n \notin {"PWD", "OLDPWD"}
      BY <1>0, <3>1 DEF DirsNotLocal
    <3> QED
      BY <1>0, <2>1, <2>3, <3>2, VariableRight
  <2>4. CASE \E w \in ArgLists[group] : EvalFunWith(n, w)
    BY <1>0, <2>1, <2>4, CallRight
  <2> QED
    BY <1>1, <2>2, <2>3, <2>4
<1>2. ASSUME NEW n \in Uses[group] \cap Ordinary, ExportCmd(n, "export") \/ ExportCmd(n, "readonly") \/ UnsetCmd(n)
      PROVE  Outcome
  <2>1. n \in Ordinary /\ n \in Names /\ n # "PATH"
    BY DEF Ordinary
  <2>2. CASE UnsetCmd(n)
    BY <1>0, <2>1, <2>2, VariableRight
  <2>3. CASE ExportCmd(n, "export") \/ ExportCmd(n, "readonly")
    BY <1>0, <2>1, <2>3, ExportRight
  <2> QED
    BY <1>2, <2>2, <2>3
<1>3. ASSUME NEW n \in OptVars, GetoptsCommand(n)
      PROVE  Outcome
  <2>1. n \in Names
    OBVIOUS
  <2> QED
    BY <1>0, <1>3, <2>1, VariableRight
<1>4. ASSUME NEW w, EvalFun(w) \/ DotCmd(w)
      PROVE  Outcome
  <2>1. "PATH" \in Names
    OBVIOUS
  <2> QED
    BY <1>0, <1>4, <2>1, CallRight
<1>5. ASSUME HashForget \/ AllExport \/ ShiftCmd \/ \E w : SetParam(w)
      PROVE  Outcome
  BY <1>0, <1>5, ParamsRight
<1>6. ASSUME FunDone \/ DotDone
      PROVE  Outcome
  BY <1>0, <1>6, FunDoneRight, DotDoneRight
<1>7. ASSUME NEW c \in Commands,
             \/ Run(c, TRUE) \/ Run(c, FALSE) \/ TypeCmd(c) \/ HashCmd(c)
             \/ DefFun(c) \/ UnsetFunc(c) \/ \E p \in Paths : RunWithPath(c, p)
      PROVE  Outcome
  <2>1. CASE Run(c, TRUE) \/ Run(c, FALSE)
    BY <1>0, <2>1, TableRight
  <2>2. CASE TypeCmd(c) \/ HashCmd(c) \/ DefFun(c) \/ UnsetFunc(c) \/ \E p \in Paths : RunWithPath(c, p)
    BY <1>0, <2>2, TableRight
  <2> QED
    BY <1>7, <2>1, <2>2
<1>8. ASSUME NEW d, CdCmd(d)
      PROVE  Outcome
  BY <1>0, <1>8, CdRight DEF InOrder
<1> QED
  BY <1>1, <1>2, <1>3, <1>4, <1>5, <1>6, <1>7, <1>8, Zenon DEF Next

LEMMA NextLInv == DirsNotLocal /\ LInv /\ [Next]_vars => LInv'
<1> SUFFICES ASSUME DirsNotLocal, LInv, [Next]_vars
             PROVE  LInv'
  OBVIOUS
<1>1. CASE Next
  <2>1. Outcome
    BY <1>1, NextRight
  <2>2. Inv
    BY DEF LInv, InOrder, Inv
  <2>3. Sound(g', calls') /\ group' \in DOMAIN Groups
    BY <2>2, NextInv DEF Inv
  <2>4. Right(g') /\ LevelOk(g'.locals) /\ FramesOk(calls') /\ ~g'.failed
    BY <2>1 DEF Outcome
  <2> QED
    BY <2>3, <2>4 DEF LInv, InOrder
<1>2. CASE UNCHANGED vars
  BY <1>2 DEF vars, LInv, InOrder
<1> QED
  BY <1>1, <1>2

(* What the table says of a command is what a search of the path would     *)
(* find, unless the user made the name of a directory readonly.            *)
THEOREM LookupsStayFresh ==
    ASSUME DirsNotLocal
    PROVE  Spec => []LookupsAreFresh
<1>1. LInv => LookupsAreFresh
  BY LookupsFresh DEF LInv, InOrder, Sound, Right
<1>2. LInv /\ [Next]_vars => LInv'
  BY NextLInv
<1> QED
  BY InitLInv, <1>1, <1>2, PTL DEF Spec
=============================================================================
