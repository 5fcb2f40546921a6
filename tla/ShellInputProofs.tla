-------------------------- MODULE ShellInputProofs --------------------------
(***************************************************************************)
(* Proof that the input of the shell's parser delivers every character     *)
(* once and in order, for files and strings of any length.                 *)
(***************************************************************************)
EXTENDS ShellInput, SequenceTheorems, WellFoundedInduction, TLAPS

USE InputAssumption

-----------------------------------------------------------------------------
(***************************************************************************)
(* Induction over an interval, stated with sets.                           *)
(***************************************************************************)
LEMMA LeastElement ==
    ASSUME NEW T \in SUBSET Nat, T # {}
    PROVE  \E m \in T : \A n \in T : m <= n
<1>1. PICK m \in T : \A n \in T : <<n, m>> \notin OpToRel(<, Nat)
  BY NatLessThanWellFounded, WFMin
<1>2. \A n \in T : ~(n < m)
  BY <1>1 DEF OpToRel
<1> QED
  BY <1>2

LEMMA IntervalInduction ==
    ASSUME NEW n \in Nat, NEW T, 0 \in T, \A i \in 0..(n - 1) : i \in T => i + 1 \in T
    PROVE  0..n \subseteq T
<1> SUFFICES ASSUME ~(0..n \subseteq T)
             PROVE  FALSE
  OBVIOUS
<1> DEFINE U == (0..n) \ T
<1>1. U \in SUBSET Nat /\ U # {}
  OBVIOUS
<1>2. PICK m \in U : \A i \in U : m <= i
  <2> HIDE DEF U
  <2> QED
    BY <1>1, LeastElement
<1>3. m # 0 /\ m - 1 \in 0..(n - 1) /\ m - 1 \notin U
  BY <1>2
<1>4. m - 1 \in T
  BY <1>3
<1>5. (m - 1) + 1 \in T
  BY <1>3, <1>4
<1> QED
  BY <1>2, <1>5

Iterates(f, k, start, next) ==
    f = [i \in 0..k |-> IF i = 0 THEN start ELSE next[<<i, f[i - 1]>>]]

(* A function can be defined by its first value and the next ones.         *)
LEMMA Iteration ==
    ASSUME NEW n \in Nat, NEW S, NEW start \in S, NEW next \in [(1..n) \X S -> S]
    PROVE  \E f \in [0..n -> S] : Iterates(f, n, start, next)
<1> DEFINE Upto(k, f) == Iterates(f, k, start, next)
           T == {k \in 0..n : \E f \in [0..k -> S] : Upto(k, f)}
<1>1. 0 \in T
  <2> DEFINE f == [i \in 0..0 |-> start]
  <2>1. f \in [0..0 -> S]
    OBVIOUS
  <2>2. \A i \in 0..0 : f[i] = IF i = 0 THEN start ELSE next[<<i, f[i - 1]>>]
    OBVIOUS
  <2>3. Upto(0, f)
    BY <2>1, <2>2 DEF Iterates
  <2> HIDE DEF f, Upto
  <2> QED
    BY <2>1, <2>3
<1>2. ASSUME NEW k \in 0..(n - 1), k \in T
      PROVE  k + 1 \in T
  <2>1. PICK f \in [0..k -> S] : Upto(k, f)
    BY <1>2
  <2> DEFINE g == [i \in 0..(k + 1) |-> IF i <= k THEN f[i] ELSE next[<<k + 1, f[k]>>]]
  <2>2. next[<<k + 1, f[k]>>] \in S
    OBVIOUS
  <2>3. g \in [0..(k + 1) -> S]
    BY <2>2
  <2>4. \A i \in 0..(k + 1) : g[i] = IF i = 0 THEN start ELSE next[<<i, g[i - 1]>>]
    <3> TAKE i \in 0..(k + 1)
    <3>1. CASE i <= k
      BY <2>1, <3>1 DEF Iterates
    <3>2. CASE i = k + 1
      <4>1. i # 0 /\ i - 1 = k /\ k \in 0..k
        BY <3>2
      <4>2. g[i] = next[<<k + 1, f[k]>>] /\ g[k] = f[k]
        BY <3>2, <4>1
      <4> HIDE DEF g
      <4> QED
        BY <3>2, <4>1, <4>2
    <3> QED
      BY <3>1, <3>2
  <2>5. Upto(k + 1, g)
    BY <2>3, <2>4 DEF Iterates
  <2> HIDE DEF g, Upto
  <2> QED
    BY <2>3, <2>5
<1> HIDE DEF T
<1>3. 0..n \subseteq T
  BY <1>1, <1>2, IntervalInduction
<1>4. n \in T
  BY <1>3
<1> QED
  BY <1>4 DEF T

-----------------------------------------------------------------------------
(***************************************************************************)
(* Texts without their NULs.                                               *)
(***************************************************************************)
Texts == Seq(InputChars)

Kept(f, text) ==
    /\ f \in [0..Len(text) -> Texts] /\ f[0] = <<>>
    /\ \A i \in 1..Len(text) : f[i] = IF text[i] = "nul" THEN f[i - 1] ELSE Append(f[i - 1], text[i])

LEMMA VisibleIs ==
    ASSUME NEW text \in Texts
    PROVE  \E f : Kept(f, text) /\ Visible(text) = f[Len(text)]
<1> DEFINE n == Len(text)
           next == [p \in (1..n) \X Texts |-> IF text[p[1]] = "nul" THEN p[2] ELSE Append(p[2], text[p[1]])]
           Is(f) == f = [i \in 0..n |-> IF i = 0 THEN <<>>
                                       ELSE IF text[i] = "nul" THEN f[i - 1] ELSE Append(f[i - 1], text[i])]
           kept == CHOOSE f : Is(f)
<1>1. n \in Nat /\ <<>> \in Texts
  BY DEF Texts
<1>2. \A i \in 1..n : text[i] \in InputChars
  BY DEF Texts
<1>3. \A i \in 1..n, s \in Texts : Append(s, text[i]) \in Texts
  BY <1>2 DEF Texts
<1>4. next \in [(1..n) \X Texts -> Texts]
  BY <1>3
<1>5. \A i \in 1..n, s \in Texts :
          next[<<i, s>>] = IF text[i] = "nul" THEN s ELSE Append(s, text[i])
  OBVIOUS
<1>6. Visible(text) = kept[n]
  BY DEF Visible
<1> HIDE DEF next, n
<1>7. PICK f \in [0..n -> Texts] : Iterates(f, n, <<>>, next)
  BY <1>1, <1>4, Iteration
<1>8. Is(f)
  <2>1. \A i \in 0..n : i # 0 => f[i - 1] \in Texts /\ i \in 1..n
    BY <1>1
  <2>2. \A i \in 0..n : f[i] = IF i = 0 THEN <<>>
                              ELSE IF text[i] = "nul" THEN f[i - 1] ELSE Append(f[i - 1], text[i])
    BY <1>5, <1>7, <2>1 DEF Iterates
  <2> QED
    BY <2>2
<1>9. Is(kept)
  BY <1>8
<1> HIDE DEF kept
<1>10. \A i \in 0..n : kept[i] = f[i]
  <2> DEFINE T == {i \in 0..n : kept[i] = f[i]}
  <2>1. 0 \in T
    BY <1>1, <1>8, <1>9
  <2>2. ASSUME NEW i \in 0..(n - 1), i \in T
        PROVE  i + 1 \in T
    <3>1. i + 1 \in 0..n /\ i + 1 # 0 /\ (i + 1) - 1 = i
      BY <1>1
    <3>2. f[i + 1] = IF text[i + 1] = "nul" THEN f[i] ELSE Append(f[i], text[i + 1])
      BY <1>8, <3>1
    <3>3. kept[i + 1] = IF text[i + 1] = "nul" THEN kept[i] ELSE Append(kept[i], text[i + 1])
      BY <1>9, <3>1
    <3>4. kept[i] = f[i]
      BY <2>2
    <3> QED
      BY <3>1, <3>2, <3>3, <3>4
  <2> HIDE DEF T
  <2>3. 0..n \subseteq T
    BY <1>1, <2>1, <2>2, IntervalInduction
  <2> QED
    BY <2>3 DEF T
<1>11. f[0] = <<>>
  BY <1>1, <1>8
<1>12. \A i \in 1..n : f[i] = IF text[i] = "nul" THEN f[i - 1] ELSE Append(f[i - 1], text[i])
  <2>1. \A i \in 1..n : i \in 0..n /\ i # 0
    BY <1>1
  <2> QED
    BY <1>8, <2>1
<1>13. kept[n] = f[n]
  BY <1>1, <1>10
<1> QED
  BY <1>6, <1>7, <1>11, <1>12, <1>13 DEF Kept, n

LEMMA Associative ==
    ASSUME NEW a \in Texts, NEW b \in Texts, NEW c \in Texts
    PROVE  (a \o b) \o c = a \o (b \o c)
BY ConcatAssociative DEF Texts

LEMMA AppendConcat ==
    ASSUME NEW a \in Texts, NEW b \in Texts, NEW c \in InputChars
    PROVE  Append(a \o b, c) = a \o Append(b, c)
<1>1. <<c>> \in Texts /\ a \o b \in Texts
  BY ConcatProperties DEF Texts
<1>2. Append(b, c) = b \o <<c>> /\ Append(a \o b, c) = (a \o b) \o <<c>>
  BY <1>1, AppendIsConcat DEF Texts
<1> QED
  BY <1>1, <1>2, ConcatAssociative DEF Texts

LEMMA VisibleType ==
    ASSUME NEW text \in Texts
    PROVE  Visible(text) \in Texts
<1>1. PICK f : Kept(f, text) /\ Visible(text) = f[Len(text)]
  BY VisibleIs
<1>2. Len(text) \in Nat
  BY DEF Texts
<1> QED
  BY <1>1, <1>2 DEF Kept

LEMMA VisibleConcat ==
    ASSUME NEW a \in Texts, NEW b \in Texts
    PROVE  a \o b \in Texts /\ Visible(a \o b) = Visible(a) \o Visible(b)
<1> DEFINE m == Len(a)
           n == Len(b)
<1>1. m \in Nat /\ n \in Nat
  BY DEF Texts
<1>2. /\ a \o b \in Texts /\ Len(a \o b) = m + n
      /\ \A i \in 1..(m + n) : (a \o b)[i] = IF i <= m THEN a[i] ELSE b[i - m]
  BY ConcatProperties DEF Texts
<1>3. PICK f : Kept(f, a) /\ Visible(a) = f[m]
  BY VisibleIs
<1>4. PICK g : Kept(g, b) /\ Visible(b) = g[n]
  BY VisibleIs
<1>5. PICK c : c = a \o b
  OBVIOUS
<1>6. PICK h : Kept(h, c) /\ Visible(c) = h[m + n]
  BY <1>2, <1>5, VisibleIs
<1> HIDE DEF m, n
<1>7. \A i \in 0..m : h[i] = f[i]
  <2> DEFINE T == {i \in 0..m : h[i] = f[i]}
  <2>1. 0 \in T
    BY <1>1, <1>3, <1>6 DEF Kept
  <2>2. ASSUME NEW i \in 0..(m - 1), i \in T
        PROVE  i + 1 \in T
    <3>1. i + 1 \in 0..m /\ i + 1 \in 1..m /\ i + 1 \in 1..(m + n) /\ (i + 1) - 1 = i
      BY <1>1
    <3>2. f[i + 1] = IF a[i + 1] = "nul" THEN f[i] ELSE Append(f[i], a[i + 1])
      BY <1>3, <3>1 DEF Kept, m
    <3>3. h[i + 1] = IF c[i + 1] = "nul" THEN h[i] ELSE Append(h[i], c[i + 1])
      BY <1>2, <1>5, <1>6, <3>1 DEF Kept
    <3>4. c[i + 1] = a[i + 1]
      BY <1>2, <1>5, <3>1
    <3>5. h[i] = f[i]
      BY <2>2
    <3> QED
      BY <3>1, <3>2, <3>3, <3>4, <3>5
  <2> HIDE DEF T
  <2>3. 0..m \subseteq T
    BY <1>1, <2>1, <2>2, IntervalInduction
  <2> QED
    BY <2>3 DEF T
<1>8. f[m] \in Texts
  BY <1>1, <1>3 DEF Kept, m
<1>9. \A i \in 0..n : g[i] \in Texts
  BY <1>4 DEF Kept, n
<1>10. \A i \in 0..n : h[m + i] = f[m] \o g[i]
  <2> DEFINE T == {i \in 0..n : h[m + i] = f[m] \o g[i]}
  <2>1. 0 \in T
    <3>1. h[m] = f[m] /\ m + 0 = m
      BY <1>1, <1>7
    <3>2. g[0] = <<>>
      BY <1>4 DEF Kept
    <3>3. f[m] \o <<>> = f[m]
      BY <1>8, ConcatEmptySeq DEF Texts
    <3>4. h[m + 0] = f[m] \o g[0]
      BY <3>1, <3>2, <3>3
    <3>5. 0 \in 0..n
      BY <1>1
    <3> QED
      BY <3>4, <3>5
  <2>2. ASSUME NEW i \in 0..(n - 1), i \in T
        PROVE  i + 1 \in T
    <3>1. /\ i + 1 \in 0..n /\ i + 1 \in 1..n /\ m + (i + 1) \in 1..(m + n) /\ (i + 1) - 1 = i
          /\ (m + (i + 1)) - 1 = m + i /\ ~(m + (i + 1) <= m) /\ (m + (i + 1)) - m = i + 1 /\ i \in 0..n
      BY <1>1
    <3>2. g[i + 1] = IF b[i + 1] = "nul" THEN g[i] ELSE Append(g[i], b[i + 1])
      BY <1>4, <3>1 DEF Kept, n
    <3>3. h[m + (i + 1)] = IF c[m + (i + 1)] = "nul" THEN h[m + i] ELSE Append(h[m + i], c[m + (i + 1)])
      BY <1>2, <1>5, <1>6, <3>1 DEF Kept
    <3>4. c[m + (i + 1)] = b[i + 1]
      BY <1>2, <1>5, <3>1
    <3>5. h[m + i] = f[m] \o g[i]
      BY <2>2
    <3>6. b[i + 1] \in InputChars
      BY <3>1 DEF Texts, n
    <3>7. Append(f[m] \o g[i], b[i + 1]) = f[m] \o Append(g[i], b[i + 1])
      BY <1>8, <1>9, <3>1, <3>6, AppendConcat
    <3> QED
      BY <3>1, <3>2, <3>3, <3>4, <3>5, <3>7
  <2> HIDE DEF T
  <2>3. 0..n \subseteq T
    BY <1>1, <2>1, <2>2, IntervalInduction
  <2> QED
    BY <2>3 DEF T
<1>11. h[m + n] = f[m] \o g[n]
  <2>1. n \in 0..n
    BY <1>1
  <2> QED
    BY <1>10, <2>1, Zenon
<1>12. Visible(c) = Visible(a) \o Visible(b)
  BY <1>3, <1>4, <1>6, <1>11
<1>13. c \in Texts
  BY <1>2, <1>5
<1> QED
  BY <1>5, <1>12, <1>13

LEMMA VisibleNuls ==
    ASSUME NEW text \in Texts, \A i \in 1..Len(text) : text[i] = "nul"
    PROVE  Visible(text) = <<>>
<1> DEFINE n == Len(text)
<1>1. n \in Nat
  BY DEF Texts
<1>2. PICK f : Kept(f, text) /\ Visible(text) = f[n]
  BY VisibleIs
<1>3. \A i \in 1..n : text[i] = "nul"
  OBVIOUS
<1> HIDE DEF n
<1> DEFINE T == {i \in 0..n : f[i] = <<>>}
<1>4. 0 \in T
  BY <1>1, <1>2 DEF Kept
<1>5. ASSUME NEW i \in 0..(n - 1), i \in T
      PROVE  i + 1 \in T
  <2>1. i + 1 \in 0..n /\ i + 1 \in 1..n /\ (i + 1) - 1 = i
    BY <1>1
  <2>2. f[i + 1] = f[i]
    BY <1>2, <1>3, <2>1 DEF Kept, n
  <2> QED
    BY <1>5, <2>1, <2>2
<1> HIDE DEF T
<1>6. 0..n \subseteq T
  BY <1>1, <1>4, <1>5, IntervalInduction
<1>7. n \in 0..n
  BY <1>1
<1>8. n \in T
  BY <1>6, <1>7
<1> QED
  BY <1>2, <1>8 DEF T

LEMMA VisibleSome ==
    ASSUME NEW text \in Texts, NEW k \in 1..Len(text), text[k] # "nul"
    PROVE  Visible(text) # <<>>
<1> DEFINE n == Len(text)
<1>1. n \in Nat /\ k \in 1..n
  BY DEF Texts
<1>2. PICK f : Kept(f, text) /\ Visible(text) = f[n]
  BY VisibleIs
<1>3. text[k] # "nul"
  OBVIOUS
<1>4. \A i \in 0..n : f[i] \in Texts
  BY <1>2 DEF Kept
<1>5. \A i \in 1..n : text[i] \in InputChars
  BY DEF Texts
<1>6. \A i \in 1..n : Append(f[i - 1], text[i]) # <<>>
  <2> SUFFICES ASSUME NEW i \in 1..n
               PROVE  Append(f[i - 1], text[i]) # <<>>
    OBVIOUS
  <2>1. i - 1 \in 0..n
    BY <1>1
  <2> QED
    BY <1>4, <1>5, <2>1, AppendProperties DEF Texts
<1>7. \A i \in 1..n : f[i] = IF text[i] = "nul" THEN f[i - 1] ELSE Append(f[i - 1], text[i])
  BY <1>2 DEF Kept
<1> HIDE DEF n
<1> DEFINE T == {i \in 0..(n - k) : f[k + i] # <<>>}
<1>8. 0 \in T
  <2>1. f[k] # <<>>
    BY <1>1, <1>3, <1>6, <1>7
  <2>2. k + 0 = k /\ 0 \in 0..(n - k)
    BY <1>1
  <2> QED
    BY <2>1, <2>2
<1>9. ASSUME NEW i \in 0..((n - k) - 1), i \in T
      PROVE  i + 1 \in T
  <2>1. i + 1 \in 0..(n - k) /\ k + (i + 1) \in 1..n /\ (k + (i + 1)) - 1 = k + i
    BY <1>1
  <2>2. f[k + i] # <<>>
    BY <1>9
  <2>3. f[k + (i + 1)] # <<>>
    BY <1>6, <1>7, <2>1, <2>2
  <2> QED
    BY <2>1, <2>3
<1> HIDE DEF T
<1>10. n - k \in Nat /\ n - k \in 0..(n - k) /\ k + (n - k) = n
  BY <1>1
<1>11. 0..(n - k) \subseteq T
  BY <1>8, <1>9, <1>10, IntervalInduction
<1>12. n - k \in T
  BY <1>10, <1>11
<1> QED
  BY <1>2, <1>10, <1>12 DEF T

LEMMA VisibleEmpty == <<>> \in Texts /\ Visible(<<>>) = <<>>
<1>1. <<>> \in Texts /\ Len(<<>>) = 0
  BY DEF Texts
<1>2. \A i \in 1..Len(<<>>) : <<>>[i] = "nul"
  BY <1>1
<1> QED
  BY <1>1, <1>2, VisibleNuls

-----------------------------------------------------------------------------
(***************************************************************************)
(* Texts one after the other.                                              *)
(***************************************************************************)
Joins(f, q) ==
    /\ \A i \in 1..Len(q) : f[i] \in Texts
    /\ f[1] = q[1]
    /\ \A i \in 2..Len(q) : f[i] = f[i - 1] \o q[i]

LEMMA FlatIs ==
    ASSUME NEW q \in Seq(Texts)
    PROVE  /\ q = <<>> => FlattenSeq(q) = <<>>
           /\ q # <<>> => \E f : Joins(f, q) /\ FlattenSeq(q) = f[Len(q)]
<1> DEFINE n == Len(q)
           next == [p \in (1..n) \X Texts |-> p[2] \o q[p[1]]]
           Is(f) == f = [i \in 1..n |-> IF i = 1 THEN q[i] ELSE f[i - 1] \o q[i]]
           flatten == CHOOSE f : Is(f)
<1>1. n \in Nat /\ <<>> \in Texts /\ (q = <<>> <=> n = 0)
  BY VisibleEmpty
<1>2. \A i \in 1..n : q[i] \in Texts
  OBVIOUS
<1>3. \A i \in 1..n, s \in Texts : s \o q[i] \in Texts
  BY <1>2, VisibleConcat
<1>4. next \in [(1..n) \X Texts -> Texts]
  BY <1>3
<1>5. \A i \in 1..n, s \in Texts : next[<<i, s>>] = s \o q[i]
  OBVIOUS
<1>6. FlattenSeq(q) = IF n = 0 THEN q ELSE flatten[n]
  BY DEF FlattenSeq
<1>7. q = <<>> => FlattenSeq(q) = <<>>
  BY <1>1, <1>6
<1>8. ASSUME q # <<>>
      PROVE  \E f : Joins(f, q) /\ FlattenSeq(q) = f[n]
  <2> HIDE DEF next, n
  <2>1. PICK h \in [0..n -> Texts] : Iterates(h, n, <<>>, next)
    BY <1>1, <1>4, Iteration
  <2> DEFINE f == [i \in 1..n |-> h[i]]
  <2>2. \A i \in 1..n : h[i] = h[i - 1] \o q[i] /\ h[i] \in Texts
    <3>1. \A i \in 1..n : i \in 0..n /\ i - 1 \in 0..n /\ i # 0
      BY <1>1
    <3> QED
      BY <1>5, <2>1, <3>1 DEF Iterates
  <2>3. n >= 1 /\ 1 \in 1..n
    BY <1>1, <1>8
  <2>4. h[1] = q[1]
    <3>1. h[0] = <<>>
      BY <1>1, <2>1 DEF Iterates
    <3>2. h[1 - 1] = <<>>
      BY <3>1
    <3>3. h[1] = <<>> \o q[1]
      BY <2>2, <2>3, <3>2, Zenon
    <3> QED
      BY <1>2, <2>3, <3>3, ConcatEmptySeq DEF Texts
  <2>5. Is(f)
    <3>1. \A i \in 1..n : i # 1 => i - 1 \in 1..n
      BY <1>1
    <3>2. \A i \in 1..n : f[i] = IF i = 1 THEN q[i] ELSE f[i - 1] \o q[i]
      BY <2>2, <2>4, <3>1
    <3> QED
      BY <3>2
  <2> HIDE DEF f
  <2>6. Is(flatten)
    BY <2>5
  <2> HIDE DEF flatten
  <2>7. flatten[1] = q[1] /\ \A i \in 1..n : i # 1 => flatten[i] = flatten[i - 1] \o q[i]
    BY <2>3, <2>6
  <2>8. 0..n \subseteq {i \in 0..n : i # 0 => flatten[i] = h[i]}
    <3> DEFINE T == {i \in 0..n : i # 0 => flatten[i] = h[i]}
    <3>1. 0 \in T
      BY <1>1
    <3>2. ASSUME NEW i \in 0..(n - 1), i \in T
          PROVE  i + 1 \in T
      <4>1. i + 1 \in 0..n /\ i + 1 \in 1..n /\ (i + 1) - 1 = i
        BY <1>1
      <4>2. CASE i = 0
        BY <2>4, <2>7, <4>1, <4>2
      <4>3. CASE i # 0
        <5>1. flatten[i] = h[i]
          BY <3>2, <4>3
        <5>2. flatten[i + 1] = flatten[i] \o q[i + 1]
          <6>1. i + 1 # 1
            BY <4>3
          <6> QED
            BY <2>7, <4>1, <6>1, Zenon
        <5>3. h[i + 1] = h[i] \o q[i + 1]
          BY <2>2, <4>1
        <5> QED
          BY <4>1, <5>1, <5>2, <5>3
      <4> QED
        BY <4>2, <4>3
    <3> HIDE DEF T
    <3>3. 0..n \subseteq T
      BY <1>1, <3>1, <3>2, IntervalInduction
    <3> QED
      BY <3>3 DEF T
  <2>9. n \in 0..n /\ n # 0
    BY <1>1, <2>3
  <2>10. FlattenSeq(q) = h[n]
    BY <1>6, <2>8, <2>9
  <2>11. \A i \in 2..n : h[i] = h[i - 1] \o q[i]
    BY <1>1, <2>2
  <2>12. Joins(h, q)
    BY <2>2, <2>4, <2>11 DEF Joins, n
  <2> QED
    BY <2>10, <2>12
<1> QED
  BY <1>7, <1>8

LEMMA FlatType ==
    ASSUME NEW q \in Seq(Texts)
    PROVE  FlattenSeq(q) \in Texts
<1>1. CASE q = <<>>
  BY <1>1, FlatIs, VisibleEmpty
<1>2. CASE q # <<>>
  <2>1. PICK f : Joins(f, q) /\ FlattenSeq(q) = f[Len(q)]
    BY <1>2, FlatIs
  <2>2. Len(q) \in 1..Len(q)
    BY <1>2
  <2> QED
    BY <2>1, <2>2 DEF Joins
<1> QED
  BY <1>1, <1>2

LEMMA FlatCons ==
    ASSUME NEW q \in Seq(Texts), NEW x \in Texts
    PROVE  <<x>> \o q \in Seq(Texts) /\ FlattenSeq(<<x>> \o q) = x \o FlattenSeq(q)
<1> DEFINE n == Len(q)
<1>1. n \in Nat /\ \A i \in 1..n : q[i] \in Texts
  OBVIOUS
<1>2. PICK c : c = <<x>> \o q
  OBVIOUS
<1>3. c \in Seq(Texts) /\ Len(c) = n + 1 /\ c[1] = x /\ \A i \in 2..(n + 1) : c[i] = q[i - 1]
  <2>1. <<x>> \in Seq(Texts) /\ Len(<<x>>) = 1 /\ <<x>>[1] = x
    OBVIOUS
  <2>2. /\ c \in Seq(Texts) /\ Len(c) = 1 + n
        /\ \A i \in 1..(1 + n) : c[i] = IF i <= 1 THEN <<x>>[i] ELSE q[i - 1]
    BY <1>2, <2>1, ConcatProperties
  <2> QED
    BY <1>1, <2>1, <2>2
<1>4. c # <<>>
  BY <1>1, <1>3
<1>5. PICK g : Joins(g, c) /\ FlattenSeq(c) = g[n + 1]
  BY <1>3, <1>4, FlatIs
<1>6. CASE q = <<>>
  <2>1. n = 0 /\ FlattenSeq(q) = <<>>
    BY <1>6, FlatIs
  <2>2. FlattenSeq(c) = x
    BY <1>3, <1>5, <2>1 DEF Joins
  <2> QED
    BY <1>2, <1>3, <2>1, <2>2, ConcatEmptySeq DEF Texts
<1>7. CASE q # <<>>
  <2>1. PICK f : Joins(f, q) /\ FlattenSeq(q) = f[n]
    BY <1>7, FlatIs
  <2>2. n >= 1
    BY <1>1, <1>7
  <2>3. \A i \in 1..n : f[i] \in Texts
    BY <2>1 DEF Joins
  <2>4. /\ f[1] = q[1] /\ \A i \in 2..n : f[i] = f[i - 1] \o q[i]
        /\ g[1] = x /\ \A i \in 2..(n + 1) : g[i] = g[i - 1] \o q[i - 1]
    BY <1>3, <1>5, <2>1 DEF Joins
  <2> HIDE DEF n
  <2> DEFINE T == {i \in 0..(n - 1) : g[i + 2] = x \o f[i + 1]}
  <2>5. 0 \in T
    <3>1. g[2] = g[1] \o q[1]
      <4>1. 2 \in 2..(n + 1) /\ 2 - 1 = 1
        BY <1>1, <2>2
      <4> QED
        BY <2>4, <4>1, Zenon
    <3>2. g[2] = x \o f[1] /\ 0 + 2 = 2 /\ 0 + 1 = 1 /\ 0 \in 0..(n - 1)
      BY <1>1, <2>2, <2>4, <3>1
    <3> QED
      BY <3>2
  <2>6. ASSUME NEW i \in 0..((n - 1) - 1), i \in T
        PROVE  i + 1 \in T
    <3>1. /\ i + 1 \in 0..(n - 1) /\ i + 1 \in 1..n /\ i + 2 \in 2..n /\ i + 2 \in 1..n /\ (i + 1) + 1 = i + 2
          /\ (i + 1) + 2 \in 2..(n + 1) /\ ((i + 1) + 2) - 1 = i + 2 /\ (i + 2) - 1 = i + 1
      BY <1>1
    <3>2. g[(i + 1) + 2] = g[i + 2] \o q[i + 2]
      BY <2>4, <3>1
    <3>3. f[i + 2] = f[i + 1] \o q[i + 2]
      BY <2>4, <3>1
    <3>4. g[i + 2] = x \o f[i + 1]
      BY <2>6
    <3>5. (x \o f[i + 1]) \o q[i + 2] = x \o (f[i + 1] \o q[i + 2])
      <4>1. f[i + 1] \in Texts /\ q[i + 2] \in Texts
        BY <1>1, <2>3, <3>1 DEF n
      <4> QED
        BY <4>1, Associative
    <3>6. g[(i + 1) + 2] = x \o f[(i + 1) + 1]
      BY <3>1, <3>2, <3>3, <3>4, <3>5
    <3> QED
      BY <3>1, <3>6
  <2> HIDE DEF T
  <2>7. n - 1 \in Nat /\ n - 1 \in 0..(n - 1) /\ (n - 1) + 2 = n + 1 /\ (n - 1) + 1 = n
    BY <1>1, <2>2
  <2>8. 0..(n - 1) \subseteq T
    BY <2>5, <2>6, <2>7, IntervalInduction
  <2>9. n - 1 \in T
    BY <2>7, <2>8
  <2>10. g[n + 1] = x \o f[n]
    BY <2>7, <2>9 DEF T
  <2> QED
    BY <1>2, <1>3, <1>5, <2>1, <2>10
<1> QED
  BY <1>6, <1>7

\* The rest of a sequence.
LEMMA FromFacts ==
    ASSUME NEW S, NEW q \in Seq(S), NEW i \in 1..(Len(q) + 1)
    PROVE  /\ From(q, i) \in Seq(S) /\ Len(From(q, i)) = Len(q) + 1 - i
           /\ \A j \in 1..(Len(q) + 1 - i) : From(q, i)[j] = q[i + j - 1]
           /\ i = Len(q) + 1 => From(q, i) = <<>>
           /\ i <= Len(q) => From(q, i) = <<q[i]>> \o From(q, i + 1)
<1>1. Len(q) \in Nat /\ i \in Int
  OBVIOUS
<1>2. \A j \in i..Len(q) : q[j] \in S
  OBVIOUS
<1>3. /\ From(q, i) \in Seq(S)
      /\ Len(From(q, i)) = IF i <= Len(q) THEN Len(q) - i + 1 ELSE 0
      /\ \A j \in 1..(Len(q) - i + 1) : From(q, i)[j] = q[i + j - 1]
  BY <1>1, <1>2, SubSeqProperties DEF From
<1>4. i = Len(q) + 1 => From(q, i) = <<>>
  BY <1>1, SubSeqEmpty DEF From
<1>5. i <= Len(q) => From(q, i) = <<q[i]>> \o From(q, i + 1)
  BY <1>1, SubSeqRecursiveFirst DEF From
<1>6. Len(q) - i + 1 = Len(q) + 1 - i /\ (i <= Len(q) \/ i = Len(q) + 1)
  BY <1>1
<1>7. Len(From(q, i)) = Len(q) + 1 - i
  BY <1>1, <1>3, <1>6
<1> QED
  BY <1>3, <1>4, <1>5, <1>6, <1>7

LEMMA FromFirst ==
    ASSUME NEW S, NEW q \in Seq(S)
    PROVE  From(q, 1) = q
BY SubSeqFull DEF From

LEMMA Split ==
    ASSUME NEW S, NEW q \in Seq(S), NEW i \in 0..Len(q)
    PROVE  q = SubSeq(q, 1, i) \o From(q, i + 1)
<1>1. 1 \in 1..(Len(q) + 1) /\ i \in (1 - 1)..Len(q) /\ Len(q) \in i..Len(q)
  OBVIOUS
<1>2. SubSeq(q, 1, i) \o SubSeq(q, i + 1, Len(q)) = SubSeq(q, 1, Len(q))
  BY <1>1, ConcatAdjacentSubSeq
<1> QED
  BY <1>2, SubSeqFull DEF From

\* Texts with nothing in them can be left out.
LEMMA FlatSkips ==
    ASSUME NEW q \in Seq(Texts), NEW k \in 0..Len(q), \A i \in 1..k : q[i] = <<>>
    PROVE  FlattenSeq(q) = FlattenSeq(From(q, k + 1))
<1> DEFINE T == {i \in 0..k : FlattenSeq(q) = FlattenSeq(From(q, i + 1))}
<1>1. k \in Nat /\ Len(q) \in Nat
  OBVIOUS
<1>2. 0 \in T
  <2>1. From(q, 0 + 1) = q
    BY FromFirst
  <2> QED
    BY <1>1, <2>1
<1>3. ASSUME NEW i \in 0..(k - 1), i \in T
      PROVE  i + 1 \in T
  <2>1. /\ i + 1 \in 1..(Len(q) + 1) /\ i + 1 <= Len(q) /\ (i + 1) + 1 \in 1..(Len(q) + 1)
        /\ i + 1 \in 1..k /\ i + 1 \in 0..k
    BY <1>1
  <2>2. From(q, i + 1) = <<q[i + 1]>> \o From(q, (i + 1) + 1)
    BY <2>1, FromFacts
  <2>3. From(q, (i + 1) + 1) \in Seq(Texts)
    BY <2>1, FromFacts
  <2>4. q[i + 1] = <<>>
    BY <2>1
  <2>5. FlattenSeq(From(q, i + 1)) = <<>> \o FlattenSeq(From(q, (i + 1) + 1))
    BY <2>2, <2>3, <2>4, VisibleEmpty, FlatCons
  <2>6. FlattenSeq(From(q, (i + 1) + 1)) \in Texts
    BY <2>3, FlatType
  <2>7. FlattenSeq(From(q, i + 1)) = FlattenSeq(From(q, (i + 1) + 1))
    BY <2>5, <2>6, ConcatEmptySeq DEF Texts
  <2>8. FlattenSeq(q) = FlattenSeq(From(q, i + 1))
    BY <1>3
  <2> QED
    BY <2>1, <2>7, <2>8
<1> HIDE DEF T
<1>4. 0..k \subseteq T
  BY <1>1, <1>2, <1>3, IntervalInduction
<1>5. k \in T
  BY <1>1, <1>4
<1> QED
  BY <1>5 DEF T

-----------------------------------------------------------------------------
(***************************************************************************)
(* The invariant.                                                          *)
(***************************************************************************)
Pointers == [text : Texts, at : Nat]
Saved == [nextc : Pointers, nleft : Int]
Inputs == [data : Texts, hasbuf : BOOLEAN, pushed : Seq(Saved), nleft : Int, lleft : Int, nextc : Pointers]

\* n characters from p on are there.
Fits(n, p) == n > 0 => p.at >= 1 /\ p.at + n <= Len(p.text) + 1

\* The registers of the input itself, l of its buffer not made ready: after the
\* characters made ready come those l, up to the end of the buffer; a negative
\* count says that the file has been read to its end.
BufferOk(data, l, b) ==
    \/ b.n >= 0 /\ l = 0
    \/ b.n >= 0 /\ l > 0 /\ b.p.at >= 1 /\ b.p.at + b.n + l = Len(b.p.text) + 1
    \/ b.n < 0 /\ l <= 0 /\ data = <<>>

ViewOk(f, n, l, p) ==
    /\ Fits(n, p)
    /\ \A k \in DOMAIN f.pushed : Fits(f.pushed[k].nleft, f.pushed[k].nextc)
    /\ IF f.hasbuf THEN BufferOk(f.data, l, Bottom(f, n, p)) ELSE f.data = <<>>

\* What pungetc takes back is in front of the pointer; after the end of the
\* input there is nothing to be taken back.
LastOk(f, n, p, c) ==
    /\ c = EOF => n < 0 /\ f.pushed = <<>> /\ (f.hasbuf => n = EofNleft)
    /\ c \in InputChars => n >= 0 /\ p.at >= 2 /\ p.at <= Len(p.text) + 1 /\ p.text[p.at - 1] = c

TypeOk ==
    /\ pf \in Seq(Inputs) /\ pf # <<>>
    /\ expect \in Seq(Texts) /\ Len(expect) = Len(pf)
    /\ nleft \in Int /\ lleft \in Int /\ nextc \in Pointers
    /\ last \in InputChars \cup {EOF, "none"} /\ line \in Texts

\* The current input has its registers in the variables, the others in the stack.
TopOk ==
    /\ ViewOk(pf[1], nleft, lleft, nextc) /\ LastOk(pf[1], nleft, nextc, last)
    /\ expect[1] = Holds(pf[1], nleft, lleft, nextc)
    /\ last = EOF => expect[1] = <<>>

BelowOk ==
    \A i \in 2..Len(pf) :
        /\ ViewOk(pf[i], pf[i].nleft, pf[i].lleft, pf[i].nextc)
        /\ expect[i] = Holds(pf[i], pf[i].nleft, pf[i].lleft, pf[i].nextc)

InputInv == TypeOk /\ TopOk /\ BelowOk

-----------------------------------------------------------------------------
(***************************************************************************)
(* What an input holds.                                                    *)
(***************************************************************************)
Pieces(f) == [k \in DOMAIN f.pushed |-> Waiting(f.pushed[k].nleft, f.pushed[k].nextc)]
Under(f) == FlattenSeq(Pieces(f))
Buffered(f, n, l, p) == Visible(Raw(f, n, l, p) \o f.data)

LEMMA HoldsParts ==
    ASSUME NEW f, NEW n, NEW l, NEW p
    PROVE  Holds(f, n, l, p) = Waiting(n, p) \o Under(f) \o Buffered(f, n, l, p)
BY DEF Holds, Under, Pieces, Buffered

Next1(p) == [p EXCEPT !.at = @ + 1]

LEMMA WaitingFacts ==
    ASSUME NEW n \in Int, NEW p \in Pointers, Fits(n, p)
    PROVE  /\ Waiting(n, p) \in Texts
           /\ n <= 0 => Waiting(n, p) = <<>>
           /\ n > 0 => /\ p.text[p.at] \in InputChars
                       /\ Next1(p) \in Pointers /\ Fits(n - 1, Next1(p))
                       /\ Waiting(n, p) = <<p.text[p.at]>> \o Waiting(n - 1, Next1(p))
<1>1. p.text \in Texts /\ p.at \in Nat /\ Len(p.text) \in Nat
  BY DEF Pointers, Texts
<1>2. CASE n <= 0
  BY <1>2, VisibleEmpty DEF Waiting
<1>3. CASE n > 0
  <2>1. p.at >= 1 /\ p.at + n <= Len(p.text) + 1
    BY <1>3 DEF Fits
  <2>2. PICK at : at = p.at
    OBVIOUS
  <2>3. PICK text : text = p.text
    OBVIOUS
  <2>4. text \in Seq(InputChars) /\ at \in 1..Len(text) /\ at + n - 1 \in at..Len(text)
    BY <1>1, <1>3, <2>1, <2>2, <2>3 DEF Texts
  <2>5. Next1(p) = [text |-> text, at |-> at + 1]
    BY <2>2, <2>3 DEF Next1, Pointers
  <2>6. text[at] \in InputChars
    BY <2>4
  <2>7. Next1(p) \in Pointers
    BY <1>1, <2>2, <2>3, <2>5 DEF Pointers
  <2>8. Fits(n - 1, Next1(p))
    BY <1>1, <1>3, <2>1, <2>2, <2>3, <2>5 DEF Fits
  <2>9. Waiting(n, p) = SubSeq(text, at, at + n - 1)
    BY <1>3, <2>2, <2>3 DEF Waiting
  <2>10. Waiting(n - 1, Next1(p)) = SubSeq(text, at + 1, at + n - 1)
    <3>1. CASE n - 1 > 0
      <4>1. (at + 1) + (n - 1) - 1 = at + n - 1
        BY <2>4
      <4>2. Next1(p).text = text /\ Next1(p).at = at + 1
        BY <2>5
      <4>3. Waiting(n - 1, Next1(p)) = SubSeq(text, at + 1, (at + 1) + (n - 1) - 1)
        BY <3>1, <4>2, Zenon DEF Waiting
      <4> QED
        BY <4>1, <4>3
    <3>2. CASE ~(n - 1 > 0)
      <4>1. at + n - 1 < at + 1 /\ at + 1 \in Int /\ at + n - 1 \in Int
        BY <2>4, <3>2
      <4> QED
        BY <3>2, <4>1, SubSeqEmpty DEF Waiting
    <3> QED
      BY <3>1, <3>2
  <2>11. SubSeq(text, at, at + n - 1) = <<text[at]>> \o SubSeq(text, at + 1, at + n - 1)
    BY <2>4, SubSeqRecursiveFirst
  <2>12. Waiting(n, p) \in Texts
    <3>1. \A j \in at..(at + n - 1) : text[j] \in InputChars
      BY <2>4
    <3> QED
      BY <2>4, <2>9, <3>1, SubSeqProperties DEF Texts
  <2> QED
    <3>1. Waiting(n, p) = <<text[at]>> \o Waiting(n - 1, Next1(p))
      BY <2>9, <2>10, <2>11, Zenon
    <3>2. Waiting(n, p) = <<p.text[p.at]>> \o Waiting(n - 1, Next1(p))
      BY <2>2, <2>3, <3>1, Zenon
    <3>3. p.text[p.at] \in InputChars
      BY <2>2, <2>3, <2>6, Zenon
    <3>4. ~(n <= 0)
      BY <1>3
    <3> QED
      BY <2>7, <2>8, <2>12, <3>2, <3>3, <3>4, Zenon
<1> QED
  BY <1>2, <1>3

LEMMA BottomType ==
    ASSUME NEW f \in Inputs, NEW n \in Int, NEW p \in Pointers
    PROVE  Bottom(f, n, p).n \in Int /\ Bottom(f, n, p).p \in Pointers
<1>1. f.pushed \in Seq(Saved)
  BY DEF Inputs
<1>2. CASE f.pushed = <<>>
  BY <1>2 DEF Bottom
<1>3. CASE f.pushed # <<>>
  <2>1. f.pushed[Len(f.pushed)] \in Saved
    BY <1>1, <1>3
  <2> QED
    BY <1>3, <2>1 DEF Bottom, Saved
<1> QED
  BY <1>2, <1>3

LEMMA PiecesType ==
    ASSUME NEW f \in Inputs, \A k \in DOMAIN f.pushed : Fits(f.pushed[k].nleft, f.pushed[k].nextc)
    PROVE  /\ Pieces(f) \in Seq(Texts) /\ Len(Pieces(f)) = Len(f.pushed)
           /\ \A k \in 1..Len(f.pushed) : Pieces(f)[k] = Waiting(f.pushed[k].nleft, f.pushed[k].nextc)
           /\ Under(f) \in Texts
<1>1. f.pushed \in Seq(Saved) /\ Len(f.pushed) \in Nat /\ DOMAIN f.pushed = 1..Len(f.pushed)
  BY DEF Inputs
<1>2. \A k \in 1..Len(f.pushed) : Waiting(f.pushed[k].nleft, f.pushed[k].nextc) \in Texts
  <2> SUFFICES ASSUME NEW k \in 1..Len(f.pushed)
               PROVE  Waiting(f.pushed[k].nleft, f.pushed[k].nextc) \in Texts
    OBVIOUS
  <2>1. f.pushed[k] \in Saved /\ k \in DOMAIN f.pushed
    BY <1>1
  <2>2. f.pushed[k].nleft \in Int /\ f.pushed[k].nextc \in Pointers
    BY <2>1 DEF Saved
  <2> QED
    BY <2>1, <2>2, WaitingFacts
<1>3. PICK q : q = Pieces(f)
  OBVIOUS
<1>4. PICK n : n = Len(f.pushed)
  OBVIOUS
<1>5. q = [k \in 1..n |-> Waiting(f.pushed[k].nleft, f.pushed[k].nextc)]
  BY <1>1, <1>3, <1>4 DEF Pieces
<1>6. n \in Nat /\ \A k \in 1..n : Waiting(f.pushed[k].nleft, f.pushed[k].nextc) \in Texts
  BY <1>1, <1>2, <1>4
<1>7. q \in [1..n -> Texts]
  BY <1>5, <1>6
<1>8. q \in Seq(Texts) /\ Len(q) = n
  BY <1>6, <1>7
<1>9. \A k \in 1..n : q[k] = Waiting(f.pushed[k].nleft, f.pushed[k].nextc)
  BY <1>5
<1>10. FlattenSeq(q) \in Texts
  BY <1>8, FlatType
<1> QED
  BY <1>3, <1>4, <1>8, <1>9, <1>10 DEF Under

LEMMA RawFacts ==
    ASSUME NEW f \in Inputs, NEW n \in Int, NEW l \in Int, NEW p \in Pointers, ViewOk(f, n, l, p),
           NEW b, b = Bottom(f, n, p)
    PROVE  /\ Raw(f, n, l, p) \in Texts /\ f.data \in Texts /\ Buffered(f, n, l, p) \in Texts
           /\ ~(f.hasbuf /\ l > 0) => Raw(f, n, l, p) = <<>>
           /\ f.hasbuf /\ l > 0 => /\ b.n >= 0 /\ b.p.at >= 1 /\ b.p.at + b.n + l = Len(b.p.text) + 1
                                   /\ Raw(f, n, l, p) = From(b.p.text, b.p.at + b.n)
<1>1. b.n \in Int /\ b.p \in Pointers
  BY BottomType
<1>2. b.p.text \in Texts /\ b.p.at \in Nat /\ Len(b.p.text) \in Nat
  BY <1>1 DEF Pointers, Texts
<1>3. f.data \in Texts
  BY DEF Inputs
<1>4. Raw(f, n, l, p) = IF f.hasbuf /\ l > 0 THEN From(b.p.text, b.p.at + (IF b.n > 0 THEN b.n ELSE 0)) ELSE <<>>
  BY Zenon DEF Raw
<1>5. CASE ~(f.hasbuf /\ l > 0)
  <2>1. Raw(f, n, l, p) = <<>>
    BY <1>4, <1>5, Zenon
  <2>2. Raw(f, n, l, p) \in Texts
    BY <2>1, VisibleEmpty
  <2>3. Buffered(f, n, l, p) \in Texts
    BY <1>3, <2>2, VisibleConcat, VisibleType DEF Buffered
  <2> QED
    BY <1>3, <1>5, <2>1, <2>2, <2>3
<1>6. CASE f.hasbuf /\ l > 0
  <2>1. BufferOk(f.data, l, b)
    BY <1>6 DEF ViewOk
  <2>2. b.n >= 0 /\ b.p.at >= 1 /\ b.p.at + b.n + l = Len(b.p.text) + 1
    BY <1>1, <1>6, <2>1 DEF BufferOk
  <2>3. (IF b.n > 0 THEN b.n ELSE 0) = b.n
    BY <1>1, <2>2
  <2>4. Raw(f, n, l, p) = From(b.p.text, b.p.at + b.n)
    BY <1>4, <1>6, <2>3, Zenon
  <2>5. b.p.at + b.n \in 1..(Len(b.p.text) + 1)
    BY <1>1, <1>2, <1>6, <2>2
  <2>6. Raw(f, n, l, p) \in Texts
    BY <1>2, <2>4, <2>5, FromFacts, ZenonT(40) DEF Texts
  <2>7. Buffered(f, n, l, p) \in Texts
    BY <1>3, <2>6, VisibleConcat, VisibleType DEF Buffered
  <2> QED
    BY <1>3, <1>6, <2>2, <2>4, <2>6, <2>7
<1> QED
  BY <1>5, <1>6

LEMMA HoldsType ==
    ASSUME NEW f \in Inputs, NEW n \in Int, NEW l \in Int, NEW p \in Pointers, ViewOk(f, n, l, p)
    PROVE  /\ Waiting(n, p) \in Texts /\ Under(f) \in Texts /\ Buffered(f, n, l, p) \in Texts
           /\ Holds(f, n, l, p) \in Texts
           /\ Holds(f, n, l, p) = Waiting(n, p) \o (Under(f) \o Buffered(f, n, l, p))
<1>1. Fits(n, p) /\ \A k \in DOMAIN f.pushed : Fits(f.pushed[k].nleft, f.pushed[k].nextc)
  BY DEF ViewOk
<1>2. Waiting(n, p) \in Texts /\ Under(f) \in Texts
  BY <1>1, WaitingFacts, PiecesType
<1>3. Buffered(f, n, l, p) \in Texts
  BY RawFacts
<1>4. PICK w : w = Waiting(n, p)
  OBVIOUS
<1>5. PICK u : u = Under(f)
  OBVIOUS
<1>6. PICK b : b = Buffered(f, n, l, p)
  OBVIOUS
<1>7. w \in Texts /\ u \in Texts /\ b \in Texts
  BY <1>2, <1>3, <1>4, <1>5, <1>6
<1>8. (w \o u) \o b = w \o (u \o b) /\ (w \o u) \o b \in Texts
  BY <1>7, Associative, VisibleConcat, ZenonT(40)
<1> QED
  BY <1>4, <1>5, <1>6, <1>7, <1>8, HoldsParts, Zenon

\* A character is taken from what is ready.
LEMMA TakeOne ==
    ASSUME NEW f \in Inputs, NEW n \in Int, NEW l \in Int, NEW p \in Pointers, ViewOk(f, n, l, p), n > 0
    PROVE  /\ p.text[p.at] \in InputChars /\ Next1(p) \in Pointers
           /\ ViewOk(f, n - 1, l, Next1(p)) /\ LastOk(f, n - 1, Next1(p), p.text[p.at])
           /\ Holds(f, n, l, p) = <<p.text[p.at]>> \o Holds(f, n - 1, l, Next1(p))
<1>1. Fits(n, p) /\ \A k \in DOMAIN f.pushed : Fits(f.pushed[k].nleft, f.pushed[k].nextc)
  BY DEF ViewOk
<1>2. PICK q : q = Next1(p)
  OBVIOUS
<1>3. PICK c : c = p.text[p.at]
  OBVIOUS
<1>4. PICK m \in Int : m = n - 1
  OBVIOUS
<1>5. c \in InputChars /\ q \in Pointers /\ Fits(m, q) /\ Waiting(n, p) = <<c>> \o Waiting(m, q)
  BY <1>1, <1>2, <1>3, <1>4, WaitingFacts
<1>6. q.text = p.text /\ q.at = p.at + 1 /\ p.at \in Nat /\ Len(p.text) \in Nat
  BY <1>2 DEF Next1, Pointers, Texts
<1>7. PICK b : b = Bottom(f, n, p)
  OBVIOUS
<1>8. PICK d : d = Bottom(f, m, q)
  OBVIOUS
<1>9. b.n \in Int /\ b.p \in Pointers /\ b.p.at \in Nat
  BY <1>7, BottomType DEF Pointers
<1>10. \/ d = b
       \/ b.n = n /\ b.p = p /\ d.n = m /\ d.p = q
  BY <1>7, <1>8 DEF Bottom
<1>11. d.p.text = b.p.text /\ d.p.at + d.n = b.p.at + b.n
  <2>1. CASE d = b
    BY <2>1, Zenon
  <2>2. CASE b.n = n /\ b.p = p /\ d.n = m /\ d.p = q
    <3>1. d.p.text = b.p.text /\ d.p.at = p.at + 1 /\ b.p.at = p.at
      BY <1>6, <2>2, Zenon
    <3>2. (p.at + 1) + m = p.at + n
      BY <1>4, <1>6
    <3> QED
      BY <2>2, <3>1, <3>2, Zenon
  <2> QED
    BY <1>10, <2>1, <2>2
<1>12. (b.n >= 0 <=> d.n >= 0) /\ (b.n >= 0 => d.p.at >= b.p.at) /\ d.n \in Int /\ d.p.at \in Nat
  <2>1. CASE d = b
    <3>1. b.p.at >= b.p.at
      BY <1>9
    <3> QED
      BY <1>9, <2>1, <3>1, Zenon
  <2>2. CASE b.n = n /\ b.p = p /\ d.n = m /\ d.p = q
    <3>1. d.p.at = p.at + 1 /\ b.p.at = p.at /\ b.n = n /\ d.n = m
      BY <1>6, <2>2, Zenon
    <3>2. n >= 0 /\ m >= 0 /\ p.at + 1 >= p.at /\ p.at + 1 \in Nat
      BY <1>4, <1>6
    <3> QED
      BY <1>4, <3>1, <3>2, Zenon
  <2> QED
    BY <1>10, <2>1, <2>2
<1>13. ViewOk(f, m, l, q)
  <2>1. f.hasbuf => BufferOk(f.data, l, b)
    BY <1>7 DEF ViewOk
  <2>2. f.hasbuf => BufferOk(f.data, l, d)
    <3> SUFFICES ASSUME f.hasbuf
                 PROVE  BufferOk(f.data, l, d)
      OBVIOUS
    <3>1. \/ b.n >= 0 /\ l = 0
          \/ b.n >= 0 /\ l > 0 /\ b.p.at >= 1 /\ b.p.at + b.n + l = Len(b.p.text) + 1
          \/ b.n < 0 /\ l <= 0 /\ f.data = <<>>
      BY <2>1 DEF BufferOk
    <3>2. CASE b.n >= 0 /\ l = 0
      BY <1>12, <3>2 DEF BufferOk
    <3>3. CASE b.n >= 0 /\ l > 0 /\ b.p.at >= 1 /\ b.p.at + b.n + l = Len(b.p.text) + 1
      <4>1. d.n >= 0 /\ d.p.at >= 1 /\ d.p.at + d.n + l = Len(d.p.text) + 1
        BY <1>9, <1>11, <1>12, <3>3
      <4> QED
        BY <3>3, <4>1 DEF BufferOk
    <3>4. CASE b.n < 0 /\ l <= 0 /\ f.data = <<>>
      <4>1. d.n < 0
        BY <1>9, <1>12, <3>4
      <4> QED
        BY <3>4, <4>1 DEF BufferOk
    <3> QED
      BY <3>1, <3>2, <3>3, <3>4
  <2>3. ~f.hasbuf => f.data = <<>>
    BY DEF ViewOk
  <2> QED
    BY <1>1, <1>5, <1>8, <2>2, <2>3 DEF ViewOk
<1>14. LastOk(f, m, q, c)
  <2>1. c # EOF
    BY <1>5 DEF InputChars
  <2>2. m >= 0
    BY <1>4
  <2>3. q.at >= 2 /\ q.at <= Len(q.text) + 1
    BY <1>1, <1>6 DEF Fits
  <2>4. q.at - 1 = p.at
    BY <1>6
  <2>5. q.text[q.at - 1] = c
    BY <1>3, <1>6, <2>4
  <2> QED
    BY <2>1, <2>2, <2>3, <2>5 DEF LastOk
<1>15. Raw(f, n, l, p) = Raw(f, m, l, q)
  <2>1. CASE ~(f.hasbuf /\ l > 0)
    <3>1. Raw(f, n, l, p) = <<>>
      BY <2>1, RawFacts
    <3>2. Raw(f, m, l, q) = <<>>
      BY <1>5, <1>13, <2>1, RawFacts
    <3> QED
      BY <3>1, <3>2
  <2>2. CASE f.hasbuf /\ l > 0
    <3>1. Raw(f, n, l, p) = From(b.p.text, b.p.at + b.n)
      BY <1>7, <2>2, RawFacts
    <3>2. Raw(f, m, l, q) = From(d.p.text, d.p.at + d.n)
      BY <1>5, <1>8, <1>13, <2>2, RawFacts
    <3> QED
      BY <1>11, <3>1, <3>2
  <2> QED
    BY <2>1, <2>2
<1>16. Holds(f, n, l, p) = <<c>> \o Holds(f, m, l, q)
  <2>1. PICK r : r = Under(f) \o Buffered(f, n, l, p)
    OBVIOUS
  <2>2. PICK w : w = Waiting(m, q)
    OBVIOUS
  <2>3. Buffered(f, n, l, p) = Buffered(f, m, l, q)
    BY <1>15, Zenon DEF Buffered
  <2>4. Holds(f, n, l, p) = (<<c>> \o w) \o r /\ Holds(f, m, l, q) = w \o r
    <3>1. Holds(f, n, l, p) = Waiting(n, p) \o (Under(f) \o Buffered(f, n, l, p))
      BY HoldsType
    <3>2. Holds(f, m, l, q) = Waiting(m, q) \o (Under(f) \o Buffered(f, m, l, q))
      BY <1>5, <1>13, HoldsType
    <3> QED
      BY <1>5, <2>1, <2>2, <2>3, <3>1, <3>2, Zenon
  <2>5. r \in Texts /\ w \in Texts /\ <<c>> \in Texts
    <3>1. Under(f) \in Texts /\ Buffered(f, n, l, p) \in Texts /\ w \in Texts
      BY <1>5, <1>13, <2>2, HoldsType
    <3>2. <<c>> \in Texts
      BY <1>5 DEF Texts
    <3> QED
      BY <2>1, <3>1, <3>2, VisibleConcat
  <2>6. (<<c>> \o w) \o r = <<c>> \o (w \o r)
    BY <2>5, Associative
  <2> QED
    BY <2>4, <2>6, Zenon
<1> QED
  BY <1>2, <1>3, <1>4, <1>5, <1>13, <1>14, <1>16, Zenon

\* A character is put back.
Back(p) == [p EXCEPT !.at = @ - 1]

LEMMA PutBack ==
    ASSUME NEW f \in Inputs, NEW n \in Int, NEW l \in Int, NEW p \in Pointers, ViewOk(f, n, l, p),
           NEW c \in InputChars, LastOk(f, n, p, c)
    PROVE  /\ Back(p) \in Pointers /\ ViewOk(f, n + 1, l, Back(p))
           /\ Holds(f, n + 1, l, Back(p)) = <<c>> \o Holds(f, n, l, p)
<1>1. n >= 0 /\ p.at >= 2 /\ p.at <= Len(p.text) + 1 /\ p.text[p.at - 1] = c
  BY DEF LastOk
<1>2. PICK q : q = Back(p)
  OBVIOUS
<1>3. PICK m \in Int : m = n + 1
  OBVIOUS
<1>4. q \in Pointers /\ q.text = p.text /\ q.at = p.at - 1 /\ p.at \in Nat /\ Len(p.text) \in Nat
  BY <1>1, <1>2 DEF Back, Pointers, Texts
<1>5. PICK b : b = Bottom(f, n, p)
  OBVIOUS
<1>6. PICK d : d = Bottom(f, m, q)
  OBVIOUS
<1>7. b.n \in Int /\ b.p \in Pointers /\ b.p.at \in Nat
  BY <1>5, BottomType DEF Pointers
<1>8. \/ d = b
      \/ b.n = n /\ b.p = p /\ d.n = m /\ d.p = q
  BY <1>5, <1>6 DEF Bottom
<1>9. Fits(m, q)
  <2>1. Fits(n, p)
    BY DEF ViewOk
  <2>2. CASE n > 0
    BY <1>1, <1>3, <1>4, <2>1, <2>2 DEF Fits
  <2>3. CASE n = 0
    BY <1>1, <1>3, <1>4, <2>3 DEF Fits
  <2> QED
    BY <1>1, <2>2, <2>3
<1>10. f.hasbuf => BufferOk(f.data, l, d)
  <2> SUFFICES ASSUME f.hasbuf
               PROVE  BufferOk(f.data, l, d)
    OBVIOUS
  <2>1. BufferOk(f.data, l, b)
    BY <1>5 DEF ViewOk
  <2>2. CASE d = b
    BY <2>1, <2>2
  <2>3. CASE b.n = n /\ b.p = p /\ d.n = m /\ d.p = q
    <3>1. \/ l = 0
          \/ l > 0 /\ p.at + n + l = Len(p.text) + 1
      BY <1>1, <2>1, <2>3 DEF BufferOk
    <3>2. m >= 0 /\ q.at >= 1 /\ q.at + m = p.at + n
      BY <1>1, <1>3, <1>4
    <3> QED
      BY <1>4, <2>3, <3>1, <3>2 DEF BufferOk
  <2> QED
    BY <1>8, <2>2, <2>3
<1>11. ViewOk(f, m, l, q)
  BY <1>6, <1>9, <1>10 DEF ViewOk
<1>12. Holds(f, m, l, q) = <<q.text[q.at]>> \o Holds(f, m - 1, l, Next1(q))
  BY <1>1, <1>3, <1>4, <1>11, TakeOne, SMTT(40)
<1>13. m - 1 = n /\ Next1(q) = p /\ q.text[q.at] = c
  <2>1. q = [text |-> p.text, at |-> p.at - 1] /\ p = [text |-> p.text, at |-> p.at]
    BY <1>2 DEF Back, Pointers
  <2>2. Next1(q) = [text |-> p.text, at |-> (p.at - 1) + 1]
    BY <2>1 DEF Next1
  <2>3. (p.at - 1) + 1 = p.at /\ m - 1 = n
    BY <1>3, <1>4
  <2>4. Next1(q) = p
    BY <2>1, <2>2, <2>3, Zenon
  <2> QED
    BY <1>1, <1>4, <2>3, <2>4
<1> QED
  BY <1>2, <1>3, <1>4, <1>11, <1>12, <1>13, Zenon

LEMMA PutBackEnd ==
    ASSUME NEW f \in Inputs, NEW n \in Int, NEW l \in Int, NEW p \in Pointers, ViewOk(f, n, l, p),
           LastOk(f, n, p, EOF), p.at > 0
    PROVE  /\ Back(p) \in Pointers /\ ViewOk(f, n + 1, l, Back(p))
           /\ Holds(f, n + 1, l, Back(p)) = Holds(f, n, l, p)
<1>1. n < 0 /\ f.pushed = <<>> /\ (f.hasbuf => n = -99)
  BY DEF LastOk, EofNleft
<1>2. PICK q : q = Back(p)
  OBVIOUS
<1>3. PICK m \in Int : m = n + 1
  OBVIOUS
<1>4. q \in Pointers
  BY <1>2 DEF Back, Pointers
<1>5. Bottom(f, n, p) = [n |-> n, p |-> p] /\ Bottom(f, m, q) = [n |-> m, p |-> q]
  BY <1>1 DEF Bottom
<1>6. m <= 0 /\ (f.hasbuf => m < 0)
  BY <1>1, <1>3
<1>7. f.hasbuf => l <= 0 /\ f.data = <<>>
  BY <1>1, <1>5 DEF ViewOk, BufferOk
<1>8. ViewOk(f, m, l, q)
  BY <1>1, <1>5, <1>6, <1>7 DEF ViewOk, BufferOk, Fits
<1>9. Waiting(m, q) = <<>> /\ Waiting(n, p) = <<>>
  BY <1>1, <1>6 DEF Waiting
<1>10. Raw(f, n, l, p) = <<>> /\ Raw(f, m, l, q) = <<>>
  <2>1. ~(f.hasbuf /\ l > 0)
    BY <1>7
  <2>2. Raw(f, n, l, p) = <<>>
    BY <2>1, RawFacts
  <2>3. Raw(f, m, l, q) = <<>>
    BY <1>4, <1>8, <2>1, RawFacts
  <2> QED
    BY <2>2, <2>3
<1>11. Holds(f, m, l, q) = Holds(f, n, l, p)
  BY <1>9, <1>10, HoldsParts, Zenon DEF Buffered
<1> QED
  BY <1>2, <1>3, <1>4, <1>8, <1>11, Zenon

\* A string is pushed back.
Pushed(f, n, p) == [f EXCEPT !.pushed = <<[nextc |-> p, nleft |-> n]>> \o @]

LEMMA Push ==
    ASSUME NEW f \in Inputs, NEW n \in Int, NEW l \in Int, NEW p \in Pointers, ViewOk(f, n, l, p),
           NEW text \in Texts
    PROVE  /\ Pushed(f, n, p) \in Inputs /\ At(text, 1) \in Pointers
           /\ ViewOk(Pushed(f, n, p), Len(text), l, At(text, 1))
           /\ Holds(Pushed(f, n, p), Len(text), l, At(text, 1)) = text \o Holds(f, n, l, p)
<1>1. PICK s : s = [nextc |-> p, nleft |-> n]
  OBVIOUS
<1>2. PICK g : g = Pushed(f, n, p)
  OBVIOUS
<1>3. s \in Saved /\ f.pushed \in Seq(Saved) /\ Len(f.pushed) \in Nat
  BY <1>1 DEF Saved, Inputs
<1>4. PICK q : q = <<s>> \o f.pushed
  OBVIOUS
<1>5. PICK a : a = Len(f.pushed)
  OBVIOUS
<1>6. a \in Nat /\ q \in Seq(Saved) /\ Len(q) = a + 1 /\ q[1] = s /\ \A k \in 2..(a + 1) : q[k] = f.pushed[k - 1]
  <2>1. <<s>> \in Seq(Saved) /\ Len(<<s>>) = 1 /\ <<s>>[1] = s
    BY <1>3
  <2>2. /\ q \in Seq(Saved) /\ Len(q) = 1 + a
        /\ \A k \in 1..(1 + a) : q[k] = IF k <= 1 THEN <<s>>[k] ELSE f.pushed[k - 1]
    BY <1>3, <1>4, <1>5, <2>1, ConcatProperties
  <2> QED
    BY <1>3, <1>5, <2>1, <2>2
<1>7. g = [f EXCEPT !.pushed = q]
  BY <1>1, <1>2, <1>4 DEF Pushed
<1>8. g \in Inputs /\ g.pushed = q /\ g.data = f.data /\ g.hasbuf = f.hasbuf
  BY <1>6, <1>7 DEF Inputs
<1>9. PICK t : t = At(text, 1)
  OBVIOUS
<1>10. t \in Pointers /\ t.text = text /\ t.at = 1 /\ Len(text) \in Nat
  BY <1>9 DEF At, Pointers, Texts
<1>11. PICK m \in Nat : m = Len(text)
  BY <1>10
<1>12. Fits(n, p) /\ \A k \in 1..a : Fits(f.pushed[k].nleft, f.pushed[k].nextc)
  BY <1>3, <1>5 DEF ViewOk
<1>13. \A k \in DOMAIN g.pushed : Fits(g.pushed[k].nleft, g.pushed[k].nextc)
  <2>1. DOMAIN g.pushed = 1..(a + 1)
    BY <1>6, <1>8
  <2>2. Fits(q[1].nleft, q[1].nextc)
    BY <1>1, <1>6, <1>12
  <2>3. \A k \in 2..(a + 1) : Fits(q[k].nleft, q[k].nextc)
    <3>1. \A k \in 2..(a + 1) : k - 1 \in 1..a
      BY <1>6
    <3> QED
      BY <1>6, <1>12, <3>1
  <2>4. \A k \in 1..(a + 1) : k = 1 \/ k \in 2..(a + 1)
    BY <1>6
  <2> QED
    BY <1>8, <2>1, <2>2, <2>3, <2>4
<1>14. Bottom(g, m, t) = Bottom(f, n, p)
  <2>1. g.pushed # <<>> /\ Len(g.pushed) = a + 1
    BY <1>6, <1>8
  <2>2. CASE f.pushed = <<>>
    <3>1. a = 0
      BY <1>5, <2>2
    <3>2. g.pushed[Len(g.pushed)] = s
      <4>1. Len(g.pushed) = 1
        BY <2>1, <3>1
      <4> QED
        BY <1>6, <1>8, <4>1, Zenon
    <3> QED
      BY <1>1, <2>1, <2>2, <3>2 DEF Bottom
  <2>3. CASE f.pushed # <<>>
    <3>1. a + 1 \in 2..(a + 1) /\ (a + 1) - 1 = a
      BY <1>3, <1>5, <2>3
    <3>2. g.pushed[Len(g.pushed)] = f.pushed[Len(f.pushed)]
      BY <1>5, <1>6, <1>8, <2>1, <3>1
    <3> QED
      BY <2>1, <2>3, <3>2 DEF Bottom
  <2> QED
    BY <2>2, <2>3
<1>15. ViewOk(g, m, l, t)
  <2>1. Fits(m, t)
    BY <1>10, <1>11 DEF Fits
  <2> QED
    BY <1>8, <1>13, <1>14, <2>1 DEF ViewOk
<1>16. Buffered(g, m, l, t) = Buffered(f, n, l, p)
  BY <1>8, <1>14, Zenon DEF Buffered, Raw
<1>17. Waiting(m, t) = text
  <2>1. CASE m > 0
    <3>1. 1 + m - 1 = Len(text)
      BY <1>11
    <3>2. Waiting(m, t) = SubSeq(text, 1, 1 + m - 1)
      BY <1>10, <2>1 DEF Waiting
    <3> QED
      BY <3>1, <3>2, SubSeqFull DEF Texts
  <2>2. CASE m = 0
    <3>1. text = <<>>
      BY <1>11, <2>2, EmptySeq DEF Texts
    <3> QED
      BY <2>2, <3>1 DEF Waiting
  <2> QED
    BY <2>1, <2>2
<1>18. Under(g) = Waiting(n, p) \o Under(f)
  <2>1. PICK w : w = Waiting(n, p)
    OBVIOUS
  <2>2. w \in Texts
    BY <1>12, <2>1, WaitingFacts
  <2>3. PICK r : r = Pieces(f)
    OBVIOUS
  <2>4. r \in Seq(Texts) /\ Len(r) = a /\ \A k \in 1..a : r[k] = Waiting(f.pushed[k].nleft, f.pushed[k].nextc)
    <3>1. \A k \in DOMAIN f.pushed : Fits(f.pushed[k].nleft, f.pushed[k].nextc)
      BY DEF ViewOk
    <3> QED
      BY <1>5, <2>3, <3>1, PiecesType
  <2>5. PICK v : v = Pieces(g)
    OBVIOUS
  <2>6. v \in Seq(Texts) /\ Len(v) = a + 1 /\ \A k \in 1..(a + 1) : v[k] = Waiting(q[k].nleft, q[k].nextc)
    BY <1>6, <1>8, <1>13, <2>5, PiecesType
  <2>7. PICK z : z = <<w>> \o r
    OBVIOUS
  <2>8. z \in Seq(Texts) /\ Len(z) = a + 1 /\ z[1] = w /\ \A k \in 2..(a + 1) : z[k] = r[k - 1]
    <3>1. <<w>> \in Seq(Texts) /\ Len(<<w>>) = 1 /\ <<w>>[1] = w
      BY <2>2
    <3>2. /\ z \in Seq(Texts) /\ Len(z) = 1 + a
          /\ \A k \in 1..(1 + a) : z[k] = IF k <= 1 THEN <<w>>[k] ELSE r[k - 1]
      BY <2>4, <2>7, <3>1, ConcatProperties
    <3> QED
      <4>1. 1 \in 1..(1 + a) /\ 1 <= 1 /\ 1 + a = a + 1
        BY <1>6
      <4>2. \A k \in 2..(a + 1) : k \in 1..(1 + a) /\ ~(k <= 1)
        BY <1>6
      <4>3. z[1] = w
        BY <3>1, <3>2, <4>1, Zenon
      <4>4. \A k \in 2..(a + 1) : z[k] = r[k - 1]
        BY <3>2, <4>2, Zenon
      <4> QED
        BY <3>2, <4>1, <4>3, <4>4, Zenon
  <2>9. \A k \in 1..(a + 1) : v[k] = z[k]
    <3>1. v[1] = z[1]
      <4>1. 1 \in 1..(a + 1)
        BY <1>6
      <4>2. v[1] = Waiting(s.nleft, s.nextc)
        BY <1>6, <2>6, <4>1
      <4> QED
        BY <1>1, <2>1, <2>8, <4>2
    <3>2. \A k \in 2..(a + 1) : v[k] = z[k]
      <4>1. \A k \in 2..(a + 1) : k - 1 \in 1..a /\ k \in 1..(a + 1)
        BY <1>6
      <4> QED
        BY <1>6, <2>4, <2>6, <2>8, <4>1, ZenonT(40)
    <3>3. \A k \in 1..(a + 1) : k = 1 \/ k \in 2..(a + 1)
      BY <1>6
    <3> QED
      BY <3>1, <3>2, <3>3
  <2>10. v = z
    BY <2>6, <2>8, <2>9, SeqEqual
  <2>11. FlattenSeq(z) = w \o FlattenSeq(r)
    BY <2>2, <2>4, <2>7, FlatCons
  <2> QED
    BY <2>1, <2>3, <2>5, <2>10, <2>11, Zenon DEF Under
<1>19. Holds(g, m, l, t) = text \o Holds(f, n, l, p)
  <2>1. PICK w : w = Waiting(n, p)
    OBVIOUS
  <2>2. PICK u : u = Under(f)
    OBVIOUS
  <2>3. PICK b : b = Buffered(f, n, l, p)
    OBVIOUS
  <2>4. w \in Texts /\ u \in Texts /\ b \in Texts /\ Holds(f, n, l, p) = w \o (u \o b)
    BY <2>1, <2>2, <2>3, HoldsType
  <2>5. Holds(g, m, l, t) = Waiting(m, t) \o (Under(g) \o Buffered(g, m, l, t))
    BY <1>8, <1>10, <1>15, HoldsType
  <2>6. Holds(g, m, l, t) = text \o ((w \o u) \o b)
    BY <1>16, <1>17, <1>18, <2>1, <2>2, <2>3, <2>5, Zenon
  <2>7. (w \o u) \o b = w \o (u \o b)
    BY <2>4, Associative
  <2> QED
    BY <2>4, <2>6, <2>7, Zenon
<1> QED
  BY <1>2, <1>8, <1>9, <1>10, <1>11, <1>15, <1>19, Zenon

\* Strings that have been read are taken off, up to the k-th, whose registers
\* are taken.
Dropped(f, k) == [f EXCEPT !.pushed = From(@, k + 1)]

LEMMA Drop ==
    ASSUME NEW f \in Inputs, NEW n \in Int, NEW l \in Int, NEW p \in Pointers, ViewOk(f, n, l, p), n <= 0,
           NEW k \in 1..Len(f.pushed), \A i \in 1..(k - 1) : f.pushed[i].nleft <= 0,
           NEW m, m = f.pushed[k].nleft, NEW t, t = f.pushed[k].nextc
    PROVE  /\ Dropped(f, k) \in Inputs /\ m \in Int /\ t \in Pointers
           /\ ViewOk(Dropped(f, k), m, l, t)
           /\ Holds(Dropped(f, k), m, l, t) = Holds(f, n, l, p)
<1>1. PICK a : a = Len(f.pushed)
  OBVIOUS
<1>2. PICK q : q = From(f.pushed, k + 1)
  OBVIOUS
<1>3. f.pushed \in Seq(Saved) /\ a \in Nat /\ k \in 1..a /\ k \in Nat
  BY <1>1 DEF Inputs
<1>4. \A i \in 1..a : f.pushed[i] \in Saved /\ f.pushed[i].nleft \in Int /\ f.pushed[i].nextc \in Pointers
  <2>1. \A i \in 1..a : f.pushed[i] \in Saved
    BY <1>1, <1>3
  <2>2. \A s \in Saved : s.nleft \in Int /\ s.nextc \in Pointers
    BY DEF Saved
  <2> QED
    BY <2>1, <2>2
<1>5. m \in Int /\ t \in Pointers
  BY <1>3, <1>4
<1>6. q \in Seq(Saved) /\ Len(q) = a - k /\ \A i \in 1..(a - k) : q[i] = f.pushed[k + i]
  <2>1. k + 1 \in 1..(Len(f.pushed) + 1) /\ Len(f.pushed) + 1 - (k + 1) = a - k
    <3>1. k + 1 \in 1..(a + 1) /\ a + 1 - (k + 1) = a - k
      BY <1>3
    <3> QED
      BY <1>1, <3>1, Zenon
  <2>2. /\ q \in Seq(Saved) /\ Len(q) = a - k
        /\ \A i \in 1..(a - k) : q[i] = f.pushed[(k + 1) + i - 1]
    BY <1>2, <1>3, <2>1, FromFacts, ZenonT(40)
  <2>3. \A i \in 1..(a - k) : (k + 1) + i - 1 = k + i
    BY <1>3
  <2> QED
    BY <2>2, <2>3
<1>7. PICK g : g = Dropped(f, k)
  OBVIOUS
<1>8. g = [f EXCEPT !.pushed = q]
  BY <1>2, <1>7 DEF Dropped
<1>9. g \in Inputs /\ g.pushed = q /\ g.data = f.data /\ g.hasbuf = f.hasbuf
  BY <1>6, <1>8 DEF Inputs
<1>10. Fits(n, p) /\ \A i \in 1..a : Fits(f.pushed[i].nleft, f.pushed[i].nextc)
  BY <1>1, <1>3 DEF ViewOk
<1>11. \A i \in DOMAIN g.pushed : Fits(g.pushed[i].nleft, g.pushed[i].nextc)
  <2>1. DOMAIN g.pushed = 1..(a - k)
    BY <1>6, <1>9
  <2>2. \A i \in 1..(a - k) : k + i \in 1..a
    BY <1>3
  <2> QED
    BY <1>6, <1>9, <1>10, <2>1, <2>2
<1>12. Fits(m, t)
  BY <1>3, <1>10
<1>13. Bottom(g, m, t) = Bottom(f, n, p)
  <2>1. f.pushed # <<>>
    BY <1>1, <1>3
  <2>2. Bottom(f, n, p) = [n |-> f.pushed[a].nleft, p |-> f.pushed[a].nextc]
    BY <1>1, <2>1 DEF Bottom
  <2>3. CASE k = a
    <3>1. Len(q) = 0
      BY <1>3, <1>6, <2>3
    <3>2. q = <<>>
      BY <1>6, <3>1, EmptySeq
    <3> QED
      BY <1>9, <2>2, <2>3, <3>2 DEF Bottom
  <2>4. CASE k # a
    <3>1. a - k \in 1..(a - k) /\ k + (a - k) = a
      BY <1>3, <2>4
    <3>2. q # <<>>
      BY <1>6, <3>1
    <3>3. q[Len(q)] = f.pushed[a]
      BY <1>6, <3>1
    <3> QED
      BY <1>9, <2>2, <3>2, <3>3 DEF Bottom
  <2> QED
    BY <2>3, <2>4
<1>14. ViewOk(g, m, l, t)
  BY <1>9, <1>11, <1>12, <1>13 DEF ViewOk
<1>15. Buffered(g, m, l, t) = Buffered(f, n, l, p)
  BY <1>9, <1>13, Zenon DEF Buffered, Raw
<1>16. Waiting(n, p) = <<>>
  BY DEF Waiting
<1>17. Under(f) = Waiting(m, t) \o Under(g)
  <2>1. PICK r : r = Pieces(f)
    OBVIOUS
  <2>2. r \in Seq(Texts) /\ Len(r) = a /\ \A i \in 1..a : r[i] = Waiting(f.pushed[i].nleft, f.pushed[i].nextc)
    <3>1. \A i \in DOMAIN f.pushed : Fits(f.pushed[i].nleft, f.pushed[i].nextc)
      BY DEF ViewOk
    <3> QED
      BY <1>1, <2>1, <3>1, PiecesType
  <2>3. PICK v : v = Pieces(g)
    OBVIOUS
  <2>4. v \in Seq(Texts) /\ Len(v) = a - k /\ \A i \in 1..(a - k) : v[i] = Waiting(q[i].nleft, q[i].nextc)
    BY <1>6, <1>9, <1>11, <2>3, PiecesType
  <2>5. \A i \in 1..(k - 1) : r[i] = <<>>
    <3>1. \A i \in 1..(k - 1) : i \in 1..a /\ f.pushed[i].nleft \in Int /\ f.pushed[i].nleft <= 0
      BY <1>3, <1>4
    <3>2. \A i \in 1..(k - 1) : ~(f.pushed[i].nleft > 0)
      BY <3>1
    <3> QED
      BY <2>2, <3>1, <3>2 DEF Waiting
  <2>6. FlattenSeq(r) = FlattenSeq(From(r, k))
    <3>1. k - 1 \in 0..Len(r) /\ (k - 1) + 1 = k
      BY <1>3, <2>2
    <3>2. FlattenSeq(r) = FlattenSeq(From(r, (k - 1) + 1))
      BY <2>2, <2>5, <3>1, FlatSkips
    <3> QED
      BY <3>1, <3>2
  <2>7. k \in 1..(Len(r) + 1) /\ k + 1 \in 1..(Len(r) + 1) /\ k <= Len(r) /\ Len(r) + 1 - (k + 1) = a - k
    BY <1>3, <2>2
  <2>8. PICK z : z = From(r, k + 1)
    OBVIOUS
  <2>9. z \in Seq(Texts) /\ Len(z) = a - k /\ \A i \in 1..(a - k) : z[i] = r[(k + 1) + i - 1]
    <3>1. /\ z \in Seq(Texts) /\ Len(z) = Len(r) + 1 - (k + 1)
          /\ \A i \in 1..(Len(r) + 1 - (k + 1)) : z[i] = r[(k + 1) + i - 1]
      BY <2>2, <2>7, <2>8, FromFacts
    <3> QED
      BY <2>7, <3>1, Zenon
  <2>10. From(r, k) = <<r[k]>> \o z
    BY <2>2, <2>7, <2>8, FromFacts
  <2>11. \A i \in 1..(a - k) : z[i] = v[i]
    <3>1. \A i \in 1..(a - k) : (k + 1) + i - 1 = k + i /\ k + i \in 1..a
      BY <1>3
    <3>2. \A i \in 1..(a - k) : z[i] = r[k + i]
      BY <2>9, <3>1, Zenon
    <3>3. \A i \in 1..(a - k) : r[k + i] = Waiting(f.pushed[k + i].nleft, f.pushed[k + i].nextc)
      BY <2>2, <3>1, Zenon
    <3>4. \A i \in 1..(a - k) : q[i] = f.pushed[k + i]
      BY <1>6
    <3> QED
      BY <2>4, <3>2, <3>3, <3>4, Zenon
  <2>12. z = v
    BY <2>4, <2>9, <2>11, SeqEqual
  <2>13. r[k] = Waiting(m, t) /\ r[k] \in Texts
    BY <1>3, <2>2
  <2>14. FlattenSeq(<<r[k]>> \o z) = r[k] \o FlattenSeq(z)
    BY <2>9, <2>13, FlatCons
  <2> QED
    BY <2>1, <2>3, <2>6, <2>10, <2>12, <2>13, <2>14, Zenon DEF Under
<1>18. Holds(g, m, l, t) = Holds(f, n, l, p)
  <2>1. PICK w : w = Waiting(m, t)
    OBVIOUS
  <2>2. PICK u : u = Under(g)
    OBVIOUS
  <2>3. PICK b : b = Buffered(g, m, l, t)
    OBVIOUS
  <2>4. w \in Texts /\ u \in Texts /\ b \in Texts /\ Holds(g, m, l, t) = w \o (u \o b)
    BY <1>5, <1>9, <1>14, <2>1, <2>2, <2>3, HoldsType
  <2>5. Holds(f, n, l, p) = <<>> \o ((w \o u) \o b)
    <3>1. Holds(f, n, l, p) = Waiting(n, p) \o (Under(f) \o Buffered(f, n, l, p))
      BY HoldsType
    <3> QED
      BY <1>15, <1>16, <1>17, <2>1, <2>2, <2>3, <3>1, Zenon
  <2>6. (w \o u) \o b = w \o (u \o b) /\ (w \o u) \o b \in Texts
    BY <2>4, Associative, VisibleConcat, ZenonT(40)
  <2>7. <<>> \o ((w \o u) \o b) = (w \o u) \o b
    BY <2>6, ConcatEmptySeq DEF Texts
  <2> QED
    BY <2>4, <2>5, <2>6, <2>7, Zenon
<1> QED
  BY <1>5, <1>7, <1>9, <1>14, <1>18, Zenon

-----------------------------------------------------------------------------
(***************************************************************************)
(* Buffers.                                                                *)
(***************************************************************************)
LEMMA ScanFacts ==
    ASSUME NEW raw \in Texts, NEW i \in 1..Len(raw), raw[i] # "nul"
    PROVE  /\ Scan(raw).keep \in Texts /\ Scan(raw).keep # <<>> /\ Scan(raw).left \in Texts
           /\ Visible(raw) = Scan(raw).keep \o Visible(Scan(raw).left)
<1> DEFINE nl == {j \in 1..Len(raw) : raw[j] = "nl"}
           to == IF nl = {} THEN Len(raw) ELSE CHOOSE j \in nl : \A k \in nl : j <= k
<1>1. Len(raw) \in Nat /\ i \in 1..Len(raw)
  BY DEF Texts
<1>2. Scan(raw) = [keep |-> Visible(SubSeq(raw, 1, to)), left |-> From(raw, to + 1)]
  BY Zenon DEF Scan
<1>3. to \in 1..Len(raw) /\ \E j \in 1..to : raw[j] # "nul"
  <2>1. CASE nl = {}
    BY <1>1, <2>1
  <2>2. CASE nl # {}
    <3>1. nl \in SUBSET Nat
      BY <1>1
    <3>2. \E j \in nl : \A k \in nl : j <= k
      <4> HIDE DEF nl
      <4> QED
        BY <2>2, <3>1, LeastElement
    <3>3. to \in nl
      BY <2>2, <3>2
    <3>4. to \in 1..Len(raw) /\ raw[to] = "nl"
      BY <3>3
    <3> HIDE DEF to
    <3>5. to \in 1..to /\ raw[to] # "nul"
      BY <1>1, <3>4
    <3> QED
      BY <3>4, <3>5
  <2> QED
    BY <2>1, <2>2
<1> HIDE DEF to
<1>4. PICK a : a = SubSeq(raw, 1, to)
  OBVIOUS
<1>5. PICK b : b = From(raw, to + 1)
  OBVIOUS
<1>6. a \in Texts /\ Len(a) = to /\ \A j \in 1..to : a[j] = raw[j]
  <2>1. \A j \in 1..to : raw[j] \in InputChars
    BY <1>1, <1>3 DEF Texts
  <2>2. 1 \in Int /\ to \in Int /\ 1 <= to /\ to - 1 + 1 = to /\ \A j \in 1..to : 1 + j - 1 = j
    BY <1>1, <1>3
  <2>3. /\ a \in Texts /\ Len(a) = IF 1 <= to THEN to - 1 + 1 ELSE 0
        /\ \A j \in 1..(to - 1 + 1) : a[j] = raw[1 + j - 1]
    BY <1>4, <2>1, <2>2, SubSeqProperties DEF Texts
  <2> QED
    BY <2>2, <2>3
<1>7. b \in Texts /\ raw = a \o b
  <2>1. to + 1 \in 1..(Len(raw) + 1) /\ to \in 0..Len(raw)
    BY <1>1, <1>3
  <2>2. b \in Texts
    BY <1>5, <2>1, FromFacts DEF Texts
  <2>3. raw = a \o b
    BY <1>4, <1>5, <2>1, Split DEF Texts
  <2> QED
    BY <2>2, <2>3
<1>8. Visible(raw) = Visible(a) \o Visible(b)
  BY <1>6, <1>7, VisibleConcat
<1>9. Visible(a) \in Texts /\ Visible(a) # <<>>
  <2>1. PICK j \in 1..to : raw[j] # "nul"
    BY <1>3
  <2>2. j \in 1..Len(a) /\ a[j] # "nul"
    BY <1>6, <2>1
  <2> QED
    BY <1>6, <2>2, VisibleSome, VisibleType
<1>10. Scan(raw).keep = Visible(a) /\ Scan(raw).left = b
  BY <1>2, <1>4, <1>5
<1> QED
  BY <1>7, <1>8, <1>9, <1>10, Zenon

\* What a pgetc gives that returns c and leaves the input g with these
\* registers, if held was to be delivered.
Gives(held, c, g, n, l, p) ==
    /\ g \in Inputs /\ n \in Int /\ l \in Int /\ p \in Pointers /\ c \in InputChars \cup {EOF}
    /\ ViewOk(g, n, l, p) /\ LastOk(g, n, p, c)
    /\ c = EOF => held = <<>> /\ Holds(g, n, l, p) = <<>>
    /\ c # EOF => held = <<c>> \o Holds(g, n, l, p)

LEMMA DeliverGives ==
    ASSUME NEW f \in Inputs, f.hasbuf, f.pushed = <<>>,
           NEW keep \in Texts, keep # <<>>, NEW left \in Texts
    PROVE  Gives(keep \o Visible(left \o f.data), Head(keep), f, Len(keep) - 1, Len(left), At(keep \o left, 2))
<1>1. PICK m : m = Len(keep)
  OBVIOUS
<1>2. PICK l : l = Len(left)
  OBVIOUS
<1>3. m \in Nat /\ m > 0 /\ l \in Nat
  BY <1>1, <1>2, EmptySeq DEF Texts
<1>4. PICK text : text = keep \o left
  OBVIOUS
<1>5. text \in Texts /\ Len(text) = m + l /\ text[1] = keep[1]
  <2>1. /\ text \in Texts /\ Len(text) = m + l
        /\ \A i \in 1..(m + l) : text[i] = IF i <= m THEN keep[i] ELSE left[i - m]
    BY <1>1, <1>2, <1>4, ConcatProperties DEF Texts
  <2>2. 1 \in 1..(m + l) /\ 1 <= m
    BY <1>3
  <2> QED
    BY <2>1, <2>2
<1>6. PICK p : p = At(text, 1)
  OBVIOUS
<1>7. p \in Pointers /\ p.text = text /\ p.at = 1
  BY <1>5, <1>6 DEF At, Pointers
<1>8. Bottom(f, m, p) = [n |-> m, p |-> p] /\ f.pushed = <<>> /\ f.data \in Texts
  BY DEF Bottom, Inputs
<1>9. ViewOk(f, m, l, p)
  <2>1. Fits(m, p)
    BY <1>3, <1>5, <1>7 DEF Fits
  <2>2. BufferOk(f.data, l, [n |-> m, p |-> p])
    BY <1>3, <1>5, <1>7 DEF BufferOk
  <2>3. \A k \in DOMAIN f.pushed : Fits(f.pushed[k].nleft, f.pushed[k].nextc)
    BY <1>8
  <2> QED
    BY <1>8, <2>1, <2>2, <2>3 DEF ViewOk
<1>10. Waiting(m, p) = keep
  <2>1. 1 \in 1..Len(keep) /\ m \in 1..Len(keep) /\ 1 + m - 1 = m
    BY <1>1, <1>3
  <2>2. Waiting(m, p) = SubSeq(text, 1, 1 + m - 1)
    BY <1>3, <1>7, Zenon DEF Waiting
  <2>3. SubSeq(text, 1, m) = SubSeq(keep, 1, m)
    BY <1>4, <2>1, SubSeqOfConcat1 DEF Texts
  <2> QED
    BY <1>1, <2>1, <2>2, <2>3, SubSeqFull DEF Texts
<1>11. Under(f) = <<>>
  <2>1. Pieces(f) \in Seq(Texts) /\ Len(Pieces(f)) = 0
    BY <1>8, <1>9, PiecesType DEF ViewOk
  <2>2. Pieces(f) = <<>>
    BY <2>1, EmptySeq
  <2> QED
    BY <2>1, <2>2, FlatIs DEF Under
<1>12. Raw(f, m, l, p) = left
  <2>1. CASE l > 0
    <3>1. PICK b : b = Bottom(f, m, p)
      OBVIOUS
    <3>2. b.n = m /\ b.p = p
      BY <1>8, <3>1
    <3>3. Raw(f, m, l, p) = From(b.p.text, b.p.at + b.n)
      BY <1>3, <1>7, <1>9, <2>1, <3>1, RawFacts
    <3>4. Raw(f, m, l, p) = SubSeq(text, 1 + m, m + l)
      BY <1>5, <1>7, <3>2, <3>3 DEF From
    <3>5. /\ 1 + m \in (Len(keep) + 1)..(Len(keep) + Len(left))
          /\ m + l \in (Len(keep) + 1)..(Len(keep) + Len(left))
          /\ (1 + m) - Len(keep) = 1 /\ (m + l) - Len(keep) = Len(left)
      BY <1>1, <1>2, <1>3, <2>1
    <3>6. SubSeq(text, 1 + m, m + l) = SubSeq(left, (1 + m) - Len(keep), (m + l) - Len(keep))
      <4>1. PICK x : x = 1 + m
        OBVIOUS
      <4>2. PICK y : y = m + l
        OBVIOUS
      <4>3. x \in (Len(keep) + 1)..(Len(keep) + Len(left)) /\ y \in (Len(keep) + 1)..(Len(keep) + Len(left))
        BY <3>5, <4>1, <4>2
      <4>4. SubSeq(text, x, y) = SubSeq(left, x - Len(keep), y - Len(keep))
        BY <1>4, <4>3, SubSeqOfConcat2 DEF Texts
      <4> QED
        BY <4>1, <4>2, <4>4, Zenon
    <3>7. SubSeq(left, 1, Len(left)) = left
      BY SubSeqFull DEF Texts
    <3> QED
      BY <3>4, <3>5, <3>6, <3>7, Zenon
  <2>2. CASE l = 0
    <3>1. left = <<>>
      BY <1>2, <2>2, EmptySeq DEF Texts
    <3>2. Raw(f, m, l, p) = <<>>
      BY <1>3, <1>7, <1>9, <2>2, RawFacts
    <3> QED
      BY <3>1, <3>2
  <2> QED
    BY <1>3, <2>1, <2>2
<1>13. Holds(f, m, l, p) = keep \o Visible(left \o f.data)
  <2>1. Holds(f, m, l, p) = Waiting(m, p) \o (Under(f) \o Buffered(f, m, l, p))
    <3>1. m \in Int /\ l \in Int
      BY <1>3
    <3> QED
      BY <1>7, <1>9, <3>1, HoldsType, Zenon
  <2>2. Buffered(f, m, l, p) \in Texts
    <3>1. m \in Int /\ l \in Int
      BY <1>3
    <3> QED
      BY <1>7, <1>9, <3>1, HoldsType, Zenon
  <2>3. Buffered(f, m, l, p) = Visible(left \o f.data)
    BY <1>12, Zenon DEF Buffered
  <2>4. <<>> \o Buffered(f, m, l, p) = Buffered(f, m, l, p)
    BY <2>2, ConcatEmptySeq DEF Texts
  <2> QED
    BY <1>10, <1>11, <2>1, <2>3, <2>4, Zenon
<1>14. PICK c : c = Head(keep)
  OBVIOUS
<1>15. c = p.text[p.at] /\ Next1(p) = At(text, 2)
  <2>1. c = keep[1]
    BY <1>14 DEF Texts
  <2> QED
    BY <1>5, <1>6, <1>7, <2>1 DEF Next1, At
<1>16. /\ p.text[p.at] \in InputChars /\ Next1(p) \in Pointers
       /\ ViewOk(f, m - 1, l, Next1(p)) /\ LastOk(f, m - 1, Next1(p), p.text[p.at])
       /\ Holds(f, m, l, p) = <<p.text[p.at]>> \o Holds(f, m - 1, l, Next1(p))
  BY <1>3, <1>7, <1>9, TakeOne
<1>17. c # EOF /\ m - 1 \in Int /\ l \in Int
  BY <1>3, <1>15, <1>16 DEF InputChars
<1>18. Gives(keep \o Visible(left \o f.data), c, f, m - 1, l, At(text, 2))
  BY <1>13, <1>15, <1>16, <1>17, Zenon DEF Gives
<1> QED
  BY <1>1, <1>2, <1>4, <1>14, <1>18, Zenon

\* A pgetc that gives what it should.
Yields(held) ==
    \E c, g, n, l, p : Takes(c, g, n, l, p) /\ Gives(held, c, g, n, l, p)

LEMMA RefillYields ==
    ASSUME NEW f \in Inputs, f.hasbuf, f.pushed = <<>>, nextc \in Pointers, Refill(f)
    PROVE  Yields(Visible(f.data))
<1>1. f.data \in Texts /\ Len(f.data) \in Nat /\ DOMAIN f.data = 1..Len(f.data)
  BY DEF Inputs, Texts
<1>2. CASE /\ \A i \in DOMAIN f.data : f.data[i] = "nul"
           /\ Takes(EOF, [f EXCEPT !.data = <<>>], EofNleft, EofNleft, nextc)
  <2>1. Visible(f.data) = <<>>
    BY <1>1, <1>2, VisibleNuls
  <2>2. PICK g : g = [f EXCEPT !.data = <<>>]
    OBVIOUS
  <2>3. g \in Inputs /\ g.data = <<>> /\ g.pushed = <<>> /\ g.hasbuf
    BY <2>2, VisibleEmpty DEF Inputs
  <2>4. ViewOk(g, -99, -99, nextc) /\ LastOk(g, -99, nextc, EOF)
    <3>1. Bottom(g, -99, nextc) = [n |-> -99, p |-> nextc]
      BY <2>3 DEF Bottom
    <3>2. BufferOk(<<>>, -99, [n |-> -99, p |-> nextc])
      BY DEF BufferOk
    <3>3. Fits(-99, nextc) /\ \A k \in DOMAIN g.pushed : Fits(g.pushed[k].nleft, g.pushed[k].nextc)
      BY <2>3 DEF Fits
    <3>4. EOF \notin InputChars
      BY DEF InputChars
    <3> QED
      BY <2>3, <3>1, <3>2, <3>3, <3>4 DEF ViewOk, LastOk, EofNleft
  <2>5. Holds(g, -99, -99, nextc) = <<>>
    <3>1. -99 \in Int /\ ~(-99 > 0)
      OBVIOUS
    <3>2. Waiting(-99, nextc) = <<>>
      BY <3>1 DEF Waiting
    <3>3. Raw(g, -99, -99, nextc) = <<>>
      BY <2>3, <2>4, <3>1, RawFacts
    <3>4. Buffered(g, -99, -99, nextc) = <<>>
      <4>1. <<>> \o <<>> = <<>>
        BY VisibleEmpty, ConcatEmptySeq DEF Texts
      <4> QED
        BY <2>3, <3>3, <4>1, VisibleEmpty, Zenon DEF Buffered
    <3>5. Under(g) = <<>>
      <4>1. Pieces(g) \in Seq(Texts) /\ Len(Pieces(g)) = 0
        BY <2>3, <2>4, PiecesType DEF ViewOk
      <4>2. Pieces(g) = <<>>
        BY <4>1, EmptySeq
      <4> QED
        BY <4>1, <4>2, FlatIs DEF Under
    <3>6. <<>> \o <<>> = <<>>
      BY VisibleEmpty, ConcatEmptySeq DEF Texts
    <3> QED
      BY <3>2, <3>4, <3>5, <3>6, HoldsParts, Zenon
  <2>6. Gives(Visible(f.data), EOF, g, -99, -99, nextc)
    BY <2>1, <2>3, <2>4, <2>5 DEF Gives
  <2>7. Takes(EOF, g, -99, -99, nextc)
    BY <1>2, <2>2, Zenon DEF EofNleft
  <2> QED
    BY <2>6, <2>7, Zenon DEF Yields
<1>3. ASSUME NEW s \in 0..Len(f.data), NEW k \in 1..BufSize, s + k <= Len(f.data),
             \A i \in 1..s : f.data[i] = "nul",
             NEW i \in (s + 1)..(s + k), f.data[i] # "nul",
             Deliver([f EXCEPT !.data = From(@, s + k + 1)], Scan(SubSeq(f.data, s + 1, s + k)))
      PROVE  Yields(Visible(f.data))
  <2>1. PICK d : d = f.data
    OBVIOUS
  <2>2. PICK raw : raw = SubSeq(d, s + 1, s + k)
    OBVIOUS
  <2>3. PICK rest : rest = From(d, s + k + 1)
    OBVIOUS
  <2>4. PICK g : g = [f EXCEPT !.data = rest]
    OBVIOUS
  <2>5. s \in Nat /\ k \in Nat /\ k > 0 /\ d \in Texts /\ Len(d) \in Nat /\ s + k <= Len(d) /\ i \in Nat
    BY <1>1, <1>3, <2>1
  <2>6. rest \in Texts
    <3>1. s + k + 1 \in 1..(Len(d) + 1)
      BY <2>5
    <3> QED
      BY <2>3, <2>5, <3>1, FromFacts DEF Texts
  <2>7. raw \in Texts /\ Len(raw) = k /\ \A j \in 1..k : raw[j] = d[s + j]
    <3>1. \A j \in (s + 1)..(s + k) : d[j] \in InputChars
      BY <2>5 DEF Texts
    <3>2. PICK m : m = s + 1
      OBVIOUS
    <3>3. PICK n : n = s + k
      OBVIOUS
    <3>4. m \in Int /\ n \in Int /\ m <= n /\ n - m + 1 = k /\ \A j \in m..n : d[j] \in InputChars
      BY <2>5, <3>1, <3>2, <3>3
    <3>5. /\ raw \in Texts /\ Len(raw) = IF m <= n THEN n - m + 1 ELSE 0
          /\ \A j \in 1..(n - m + 1) : raw[j] = d[m + j - 1]
      BY <2>2, <3>2, <3>3, <3>4, SubSeqProperties DEF Texts
    <3>6. \A j \in 1..k : m + j - 1 = s + j
      BY <2>5, <3>2
    <3> QED
      BY <3>4, <3>5, <3>6
  <2>8. PICK front : front = SubSeq(d, 1, s)
    OBVIOUS
  <2>9. front \in Texts /\ Visible(front) = <<>>
    <3>1. \A j \in 1..s : d[j] \in InputChars /\ d[j] = "nul"
      BY <1>3, <2>1, <2>5 DEF Texts
    <3>2. 1 \in Int /\ s \in Int /\ s - 1 + 1 = s /\ (~(1 <= s) => s = 0) /\ \A j \in 1..s : 1 + j - 1 = j
      BY <2>5
    <3>3. /\ front \in Texts /\ Len(front) = IF 1 <= s THEN s - 1 + 1 ELSE 0
          /\ \A j \in 1..(s - 1 + 1) : front[j] = d[1 + j - 1]
      BY <2>8, <3>1, <3>2, SubSeqProperties DEF Texts
    <3>4. Len(front) = s /\ \A j \in 1..s : front[j] = "nul"
      BY <3>1, <3>2, <3>3
    <3> QED
      BY <3>3, <3>4, VisibleNuls
  <2>10. d = front \o (raw \o rest)
    <3>1. PICK m : m = s + 1
      OBVIOUS
    <3>2. PICK n : n = s + k
      OBVIOUS
    <3>3. d = front \o From(d, m)
      BY <2>5, <2>8, <3>1, Split DEF Texts
    <3>4. m \in 1..(Len(d) + 1) /\ n \in (m - 1)..Len(d) /\ Len(d) \in n..Len(d)
      BY <2>5, <3>1, <3>2
    <3>5. SubSeq(d, m, n) \o SubSeq(d, n + 1, Len(d)) = SubSeq(d, m, Len(d))
      BY <2>5, <3>4, ConcatAdjacentSubSeq DEF Texts
    <3>6. From(d, m) = raw \o rest
      BY <2>2, <2>3, <3>1, <3>2, <3>5, Zenon DEF From
    <3> QED
      BY <3>3, <3>6, Zenon
  <2>11. PICK keep : keep = Scan(raw).keep
    OBVIOUS
  <2>12. PICK left : left = Scan(raw).left
    OBVIOUS
  <2>13. keep \in Texts /\ keep # <<>> /\ left \in Texts /\ Visible(raw) = keep \o Visible(left)
    <3>1. i - s \in 1..Len(raw) /\ s + (i - s) = i
      BY <1>3, <2>5, <2>7
    <3>2. raw[i - s] # "nul"
      BY <1>3, <2>1, <2>7, <3>1
    <3> QED
      BY <2>7, <2>11, <2>12, <3>1, <3>2, ScanFacts
  <2>14. Visible(f.data) = keep \o Visible(left \o rest)
    <3>1. PICK v : v = Visible(rest)
      OBVIOUS
    <3>2. PICK w : w = Visible(left)
      OBVIOUS
    <3>3. v \in Texts /\ w \in Texts /\ Visible(left \o rest) = w \o v
      BY <2>6, <2>13, <3>1, <3>2, VisibleConcat, VisibleType
    <3>4. raw \o rest \in Texts /\ Visible(raw \o rest) = (keep \o w) \o v
      BY <2>6, <2>7, <2>13, <3>1, <3>2, VisibleConcat
    <3>5. Visible(d) = <<>> \o Visible(raw \o rest)
      BY <2>9, <2>10, <3>4, VisibleConcat
    <3>6. Visible(raw \o rest) \in Texts
      BY <3>4, VisibleType
    <3>7. Visible(d) = Visible(raw \o rest)
      BY <3>5, <3>6, ConcatEmptySeq DEF Texts
    <3>8. (keep \o w) \o v = keep \o (w \o v)
      BY <2>13, <3>3, Associative
    <3> QED
      BY <2>1, <3>3, <3>4, <3>7, <3>8, Zenon
  <2>15. g \in Inputs /\ g.hasbuf /\ g.pushed = <<>> /\ g.data = rest
    BY <2>4, <2>6 DEF Inputs
  <2>16. Gives(Visible(f.data), Head(keep), g, Len(keep) - 1, Len(left), At(keep \o left, 2))
    BY <2>13, <2>14, <2>15, DeliverGives
  <2>17. Takes(Head(keep), g, Len(keep) - 1, Len(left), At(keep \o left, 2))
    <3>1. [f EXCEPT !.data = From(@, s + k + 1)] = g
      BY <2>1, <2>3, <2>4
    <3>2. Scan(SubSeq(f.data, s + 1, s + k)) = Scan(raw)
      BY <2>1, <2>2
    <3>3. Deliver(g, Scan(raw))
      BY <1>3, <3>1, <3>2, Zenon
    <3> QED
      BY <2>11, <2>12, <3>3, Zenon DEF Deliver
  <2> QED
    BY <2>16, <2>17, Zenon DEF Yields
<1> QED
  BY <1>2, <1>3, Zenon DEF Refill

LEMMA BareHolds ==
    ASSUME NEW f \in Inputs, f.pushed = <<>>, NEW n \in Int, n <= 0, NEW l \in Int, NEW p \in Pointers,
           ViewOk(f, n, l, p)
    PROVE  Holds(f, n, l, p) = Visible(Raw(f, n, l, p) \o f.data)
<1>1. Waiting(n, p) = <<>>
  BY DEF Waiting
<1>2. Under(f) = <<>>
  <2>1. Pieces(f) \in Seq(Texts) /\ Len(Pieces(f)) = 0
    BY PiecesType DEF ViewOk
  <2>2. Pieces(f) = <<>>
    BY <2>1, EmptySeq
  <2> QED
    BY <2>1, <2>2, FlatIs DEF Under
<1>3. Buffered(f, n, l, p) \in Texts
  BY RawFacts
<1>4. <<>> \o <<>> = <<>> /\ <<>> \o Buffered(f, n, l, p) = Buffered(f, n, l, p)
  BY <1>3, VisibleEmpty, ConcatEmptySeq DEF Texts
<1> QED
  BY <1>1, <1>2, <1>4, HoldsParts, Zenon DEF Buffered

LEMMA FromBufferYields ==
    ASSUME NEW f \in Inputs, f.pushed = <<>>, NEW n \in Int, n <= 0, lleft \in Int, NEW p \in Pointers,
           ViewOk(f, n, lleft, p), nextc \in Pointers, NEW m, m = n - 1, FromBuffer(f, m, p)
    PROVE  Yields(Holds(f, n, lleft, p))
<1>1. Holds(f, n, lleft, p) = Visible(Raw(f, n, lleft, p) \o f.data)
  BY BareHolds
<1>2. Bottom(f, n, p) = [n |-> n, p |-> p] /\ Bottom(f, m, p) = [n |-> m, p |-> p]
  BY DEF Bottom
<1>3. Fits(n, p) /\ \A k \in DOMAIN f.pushed : Fits(f.pushed[k].nleft, f.pushed[k].nextc)
  BY DEF ViewOk
<1>4. f.data \in Texts
  BY DEF Inputs
<1>5. PICK raw : raw = From(p.text, p.at)
  OBVIOUS
<1>6. \/ n < 0 /\ lleft <= 0 /\ f.data = <<>>
      \/ n = 0 /\ lleft = 0
      \/ n = 0 /\ lleft > 0 /\ p.at \in 1..(Len(p.text) + 1)
      \/ ~f.hasbuf /\ f.data = <<>>
  <2>1. CASE f.hasbuf
    <3>1. BufferOk(f.data, lleft, [n |-> n, p |-> p])
      BY <1>2, <2>1 DEF ViewOk
    <3>2. p.at \in Nat /\ Len(p.text) \in Nat
      BY DEF Pointers, Texts
    <3> QED
      BY <3>1, <3>2 DEF BufferOk
  <2>2. CASE ~f.hasbuf
    BY <2>2 DEF ViewOk
  <2> QED
    BY <2>1, <2>2
<1>7. CASE m = EofNleft \/ ~f.hasbuf
  <2>1. f.data = <<>> /\ ~(f.hasbuf /\ lleft > 0)
    <3>1. ~f.hasbuf => f.data = <<>>
      BY DEF ViewOk
    <3> QED
      BY <1>6, <1>7, <3>1 DEF EofNleft
  <2>2. Fits(m, p)
    BY DEF Fits
  <2>3. f.hasbuf => BufferOk(f.data, lleft, [n |-> m, p |-> p])
    BY <1>7, <2>1 DEF BufferOk, EofNleft
  <2>4. ViewOk(f, m, lleft, p)
    BY <1>2, <1>3, <2>1, <2>2, <2>3 DEF ViewOk
  <2>5. LastOk(f, m, p, EOF)
    BY <1>7 DEF LastOk, InputChars
  <2>6. m \in Int /\ m <= 0
    OBVIOUS
  <2>7. <<>> \o <<>> = <<>>
    BY VisibleEmpty, ConcatEmptySeq DEF Texts
  <2>8. Holds(f, n, lleft, p) = <<>>
    <3>1. Raw(f, n, lleft, p) = <<>>
      BY <2>1, RawFacts
    <3> QED
      BY <1>1, <2>1, <2>7, <3>1, VisibleEmpty, Zenon
  <2>9. Holds(f, m, lleft, p) = <<>>
    <3>1. Raw(f, m, lleft, p) = <<>>
      BY <2>1, <2>4, <2>6, RawFacts
    <3>2. Holds(f, m, lleft, p) = Visible(Raw(f, m, lleft, p) \o f.data)
      BY <2>4, <2>6, BareHolds
    <3> QED
      BY <2>1, <2>7, <3>1, <3>2, VisibleEmpty, Zenon
  <2>10. Gives(Holds(f, n, lleft, p), EOF, f, m, lleft, p)
    BY <2>4, <2>5, <2>6, <2>8, <2>9 DEF Gives
  <2>11. Takes(EOF, f, m, lleft, p)
    BY <1>7, Zenon DEF FromBuffer
  <2> QED
    BY <2>10, <2>11, Zenon DEF Yields
<1>8. CASE m # EofNleft /\ f.hasbuf
  <2>1. Raw(f, n, lleft, p) \in Texts /\ (lleft <= 0 => Raw(f, n, lleft, p) = <<>>)
    <3>1. Raw(f, n, lleft, p) \in Texts
      BY RawFacts
    <3>2. lleft <= 0 => ~(f.hasbuf /\ lleft > 0)
      OBVIOUS
    <3>3. ~(f.hasbuf /\ lleft > 0) => Raw(f, n, lleft, p) = <<>>
      BY RawFacts
    <3> QED
      BY <3>1, <3>2, <3>3
  <2>2. lleft > 0 => Raw(f, n, lleft, p) = raw
    <3> SUFFICES ASSUME lleft > 0
                 PROVE  Raw(f, n, lleft, p) = raw
      OBVIOUS
    <3>1. n = 0
      BY <1>6, <1>8
    <3>2. PICK b : b = Bottom(f, n, p)
      OBVIOUS
    <3>3. Raw(f, n, lleft, p) = From(b.p.text, b.p.at + b.n)
      BY <1>8, <3>2, RawFacts
    <3>4. b.p = p /\ b.n = 0
      BY <1>2, <3>1, <3>2
    <3>5. p.at + 0 = p.at
      BY DEF Pointers
    <3> QED
      BY <1>5, <3>3, <3>4, <3>5, Zenon
  <2>3. raw = From(p.text, p.at) /\ ~(m = EofNleft \/ ~f.hasbuf)
    BY <1>5, <1>8
  <2>4. CASE lleft <= 0 \/ (\A i \in DOMAIN raw : raw[i] = "nul")
    <3>1. Refill(f)
      BY <2>3, <2>4, Zenon DEF FromBuffer
    <3>2. Yields(Visible(f.data))
      BY <1>8, <3>1, RefillYields
    <3>3. PICK r : r = Raw(f, n, lleft, p)
      OBVIOUS
    <3>4. Visible(r) = <<>>
      <4>1. CASE lleft <= 0
        BY <2>1, <3>3, <4>1, VisibleEmpty
      <4>2. CASE lleft > 0
        <5>1. r = raw /\ r \in Texts
          BY <2>1, <2>2, <3>3, <4>2
        <5>2. \A i \in 1..Len(r) : r[i] = "nul"
          <6>1. ~(lleft <= 0)
            BY <4>2
          <6>2. \A i \in DOMAIN raw : raw[i] = "nul"
            BY <2>4, <6>1
          <6> QED
            BY <5>1, <6>2 DEF Texts
        <5> QED
          BY <5>1, <5>2, VisibleNuls
      <4> QED
        BY <4>1, <4>2
    <3>5. Visible(r \o f.data) = <<>> \o Visible(f.data)
      BY <1>4, <2>1, <3>3, <3>4, VisibleConcat
    <3>6. <<>> \o Visible(f.data) = Visible(f.data)
      BY <1>4, VisibleType, ConcatEmptySeq DEF Texts
    <3> QED
      BY <1>1, <3>2, <3>3, <3>5, <3>6, Zenon
  <2>5. CASE ~(lleft <= 0 \/ (\A i \in DOMAIN raw : raw[i] = "nul"))
    <3>1. Deliver(f, Scan(raw))
      BY <2>3, <2>5, Zenon DEF FromBuffer
    <3>2. Raw(f, n, lleft, p) = raw /\ raw \in Texts
      BY <2>1, <2>2, <2>5
    <3>3. PICK i \in 1..Len(raw) : raw[i] # "nul"
      BY <2>5, <3>2 DEF Texts
    <3>4. PICK keep : keep = Scan(raw).keep
      OBVIOUS
    <3>5. PICK left : left = Scan(raw).left
      OBVIOUS
    <3>6. keep \in Texts /\ keep # <<>> /\ left \in Texts /\ Visible(raw) = keep \o Visible(left)
      BY <3>2, <3>3, <3>4, <3>5, ScanFacts
    <3>7. Visible(raw \o f.data) = keep \o Visible(left \o f.data)
      <4>1. PICK v : v = Visible(f.data)
        OBVIOUS
      <4>2. PICK w : w = Visible(left)
        OBVIOUS
      <4>3. v \in Texts /\ w \in Texts /\ Visible(left \o f.data) = w \o v
        BY <1>4, <3>6, <4>1, <4>2, VisibleConcat, VisibleType
      <4>4. Visible(raw \o f.data) = (keep \o w) \o v
        BY <1>4, <3>2, <3>6, <4>1, <4>2, VisibleConcat
      <4>5. (keep \o w) \o v = keep \o (w \o v)
        BY <3>6, <4>3, Associative
      <4> QED
        BY <4>3, <4>4, <4>5, Zenon
    <3>8. Gives(keep \o Visible(left \o f.data), Head(keep), f, Len(keep) - 1, Len(left), At(keep \o left, 2))
      BY <1>8, <3>6, DeliverGives
    <3>9. Gives(Holds(f, n, lleft, p), Head(keep), f, Len(keep) - 1, Len(left), At(keep \o left, 2))
      BY <1>1, <3>2, <3>7, <3>8, Zenon
    <3>10. Takes(Head(keep), f, Len(keep) - 1, Len(left), At(keep \o left, 2))
      BY <3>1, <3>4, <3>5, Zenon DEF Deliver
    <3> QED
      BY <3>9, <3>10, Zenon DEF Yields
  <2> QED
    BY <2>4, <2>5
<1> QED
  BY <1>7, <1>8

LEMMA PgetcYields ==
    ASSUME TypeOk, TopOk, Pgetc
    PROVE  Yields(expect[1])
<1>1. PICK f : f = pf[1]
  OBVIOUS
<1>2. f \in Inputs /\ Head(pf) = f /\ nleft \in Int /\ lleft \in Int /\ nextc \in Pointers
  BY <1>1, EmptySeq DEF TypeOk
<1>3. ViewOk(f, nleft, lleft, nextc) /\ expect[1] = Holds(f, nleft, lleft, nextc)
  BY <1>1 DEF TopOk
<1>4. f.pushed \in Seq(Saved) /\ Len(f.pushed) \in Nat /\ DOMAIN f.pushed = 1..Len(f.pushed)
  BY <1>2 DEF Inputs
<1>5. \A i \in 1..Len(f.pushed) : f.pushed[i].nleft \in Int
  <2>1. \A i \in 1..Len(f.pushed) : f.pushed[i] \in Saved
    BY <1>4
  <2> QED
    BY <2>1 DEF Saved
<1> DEFINE live == {k \in DOMAIN f.pushed : f.pushed[k].nleft > 0}
           k == CHOOSE i \in live : \A j \in live : i <= j
           all == Len(f.pushed)
<1>6. IF nleft > 0
      THEN Takes(nextc.text[nextc.at], f, nleft - 1, lleft, [nextc EXCEPT !.at = @ + 1])
      ELSE IF live # {}
           THEN Takes(f.pushed[k].nextc.text[f.pushed[k].nextc.at],
                      [f EXCEPT !.pushed = From(@, k + 1)],
                      f.pushed[k].nleft - 1, lleft,
                      [f.pushed[k].nextc EXCEPT !.at = @ + 1])
      ELSE IF all > 0
           THEN FromBuffer([f EXCEPT !.pushed = <<>>], f.pushed[all].nleft - 1, f.pushed[all].nextc)
      ELSE FromBuffer(f, nleft - 1, nextc)
  BY <1>2, Zenon DEF Pgetc
<1>7. CASE nleft > 0
  <2>1. PICK c : c = nextc.text[nextc.at]
    OBVIOUS
  <2>2. PICK q : q = Next1(nextc)
    OBVIOUS
  <2>3. /\ c \in InputChars /\ q \in Pointers /\ ViewOk(f, nleft - 1, lleft, q) /\ LastOk(f, nleft - 1, q, c)
        /\ Holds(f, nleft, lleft, nextc) = <<c>> \o Holds(f, nleft - 1, lleft, q)
    BY <1>2, <1>3, <1>7, <2>1, <2>2, TakeOne
  <2>4. c # EOF /\ nleft - 1 \in Int
    BY <1>2, <2>3 DEF InputChars
  <2>5. Gives(expect[1], c, f, nleft - 1, lleft, q)
    BY <1>2, <1>3, <2>3, <2>4, Zenon DEF Gives
  <2>6. Takes(c, f, nleft - 1, lleft, q)
    BY <1>6, <1>7, <2>1, <2>2, Zenon DEF Next1
  <2> QED
    BY <2>5, <2>6, Zenon DEF Yields
<1>8. CASE ~(nleft > 0) /\ live # {}
  <2>1. k \in live /\ \A j \in live : k <= j
    <3>1. live \in SUBSET Nat
      BY <1>4
    <3>2. \E i \in live : \A j \in live : i <= j
      <4> HIDE DEF live
      <4> QED
        BY <1>8, <3>1, LeastElement
    <3> HIDE DEF live
    <3> QED
      BY <3>2
  <2>2. PICK r : r = k
    OBVIOUS
  <2>3. r \in 1..Len(f.pushed) /\ f.pushed[r].nleft > 0 /\ \A j \in live : r <= j
    BY <1>4, <2>1, <2>2
  <2>4. \A i \in 1..(r - 1) : f.pushed[i].nleft <= 0
    <3> SUFFICES ASSUME NEW i \in 1..(r - 1)
                 PROVE  f.pushed[i].nleft <= 0
      OBVIOUS
    <3>1. i \in DOMAIN f.pushed /\ ~(r <= i) /\ i \in 1..Len(f.pushed)
      BY <1>4, <2>3
    <3>2. i \notin live
      BY <2>3, <3>1
    <3>3. ~(f.pushed[i].nleft > 0)
      BY <3>1, <3>2
    <3> QED
      BY <1>5, <3>1, <3>3
  <2>5. PICK g : g = Dropped(f, r)
    OBVIOUS
  <2>6. PICK m : m = f.pushed[r].nleft
    OBVIOUS
  <2>7. PICK t : t = f.pushed[r].nextc
    OBVIOUS
  <2>8. nleft <= 0
    BY <1>2, <1>8
  <2>9. g \in Inputs /\ m \in Int /\ t \in Pointers /\ ViewOk(g, m, lleft, t) /\ Holds(g, m, lleft, t) = expect[1]
    BY <1>2, <1>3, <2>3, <2>4, <2>5, <2>6, <2>7, <2>8, Drop
  <2>10. PICK c : c = t.text[t.at]
    OBVIOUS
  <2>11. PICK q : q = Next1(t)
    OBVIOUS
  <2>12. m > 0
    BY <2>3, <2>6
  <2>13. /\ c \in InputChars /\ q \in Pointers /\ ViewOk(g, m - 1, lleft, q) /\ LastOk(g, m - 1, q, c)
         /\ Holds(g, m, lleft, t) = <<c>> \o Holds(g, m - 1, lleft, q)
    BY <1>2, <2>9, <2>10, <2>11, <2>12, TakeOne
  <2>14. c # EOF /\ m - 1 \in Int
    BY <2>9, <2>13 DEF InputChars
  <2>15. Gives(expect[1], c, g, m - 1, lleft, q)
    BY <1>2, <2>9, <2>13, <2>14, Zenon DEF Gives
  <2>16. Takes(c, g, m - 1, lleft, q)
    <3> HIDE DEF live, k
    <3> QED
      BY <1>6, <1>8, <2>2, <2>5, <2>6, <2>7, <2>10, <2>11, Zenon DEF Next1, Dropped
  <2> QED
    BY <2>15, <2>16, Zenon DEF Yields
<1>9. CASE ~(nleft > 0) /\ live = {} /\ all > 0
  <2>1. PICK r : r = all
    OBVIOUS
  <2>2. r \in 1..Len(f.pushed) /\ \A i \in 1..Len(f.pushed) : f.pushed[i].nleft <= 0
    <3>1. \A i \in 1..Len(f.pushed) : ~(f.pushed[i].nleft > 0)
      BY <1>4, <1>9
    <3> QED
      BY <1>4, <1>5, <1>9, <2>1, <3>1
  <2>3. PICK g : g = Dropped(f, r)
    OBVIOUS
  <2>4. PICK m : m = f.pushed[r].nleft
    OBVIOUS
  <2>5. PICK t : t = f.pushed[r].nextc
    OBVIOUS
  <2>6. nleft <= 0 /\ \A i \in 1..(r - 1) : f.pushed[i].nleft <= 0
    <3>1. \A i \in 1..(r - 1) : i \in 1..Len(f.pushed)
      BY <1>4, <2>1
    <3> QED
      BY <1>2, <1>9, <2>2, <3>1
  <2>7. g \in Inputs /\ m \in Int /\ t \in Pointers /\ ViewOk(g, m, lleft, t) /\ Holds(g, m, lleft, t) = expect[1]
    BY <1>2, <1>3, <2>2, <2>3, <2>4, <2>5, <2>6, Drop
  <2>8. g = [f EXCEPT !.pushed = <<>>] /\ g.pushed = <<>>
    <3>1. r + 1 \in 1..(Len(f.pushed) + 1) /\ r + 1 = Len(f.pushed) + 1
      BY <1>4, <2>1
    <3>2. From(f.pushed, r + 1) = <<>>
      BY <1>4, <3>1, FromFacts
    <3>3. g = [f EXCEPT !.pushed = <<>>]
      BY <2>3, <3>2 DEF Dropped
    <3> QED
      BY <1>2, <3>3 DEF Inputs
  <2>9. m <= 0
    BY <2>2, <2>4
  <2>10. PICK d : d = m - 1
    OBVIOUS
  <2>11. FromBuffer(g, d, t)
    <3> HIDE DEF live, k
    <3> QED
      BY <1>6, <1>9, <2>1, <2>4, <2>5, <2>8, <2>10, Zenon
  <2>12. Yields(Holds(g, m, lleft, t))
    BY <1>2, <2>7, <2>8, <2>9, <2>10, <2>11, FromBufferYields
  <2> QED
    BY <2>7, <2>12, Zenon
<1>10. CASE ~(nleft > 0) /\ live = {} /\ ~(all > 0)
  <2>1. f.pushed = <<>>
    BY <1>4, <1>10, EmptySeq
  <2>2. PICK d : d = nleft - 1
    OBVIOUS
  <2>3. FromBuffer(f, d, nextc)
    <3> HIDE DEF live, k
    <3> QED
      BY <1>6, <1>10, <2>2, Zenon
  <2>4. nleft <= 0
    BY <1>2, <1>10
  <2>5. Yields(Holds(f, nleft, lleft, nextc))
    BY <1>2, <1>3, <2>1, <2>2, <2>3, <2>4, FromBufferYields
  <2> QED
    BY <1>3, <2>5, Zenon
<1> QED
  BY <1>7, <1>8, <1>9, <1>10

-----------------------------------------------------------------------------
(***************************************************************************)
(* The steps.                                                              *)
(***************************************************************************)
LEMMA NewHead ==
    ASSUME NEW S, NEW q \in Seq(S), q # <<>>, NEW x \in S
    PROVE  /\ q[1] \in S /\ Head(q) = q[1] /\ Tail(q) \in Seq(S)
           /\ <<x>> \o Tail(q) \in Seq(S) /\ Len(<<x>> \o Tail(q)) = Len(q) /\ <<x>> \o Tail(q) # <<>>
           /\ (<<x>> \o Tail(q))[1] = x /\ \A i \in 2..Len(q) : (<<x>> \o Tail(q))[i] = q[i]
<1>1. PICK n : n = Len(q)
  OBVIOUS
<1>2. n \in Nat /\ n >= 1 /\ q[1] \in S /\ Head(q) = q[1]
  BY <1>1, EmptySeq
<1>3. PICK t : t = Tail(q)
  OBVIOUS
<1>4. t \in Seq(S) /\ Len(t) = n - 1 /\ \A i \in 1..(n - 1) : t[i] = q[i + 1]
  BY <1>1, <1>3, HeadTailProperties
<1>5. PICK z : z = <<x>> \o t
  OBVIOUS
<1>6. <<x>> \in Seq(S) /\ Len(<<x>>) = 1 /\ <<x>>[1] = x
  OBVIOUS
<1>7. /\ z \in Seq(S) /\ Len(z) = 1 + (n - 1)
      /\ \A i \in 1..(1 + (n - 1)) : z[i] = IF i <= 1 THEN <<x>>[i] ELSE t[i - 1]
  BY <1>4, <1>5, <1>6, ConcatProperties
<1>8. 1 + (n - 1) = n /\ 1 \in 1..n /\ 1 <= 1
  BY <1>2
<1>9. \A i \in 2..n : i \in 1..n /\ ~(i <= 1) /\ i - 1 \in 1..(n - 1) /\ (i - 1) + 1 = i
  BY <1>2
<1>10. z[1] = x /\ Len(z) = n
  BY <1>6, <1>7, <1>8, Zenon
<1>11. \A i \in 2..n : z[i] = q[i]
  <2>1. \A i \in 2..n : z[i] = t[i - 1]
    BY <1>7, <1>8, <1>9, Zenon
  <2>2. \A i \in 2..n : t[i - 1] = q[(i - 1) + 1]
    BY <1>4, <1>9, Zenon
  <2> QED
    BY <1>9, <2>1, <2>2, Zenon
<1>12. z # <<>>
  BY <1>2, <1>7, <1>10
<1> QED
  BY <1>1, <1>2, <1>3, <1>4, <1>5, <1>7, <1>10, <1>11, <1>12, Zenon

LEMMA HeadTailOfCons ==
    ASSUME NEW c \in InputChars, NEW h \in Texts, NEW e, e = <<c>> \o h
    PROVE  e # <<>> /\ Tail(e) = h
<1>1. PICK n : n = Len(h)
  OBVIOUS
<1>2. n \in Nat /\ <<c>> \in Texts /\ Len(<<c>>) = 1
  BY <1>1 DEF Texts
<1>3. /\ e \in Texts /\ Len(e) = 1 + n
      /\ \A i \in 1..(1 + n) : e[i] = IF i <= 1 THEN <<c>>[i] ELSE h[i - 1]
  BY <1>1, <1>2, ConcatProperties DEF Texts
<1>4. e # <<>>
  BY <1>2, <1>3, EmptySeq DEF Texts
<1>5. PICK t : t = Tail(e)
  OBVIOUS
<1>6. t \in Texts /\ Len(t) = Len(e) - 1 /\ \A i \in 1..Len(t) : t[i] = e[i + 1]
  BY <1>3, <1>4, <1>5, HeadTailProperties DEF Texts
<1>7. Len(t) = n
  BY <1>2, <1>3, <1>6
<1>8. \A i \in 1..n : i + 1 \in 1..(1 + n) /\ ~(i + 1 <= 1) /\ (i + 1) - 1 = i
  BY <1>2
<1>9. \A i \in 1..n : t[i] = h[i]
  <2>1. \A i \in 1..n : t[i] = e[i + 1]
    BY <1>6, <1>7, Zenon
  <2>2. \A i \in 1..n : e[i + 1] = h[(i + 1) - 1]
    BY <1>3, <1>8, Zenon
  <2> QED
    BY <1>8, <2>1, <2>2, Zenon
<1>10. t = h
  BY <1>1, <1>6, <1>7, <1>9, SeqEqual DEF Texts
<1> QED
  BY <1>4, <1>5, <1>10

\* The inputs below the current one stay as they are.
LEMMA BelowKept ==
    ASSUME BelowOk, Len(pf') = Len(pf), \A i \in 2..Len(pf) : pf'[i] = pf[i] /\ expect'[i] = expect[i]
    PROVE  BelowOk'
BY DEF BelowOk

LEMMA TakesKeeps ==
    ASSUME InputInv, NEW c, NEW g, NEW n, NEW l, NEW p, Takes(c, g, n, l, p), Gives(expect[1], c, g, n, l, p)
    PROVE  InputInv'
<1>1. TypeOk /\ TopOk /\ BelowOk
  BY DEF InputInv
<1>2. /\ g \in Inputs /\ n \in Int /\ l \in Int /\ p \in Pointers /\ c \in InputChars \cup {EOF}
      /\ ViewOk(g, n, l, p) /\ LastOk(g, n, p, c)
      /\ c = EOF => expect[1] = <<>> /\ Holds(g, n, l, p) = <<>>
      /\ c # EOF => expect[1] = <<c>> \o Holds(g, n, l, p)
  BY Zenon DEF Gives
<1>3. /\ pf \in Seq(Inputs) /\ pf # <<>> /\ expect \in Seq(Texts) /\ Len(expect) = Len(pf) /\ expect # <<>>
      /\ last \in InputChars \cup {EOF, "none"} /\ line \in Texts
  <2>1. /\ pf \in Seq(Inputs) /\ pf # <<>> /\ expect \in Seq(Texts) /\ Len(expect) = Len(pf)
        /\ last \in InputChars \cup {EOF, "none"} /\ line \in Texts
    BY <1>1 DEF TypeOk
  <2>2. Len(pf) # 0
    BY <2>1, EmptySeq
  <2>3. expect # <<>>
    BY <2>1, <2>2, EmptySeq
  <2> QED
    BY <2>1, <2>3, Zenon
<1>4. /\ last' = c /\ nleft' = n /\ lleft' = l /\ nextc' = p
      /\ line' = IF c = EOF THEN line ELSE IF last = "nl" THEN <<c>> ELSE Append(line, c)
      /\ pf' = <<g>> \o Tail(pf)
      /\ expect' = IF c = EOF \/ Head(expect) = <<>> THEN expect
                   ELSE <<Tail(Head(expect))>> \o Tail(expect)
  BY Zenon DEF Takes
<1>5. PICK h : h = Holds(g, n, l, p)
  OBVIOUS
<1>6. h \in Texts
  BY <1>2, <1>5, HoldsType
<1>7. /\ pf' \in Seq(Inputs) /\ pf' # <<>> /\ Len(pf') = Len(pf) /\ pf'[1] = g
      /\ \A i \in 2..Len(pf) : pf'[i] = pf[i]
  BY <1>2, <1>3, <1>4, NewHead
<1>8. /\ expect' \in Seq(Texts) /\ Len(expect') = Len(expect) /\ expect'[1] = h
      /\ \A i \in 2..Len(expect) : expect'[i] = expect[i]
  <2>1. CASE c = EOF
    <3>1. expect' = expect /\ h = expect[1]
      BY <1>2, <1>4, <1>5, <2>1, Zenon
    <3> QED
      BY <1>3, <3>1
  <2>2. CASE c # EOF
    <3>1. c \in InputChars /\ expect[1] = <<c>> \o h
      BY <1>2, <1>5, <2>2
    <3>2. expect[1] # <<>> /\ Tail(expect[1]) = h
      BY <1>6, <3>1, HeadTailOfCons
    <3>3. Head(expect) = expect[1]
      BY <1>3, <1>6, NewHead
    <3>4. expect' = <<h>> \o Tail(expect)
      BY <1>4, <2>2, <3>2, <3>3, Zenon
    <3> QED
      BY <1>3, <1>6, <3>4, NewHead
  <2> QED
    BY <2>1, <2>2
<1>9. line' \in Texts
  <2>1. CASE c = EOF
    BY <1>3, <1>4, <2>1
  <2>2. CASE c # EOF
    <3>1. c \in InputChars
      BY <1>2, <2>2
    <3>2. <<c>> \in Texts
      BY <3>1 DEF Texts
    <3>3. Append(line, c) \in Texts
      BY <1>3, <3>1 DEF Texts
    <3>4. line' = <<c>> \/ line' = Append(line, c)
      BY <1>4, <2>2, Zenon
    <3> QED
      BY <3>2, <3>3, <3>4
  <2> QED
    BY <2>1, <2>2
<1>10. TypeOk'
  BY <1>2, <1>3, <1>4, <1>7, <1>8, <1>9 DEF TypeOk
<1>11. TopOk'
  <2>1. ViewOk(pf'[1], nleft', lleft', nextc') /\ LastOk(pf'[1], nleft', nextc', last')
    BY <1>2, <1>4, <1>7, Zenon
  <2>2. expect'[1] = Holds(pf'[1], nleft', lleft', nextc')
    BY <1>4, <1>5, <1>7, <1>8, Zenon
  <2>3. last' = EOF => expect'[1] = <<>>
    BY <1>2, <1>4, <1>5, <1>8, Zenon
  <2> QED
    BY <2>1, <2>2, <2>3, Zenon DEF TopOk
<1>12. BelowOk'
  BY <1>1, <1>3, <1>7, <1>8, BelowKept
<1> QED
  BY <1>10, <1>11, <1>12 DEF InputInv

LEMMA ReadKeeps ==
    ASSUME InputInv, Read
    PROVE  InputInv'
<1>1. Yields(expect[1])
  BY PgetcYields DEF InputInv, Read
<1>2. PICK c, g, n, l, p : Takes(c, g, n, l, p) /\ Gives(expect[1], c, g, n, l, p)
  BY <1>1, Zenon DEF Yields
<1> QED
  BY <1>2, TakesKeeps

LEMMA NothingTaken ==
    ASSUME NEW f, NEW n, NEW p
    PROVE  LastOk(f, n, p, "none")
BY DEF LastOk, InputChars, EOF

LEMMA Shape ==
    ASSUME TypeOk
    PROVE  /\ pf \in Seq(Inputs) /\ pf # <<>> /\ Len(pf) \in Nat /\ Len(pf) >= 1
           /\ pf[1] \in Inputs /\ Head(pf) = pf[1]
           /\ expect \in Seq(Texts) /\ Len(expect) = Len(pf) /\ expect # <<>>
           /\ expect[1] \in Texts /\ Head(expect) = expect[1]
           /\ nleft \in Int /\ lleft \in Int /\ nextc \in Pointers
           /\ last \in InputChars \cup {EOF, "none"} /\ line \in Texts
<1>1. /\ pf \in Seq(Inputs) /\ pf # <<>> /\ expect \in Seq(Texts) /\ Len(expect) = Len(pf)
      /\ nleft \in Int /\ lleft \in Int /\ nextc \in Pointers
      /\ last \in InputChars \cup {EOF, "none"} /\ line \in Texts
  BY DEF TypeOk
<1>2. Len(pf) \in Nat /\ Len(pf) >= 1
  BY <1>1, EmptySeq
<1>3. expect # <<>>
  BY <1>1, <1>2, EmptySeq
<1>4. pf[1] \in Inputs /\ Head(pf) = pf[1]
  BY <1>1, <1>2
<1>5. expect[1] \in Texts /\ Head(expect) = expect[1]
  <2>1. 1 \in 1..Len(expect)
    BY <1>1, <1>2
  <2> QED
    BY <1>1, <2>1
<1> QED
  BY <1>1, <1>2, <1>3, <1>4, <1>5, Zenon

LEMMA PungetcKeeps ==
    ASSUME InputInv, Pungetc
    PROVE  InputInv'
<1>1. TypeOk /\ TopOk /\ BelowOk
  BY DEF InputInv
<1>2. PICK f : f = pf[1]
  OBVIOUS
<1>3. /\ f \in Inputs /\ expect \in Seq(Texts) /\ expect # <<>> /\ expect[1] \in Texts /\ Head(expect) = expect[1]
      /\ nleft \in Int /\ lleft \in Int /\ nextc \in Pointers /\ last \in InputChars \cup {EOF, "none"}
      /\ Len(expect) = Len(pf)
  BY <1>1, <1>2, Shape
<1>4. ViewOk(f, nleft, lleft, nextc) /\ LastOk(f, nleft, nextc, last) /\ expect[1] = Holds(f, nleft, lleft, nextc)
  BY <1>1, <1>2 DEF TopOk
<1>5. /\ last # "none" /\ nextc.at > 0 /\ nleft' = nleft + 1 /\ nextc' = Back(nextc)
      /\ last' = "none" /\ line' = <<>> /\ pf' = pf /\ lleft' = lleft
      /\ expect' = IF last = EOF THEN expect ELSE <<<<last>> \o Head(expect)>> \o Tail(expect)
  BY Zenon DEF Pungetc, Back
<1>6. PICK x : x = expect'[1]
  OBVIOUS
<1>7. /\ Back(nextc) \in Pointers /\ ViewOk(f, nleft + 1, lleft, Back(nextc)) /\ x = Holds(f, nleft + 1, lleft, Back(nextc))
      /\ expect' \in Seq(Texts) /\ Len(expect') = Len(expect) /\ \A i \in 2..Len(expect) : expect'[i] = expect[i]
  <2>1. CASE last = EOF
    <3>1. expect' = expect
      BY <1>5, <2>1, Zenon
    <3>2. LastOk(f, nleft, nextc, EOF)
      BY <1>4, <2>1
    <3>3. /\ Back(nextc) \in Pointers /\ ViewOk(f, nleft + 1, lleft, Back(nextc))
          /\ Holds(f, nleft + 1, lleft, Back(nextc)) = Holds(f, nleft, lleft, nextc)
      BY <1>3, <1>4, <1>5, <3>2, PutBackEnd
    <3> QED
      BY <1>3, <1>4, <1>6, <3>1, <3>3, Zenon
  <2>2. CASE last # EOF
    <3>1. PICK c : c = last
      OBVIOUS
    <3>2. c \in InputChars /\ LastOk(f, nleft, nextc, c)
      BY <1>3, <1>4, <1>5, <2>2, <3>1
    <3>3. /\ Back(nextc) \in Pointers /\ ViewOk(f, nleft + 1, lleft, Back(nextc))
          /\ Holds(f, nleft + 1, lleft, Back(nextc)) = <<c>> \o Holds(f, nleft, lleft, nextc)
      BY <1>3, <1>4, <3>2, PutBack
    <3>4. PICK e : e = <<c>> \o expect[1]
      OBVIOUS
    <3>5. e \in Texts
      <4>1. <<c>> \in Texts
        BY <3>2 DEF Texts
      <4> QED
        BY <1>3, <3>4, <4>1, VisibleConcat
    <3>6. expect' = <<e>> \o Tail(expect)
      BY <1>3, <1>5, <2>2, <3>1, <3>4, Zenon
    <3>7. /\ expect' \in Seq(Texts) /\ Len(expect') = Len(expect) /\ expect'[1] = e
          /\ \A i \in 2..Len(expect) : expect'[i] = expect[i]
      BY <1>3, <3>5, <3>6, NewHead
    <3> QED
      BY <1>4, <1>6, <3>3, <3>4, <3>7, Zenon
  <2> QED
    BY <2>1, <2>2
<1>8. TypeOk'
  <2>1. nleft + 1 \in Int /\ <<>> \in Texts
    BY <1>3, VisibleEmpty
  <2> QED
    BY <1>1, <1>3, <1>5, <1>7, <2>1 DEF TypeOk
<1>9. TopOk'
  <2>1. LastOk(f, nleft + 1, Back(nextc), "none") /\ "none" # EOF
    BY NothingTaken DEF EOF
  <2> QED
    BY <1>2, <1>5, <1>6, <1>7, <2>1 DEF TopOk
<1>10. BelowOk'
  <2>1. Len(pf') = Len(pf) /\ \A i \in 2..Len(pf) : pf'[i] = pf[i] /\ expect'[i] = expect[i]
    BY <1>3, <1>5, <1>7
  <2> QED
    BY <1>1, <2>1, BelowKept
<1> QED
  BY <1>8, <1>9, <1>10 DEF InputInv

LEMMA PushStringKeeps ==
    ASSUME InputInv, PushString
    PROVE  InputInv'
<1>1. TypeOk /\ TopOk /\ BelowOk
  BY DEF InputInv
<1>2. PICK f : f = pf[1]
  OBVIOUS
<1>3. /\ f \in Inputs /\ expect \in Seq(Texts) /\ expect # <<>> /\ expect[1] \in Texts /\ Head(expect) = expect[1]
      /\ nleft \in Int /\ lleft \in Int /\ nextc \in Pointers /\ line \in Texts
      /\ Len(expect) = Len(pf) /\ pf \in Seq(Inputs) /\ Len(pf) \in Nat /\ Len(pf) >= 1 /\ pf # <<>>
  BY <1>1, <1>2, Shape
<1>4. ViewOk(f, nleft, lleft, nextc) /\ expect[1] = Holds(f, nleft, lleft, nextc)
  BY <1>1, <1>2 DEF TopOk
<1>5. /\ pf' = [pf EXCEPT ![1].pushed = <<[nextc |-> nextc, nleft |-> nleft]>> \o @]
      /\ nextc' = At(line, 1) /\ nleft' = Len(line) /\ last' = "none" /\ line' = <<>>
      /\ expect' = <<line \o Head(expect)>> \o Tail(expect) /\ lleft' = lleft
  BY Zenon DEF PushString
<1>6. PICK g : g = Pushed(f, nleft, nextc)
  OBVIOUS
<1>7. /\ g \in Inputs /\ At(line, 1) \in Pointers /\ ViewOk(g, Len(line), lleft, At(line, 1))
      /\ Holds(g, Len(line), lleft, At(line, 1)) = line \o Holds(f, nleft, lleft, nextc)
  BY <1>3, <1>4, <1>6, Push
<1>8. pf' = [pf EXCEPT ![1] = g]
  BY <1>2, <1>5, <1>6 DEF Pushed
<1>9. /\ pf' \in Seq(Inputs) /\ Len(pf') = Len(pf) /\ pf'[1] = g /\ pf' # <<>>
      /\ \A i \in 2..Len(pf) : pf'[i] = pf[i]
  <2>1. 1 \in 1..Len(pf) /\ \A i \in 2..Len(pf) : i \in 1..Len(pf) /\ i # 1
    BY <1>3
  <2>2. /\ pf' \in Seq(Inputs) /\ Len(pf') = Len(pf)
        /\ \A j \in 1..Len(pf) : pf'[j] = IF j = 1 THEN g ELSE pf[j]
    BY <1>3, <1>7, <1>8, <2>1, ExceptSeq
  <2>3. pf'[1] = g /\ \A i \in 2..Len(pf) : pf'[i] = pf[i]
    BY <2>1, <2>2, Zenon
  <2>4. pf' # <<>>
    BY <1>3, <2>2, EmptySeq
  <2> QED
    BY <2>2, <2>3, <2>4, Zenon
<1>10. PICK e : e = line \o expect[1]
  OBVIOUS
<1>11. /\ expect' \in Seq(Texts) /\ Len(expect') = Len(expect) /\ expect'[1] = e
       /\ \A i \in 2..Len(expect) : expect'[i] = expect[i]
  <2>1. e \in Texts
    BY <1>3, <1>10, VisibleConcat
  <2>2. expect' = <<e>> \o Tail(expect)
    BY <1>3, <1>5, <1>10, Zenon
  <2> QED
    BY <1>3, <2>1, <2>2, NewHead
<1>12. TypeOk'
  <2>1. Len(line) \in Int /\ <<>> \in Texts
    BY <1>3, VisibleEmpty DEF Texts
  <2> QED
    BY <1>3, <1>5, <1>7, <1>9, <1>11, <2>1 DEF TypeOk
<1>13. TopOk'
  <2>1. LastOk(g, Len(line), At(line, 1), "none") /\ "none" # EOF
    BY NothingTaken DEF EOF
  <2>2. e = Holds(g, Len(line), lleft, At(line, 1))
    BY <1>4, <1>7, <1>10, Zenon
  <2>3. /\ ViewOk(pf'[1], nleft', lleft', nextc') /\ LastOk(pf'[1], nleft', nextc', last')
        /\ expect'[1] = Holds(pf'[1], nleft', lleft', nextc')
    BY <1>5, <1>7, <1>9, <1>11, <2>1, <2>2, Zenon
  <2> QED
    BY <1>5, <2>1, <2>3, Zenon DEF TopOk
<1>14. BelowOk'
  BY <1>1, <1>3, <1>9, <1>11, BelowKept
<1> QED
  BY <1>12, <1>13, <1>14 DEF InputInv

\* What an input holds does not depend on the registers kept with it.
LEMMA OtherRegisters ==
    ASSUME NEW f, NEW g, g.data = f.data, g.hasbuf = f.hasbuf, g.pushed = f.pushed, NEW n, NEW l, NEW p
    PROVE  /\ ViewOk(g, n, l, p) <=> ViewOk(f, n, l, p)
           /\ Holds(g, n, l, p) = Holds(f, n, l, p)
<1>1. Bottom(g, n, p) = Bottom(f, n, p)
  BY DEF Bottom
<1>2. ViewOk(g, n, l, p) <=> ViewOk(f, n, l, p)
  BY <1>1 DEF ViewOk
<1>3. Buffered(g, n, l, p) = Buffered(f, n, l, p)
  BY <1>1, Zenon DEF Buffered, Raw
<1>4. Under(g) = Under(f)
  BY Zenon DEF Under, Pieces
<1> QED
  BY <1>2, <1>3, <1>4, HoldsParts, Zenon

NewInput(data, hasbuf) ==
    [data |-> data, hasbuf |-> hasbuf, pushed |-> <<>>, nleft |-> 0, lleft |-> 0, nextc |-> Nowhere]

LEMMA NewInputFacts ==
    ASSUME NEW data \in Texts, NEW hasbuf \in BOOLEAN
    PROVE  /\ NewInput(data, hasbuf) \in Inputs /\ NewInput(data, hasbuf).data = data
           /\ NewInput(data, hasbuf).hasbuf = hasbuf /\ NewInput(data, hasbuf).pushed = <<>>
           /\ Nowhere \in Pointers
<1>1. Nowhere \in Pointers
  BY VisibleEmpty DEF Nowhere, At, Pointers
<1>2. <<>> \in Seq(Saved)
  OBVIOUS
<1> QED
  BY <1>1, <1>2 DEF NewInput, Inputs

\* A file that has just been opened.
LEMMA FileHolds ==
    ASSUME NEW data \in Texts, NEW p \in Pointers
    PROVE  /\ ViewOk(NewInput(data, TRUE), 0, 0, p)
           /\ Holds(NewInput(data, TRUE), 0, 0, p) = Visible(data)
<1>1. PICK f : f = NewInput(data, TRUE)
  OBVIOUS
<1>2. f \in Inputs /\ f.data = data /\ f.hasbuf /\ f.pushed = <<>>
  BY <1>1, NewInputFacts
<1>3. Bottom(f, 0, p) = [n |-> 0, p |-> p]
  BY <1>2 DEF Bottom
<1>4. ViewOk(f, 0, 0, p)
  BY <1>2, <1>3 DEF ViewOk, BufferOk, Fits
<1>5. Raw(f, 0, 0, p) = <<>>
  <2>1. PICK b : b = Bottom(f, 0, p)
    OBVIOUS
  <2>2. 0 \in Int /\ ~(0 > 0)
    OBVIOUS
  <2> QED
    BY <1>2, <1>4, <2>1, <2>2, RawFacts, Zenon
<1>6. Holds(f, 0, 0, p) = Visible(<<>> \o data)
  <2>1. Holds(f, 0, 0, p) = Visible(Raw(f, 0, 0, p) \o f.data)
    BY <1>2, <1>4, BareHolds
  <2> QED
    BY <1>2, <1>5, <2>1, Zenon
<1>7. <<>> \o data = data
  BY ConcatEmptySeq DEF Texts
<1> QED
  BY <1>1, <1>4, <1>6, <1>7, Zenon

\* A string that is to be read.
LEMMA StringHolds ==
    ASSUME NEW string \in Texts, NEW l \in Int
    PROVE  /\ At(string, 1) \in Pointers /\ ViewOk(NewInput(<<>>, FALSE), Len(string), l, At(string, 1))
           /\ Holds(NewInput(<<>>, FALSE), Len(string), l, At(string, 1)) = string
<1>1. PICK f : f = NewInput(<<>>, FALSE)
  OBVIOUS
<1>2. f \in Inputs /\ f.data = <<>> /\ ~f.hasbuf /\ f.pushed = <<>>
  BY <1>1, VisibleEmpty, NewInputFacts
<1>3. PICK p : p = At(string, 1)
  OBVIOUS
<1>4. PICK n \in Nat : n = Len(string)
  BY DEF Texts
<1>5. p \in Pointers /\ p.text = string /\ p.at = 1
  BY <1>3 DEF At, Pointers
<1>6. ViewOk(f, n, l, p)
  BY <1>2, <1>4, <1>5 DEF ViewOk, Fits
<1>7. Waiting(n, p) = string
  <2>1. CASE n > 0
    <3>1. 1 + n - 1 = Len(string)
      BY <1>4
    <3>2. Waiting(n, p) = SubSeq(string, 1, 1 + n - 1)
      BY <1>5, <2>1 DEF Waiting
    <3> QED
      BY <3>1, <3>2, SubSeqFull DEF Texts
  <2>2. CASE n = 0
    <3>1. string = <<>>
      BY <1>4, <2>2, EmptySeq DEF Texts
    <3> QED
      BY <2>2, <3>1 DEF Waiting
  <2> QED
    BY <2>1, <2>2
<1>8. Under(f) = <<>>
  <2>1. Pieces(f) \in Seq(Texts) /\ Len(Pieces(f)) = 0
    BY <1>2, <1>6, PiecesType DEF ViewOk
  <2>2. Pieces(f) = <<>>
    BY <2>1, EmptySeq
  <2> QED
    BY <2>1, <2>2, FlatIs DEF Under
<1>9. Buffered(f, n, l, p) = <<>>
  <2>1. Raw(f, n, l, p) = <<>>
    BY <1>2, <1>5, <1>6, RawFacts
  <2>2. <<>> \o <<>> = <<>>
    BY VisibleEmpty, ConcatEmptySeq DEF Texts
  <2> QED
    BY <1>2, <2>1, <2>2, VisibleEmpty, Zenon DEF Buffered
<1>10. Holds(f, n, l, p) = string
  <2>1. string \o <<>> = string
    BY ConcatEmptySeq DEF Texts
  <2> QED
    BY <1>7, <1>8, <1>9, <2>1, HoldsParts, Zenon
<1> QED
  BY <1>1, <1>3, <1>4, <1>5, <1>6, <1>10, Zenon

LEMMA PushFileKeeps ==
    ASSUME InputInv, NEW data \in Texts, NEW hasbuf \in BOOLEAN, PushFile(data, hasbuf),
           NEW n \in Int, NEW l \in Int, NEW p \in Pointers, nleft' = n, lleft' = l, nextc' = p,
           NEW x \in Texts, expect' = <<x>> \o expect,
           ViewOk(NewInput(data, hasbuf), n, l, p), Holds(NewInput(data, hasbuf), n, l, p) = x
    PROVE  InputInv'
<1>1. TypeOk /\ TopOk /\ BelowOk
  BY DEF InputInv
<1>2. PICK f : f = pf[1]
  OBVIOUS
<1>3. /\ f \in Inputs /\ Head(pf) = f /\ expect \in Seq(Texts) /\ expect # <<>>
      /\ nleft \in Int /\ lleft \in Int /\ nextc \in Pointers
      /\ Len(expect) = Len(pf) /\ pf \in Seq(Inputs) /\ Len(pf) \in Nat /\ Len(pf) >= 1 /\ pf # <<>>
  BY <1>1, <1>2, Shape
<1>4. ViewOk(f, nleft, lleft, nextc) /\ expect[1] = Holds(f, nleft, lleft, nextc)
  BY <1>1, <1>2 DEF TopOk
<1>5. PICK z : z = Len(pf)
  OBVIOUS
<1>6. PICK g : g = NewInput(data, hasbuf)
  OBVIOUS
<1>7. PICK h : h = [f EXCEPT !.nleft = nleft, !.lleft = lleft, !.nextc = nextc]
  OBVIOUS
<1>8. pf' = <<g, h>> \o Tail(pf) /\ last' = "none" /\ line' = <<>>
  BY <1>3, <1>6, <1>7, Zenon DEF PushFile, NewInput
<1>9. g \in Inputs
  BY <1>6, NewInputFacts
<1>10. /\ h \in Inputs /\ h.data = f.data /\ h.hasbuf = f.hasbuf /\ h.pushed = f.pushed
       /\ h.nleft = nleft /\ h.lleft = lleft /\ h.nextc = nextc
  BY <1>3, <1>7 DEF Inputs
<1>11. /\ pf' \in Seq(Inputs) /\ Len(pf') = z + 1 /\ pf'[1] = g /\ pf'[2] = h
       /\ \A i \in 3..(z + 1) : pf'[i] = pf[i - 1]
  <2>1. PICK t : t = Tail(pf)
    OBVIOUS
  <2>2. t \in Seq(Inputs) /\ Len(t) = z - 1 /\ \A i \in 1..(z - 1) : t[i] = pf[i + 1]
    BY <1>3, <1>5, <2>1, HeadTailProperties
  <2>3. <<g, h>> \in Seq(Inputs) /\ Len(<<g, h>>) = 2 /\ <<g, h>>[1] = g /\ <<g, h>>[2] = h
    BY <1>9, <1>10
  <2>4. PICK w : w = <<g, h>> \o t
    OBVIOUS
  <2>5. /\ w \in Seq(Inputs) /\ Len(w) = 2 + (z - 1)
        /\ \A i \in 1..(2 + (z - 1)) : w[i] = IF i <= 2 THEN <<g, h>>[i] ELSE t[i - 2]
    BY <2>2, <2>3, <2>4, ConcatProperties
  <2>6. 2 + (z - 1) = z + 1 /\ 1 \in 1..(z + 1) /\ 2 \in 1..(z + 1) /\ 1 <= 2 /\ 2 <= 2
    BY <1>3, <1>5
  <2>7. \A i \in 3..(z + 1) : /\ i \in 1..(z + 1) /\ ~(i <= 2) /\ i - 2 \in 1..(z - 1) /\ (i - 2) + 1 = i - 1
    BY <1>3, <1>5
  <2>8. w[1] = g /\ w[2] = h /\ Len(w) = z + 1
    BY <2>3, <2>5, <2>6, Zenon
  <2>9. \A i \in 3..(z + 1) : w[i] = pf[i - 1]
    <3>1. \A i \in 3..(z + 1) : w[i] = t[i - 2]
      BY <2>5, <2>6, <2>7, Zenon
    <3>2. \A i \in 3..(z + 1) : t[i - 2] = pf[(i - 2) + 1]
      BY <2>2, <2>7, Zenon
    <3> QED
      BY <2>7, <3>1, <3>2, Zenon
  <2> QED
    BY <1>8, <2>1, <2>4, <2>5, <2>8, <2>9, Zenon
<1>12. /\ expect' \in Seq(Texts) /\ Len(expect') = z + 1 /\ expect'[1] = x
       /\ \A i \in 2..(z + 1) : expect'[i] = expect[i - 1]
  <2>1. <<x>> \in Seq(Texts) /\ Len(<<x>>) = 1 /\ <<x>>[1] = x
    OBVIOUS
  <2>2. PICK w : w = <<x>> \o expect
    OBVIOUS
  <2>3. /\ w \in Seq(Texts) /\ Len(w) = 1 + z
        /\ \A i \in 1..(1 + z) : w[i] = IF i <= 1 THEN <<x>>[i] ELSE expect[i - 1]
    BY <1>3, <1>5, <2>1, <2>2, ConcatProperties
  <2>4. 1 + z = z + 1 /\ 1 \in 1..(z + 1) /\ 1 <= 1 /\ \A i \in 2..(z + 1) : i \in 1..(z + 1) /\ ~(i <= 1)
    BY <1>3, <1>5
  <2>5. w[1] = x /\ Len(w) = z + 1 /\ \A i \in 2..(z + 1) : w[i] = expect[i - 1]
    BY <2>1, <2>3, <2>4, Zenon
  <2> QED
    BY <2>2, <2>3, <2>5, Zenon
<1>13. TypeOk'
  <2>1. pf' # <<>>
    BY <1>3, <1>5, <1>11, EmptySeq
  <2>2. <<>> \in Texts
    BY VisibleEmpty
  <2> QED
    BY <1>8, <1>11, <1>12, <2>1, <2>2 DEF TypeOk
<1>14. TopOk'
  <2>1. LastOk(g, n, p, "none") /\ "none" # EOF
    BY NothingTaken DEF EOF
  <2>2. ViewOk(g, n, l, p) /\ x = Holds(g, n, l, p)
    BY <1>6
  <2>3. /\ ViewOk(pf'[1], nleft', lleft', nextc') /\ LastOk(pf'[1], nleft', nextc', last')
        /\ expect'[1] = Holds(pf'[1], nleft', lleft', nextc')
    BY <1>8, <1>11, <1>12, <2>1, <2>2, Zenon
  <2> QED
    BY <1>8, <2>1, <2>3, Zenon DEF TopOk
<1>15. BelowOk'
  <2> SUFFICES ASSUME NEW i \in 2..(z + 1)
               PROVE  /\ ViewOk(pf'[i], pf'[i].nleft, pf'[i].lleft, pf'[i].nextc)
                      /\ expect'[i] = Holds(pf'[i], pf'[i].nleft, pf'[i].lleft, pf'[i].nextc)
    BY <1>11 DEF BelowOk
  <2>1. CASE i = 2
    <3>1. ViewOk(h, nleft, lleft, nextc) /\ Holds(h, nleft, lleft, nextc) = Holds(f, nleft, lleft, nextc)
      BY <1>4, <1>10, OtherRegisters
    <3>2. expect'[2] = expect[1]
      <4>1. 2 \in 2..(z + 1) /\ 2 - 1 = 1
        BY <1>3, <1>5
      <4> QED
        BY <1>12, <4>1, Zenon
    <3>3. expect'[2] = Holds(h, h.nleft, h.lleft, h.nextc) /\ ViewOk(h, h.nleft, h.lleft, h.nextc)
      BY <1>4, <1>10, <3>1, <3>2, Zenon
    <3> QED
      BY <1>11, <2>1, <3>3, Zenon
  <2>2. CASE i # 2
    <3>1. i \in 3..(z + 1) /\ i - 1 \in 2..z
      BY <1>3, <1>5, <2>2
    <3>2. pf'[i] = pf[i - 1] /\ expect'[i] = expect[i - 1]
      BY <1>11, <1>12, <3>1, Zenon
    <3> QED
      BY <1>1, <1>5, <3>1, <3>2 DEF BelowOk
  <2> QED
    BY <2>1, <2>2
<1> QED
  BY <1>13, <1>14, <1>15 DEF InputInv

LEMMA SetInputFileKeeps ==
    ASSUME InputInv, NEW data \in Contents, SetInputFile(data)
    PROVE  InputInv'
<1>1. data \in Texts
  BY DEF Texts
<1>2. /\ PushFile(data, TRUE) /\ nleft' = 0 /\ lleft' = 0 /\ nextc' = nextc
      /\ expect' = <<Visible(data)>> \o expect
  BY Zenon DEF SetInputFile
<1>3. nextc \in Pointers
  BY DEF InputInv, TypeOk
<1>4. Visible(data) \in Texts /\ TRUE \in BOOLEAN /\ 0 \in Int
  BY <1>1, VisibleType
<1>5. ViewOk(NewInput(data, TRUE), 0, 0, nextc) /\ Holds(NewInput(data, TRUE), 0, 0, nextc) = Visible(data)
  BY <1>1, <1>3, FileHolds
<1> QED
  BY <1>1, <1>2, <1>3, <1>4, <1>5, PushFileKeeps, Zenon

LEMMA SetInputStringKeeps ==
    ASSUME InputInv, NEW s \in Strings, SetInputString(s)
    PROVE  InputInv'
<1>1. s \in Texts /\ Len(s) \in Int
  BY DEF Texts
<1>2. /\ PushFile(<<>>, FALSE) /\ nleft' = Len(s) /\ nextc' = At(s, 1) /\ lleft' = lleft
      /\ expect' = <<s>> \o expect
  BY Zenon DEF SetInputString
<1>3. lleft \in Int
  BY DEF InputInv, TypeOk
<1>4. /\ At(s, 1) \in Pointers /\ ViewOk(NewInput(<<>>, FALSE), Len(s), lleft, At(s, 1))
      /\ Holds(NewInput(<<>>, FALSE), Len(s), lleft, At(s, 1)) = s
  BY <1>1, <1>3, StringHolds
<1>5. <<>> \in Texts /\ FALSE \in BOOLEAN
  BY VisibleEmpty
<1> QED
  BY <1>1, <1>2, <1>3, <1>4, <1>5, PushFileKeeps, Zenon

LEMMA PopFileKeeps ==
    ASSUME InputInv, PopFile
    PROVE  InputInv'
<1>1. TypeOk /\ TopOk /\ BelowOk
  BY DEF InputInv
<1>2. PICK z : z = Len(pf)
  OBVIOUS
<1>3. /\ expect \in Seq(Texts) /\ expect # <<>> /\ Len(expect) = z
      /\ pf \in Seq(Inputs) /\ z \in Nat /\ pf # <<>>
  BY <1>1, <1>2, Shape
<1>4. /\ z > 1 /\ pf' = Tail(pf) /\ nleft' = pf[2].nleft /\ lleft' = pf[2].lleft /\ nextc' = pf[2].nextc
      /\ last' = "none" /\ line' = <<>> /\ expect' = Tail(expect)
  BY <1>2, Zenon DEF PopFile
<1>5. pf' \in Seq(Inputs) /\ Len(pf') = z - 1 /\ \A i \in 1..(z - 1) : pf'[i] = pf[i + 1]
  BY <1>2, <1>3, <1>4, HeadTailProperties
<1>6. expect' \in Seq(Texts) /\ Len(expect') = z - 1 /\ \A i \in 1..(z - 1) : expect'[i] = expect[i + 1]
  BY <1>3, <1>4, HeadTailProperties
<1>7. pf'[1] = pf[2] /\ expect'[1] = expect[2] /\ pf[2] \in Inputs
  <2>1. 1 \in 1..(z - 1) /\ 1 + 1 = 2 /\ 2 \in 1..z
    BY <1>3, <1>4
  <2>2. pf[2] \in Inputs
    BY <1>2, <1>3, <2>1
  <2> QED
    BY <1>5, <1>6, <2>1, <2>2, Zenon
<1>8. /\ ViewOk(pf[2], pf[2].nleft, pf[2].lleft, pf[2].nextc)
      /\ expect[2] = Holds(pf[2], pf[2].nleft, pf[2].lleft, pf[2].nextc)
  <2>1. 2 \in 2..Len(pf)
    BY <1>2, <1>3, <1>4
  <2> QED
    BY <1>1, <2>1 DEF BelowOk
<1>9. TypeOk'
  <2>1. pf' # <<>>
    <3>1. z - 1 # 0
      BY <1>3, <1>4
    <3>2. Len(pf') # 0
      BY <1>5, <3>1, Zenon
    <3>3. ASSUME pf' = <<>>
          PROVE  Len(pf') = 0
      <4>1. Len(<<>>) = 0
        OBVIOUS
      <4> QED
        BY <3>3, <4>1, Zenon
    <3> QED
      BY <3>2, <3>3, Zenon
  <2>2. <<>> \in Texts
    BY VisibleEmpty
  <2>3. nleft' \in Int /\ lleft' \in Int /\ nextc' \in Pointers
    BY <1>4, <1>7 DEF Inputs
  <2> QED
    BY <1>4, <1>5, <1>6, <2>1, <2>2, <2>3 DEF TypeOk
<1>10. TopOk'
  <2>1. LastOk(pf[2], pf[2].nleft, pf[2].nextc, "none") /\ "none" # EOF
    BY NothingTaken DEF EOF
  <2>2. /\ ViewOk(pf'[1], nleft', lleft', nextc') /\ LastOk(pf'[1], nleft', nextc', last')
        /\ expect'[1] = Holds(pf'[1], nleft', lleft', nextc')
    BY <1>4, <1>7, <1>8, <2>1, Zenon
  <2> QED
    BY <1>4, <2>1, <2>2, Zenon DEF TopOk
<1>11. BelowOk'
  <2> SUFFICES ASSUME NEW i \in 2..(z - 1)
               PROVE  /\ ViewOk(pf'[i], pf'[i].nleft, pf'[i].lleft, pf'[i].nextc)
                      /\ expect'[i] = Holds(pf'[i], pf'[i].nleft, pf'[i].lleft, pf'[i].nextc)
    BY <1>5 DEF BelowOk
  <2>1. i \in 1..(z - 1) /\ i + 1 \in 2..Len(pf)
    BY <1>2, <1>3
  <2>2. pf'[i] = pf[i + 1] /\ expect'[i] = expect[i + 1]
    BY <1>5, <1>6, <2>1, Zenon
  <2> QED
    BY <1>1, <2>1, <2>2 DEF BelowOk
<1> QED
  BY <1>9, <1>10, <1>11 DEF InputInv

LEMMA InputInitially ==
    ASSUME InputInit
    PROVE  InputInv
<1>1. PICK data \in Contents :
          /\ pf = <<[data |-> data, hasbuf |-> TRUE, pushed |-> <<>>,
                     nleft |-> 0, lleft |-> 0, nextc |-> Nowhere]>>
          /\ nleft = 0 /\ lleft = 0 /\ nextc = Nowhere /\ last = "none" /\ line = <<>>
          /\ expect = <<Visible(data)>>
  BY Zenon DEF InputInit
<1>2. data \in Texts
  BY DEF Texts
<1>3. PICK f : f = NewInput(data, TRUE)
  OBVIOUS
<1>4. pf = <<f>> /\ expect = <<Visible(data)>>
  BY <1>1, <1>3, Zenon DEF NewInput
<1>5. f \in Inputs /\ Nowhere \in Pointers /\ Visible(data) \in Texts /\ <<>> \in Texts
  BY <1>2, <1>3, NewInputFacts, VisibleType, VisibleEmpty
<1>6. ViewOk(f, 0, 0, Nowhere) /\ Holds(f, 0, 0, Nowhere) = Visible(data)
  BY <1>2, <1>3, <1>5, FileHolds
<1>7. /\ pf \in Seq(Inputs) /\ pf # <<>> /\ expect \in Seq(Texts) /\ Len(expect) = 1 /\ Len(pf) = 1
      /\ pf[1] = f /\ expect[1] = Visible(data)
  BY <1>4, <1>5
<1>8. TypeOk
  BY <1>1, <1>5, <1>7 DEF TypeOk
<1>9. TopOk
  <2>1. LastOk(f, 0, Nowhere, "none") /\ "none" # EOF
    BY NothingTaken DEF EOF
  <2>2. /\ ViewOk(pf[1], nleft, lleft, nextc) /\ LastOk(pf[1], nleft, nextc, last)
        /\ expect[1] = Holds(pf[1], nleft, lleft, nextc)
    BY <1>1, <1>6, <1>7, <2>1, Zenon
  <2> QED
    BY <1>1, <2>1, <2>2, Zenon DEF TopOk
<1>10. BelowOk
  BY <1>7 DEF BelowOk
<1> QED
  BY <1>8, <1>9, <1>10 DEF InputInv

LEMMA InputInvMeans ==
    ASSUME InputInv
    PROVE  InputDelivered
<1>1. TypeOk /\ TopOk /\ BelowOk
  BY DEF InputInv
<1>2. pf \in Seq(Inputs) /\ Len(pf) \in Nat /\ Head(expect) = expect[1]
  BY <1>1, Shape
<1>3. expect[1] = Holds(pf[1], nleft, lleft, nextc) /\ (last = EOF => expect[1] = <<>>)
  BY <1>1 DEF TopOk
<1>4. ASSUME NEW i \in DOMAIN pf
      PROVE  expect[i] = IF i = 1 THEN Holds(pf[1], nleft, lleft, nextc)
                         ELSE Holds(pf[i], pf[i].nleft, pf[i].lleft, pf[i].nextc)
  <2>1. i = 1 \/ i \in 2..Len(pf)
    BY <1>2
  <2> QED
    BY <1>1, <1>3, <2>1 DEF BelowOk
<1> QED
  BY <1>2, <1>3, <1>4, Zenon DEF InputDelivered

\* No character that the shell's parser reads is lost, doubled or moved, and
\* the end comes after the last one (preadbuffer, pgetc, pungetc, pushstring,
\* popstring, pushfile, popfile): for files and strings of any length, buffers
\* of any size, and any number of inputs and of strings pushed back.
THEOREM InputIsDelivered == InputSpec => []InputDelivered
<1>1. InputInit => InputInv
  BY InputInitially
<1>2. ASSUME InputInv, [InputNext]_inputVars
      PROVE  InputInv'
  <2>1. CASE Read
    BY <1>2, <2>1, ReadKeeps
  <2>2. CASE Pungetc
    BY <1>2, <2>2, PungetcKeeps
  <2>3. CASE PushString
    BY <1>2, <2>3, PushStringKeeps
  <2>4. CASE PopFile
    BY <1>2, <2>4, PopFileKeeps
  <2>5. CASE \E data \in Contents : SetInputFile(data)
    BY <1>2, <2>5, SetInputFileKeeps
  <2>6. CASE \E s \in Strings : SetInputString(s)
    BY <1>2, <2>6, SetInputStringKeeps
  <2>7. CASE UNCHANGED inputVars
    BY <1>2, <2>7 DEF inputVars, InputInv, TypeOk, TopOk, BelowOk
  <2> QED
    BY <1>2, <2>1, <2>2, <2>3, <2>4, <2>5, <2>6, <2>7, Zenon DEF InputNext
<1>3. InputInv => InputDelivered
  BY InputInvMeans
<1> QED
  BY <1>1, <1>2, <1>3, PTL DEF InputSpec

=============================================================================
