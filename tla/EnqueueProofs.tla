--------------------------- MODULE EnqueueProofs ---------------------------
(***************************************************************************)
(* Proofs about the enqueue path, for any callers, ids and requests and    *)
(* any number of store errors and crashes: a validation request id has one *)
(* job, and every accepted caller was given it.  Of requests whose fields  *)
(* have no NUL, the hashed text can be decoded, so equal fingerprints mean *)
(* the same request.                                                       *)
(***************************************************************************)
EXTENDS Enqueue, SequenceTheorems, FiniteSetTheorems, WellFoundedInduction, TLAPS

USE ZenonT(30)

----------------------------------------------------------------------------
(* A set of naturals that has an element has a least one. *)
LEMMA LeastNatural ==
  ASSUME NEW T \in SUBSET Nat, T # {}
  PROVE  \E n \in T : \A m \in T : ~(m < n)
  <1> DEFINE R == OpToRel(<, Nat)
  <1>1. IsWellFoundedOn(R, Nat)
    BY NatLessThanWellFounded
  <1>2. \A m, n \in Nat : <<m, n>> \in R <=> m < n
    BY DEF OpToRel
  <1> HIDE DEF R
  <1>3. PICK n \in T : \A m \in T : ~(<<m, n>> \in R)
    BY <1>1, WFMin
  <1>4. QED
    BY <1>2, <1>3

(* The place where two texts part, as TextBefore finds it. *)
Parts(a, b, n) ==
  /\ n <= Len(b) /\ \A i \in 1..n : a[i] = b[i]
  /\ n < Len(b) /\ (n < Len(a) => a[n + 1] < b[n + 1])

(* Of two texts at most one is before the other. *)
LEMMA BeforeAsym ==
  ASSUME NEW a \in Text, NEW b \in Text, TextBefore(a, b)
  PROVE  a # b /\ ~TextBefore(b, a)
  <1> SUFFICES ASSUME a = b \/ TextBefore(b, a) PROVE FALSE
    OBVIOUS
  <1>1. PICK n \in 0..Len(a) : Parts(a, b, n)
    BY DEF TextBefore, Parts
  <1>0. Len(a) \in Nat /\ Len(b) \in Nat /\ (\A i \in 1..Len(a) : a[i] \in Nat) /\ (\A i \in 1..Len(b) : b[i] \in Nat)
    BY SMTT(30) DEF Text
  <1>2. a # b
    BY <1>0, <1>1, SMTT(30) DEF Parts
  <1>3. PICK m \in 0..Len(b) : Parts(b, a, m)
    BY <1>2 DEF TextBefore, Parts
  <1>4. CASE n < m
    BY <1>0, <1>1, <1>3, <1>4, SMTT(30) DEF Parts
  <1>5. CASE m < n
    BY <1>0, <1>1, <1>3, <1>5, SMTT(30) DEF Parts
  <1>6. CASE m = n
    BY <1>0, <1>1, <1>3, <1>6, SMTT(30) DEF Parts
  <1>7. QED
    BY <1>4, <1>5, <1>6, SMTT(30)

(* String order is transitive. *)
LEMMA BeforeTrans ==
  ASSUME NEW a \in Text, NEW b \in Text, NEW c \in Text, TextBefore(a, b), TextBefore(b, c)
  PROVE  TextBefore(a, c)
  <1>1. PICK n \in 0..Len(a) : Parts(a, b, n)
    BY DEF TextBefore, Parts
  <1>0. /\ Len(a) \in Nat /\ Len(b) \in Nat /\ Len(c) \in Nat
        /\ (\A i \in 1..Len(a) : a[i] \in Nat) /\ (\A i \in 1..Len(b) : b[i] \in Nat) /\ (\A i \in 1..Len(c) : c[i] \in Nat)
    BY SMTT(30) DEF Text
  <1>3. PICK m \in 0..Len(b) : Parts(b, c, m)
    BY DEF TextBefore, Parts
  <1>4. CASE n < m
    <2>1. b[n + 1] = c[n + 1] /\ \A i \in 1..n : a[i] = c[i]
      BY <1>0, <1>1, <1>3, <1>4, SMTT(30) DEF Parts
    <2>2. QED
      BY <1>0, <1>1, <1>3, <1>4, <2>1, SMTT(30) DEF TextBefore, Parts
  <1>5. CASE m < n
    <2>1. a[m + 1] = b[m + 1] /\ \A i \in 1..m : a[i] = c[i]
      BY <1>0, <1>1, <1>3, <1>5, SMTT(30) DEF Parts
    <2>2. QED
      BY <1>0, <1>1, <1>3, <1>5, <2>1, SMTT(30) DEF TextBefore, Parts
  <1>6. CASE m = n
    <2>1. \A i \in 1..n : a[i] = c[i]
      BY <1>0, <1>1, <1>3, <1>6 DEF Parts
    <2>2. n < Len(a) => a[n + 1] < c[n + 1]
      BY <1>0, <1>1, <1>3, <1>6, SMTT(30) DEF Parts
    <2>3. QED
      BY <1>0, <1>1, <1>3, <1>6, <2>1, <2>2 DEF TextBefore, Parts
  <1>7. QED
    BY <1>4, <1>5, <1>6, SMTT(30)

(* Of two texts one is before the other. *)
LEMMA BeforeTotal ==
  ASSUME NEW a \in Text, NEW b \in Text, a # b
  PROVE  TextBefore(a, b) \/ TextBefore(b, a)
  <1> DEFINE D == {n \in Nat : n >= Len(a) \/ n >= Len(b) \/ a[n + 1] # b[n + 1]}
  <1>0. Len(a) \in Nat /\ Len(b) \in Nat /\ (\A i \in 1..Len(a) : a[i] \in Nat) /\ (\A i \in 1..Len(b) : b[i] \in Nat)
    BY SMTT(30) DEF Text
  <1>1. D # {} /\ D \in SUBSET Nat
    BY <1>0, SMTT(30)
  <1>2. PICK n \in D : \A m \in D : ~(m < n)
    BY <1>1, LeastNatural
  <1>3. ASSUME NEW m \in Nat, m < n PROVE m < Len(a) /\ m < Len(b) /\ a[m + 1] = b[m + 1]
    <2>1. m \notin D
      BY <1>2, <1>3
    <2>2. QED
      BY <1>0, <2>1, SMTT(30)
  <1>4. n <= Len(a) /\ n <= Len(b) /\ \A i \in 1..n : a[i] = b[i]
    <2>1. Len(a) \in D /\ Len(b) \in D
      BY <1>0, SMTT(30)
    <2>2. ASSUME NEW i \in 1..n PROVE a[i] = b[i]
      <3>1. i - 1 \in Nat /\ i - 1 < n /\ (i - 1) + 1 = i
        BY SMTT(30)
      <3>2. QED
        BY <1>3, <3>1
    <2>3. QED
      BY <1>0, <1>2, <2>1, <2>2, SMTT(30)
  <1>5. CASE n = Len(a) /\ n = Len(b)
    <2>1. a \in Seq(Nat) /\ b \in Seq(Nat)
      BY DEF Text
    <2>2. a = b
      BY <1>4, <1>5, <2>1, SeqEqual
    <2>3. QED
      BY <2>2
  <1>6. CASE n = Len(a) /\ n < Len(b)
    BY <1>0, <1>4, <1>6, SMTT(30) DEF TextBefore
  <1>7. CASE n = Len(b) /\ n < Len(a)
    BY <1>0, <1>4, <1>7, SMTT(30) DEF TextBefore
  <1>8. CASE n < Len(a) /\ n < Len(b)
    <2>1. a[n + 1] < b[n + 1] \/ b[n + 1] < a[n + 1]
      BY <1>0, <1>2, <1>8, SMTT(30)
    <2>2. QED
      BY <1>0, <1>4, <1>8, <2>1, SMTT(30) DEF TextBefore
  <1>9. QED
    BY <1>0, <1>2, <1>4, <1>5, <1>6, <1>7, <1>8, SMTT(30)



(* A part of a finite set that lacks one of its elements is smaller. *)
LEMMA SmallerPart ==
  ASSUME NEW n \in Nat, NEW S \in SUBSET (1..n), NEW T \in SUBSET S, NEW x \in S, x \notin T
  PROVE  Cardinality(S) \in Nat /\ Cardinality(T) \in Nat /\ Cardinality(T) < Cardinality(S)
  <1>1. IsFiniteSet(1..n)
    BY FS_Interval, SMTT(30)
  <1>2. IsFiniteSet(S)
    BY <1>1, FS_Subset
  <1>3. IsFiniteSet(T) /\ Cardinality(T) <= Cardinality(S) /\ Cardinality(S) # Cardinality(T)
    BY <1>2, FS_Subset
  <1>4. Cardinality(S) \in Nat /\ Cardinality(T) \in Nat
    BY <1>2, <1>3, FS_CardinalityType
  <1>5. QED
    BY <1>3, <1>4, SMTT(30)

(***************************************************************************)
(* Every list can be put in order: the place of an element is the number   *)
(* of those before it, equal ones taken as they stand.                     *)
(***************************************************************************)
LEMMA SortExists ==
  ASSUME NEW s \in Seq(Text)
  PROVE  \E t \in Reordered(s) : InOrder(t)
  <1> DEFINE n == Len(s)
             L(k, i) == TextBefore(s[k], s[i]) \/ (s[k] = s[i] /\ k < i)
             below == [i \in 1..n |-> {k \in 1..n : L(k, i)}]
             rank == [i \in 1..n |-> Cardinality(below[i]) + 1]
  <1>1. n \in Nat /\ DOMAIN s = 1..n /\ \A i \in 1..n : s[i] \in Text
    BY SMTT(30) DEF Text
  <1>2. \A i, k \in 1..n : i # k => L(i, k) \/ L(k, i)
    BY <1>1, BeforeTotal, SMTT(30)
  <1>3. \A i \in 1..n : ~L(i, i)
    BY <1>1, BeforeAsym, SMTT(30)
  <1>4. \A i, k, m \in 1..n : L(i, k) /\ L(k, m) => L(i, m)
    <2>1. SUFFICES ASSUME NEW i \in 1..n, NEW k \in 1..n, NEW m \in 1..n, L(i, k), L(k, m) PROVE L(i, m)
      OBVIOUS
    <2>2. CASE s[i] = s[k] \/ s[k] = s[m]
      BY <1>1, <2>1, <2>2, SMTT(30)
    <2>3. CASE TextBefore(s[i], s[k]) /\ TextBefore(s[k], s[m])
      BY <1>1, <2>3, BeforeTrans
    <2>4. QED
      BY <2>1, <2>2, <2>3
  <1> HIDE DEF L
  <1>5. ASSUME NEW i \in 1..n PROVE below[i] \in SUBSET (1..n) /\ i \notin below[i] /\ \A k \in 1..n : k \in below[i] <=> L(k, i)
    BY <1>3
  <1> HIDE DEF below
  <1>6. ASSUME NEW i \in 1..n PROVE rank[i] \in 1..n /\ Cardinality(below[i]) \in Nat
    <2>1. Cardinality(1..n) = n
      BY <1>1, FS_Interval, SMTT(30)
    <2>2. Cardinality(below[i]) \in Nat /\ Cardinality(below[i]) < n
      BY <1>1, <1>5, <2>1, SmallerPart
    <2>3. QED
      BY <1>1, <2>2, SMTT(30)
  <1>7. ASSUME NEW i \in 1..n, NEW k \in 1..n, L(i, k) PROVE rank[i] < rank[k]
    <2>1. below[i] \in SUBSET below[k]
      BY <1>4, <1>5, <1>7
    <2>2. i \in below[k] /\ i \notin below[i] /\ below[k] \in SUBSET (1..n)
      BY <1>5, <1>7
    <2>3. Cardinality(below[i]) < Cardinality(below[k])
      BY <1>1, <2>1, <2>2, SmallerPart
    <2>4. QED
      BY <1>6, <2>3, SMTT(30)
  <1>8. rank \in [1..n -> 1..n]
    BY <1>6
  <1> HIDE DEF rank
  <1>9. ASSUME NEW i \in 1..n, NEW k \in 1..n, rank[i] = rank[k] PROVE i = k
    <2>1. rank[i] \in Int /\ rank[k] \in Int
      BY <1>8, SMTT(30)
    <2>2. ~(rank[i] < rank[k]) /\ ~(rank[k] < rank[i])
      BY <1>9, <2>1, SMTT(30)
    <2>3. QED
      BY <1>2, <1>7, <2>2
  <1> DEFINE I == 1..n
  <1>10. rank \in Injection(I, I)
    BY <1>8, <1>9 DEF Injection, IsInjective
  <1>11. IsFiniteSet(I)
    BY <1>1, FS_Interval, SMTT(30)
  <1> HIDE DEF I
  <1>12. rank \in Bijection(I, I)
    BY <1>10, <1>11, FS_Injection DEF Bijection
  <1>13. PICK p \in Bijection(I, I) : \A i \in I : rank[p[i]] = i
    <2>1. \A y \in I : \E x \in I : rank[x] = y
      BY <1>12 DEF Bijection, Surjection
    <2> DEFINE q == [y \in I |-> CHOOSE x \in I : rank[x] = y]
    <2>2. \A y \in I : q[y] \in I /\ rank[q[y]] = y
      BY <2>1
    <2>3. q \in [I -> I]
      BY <2>2
    <2> HIDE DEF q
    <2>4. q \in Injection(I, I)
      BY <2>2, <2>3, SMTT(30) DEF Injection, IsInjective
    <2>5. q \in Bijection(I, I)
      BY <1>11, <2>4, FS_Injection DEF Bijection
    <2>6. QED
      BY <2>2, <2>5
  <1>14. \A i \in I : p[i] \in I
    BY <1>13 DEF Bijection, Injection
  <1> DEFINE t == [i \in DOMAIN s |-> s[p[i]]]
  <1>15. t \in Reordered(s)
    BY <1>1, <1>13 DEF Reordered, I
  <1>16. ASSUME NEW i \in DOMAIN t, NEW k \in DOMAIN t, i < k PROVE t[i] = t[k] \/ TextBefore(t[i], t[k])
    <2>1. i \in I /\ k \in I /\ i \in Int /\ k \in Int
      BY <1>1, SMTT(30) DEF I
    <2>2. p[i] \in I /\ p[k] \in I /\ rank[p[i]] = i /\ rank[p[k]] = k
      BY <1>13, <1>14, <2>1
    <2>3. ~L(p[k], p[i])
      <3>1. SUFFICES ASSUME L(p[k], p[i]) PROVE FALSE
        OBVIOUS
      <3>2. k < i
        BY <1>7, <2>2, <3>1 DEF I
      <3>3. QED
        BY <1>16, <2>1, <3>2, SMTT(30)
    <2>4. L(p[i], p[k])
      <3>1. p[i] # p[k]
        BY <1>16, <2>1, <2>2, SMTT(30)
      <3>2. QED
        BY <1>2, <2>2, <2>3, <3>1 DEF I
    <2>5. s[p[i]] = s[p[k]] \/ TextBefore(s[p[i]], s[p[k]])
      BY <2>4 DEF L
    <2>6. QED
      BY <2>5
  <1>17. QED
    BY <1>15, <1>16 DEF InOrder

(* Where x stands in a list. *)
Places(s, x) == {i \in DOMAIN s : s[i] = x}

(* What sort.Strings returns: the same actions, each as often, in order. *)
LEMMA SortedProperties ==
  ASSUME NEW s \in Seq(Text)
  PROVE  /\ Sorted(s) \in Seq(Text) /\ Len(Sorted(s)) = Len(s) /\ InOrder(Sorted(s))
         /\ \A x : Cardinality(Places(Sorted(s), x)) = Cardinality(Places(s, x))
  <1> DEFINE t == Sorted(s)
             n == Len(s)
  <1>1. t \in Reordered(s) /\ InOrder(t)
    BY SortExists DEF Sorted
  <1> HIDE DEF t
  <1>2. n \in Nat /\ DOMAIN s = 1..n /\ \A i \in 1..n : s[i] \in Text
    BY SMTT(30)
  <1>3. PICK p \in Bijection(1..n, 1..n) : t = [i \in 1..n |-> s[p[i]]]
    BY <1>1, <1>2 DEF Reordered
  <1>4. \A i \in 1..n : p[i] \in 1..n
    BY <1>3 DEF Bijection, Injection
  <1>5. t \in Seq(Text) /\ Len(t) = n /\ DOMAIN t = 1..n
    <2>1. t \in [1..n -> Text]
      BY <1>2, <1>3, <1>4
    <2>2. QED
      BY <1>2, <2>1, SMTT(30)
  <1>6. ASSUME NEW x PROVE Cardinality(Places(t, x)) = Cardinality(Places(s, x))
    <2> DEFINE A == Places(t, x)
               B == Places(s, x)
               q == [i \in A |-> p[i]]
    <2>1. A = {i \in 1..n : s[p[i]] = x} /\ B = {i \in 1..n : s[i] = x}
      BY <1>2, <1>3, <1>5 DEF Places
    <2> HIDE DEF A, B
    <2>2. q \in [A -> B]
      BY <1>4, <2>1
    <2>3. \A i, k \in A : q[i] = q[k] => i = k
      BY <1>3, <2>1 DEF Bijection, Injection, IsInjective
    <2>4. \A y \in B : \E i \in A : q[i] = y
      <3>1. \A y \in 1..n : \E i \in 1..n : p[i] = y
        BY <1>3 DEF Bijection, Surjection
      <3>2. QED
        BY <2>1, <3>1
    <2> HIDE DEF q
    <2>5. q \in Bijection(A, B)
      BY <2>2, <2>3, <2>4 DEF Bijection, Injection, Surjection, IsInjective
    <2>6. IsFiniteSet(A)
      <3>1. IsFiniteSet(1..n)
        BY <1>2, FS_Interval, SMTT(30)
      <3>2. QED
        BY <2>1, <3>1, FS_Subset
    <2>7. Cardinality(A) = Cardinality(B)
      BY <2>5, <2>6, FS_Bijection DEF ExistsBijection
    <2>8. QED
      BY <2>7 DEF A, B
  <1>7. QED
    BY <1>1, <1>5, <1>6 DEF t

(* Where a list in order first differs from another, the lesser element is missing in it. *)
LEMMA FirstDifference ==
  ASSUME NEW n \in Nat, NEW t \in [1..n -> Text], NEW u \in [1..n -> Text], InOrder(u),
         NEW k \in 1..n, \A i \in 1..k - 1 : t[i] = u[i], TextBefore(t[k], u[k])
  PROVE  Cardinality(Places(t, t[k])) # Cardinality(Places(u, t[k]))
  <1> DEFINE A == Places(t, t[k])
             B == Places(u, t[k])
  <1>1. A \in SUBSET (1..n) /\ k \in A
    BY DEF Places
  <1>2. ASSUME NEW i \in B PROVE i \in A /\ i # k
    <2>1. i \in 1..n /\ u[i] = t[k]
      BY DEF Places
    <2>2. i # k
      BY <2>1, BeforeAsym
    <2>3. ~(k < i)
      <3>1. SUFFICES ASSUME k < i PROVE FALSE
        OBVIOUS
      <3>2. u[k] = u[i] \/ TextBefore(u[k], u[i])
        BY <2>1, <3>1 DEF InOrder
      <3>3. QED
        BY <2>1, <3>2, BeforeAsym
    <2>4. i \in 1..k - 1
      BY <2>1, <2>2, <2>3, SMTT(30)
    <2>5. QED
      BY <2>1, <2>2, <2>4 DEF Places
  <1> HIDE DEF A, B
  <1>3. B \in SUBSET A /\ k \notin B
    BY <1>2
  <1>4. Cardinality(A) \in Nat /\ Cardinality(B) \in Nat /\ Cardinality(B) < Cardinality(A)
    BY <1>1, <1>3, SmallerPart
  <1>5. QED
    BY <1>4, SMTT(30) DEF A, B

(* Two lists in order with the same elements are one. *)
LEMMA OrderUnique ==
  ASSUME NEW t \in Seq(Text), NEW u \in Seq(Text), InOrder(t), InOrder(u), Len(t) = Len(u),
         \A i \in DOMAIN t : Cardinality(Places(t, t[i])) = Cardinality(Places(u, t[i])),
         \A i \in DOMAIN u : Cardinality(Places(t, u[i])) = Cardinality(Places(u, u[i]))
  PROVE  t = u
  <1> DEFINE n == Len(t)
             D == {i \in 1..n : t[i] # u[i]}
  <1>1. /\ n \in Nat /\ DOMAIN t = 1..n /\ DOMAIN u = 1..n
        /\ t \in [1..n -> Text] /\ u \in [1..n -> Text]
    BY LenProperties
  <1>2. CASE D = {}
    BY <1>2, SeqEqual
  <1>3. CASE D # {}
    <2>1. D \in SUBSET Nat
      BY <1>1, SMTT(30)
    <2>2. PICK k \in D : \A m \in D : ~(m < k)
      BY <1>3, <2>1, LeastNatural
    <2>3. k \in 1..n /\ t[k] # u[k]
      BY <2>2
    <2>4. \A i \in 1..k - 1 : t[i] = u[i]
      <3>1. \A i \in 1..k - 1 : i \in 1..n /\ i < k
        BY <1>1, <2>3, SMTT(30)
      <3>2. QED
        BY <2>2, <3>1
    <2> HIDE DEF D, n
    <2>5. CASE TextBefore(t[k], u[k])
      <3>1. Cardinality(Places(t, t[k])) # Cardinality(Places(u, t[k]))
        BY <1>1, <2>3, <2>4, <2>5, FirstDifference
      <3>2. QED
        BY <1>1, <2>3, <3>1
    <2>6. CASE TextBefore(u[k], t[k])
      <3>1. \A i \in 1..k - 1 : u[i] = t[i]
        BY <2>4
      <3>2. Cardinality(Places(u, u[k])) # Cardinality(Places(t, u[k]))
        BY <1>1, <2>3, <2>6, <3>1, FirstDifference
      <3>3. QED
        BY <1>1, <2>3, <3>2
    <2>7. t[k] \in Text /\ u[k] \in Text
      BY <1>1, <2>3
    <2>8. QED
      BY <2>3, <2>5, <2>6, <2>7, BeforeTotal
  <1>4. QED
    BY <1>2, <1>3

(***************************************************************************)
(* FlattenSeq is defined by a recursive function: f[i] is the first i of   *)
(* the texts, one after the other.                                         *)
(***************************************************************************)
Running(f, s, m) == f = [i \in 1..m |-> IF i = 1 THEN s[i] ELSE f[i - 1] \o s[i]]

(* There is such a function. *)
LEMMA RunningExists ==
  ASSUME NEW s, NEW m \in Nat
  PROVE  \E f : Running(f, s, m)
  <1> DEFINE T == {n \in Nat : ~\E f : Running(f, s, n)}
  <1> SUFFICES ASSUME T # {} PROVE FALSE
    OBVIOUS
  <1>1. PICK n \in T : \A k \in T : ~(k < n)
    BY LeastNatural
  <1>2. n \in Nat /\ ~\E f : Running(f, s, n)
    BY <1>1
  <1>3. CASE n = 0
    <2> DEFINE f == [i \in 1..n |-> 0]
    <2>1. 1..n = {}
      BY <1>3, SMTT(30)
    <2>2. Running(f, s, n)
      BY <2>1 DEF Running
    <2>3. QED
      BY <1>2, <2>2
  <1>4. CASE n # 0
    <2>1. n - 1 \in Nat /\ n - 1 < n
      BY <1>2, <1>4, SMTT(30)
    <2>2. PICK g : Running(g, s, n - 1)
      BY <1>1, <2>1
    <2> DEFINE f == [i \in 1..n |-> IF i = n THEN IF i = 1 THEN s[i] ELSE g[i - 1] \o s[i] ELSE g[i]]
    <2>3. ASSUME NEW i \in 1..n PROVE f[i] = IF i = 1 THEN s[i] ELSE f[i - 1] \o s[i]
      <3>1. i # 1 => i - 1 \in 1..n /\ i - 1 # n /\ f[i - 1] = g[i - 1]
        BY SMTT(30)
      <3>2. CASE i = n
        BY <3>1, <3>2
      <3>3. CASE i # n
        <4>1. i \in 1..n - 1
          BY <1>2, <3>3, SMTT(30)
        <4>2. g[i] = IF i = 1 THEN s[i] ELSE g[i - 1] \o s[i]
          BY <2>2, <4>1 DEF Running
        <4>3. QED
          BY <3>1, <3>3, <4>2
      <3>4. QED
        BY <3>2, <3>3
    <2>4. f = [i \in 1..n |-> f[i]]
      OBVIOUS
    <2> HIDE DEF f
    <2>5. Running(f, s, n)
      BY <2>3, <2>4 DEF Running
    <2>6. QED
      BY <1>2, <2>5
  <1>5. QED
    BY <1>3, <1>4

(* What FlattenSeq returns. *)
LEMMA FlattenIsRunning ==
  ASSUME NEW s, Len(s) \in Nat, Len(s) # 0
  PROVE  \E f : Running(f, s, Len(s)) /\ FlattenSeq(s) = f[Len(s)]
  <1> DEFINE f == CHOOSE f : f = [i \in 1..Len(s) |-> IF i = 1 THEN s[i] ELSE f[i - 1] \o s[i]]
  <1>1. Running(f, s, Len(s))
    BY RunningExists DEF Running
  <1>2. FlattenSeq(s) = f[Len(s)]
    BY DEF FlattenSeq
  <1>3. QED
    BY <1>1, <1>2

(***************************************************************************)
(* What is written, field by field: ends[i] characters hold the first i    *)
(* fields, each followed by a NUL.                                         *)
(***************************************************************************)
Ends(s, w, ends) ==
  /\ ends \in [0..Len(s) -> Nat] /\ ends[0] = 0 /\ ends[Len(s)] = Len(w)
  /\ \A i \in 0..Len(s) : ends[i] <= Len(w)
  /\ \A i \in 1..Len(s) :
       /\ ends[i] = ends[i - 1] + Len(s[i]) + 1 /\ w[ends[i]] = Nul
       /\ \A k \in 1..Len(s[i]) : w[ends[i - 1] + k] = s[i][k]

(* One more field, after what is written already. *)
LEMMA OneMoreField ==
  ASSUME NEW p \in Text, NEW x \in Text
  PROVE  /\ p \o Append(x, Nul) \in Text /\ Len(p \o Append(x, Nul)) = Len(p) + Len(x) + 1
         /\ \A k \in 1..Len(p) : (p \o Append(x, Nul))[k] = p[k]
         /\ \A k \in 1..Len(x) : (p \o Append(x, Nul))[Len(p) + k] = x[k]
         /\ (p \o Append(x, Nul))[Len(p) + Len(x) + 1] = Nul
  <1> DEFINE y == Append(x, Nul)
  <1>1. y \in Text /\ Len(y) = Len(x) + 1 /\ (\A k \in 1..Len(x) : y[k] = x[k]) /\ y[Len(x) + 1] = Nul
    BY SMTT(30) DEF Text, Nul
  <1>2. Len(p) \in Nat /\ Len(x) \in Nat
    BY SMTT(30) DEF Text
  <1> HIDE DEF y
  <1>3. /\ p \o y \in Text /\ Len(p \o y) = Len(p) + Len(y)
        /\ \A k \in 1..Len(p) : (p \o y)[k] = p[k]
        /\ \A k \in 1..Len(y) : (p \o y)[Len(p) + k] = y[k]
    BY <1>1, SMTT(30) DEF Text
  <1>4. /\ p \o y \in Text /\ Len(p \o y) = Len(p) + Len(x) + 1
        /\ \A k \in 1..Len(p) : (p \o y)[k] = p[k]
        /\ \A k \in 1..Len(x) : (p \o y)[Len(p) + k] = x[k]
        /\ (p \o y)[Len(p) + Len(x) + 1] = Nul
    BY <1>1, <1>2, <1>3, SMTT(30)
  <1>5. QED
    BY <1>4 DEF y

(* The beginnings of what is written, up to the end of each field. *)
Beginnings(s, F) ==
  /\ F \in [0..Len(s) -> Text] /\ F[0] = << >>
  /\ \A i \in 1..Len(s) : F[i] = F[i - 1] \o Append(s[i], Nul)

(* What is written has such beginnings. *)
LEMMA WrittenBegins ==
  ASSUME NEW s \in Seq(Text), Len(s) # 0
  PROVE  \E F : Beginnings(s, F) /\ Written(s) = F[Len(s)]
  <1> DEFINE n == Len(s)
             u == [i \in DOMAIN s |-> Append(s[i], Nul)]
  <1>1. n \in Nat /\ DOMAIN s = 1..n /\ \A i \in 1..n : s[i] \in Text
    BY SMTT(30)
  <1>2. \A i \in 1..n : u[i] = Append(s[i], Nul) /\ u[i] \in Text
    BY <1>1, SMTT(30) DEF Text, Nul
  <1>3. u \in Seq(Text) /\ Len(u) = n
    BY <1>1, <1>2, SMTT(30)
  <1>4. Written(s) = FlattenSeq(u)
    BY DEF Written
  <1> HIDE DEF u, n
  <1>5. PICK f : Running(f, u, n) /\ FlattenSeq(u) = f[n]
    BY <1>1, <1>3, FlattenIsRunning DEF n
  <1> DEFINE F == [i \in 0..n |-> IF i = 0 THEN << >> ELSE f[i]]
  <1>6. F[0] = << >> /\ F[n] = f[n]
    BY <1>1, SMTT(30) DEF n
  <1>7. ASSUME NEW i \in 1..n PROVE i \in 0..n /\ i - 1 \in 0..n /\ F[i] = F[i - 1] \o Append(s[i], Nul)
    <2>1. f[i] = IF i = 1 THEN u[i] ELSE f[i - 1] \o u[i]
      BY <1>5 DEF Running
    <2>2. i \in 0..n /\ i - 1 \in 0..n /\ F[i] = f[i]
      BY <1>1, SMTT(30)
    <2>3. CASE i = 1
      <3>1. i - 1 = 0 /\ F[i - 1] = << >>
        BY <1>6, <2>3, SMTT(30)
      <3>2. u[i] = << >> \o u[i]
        BY <1>2, SMTT(30) DEF Text
      <3>3. QED
        BY <1>2, <2>1, <2>2, <2>3, <3>1, <3>2
    <2>4. CASE i # 1
      <3>1. F[i - 1] = f[i - 1]
        BY <2>2, <2>4, SMTT(30)
      <3>2. QED
        BY <1>2, <2>1, <2>2, <2>4, <3>1
    <2>5. QED
      BY <2>3, <2>4
  <1>8. F = [i \in 0..n |-> F[i]]
    OBVIOUS
  <1> HIDE DEF F
  <1>9. ASSUME NEW i \in 0..n PROVE F[i] \in Text
    <2> DEFINE T == {k \in 0..n : F[k] \notin Text}
    <2> SUFFICES ASSUME T # {} PROVE FALSE
      OBVIOUS
    <2>1. T \in SUBSET Nat
      BY <1>1, SMTT(30)
    <2>2. PICK k \in T : \A m \in T : ~(m < k)
      BY <2>1, LeastNatural
    <2>3. k \in 0..n /\ F[k] \notin Text
      BY <2>2
    <2>4. k # 0
      <3>1. << >> \in Text
        BY SMTT(30) DEF Text
      <3>2. QED
        BY <1>6, <2>3, <3>1
    <2>5. k \in 1..n /\ k - 1 \in 0..n /\ k - 1 < k
      BY <1>1, <2>3, <2>4, SMTT(30)
    <2>6. F[k - 1] \in Text
      BY <2>2, <2>5
    <2>7. F[k] \in Text
      BY <1>1, <1>7, <2>5, <2>6, OneMoreField
    <2>8. QED
      BY <2>3, <2>7
  <1>10. F \in [0..n -> Text]
    BY <1>8, <1>9
  <1>11. Beginnings(s, F)
    BY <1>6, <1>7, <1>10 DEF Beginnings, n
  <1>12. QED
    BY <1>4, <1>5, <1>6, <1>11 DEF n

(* A beginning stays as it is to the end. *)
LEMMA BeginningsKept ==
  ASSUME NEW s \in Seq(Text), NEW F, Beginnings(s, F), NEW i \in 0..Len(s)
  PROVE  Len(F[i]) <= Len(F[Len(s)]) /\ \A k \in 1..Len(F[i]) : F[Len(s)][k] = F[i][k]
  <1> DEFINE n == Len(s)
             Kept(j) == Len(F[j]) <= Len(F[n]) /\ \A k \in 1..Len(F[j]) : F[n][k] = F[j][k]
             T == {d \in 0..n : ~Kept(n - d)}
  <1>1. n \in Nat /\ (\A j \in 1..n : s[j] \in Text) /\ \A j \in 0..n : F[j] \in Text /\ Len(F[j]) \in Nat
    BY SMTT(30) DEF Beginnings, Text
  <1>2. T = {}
    <2> SUFFICES ASSUME T # {} PROVE FALSE
      OBVIOUS
    <2>1. T \in SUBSET Nat
      BY <1>1, SMTT(30)
    <2> HIDE DEF Kept
    <2>2. PICK d \in T : \A m \in T : ~(m < d)
      BY <2>1, LeastNatural
    <2> DEFINE j == n - d
    <2>3. d \in 0..n /\ ~Kept(j)
      BY <2>2
    <2>4. d # 0
      <3>1. Kept(n)
        BY <1>1, SMTT(30) DEF Kept
      <3>2. d = 0 => n - d = n
        BY <1>1, SMTT(30)
      <3>3. QED
        BY <2>3, <3>1, <3>2
    <2>5. d - 1 \in 0..n /\ d - 1 < d /\ n - (d - 1) = j + 1 /\ j \in 0..n /\ j + 1 \in 1..n /\ (j + 1) - 1 = j
      BY <1>1, <2>3, <2>4, SMTT(30)
    <2>6. Kept(j + 1)
      BY <2>2, <2>5
    <2> HIDE DEF j, T
    <2>7. F[j + 1] = F[j] \o Append(s[j + 1], Nul)
      BY <2>5 DEF Beginnings, n
    <2>8. F[j] \in Text /\ s[j + 1] \in Text
      BY <1>1, <2>5
    <2> DEFINE p == F[j]
               x == s[j + 1]
               q == F[j + 1]
    <2>9. Len(q) = Len(p) + Len(x) + 1 /\ \A k \in 1..Len(p) : q[k] = p[k]
      <3>1. q = p \o Append(x, Nul) /\ p \in Text /\ x \in Text
        BY <2>7, <2>8
      <3> HIDE DEF p, x, q
      <3>2. /\ Len(p \o Append(x, Nul)) = Len(p) + Len(x) + 1
            /\ \A k \in 1..Len(p) : (p \o Append(x, Nul))[k] = p[k]
        BY <3>1, OneMoreField
      <3>3. QED
        BY <3>1, <3>2
    <2>10. Len(p) \in Nat /\ Len(x) \in Nat /\ Len(F[n]) \in Nat
      BY <1>1, <2>8, SMTT(30) DEF Text
    <2>11. Len(q) <= Len(F[n]) /\ \A k \in 1..Len(q) : F[n][k] = q[k]
      BY <2>6 DEF Kept
    <2>12. Len(p) <= Len(F[n]) /\ \A k \in 1..Len(p) : F[n][k] = p[k]
      <3> HIDE DEF p, x, q
      <3>1. Len(p) <= Len(F[n]) /\ \A k \in 1..Len(p) : k \in 1..Len(q)
        BY <2>9, <2>10, <2>11, SMTT(30)
      <3>2. QED
        BY <2>9, <2>11, <3>1
    <2>13. QED
      BY <2>3, <2>12 DEF Kept
  <1>3. Kept(i)
    <2>1. n - i \in 0..n /\ n - (n - i) = i
      BY <1>1, SMTT(30)
    <2>2. QED
      BY <1>2, <2>1
  <1>4. QED
    BY <1>3

(* What is written, as one sequence of characters. *)
LEMMA WrittenEnds ==
  ASSUME NEW s \in Seq(Text), Len(s) # 0
  PROVE  Written(s) \in Text /\ \E ends : Ends(s, Written(s), ends)
  <1> DEFINE n == Len(s)
             w == Written(s)
  <1>1. PICK F : Beginnings(s, F) /\ w = F[n]
    BY WrittenBegins
  <1> HIDE DEF w
  <1>2. n \in Nat /\ n # 0 /\ (\A i \in 1..n : s[i] \in Text /\ i \in 0..n /\ i - 1 \in 0..n) /\ \A i \in 0..n : F[i] \in Text
    BY <1>1, SMTT(30) DEF Beginnings
  <1>3. w \in Text
    BY <1>1, <1>2, SMTT(30)
  <1> DEFINE ends == [i \in 0..n |-> Len(F[i])]
  <1>4. ends \in [0..n -> Nat] /\ ends[0] = 0 /\ ends[n] = Len(w) /\ \A i \in 0..n : ends[i] = Len(F[i])
    <2>1. 0 \in 0..n /\ n \in 0..n /\ \A i \in 0..n : Len(F[i]) \in Nat
      BY <1>2, SMTT(30) DEF Text
    <2>2. F[0] = << >> /\ Len(<< >>) = 0
      BY <1>1, SMTT(30) DEF Beginnings
    <2>3. QED
      BY <1>1, <2>1, <2>2
  <1> HIDE DEF ends
  <1>5. \A i \in 0..n : Len(F[i]) <= Len(w) /\ \A k \in 1..Len(F[i]) : w[k] = F[i][k]
    <2>1. \A i \in 0..n : Len(F[i]) <= Len(F[n]) /\ \A k \in 1..Len(F[i]) : F[n][k] = F[i][k]
      BY <1>1, BeginningsKept
    <2> HIDE DEF n
    <2>2. QED
      BY <1>1, <2>1
  <1>6. ASSUME NEW i \in 1..n
        PROVE  /\ ends[i] = ends[i - 1] + Len(s[i]) + 1 /\ w[ends[i]] = Nul
               /\ \A k \in 1..Len(s[i]) : w[ends[i - 1] + k] = s[i][k]
    <2> DEFINE p == F[i - 1]
               x == s[i]
               q == F[i]
    <2>1. q = p \o Append(x, Nul) /\ p \in Text /\ x \in Text
      BY <1>1, <1>2 DEF Beginnings
    <2>2. ends[i] = Len(q) /\ ends[i - 1] = Len(p) /\ \A k \in 1..Len(q) : w[k] = q[k]
      BY <1>2, <1>4, <1>5
    <2> HIDE DEF p, x, q
    <2>3. /\ Len(q) = Len(p) + Len(x) + 1 /\ q[Len(p) + Len(x) + 1] = Nul
          /\ \A k \in 1..Len(x) : q[Len(p) + k] = x[k]
      <3>1. /\ Len(p \o Append(x, Nul)) = Len(p) + Len(x) + 1
            /\ (p \o Append(x, Nul))[Len(p) + Len(x) + 1] = Nul
            /\ \A k \in 1..Len(x) : (p \o Append(x, Nul))[Len(p) + k] = x[k]
        BY <2>1, OneMoreField
      <3>2. QED
        BY <2>1, <3>1
    <2>4. /\ Len(p) + Len(x) + 1 \in 1..Len(q)
          /\ \A k \in 1..Len(x) : Len(p) + k \in 1..Len(q)
      <3>1. Len(p) \in Nat /\ Len(x) \in Nat
        BY <2>1, SMTT(30) DEF Text
      <3>2. QED
        BY <2>3, <3>1, SMTT(30)
    <2>5. /\ ends[i] = ends[i - 1] + Len(x) + 1 /\ w[ends[i]] = Nul
          /\ \A k \in 1..Len(x) : w[ends[i - 1] + k] = x[k]
      BY <2>2, <2>3, <2>4
    <2>6. QED
      BY <2>5 DEF x
  <1>7. \A i \in 0..n : ends[i] <= Len(w)
    BY <1>4, <1>5
  <1>8. Ends(s, w, ends)
    BY <1>4, <1>6, <1>7 DEF Ends
  <1>9. QED
    BY <1>3, <1>8 DEF w

(* No text of the list has a NUL in it. *)
NoNul(s) == \A i \in 1..Len(s) : \A k \in 1..Len(s[i]) : s[i][k] # Nul

(* After e characters of w stands the field x, and its NUL. *)
FieldAt(w, e, x) == w[e + Len(x) + 1] = Nul /\ \A k \in 1..Len(x) : x[k] # Nul /\ w[e + k] = x[k]

(* At one place stands one field. *)
LEMMA FieldUnique ==
  ASSUME NEW w, NEW x \in Text, NEW y \in Text, NEW e \in Nat, FieldAt(w, e, x), FieldAt(w, e, y)
  PROVE  x = y
  <1>1. Len(x) \in Nat /\ Len(y) \in Nat /\ x \in Seq(Nat) /\ y \in Seq(Nat)
    BY SMTT(30) DEF Text
  <1>2. ~(Len(x) < Len(y))
    <2> SUFFICES ASSUME Len(x) < Len(y) PROVE FALSE
      OBVIOUS
    <2>1. Len(x) + 1 \in 1..Len(y) /\ e + (Len(x) + 1) = e + Len(x) + 1
      BY <1>1, SMTT(30)
    <2> DEFINE k == Len(x) + 1
    <2>2. w[e + k] = Nul
      BY <2>1 DEF FieldAt
    <2> HIDE DEF k
    <2>3. y[k] # Nul /\ w[e + k] = y[k]
      BY <2>1 DEF k, FieldAt
    <2>4. QED
      BY <2>2, <2>3
  <1>3. ~(Len(y) < Len(x))
    <2> SUFFICES ASSUME Len(y) < Len(x) PROVE FALSE
      OBVIOUS
    <2>1. Len(y) + 1 \in 1..Len(x) /\ e + (Len(y) + 1) = e + Len(y) + 1
      BY <1>1, SMTT(30)
    <2> DEFINE k == Len(y) + 1
    <2>2. w[e + k] = Nul
      BY <2>1 DEF FieldAt
    <2> HIDE DEF k
    <2>3. x[k] # Nul /\ w[e + k] = x[k]
      BY <2>1 DEF k, FieldAt
    <2>4. QED
      BY <2>2, <2>3
  <1>4. Len(x) = Len(y)
    BY <1>1, <1>2, <1>3, SMTT(30)
  <1>5. \A k \in 1..Len(x) : x[k] = y[k]
    BY <1>4 DEF FieldAt
  <1>6. QED
    BY <1>1, <1>4, <1>5, SeqEqual

(* The separator keeps fields apart that have no NUL in them. *)
LEMMA WrittenApart ==
  ASSUME NEW s \in Seq(Text), NEW t \in Seq(Text), Len(s) # 0, Len(t) # 0, NoNul(s), NoNul(t), Written(s) = Written(t)
  PROVE  s = t
  <1> DEFINE n == Len(s)
             m == Len(t)
             w == Written(s)
  <1>1. PICK f : Ends(s, w, f)
    BY WrittenEnds
  <1>2. PICK g : Ends(t, w, g)
    BY WrittenEnds
  <1>3. n \in Nat /\ m \in Nat /\ Len(w) \in Nat
    BY WrittenEnds, SMTT(30) DEF Text
  <1>4. (\A i \in 1..n : s[i] \in Text /\ Len(s[i]) \in Nat) /\ (\A i \in 1..m : t[i] \in Text /\ Len(t[i]) \in Nat)
    BY SMTT(30) DEF Text
  <1> HIDE DEF w
  <1> DEFINE T == {i \in Nat : i <= n /\ i <= m /\ ~(f[i] = g[i] /\ (i # 0 => s[i] = t[i]))}
  <1>5. T = {}
    <2> SUFFICES ASSUME T # {} PROVE FALSE
      OBVIOUS
    <2>1. PICK i \in T : \A k \in T : ~(k < i)
      BY LeastNatural
    <2>2. i \in Nat /\ i <= n /\ i <= m /\ ~(f[i] = g[i] /\ (i # 0 => s[i] = t[i]))
      BY <2>1
    <2>3. i # 0
      BY <1>1, <1>2, <2>2 DEF Ends
    <2>4. i - 1 \in Nat /\ i - 1 < i /\ i - 1 <= n /\ i - 1 <= m /\ i \in 1..n /\ i \in 1..m /\ i - 1 \in 0..n
      BY <1>3, <2>2, <2>3, SMTT(30)
    <2>5. f[i - 1] = g[i - 1]
      BY <2>1, <2>4
    <2> DEFINE x == s[i]
               y == t[i]
               e == f[i - 1]
    <2>6. e \in Nat /\ x \in Text /\ y \in Text
      BY <1>1, <1>4, <2>4 DEF Ends
    <2>7. f[i] = e + Len(x) + 1 /\ w[f[i]] = Nul /\ \A k \in 1..Len(x) : x[k] # Nul /\ w[e + k] = x[k]
      BY <1>1, <2>4 DEF Ends, NoNul
    <2>8. g[i] = e + Len(y) + 1 /\ w[g[i]] = Nul /\ \A k \in 1..Len(y) : y[k] # Nul /\ w[e + k] = y[k]
      <3>1. e = g[i - 1]
        BY <2>5
      <3>2. \A k \in 1..Len(y) : y[k] # Nul
        BY <2>4 DEF NoNul
      <3>3. g[i] = g[i - 1] + Len(y) + 1 /\ w[g[i]] = Nul /\ \A k \in 1..Len(y) : w[g[i - 1] + k] = y[k]
        BY <1>2, <2>4 DEF Ends
      <3> HIDE DEF y, e
      <3>4. QED
        BY <3>1, <3>2, <3>3
    <2> HIDE DEF x, y, e
    <2>9. x = y
      <3>1. FieldAt(w, e, x) /\ FieldAt(w, e, y)
        BY <2>7, <2>8 DEF FieldAt
      <3>2. QED
        BY <2>6, <3>1, FieldUnique
    <2>10. f[i] = g[i] /\ s[i] = t[i]
      BY <2>7, <2>8, <2>9 DEF x, y
    <2>11. QED
      BY <2>2, <2>10
  <1>6. \A i \in Nat : i <= n /\ i <= m => f[i] = g[i] /\ (i # 0 => s[i] = t[i])
    BY <1>5
  <1> HIDE DEF T
  <1>7. ~(n < m)
    <2> SUFFICES ASSUME n < m PROVE FALSE
      OBVIOUS
    <2>1. n + 1 \in 1..m /\ n + 1 \in 0..m /\ (n + 1) - 1 = n /\ n <= n /\ n <= m
      BY <1>3, SMTT(30)
    <2>2. g[n] = f[n] /\ f[n] = Len(w)
      BY <1>1, <1>3, <1>6, <2>1 DEF Ends
    <2>3. g[n + 1] = g[n] + Len(t[n + 1]) + 1 /\ g[n + 1] <= Len(w) /\ Len(t[n + 1]) \in Nat
      BY <1>2, <1>4, <2>1 DEF Ends
    <2>4. QED
      BY <1>3, <2>2, <2>3, SMTT(30)
  <1>8. ~(m < n)
    <2> SUFFICES ASSUME m < n PROVE FALSE
      OBVIOUS
    <2>1. m + 1 \in 1..n /\ m + 1 \in 0..n /\ (m + 1) - 1 = m /\ m <= n /\ m <= m
      BY <1>3, SMTT(30)
    <2>2. f[m] = g[m] /\ g[m] = Len(w)
      BY <1>2, <1>3, <1>6, <2>1 DEF Ends
    <2>3. f[m + 1] = f[m] + Len(s[m + 1]) + 1 /\ f[m + 1] <= Len(w) /\ Len(s[m + 1]) \in Nat
      BY <1>1, <1>4, <2>1 DEF Ends
    <2>4. QED
      BY <1>3, <2>2, <2>3, SMTT(30)
  <1>9. n = m
    BY <1>3, <1>7, <1>8, SMTT(30)
  <1>10. \A i \in 1..n : s[i] = t[i]
    <2>1. \A i \in 1..n : i \in Nat /\ i <= n /\ i # 0
      BY <1>3, SMTT(30)
    <2>2. QED
      BY <1>6, <1>9, <2>1
  <1>11. QED
    BY <1>9, <1>10, SeqEqual

(* What is hashed: the subject, the actions, the fixture set. *)
Fields(subject, actions, fixtures) == Append(subject \o actions, fixtures)

(* A list of fields, and its parts. *)
FieldsOf(f, x, s, u) ==
  /\ f \in Seq(Text) /\ Len(f) = Len(x) + Len(s) + 1 /\ f[Len(x) + Len(s) + 1] = u
  /\ \A i \in 1..Len(x) : f[i] = x[i]
  /\ \A i \in 1..Len(s) : f[Len(x) + i] = s[i]

(* The list that is hashed has these parts. *)
LEMMA FieldsAre ==
  ASSUME NEW x \in Seq(Text), NEW s \in Seq(Text), NEW u \in Text
  PROVE  FieldsOf(Fields(x, s, u), x, s, u)
  <1> DEFINE a == x \o s
  <1>0. Len(x) \in Nat /\ Len(s) \in Nat
    BY SMTT(30)
  <1>1. /\ a \in Seq(Text) /\ Len(a) = Len(x) + Len(s)
        /\ \A i \in 1..Len(x) : a[i] = x[i]
        /\ \A i \in 1..Len(s) : a[Len(x) + i] = s[i]
    BY SMTT(30)
  <1> HIDE DEF a
  <1>2. /\ Append(a, u) \in Seq(Text) /\ Len(Append(a, u)) = Len(a) + 1 /\ Append(a, u)[Len(a) + 1] = u
        /\ \A i \in 1..Len(a) : Append(a, u)[i] = a[i]
    BY <1>1, SMTT(30)
  <1>3. (\A i \in 1..Len(x) : i \in 1..Len(a)) /\ (\A i \in 1..Len(s) : Len(x) + i \in 1..Len(a))
    BY <1>0, <1>1, SMTT(30)
  <1>4. Fields(x, s, u) = Append(a, u)
    BY DEF Fields, a
  <1>5. FieldsOf(Append(a, u), x, s, u)
    BY <1>1, <1>2, <1>3 DEF FieldsOf
  <1>6. QED
    BY <1>4, <1>5

(* Two lists of fields with equally long subjects are told apart by each part. *)
LEMMA FieldsApart ==
  ASSUME NEW x \in Seq(Text), NEW y \in Seq(Text), Len(x) = Len(y),
         NEW s \in Seq(Text), NEW t \in Seq(Text), NEW u \in Text, NEW v \in Text,
         Fields(x, s, u) = Fields(y, t, v)
  PROVE  x = y /\ s = t /\ u = v
  <1> DEFINE a == Fields(x, s, u)
             m == Len(x)
  <1>0. m \in Nat /\ Len(s) \in Nat /\ Len(t) \in Nat
    BY SMTT(30)
  <1>1. FieldsOf(a, x, s, u) /\ FieldsOf(a, y, t, v)
    BY FieldsAre
  <1> HIDE DEF a
  <1>2. /\ Len(a) = m + Len(s) + 1 /\ a[m + Len(s) + 1] = u
        /\ (\A i \in 1..m : a[i] = x[i]) /\ (\A i \in 1..Len(s) : a[m + i] = s[i])
        /\ Len(a) = m + Len(t) + 1 /\ a[m + Len(t) + 1] = v
        /\ (\A i \in 1..m : a[i] = y[i]) /\ (\A i \in 1..Len(t) : a[m + i] = t[i])
    BY <1>1 DEF FieldsOf
  <1> HIDE DEF m
  <1>3. Len(s) = Len(t)
    BY <1>0, <1>2, SMTT(30)
  <1>4. u = v /\ (\A i \in 1..m : x[i] = y[i]) /\ \A i \in 1..Len(s) : s[i] = t[i]
    BY <1>2, <1>3
  <1>5. x = y
    BY <1>4, SeqEqual DEF m
  <1>6. s = t
    BY <1>3, <1>4, SeqEqual
  <1>7. QED
    BY <1>4, <1>5, <1>6

(* Two requests with the same fields and actions, each listed as often. *)
SameListed(a, b) ==
  /\ a.subject = b.subject /\ a.fixtures = b.fixtures /\ Len(a.actions) = Len(b.actions)
  /\ \A x : Cardinality(Places(a.actions, x)) = Cardinality(Places(b.actions, x))

(* What the fields of a request without NULs are. *)
LEMMA NulFreeFields ==
  ASSUME NEW b \in Bodies, NulFree(b)
  PROVE  NoNul(Fields(b.subject, Sorted(b.actions), b.fixtures))
  <1> DEFINE s == b.actions
             A == Sorted(s)
             x == b.subject
             u == b.fixtures
             f == Fields(x, A, u)
  <1>1. s \in Seq(Text) /\ x \in Seq(Text) /\ u \in Text
    BY EnqueueConstants
  <1>2. A \in Seq(Text) /\ \A z : Cardinality(Places(A, z)) = Cardinality(Places(s, z))
    BY <1>1, SortedProperties
  <1> HIDE DEF A
  <1>3. ASSUME NEW i \in 1..Len(A) PROVE Nul \notin ToSet(A[i])
    <2>1. Places(A, A[i]) # {} /\ Places(A, A[i]) \in SUBSET (1..Len(A))
      BY <1>2, LenProperties DEF Places
    <2>2. Len(A) \in Nat
      BY <1>2, LenProperties
    <2>3. IsFiniteSet(1..Len(A))
      BY <2>2, FS_Interval, SMTT(30)
    <2>4. IsFiniteSet(Places(A, A[i]))
      BY <2>1, <2>3, FS_Subset
    <2>5. Cardinality(Places(A, A[i])) # 0
      BY <2>1, <2>4, FS_EmptySet
    <2>6. Places(s, A[i]) # {}
      <3>1. Cardinality(Places(s, A[i])) # 0
        BY <1>2, <2>5
      <3>2. QED
        BY <3>1, FS_EmptySet
    <2>7. PICK k \in DOMAIN s : s[k] = A[i]
      BY <2>6 DEF Places
    <2>8. QED
      BY <2>7 DEF NulFree
  <1>4. \A i \in 1..Len(x) : Nul \notin ToSet(x[i])
    BY <1>1, LenProperties DEF NulFree
  <1>5. Nul \notin ToSet(u)
    BY DEF NulFree
  <1> HIDE DEF A, x, u, s, f
  <1>6. ASSUME NEW i \in 1..Len(f) PROVE Nul \notin ToSet(f[i])
    <2>1. FieldsOf(f, x, A, u)
      BY <1>1, <1>2, FieldsAre DEF f
    <2>2. Len(x) \in Nat /\ Len(A) \in Nat
      BY <1>1, <1>2, LenProperties
    <2>3. \/ i \in 1..Len(x) \/ i = Len(x) + Len(A) + 1
          \/ i - Len(x) \in 1..Len(A) /\ Len(x) + (i - Len(x)) = i
      <3>1. i \in 1..Len(x) + Len(A) + 1
        BY <2>1 DEF FieldsOf
      <3> DEFINE m == Len(x)
                 n == Len(A)
      <3> HIDE DEF m, n
      <3>2. i \in 1..m + n + 1 /\ m \in Nat /\ n \in Nat
        BY <2>2, <3>1 DEF m, n
      <3>3. i \in 1..m \/ i = m + n + 1 \/ (i - m \in 1..n /\ m + (i - m) = i)
        BY <3>2, SMTT(30)
      <3>4. QED
        BY <3>3 DEF m, n
    <2>4. QED
      BY <1>3, <1>4, <1>5, <2>1, <2>3 DEF FieldsOf
  <1>7. f \in Seq(Text)
    BY <1>1, <1>2, FieldsAre DEF f, FieldsOf
  <1>8. ASSUME NEW i \in 1..Len(f), NEW k \in 1..Len(f[i]) PROVE f[i][k] # Nul
    <2>1. f[i] \in Seq(Nat) /\ k \in DOMAIN f[i]
      BY <1>7, SMTT(30) DEF Text
    <2>2. f[i][k] \in ToSet(f[i])
      BY <2>1 DEF ToSet
    <2>3. QED
      BY <1>6, <2>2
  <1>9. NoNul(f)
    BY <1>8 DEF NoNul
  <1>10. QED
    BY <1>9 DEF f, A, x, u, s

(***************************************************************************)
(* requestFingerprint, for requests without NULs in their fields: two of   *)
(* them have one fingerprint if and only if their fields are equal and     *)
(* they list the same actions, each as often, in whatever order.  With     *)
(* NULs or with repeated actions this is not what the requests ask for.    *)
(***************************************************************************)
THEOREM FingerprintTells ==
  ASSUME NEW a \in Bodies, NEW b \in Bodies, NulFree(a), NulFree(b)
  PROVE  RequestFingerprint(a) = RequestFingerprint(b) <=> SameListed(a, b)
  <1> DEFINE s == a.actions
             t == b.actions
  <1>1. s \in Seq(Text) /\ t \in Seq(Text)
    BY EnqueueConstants DEF Text
  <1>2. /\ Sorted(s) \in Seq(Text) /\ Len(Sorted(s)) = Len(s) /\ InOrder(Sorted(s))
        /\ \A x : Cardinality(Places(Sorted(s), x)) = Cardinality(Places(s, x))
    BY <1>1, SortedProperties
  <1>3. /\ Sorted(t) \in Seq(Text) /\ Len(Sorted(t)) = Len(t) /\ InOrder(Sorted(t))
        /\ \A x : Cardinality(Places(Sorted(t), x)) = Cardinality(Places(t, x))
    BY <1>1, SortedProperties
  <1>4. RequestFingerprint(a) = RequestFingerprint(b)
          <=> a.subject = b.subject /\ Sorted(s) = Sorted(t) /\ a.fixtures = b.fixtures
    <2> DEFINE x == a.subject
               y == b.subject
               u == a.fixtures
               v == b.fixtures
               A == Sorted(s)
               B == Sorted(t)
    <2>1. RequestFingerprint(a) = Written(Fields(x, A, u)) /\ RequestFingerprint(b) = Written(Fields(y, B, v))
      BY DEF RequestFingerprint, Fields
    <2>2. /\ A \in Seq(Text) /\ B \in Seq(Text) /\ u \in Text /\ v \in Text
          /\ x \in Seq(Text) /\ y \in Seq(Text) /\ Len(x) = Len(y)
      BY <1>2, <1>3, EnqueueConstants
    <2>3. NoNul(Fields(x, A, u)) /\ NoNul(Fields(y, B, v))
      BY NulFreeFields
    <2> HIDE DEF x, y, u, v, A, B
    <2> DEFINE f == Fields(x, A, u)
               g == Fields(y, B, v)
    <2>4. f \in Seq(Text) /\ g \in Seq(Text) /\ Len(f) # 0 /\ Len(g) # 0
      <3>0. FieldsOf(f, x, A, u) /\ FieldsOf(g, y, B, v)
        BY <2>2, FieldsAre
      <3>1. /\ f \in Seq(Text) /\ Len(f) = Len(x) + Len(A) + 1
            /\ g \in Seq(Text) /\ Len(g) = Len(y) + Len(B) + 1
        BY <3>0 DEF FieldsOf
      <3>2. Len(x) \in Nat /\ Len(y) \in Nat /\ Len(A) \in Nat /\ Len(B) \in Nat
        BY <2>2, LenProperties
      <3> HIDE DEF f, g
      <3>3. QED
        BY <3>1, <3>2, SMTT(30)
    <2>5. Written(f) = Written(g) <=> f = g
      <3> HIDE DEF f, g
      <3>1. NoNul(f) /\ NoNul(g)
        BY <2>3 DEF f, g
      <3>2. QED
        BY <2>4, <3>1, WrittenApart
    <2>6. f = g <=> x = y /\ A = B /\ u = v
      <3>1. ASSUME f = g PROVE x = y /\ A = B /\ u = v
        BY <2>2, <3>1, FieldsApart, SMTT(30)
      <3>2. QED
        BY <3>1
    <2>7. QED
      BY <2>1, <2>5, <2>6 DEF x, y, u, v, A, B
  <1>5. SameListed(a, b) <=>
          /\ a.subject = b.subject /\ a.fixtures = b.fixtures /\ Len(s) = Len(t)
          /\ \A x : Cardinality(Places(s, x)) = Cardinality(Places(t, x))
    BY DEF SameListed
  <1> HIDE DEF s, t
  <1>6. ASSUME Sorted(s) = Sorted(t)
        PROVE  Len(s) = Len(t) /\ \A x : Cardinality(Places(s, x)) = Cardinality(Places(t, x))
    BY <1>2, <1>3, <1>6
  <1>7. ASSUME Len(s) = Len(t), \A x : Cardinality(Places(s, x)) = Cardinality(Places(t, x))
        PROVE  Sorted(s) = Sorted(t)
    <2> DEFINE A == Sorted(s)
               B == Sorted(t)
    <2>1. \A x : Cardinality(Places(A, x)) = Cardinality(Places(B, x))
      BY <1>2, <1>3, <1>7
    <2>2. A \in Seq(Text) /\ B \in Seq(Text) /\ InOrder(A) /\ InOrder(B) /\ Len(A) = Len(B)
      BY <1>2, <1>3, <1>7
    <2> HIDE DEF A, B
    <2>3. A = B
      BY <2>1, <2>2, OrderUnique, SMTT(30)
    <2>4. QED
      BY <2>3 DEF A, B
  <1>8. QED
    BY <1>4, <1>5, <1>6, <1>7

(* In a list without repetitions an action has one place, or none. *)
LEMMA OnePlace ==
  ASSUME NEW s \in Seq(Text), IsInjective(s), NEW x
  PROVE  /\ x \in ToSet(s) => Cardinality(Places(s, x)) = 1
         /\ x \notin ToSet(s) => Cardinality(Places(s, x)) = 0
  <1>1. ASSUME x \in ToSet(s) PROVE Cardinality(Places(s, x)) = 1
    <2>1. PICK i \in DOMAIN s : s[i] = x
      BY <1>1 DEF ToSet
    <2>2. \A k \in DOMAIN s : s[k] = s[i] => k = i
      BY DEF IsInjective
    <2>3. Places(s, x) = {i}
      BY <2>1, <2>2 DEF Places
    <2>4. QED
      BY <2>3, FS_Singleton
  <1>2. ASSUME x \notin ToSet(s) PROVE Cardinality(Places(s, x)) = 0
    <2>1. Places(s, x) = {}
      BY <1>2 DEF Places, ToSet
    <2>2. QED
      BY <2>1, FS_EmptySet
  <1>3. QED
    BY <1>1, <1>2

(* Such a list is as long as the set of its actions is large. *)
LEMMA LengthOfSet ==
  ASSUME NEW s \in Seq(Text), IsInjective(s)
  PROVE  Cardinality(ToSet(s)) = Len(s)
  <1> DEFINE I == 1..Len(s)
             R == ToSet(s)
  <1>1. Len(s) \in Nat /\ DOMAIN s = I
    BY LenProperties
  <1>2. IsFiniteSet(I) /\ Cardinality(I) = Len(s)
    BY <1>1, FS_Interval, SMTT(30)
  <1>3. s \in [I -> R]
    <2>1. s \in [I -> Text]
      BY LenProperties
    <2>2. \A i \in I : s[i] \in R
      BY <1>1 DEF ToSet
    <2>3. QED
      BY <2>1, <2>2
  <1>4. \A y \in R : \E i \in I : s[i] = y
    BY <1>1 DEF ToSet
  <1>5. \A i, k \in I : s[i] = s[k] => i = k
    BY <1>1 DEF IsInjective
  <1> HIDE DEF I, R
  <1>6. s \in Bijection(I, R)
    BY <1>3, <1>4, <1>5, <1>1 DEF Bijection, Injection, Surjection, IsInjective
  <1>7. Cardinality(R) = Cardinality(I)
    BY <1>2, <1>6, FS_Bijection DEF ExistsBijection
  <1>8. QED
    BY <1>2, <1>7 DEF R

(***************************************************************************)
(* For plain requests, which have no NUL in their fields and list no       *)
(* action twice, requestFingerprint tells exactly the requests apart that  *)
(* ask for different things, their actions taken as the set it calls them. *)
(***************************************************************************)
THEOREM PlainTells ==
  ASSUME NEW a \in Bodies, NEW b \in Bodies, Plain(a), Plain(b)
  PROVE  RequestFingerprint(a) = RequestFingerprint(b) <=> SameRequest(a, b)
  <1> DEFINE s == a.actions
             t == b.actions
  <1>1. s \in Seq(Text) /\ t \in Seq(Text) /\ IsInjective(s) /\ IsInjective(t) /\ NulFree(a) /\ NulFree(b)
    BY EnqueueConstants DEF Plain
  <1>2. RequestFingerprint(a) = RequestFingerprint(b) <=> SameListed(a, b)
    BY <1>1, FingerprintTells
  <1>3. SameListed(a, b) <=> /\ a.subject = b.subject /\ a.fixtures = b.fixtures /\ Len(s) = Len(t)
                             /\ \A x : Cardinality(Places(s, x)) = Cardinality(Places(t, x))
    BY DEF SameListed
  <1>4. SameRequest(a, b) <=> a.subject = b.subject /\ a.fixtures = b.fixtures /\ ToSet(s) = ToSet(t)
    BY DEF SameRequest
  <1> HIDE DEF s, t
  <1>5. ASSUME ToSet(s) = ToSet(t)
        PROVE  Len(s) = Len(t) /\ \A x : Cardinality(Places(s, x)) = Cardinality(Places(t, x))
    <2>1. Len(s) = Len(t)
      BY <1>1, <1>5, LengthOfSet
    <2>2. ASSUME NEW x PROVE Cardinality(Places(s, x)) = Cardinality(Places(t, x))
      <3>1. CASE x \in ToSet(s)
        BY <1>1, <1>5, <3>1, OnePlace
      <3>2. CASE x \notin ToSet(s)
        BY <1>1, <1>5, <3>2, OnePlace
      <3>3. QED
        BY <3>1, <3>2
    <2>3. QED
      BY <2>1, <2>2
  <1>6. ASSUME \A x : Cardinality(Places(s, x)) = Cardinality(Places(t, x))
        PROVE  ToSet(s) = ToSet(t)
    <2>1. ASSUME NEW x PROVE x \in ToSet(s) <=> x \in ToSet(t)
      <3>1. Cardinality(Places(s, x)) = Cardinality(Places(t, x)) /\ 0 # 1
        BY <1>6, SMTT(30)
      <3>2. ASSUME x \in ToSet(s), x \notin ToSet(t) PROVE FALSE
        <4>1. Cardinality(Places(s, x)) = 1
          BY <1>1, <3>2, OnePlace
        <4>2. Cardinality(Places(t, x)) = 0
          BY <1>1, <3>2, OnePlace
        <4>3. QED
          BY <3>1, <4>1, <4>2
      <3>3. ASSUME x \in ToSet(t), x \notin ToSet(s) PROVE FALSE
        <4>1. Cardinality(Places(t, x)) = 1
          BY <1>1, <3>3, OnePlace
        <4>2. Cardinality(Places(s, x)) = 0
          BY <1>1, <3>3, OnePlace
        <4>3. QED
          BY <3>1, <4>1, <4>2
      <3>4. QED
        BY <3>2, <3>3
    <2>2. QED
      BY <2>1
  <1>7. QED
    BY <1>2, <1>3, <1>4, <1>5, <1>6

----------------------------------------------------------------------------
Handlers == [at : Handling \cup Settled \cup {"unanswered"}, id : Ids \cup {Nothing}, body : Bodies \cup {Nothing},
             job : Nat]
Stored   == [id : Ids, body : Bodies, fingerprint : {RequestFingerprint(body) : body \in Bodies}]

(***************************************************************************)
(* The inductive invariant.  The table has one row per id, with the        *)
(* fingerprint of its request; a handler about to insert has validated its *)
(* request, and one that has a job to answer with has found it under its   *)
(* own id and its own fingerprint.                                         *)
(***************************************************************************)
Matches(n, id, body) == n \in Owners(id) /\ rows[n].fingerprint = RequestFingerprint(body)

CallInv(c) ==
  /\ call[c].job <= Len(rows)
  /\ call[c].at # "idle" => call[c].id \in Ids /\ call[c].body \in Bodies
  /\ call[c].at = "insert" => Valid(call[c].id, call[c].body)
  /\ call[c].at \in {"read", "accepted"} => Matches(call[c].job, call[c].id, call[c].body)

EnqueueInv ==
  /\ rows \in Seq(Stored)
  /\ call \in [Calls -> Handlers]
  /\ \A m, n \in DOMAIN rows : rows[m].id = rows[n].id => m = n
  /\ \A n \in DOMAIN rows : Valid(rows[n].id, rows[n].body)
  /\ \A n \in DOMAIN rows : rows[n].fingerprint = RequestFingerprint(rows[n].body)
  /\ \A c \in Calls : CallInv(c)

(* The table is empty, and nobody has called. *)
LEMMA EnqueueInvInit == EnqueueInit => EnqueueInv
  BY SMTT(30) DEF EnqueueInit, EnqueueInv, CallInv, NoCall, Handlers, Settled

(* A step of one handler that leaves the table alone. *)
LEMMA HandlerFrame ==
  ASSUME EnqueueInv, UNCHANGED rows, NEW c \in Calls, NEW h \in Handlers, call' = [call EXCEPT ![c] = h],
         h.at # "idle" => h.id \in Ids /\ h.body \in Bodies,
         h.at = "insert" => Valid(h.id, h.body),
         h.at \in {"read", "accepted"} => Matches(h.job, h.id, h.body),
         h.job <= Len(rows)
  PROVE  EnqueueInv'
  <1>1. call' \in [Calls -> Handlers] /\ call'[c] = h /\ \A d \in Calls \ {c} : call'[d] = call[d]
    BY DEF EnqueueInv
  <1>2. \A n, id, body : Matches(n, id, body)' = Matches(n, id, body)
    BY DEF Owners, Matches
  <1>3. \A d \in Calls : CallInv(d)'
    BY <1>1, <1>2 DEF EnqueueInv, CallInv
  <1>4. QED
    BY <1>1, <1>3 DEF EnqueueInv

(* A handler that goes on to a point where no job has been found yet. *)
LEMMA GotoFrame ==
  ASSUME EnqueueInv, UNCHANGED rows, NEW c \in Calls, call[c].at # "idle", NEW at, Goto(c, at),
         \/ at \in {"received", "invalid", "conflict", "unanswered", "lookup"}
         \/ at = "insert" /\ Valid(call[c].id, call[c].body)
         \/ at = "accepted" /\ call[c].at = "read"
  PROVE  EnqueueInv'
  <1> DEFINE h == [call[c] EXCEPT !.at = at]
  <1>1. call[c] \in Handlers /\ CallInv(c)
    BY DEF EnqueueInv
  <1>2. call' = [call EXCEPT ![c] = h]
    BY DEF Goto
  <1>3. h \in Handlers /\ h.at = at /\ h.id = call[c].id /\ h.body = call[c].body /\ h.job = call[c].job
    BY <1>1 DEF Handlers, Handling, Settled
  <1>4. HIDE DEF h
  <1>5. QED
    BY <1>1, <1>2, <1>3, HandlerFrame DEF CallInv

(* A row added under an id without one. *)
LEMMA AppendFrame ==
  ASSUME EnqueueInv, NEW c \in Calls, call[c].at = "insert", Owners(call[c].id) = {}, rows' = Append(rows, Row(c))
  PROVE  /\ rows' \in Seq(Stored)
         /\ \A m, n \in DOMAIN rows' : rows'[m].id = rows'[n].id => m = n
         /\ \A n \in DOMAIN rows' : Valid(rows'[n].id, rows'[n].body)
         /\ \A n \in DOMAIN rows' : rows'[n].fingerprint = RequestFingerprint(rows'[n].body)
         /\ \A n, id, body : Matches(n, id, body) => Matches(n, id, body)'
         /\ \A n, id, body : n = Len(rows) + 1 /\ id = call[c].id /\ body = call[c].body => Matches(n, id, body)'
         /\ Len(rows) + 1 \in Nat /\ Len(rows') = Len(rows) + 1
  <1>1. /\ Row(c) \in Stored /\ Row(c).id = call[c].id /\ Row(c).body = call[c].body /\ Valid(call[c].id, call[c].body)
        /\ Row(c).fingerprint = RequestFingerprint(call[c].body)
    BY DEF EnqueueInv, CallInv, Row, Stored, Fingerprint
  <1>2. rows \in Seq(Stored) /\ Len(rows) \in Nat /\ DOMAIN rows = 1..Len(rows)
    BY SMTT(30) DEF EnqueueInv
  <1>3. /\ rows' \in Seq(Stored) /\ DOMAIN rows' = 1..Len(rows) + 1 /\ Len(rows') = Len(rows) + 1
        /\ rows'[Len(rows) + 1] = Row(c) /\ \A n \in 1..Len(rows) : rows'[n] = rows[n]
    BY <1>1, <1>2, SMTT(30)
  <1>4. \A n \in 1..Len(rows) : rows[n].id # call[c].id
    BY <1>2 DEF Owners
  <1>5. \A m, n \in DOMAIN rows' : rows'[m].id = rows'[n].id => m = n
    BY <1>1, <1>2, <1>3, <1>4, SMTT(30) DEF EnqueueInv
  <1>6. \A n \in DOMAIN rows' : Valid(rows'[n].id, rows'[n].body)
    BY <1>1, <1>2, <1>3, SMTT(30) DEF EnqueueInv
  <1>7. \A n \in DOMAIN rows' : rows'[n].fingerprint = RequestFingerprint(rows'[n].body)
    BY <1>1, <1>2, <1>3, SMTT(30) DEF EnqueueInv
  <1>8. \A n, id, body : Matches(n, id, body)' <=>
                           n \in DOMAIN rows' /\ rows'[n].id = id /\ rows'[n].fingerprint = RequestFingerprint(body)
    BY DEF Matches, Owners
  <1>9. \A n, id, body : Matches(n, id, body) => Matches(n, id, body)'
    BY <1>2, <1>3, <1>8, SMTT(30) DEF Matches, Owners
  <1>10. \A n, id, body : n = Len(rows) + 1 /\ id = call[c].id /\ body = call[c].body => Matches(n, id, body)'
    <2>1. Len(rows) + 1 \in DOMAIN rows'
      BY <1>2, <1>3, SMTT(30)
    <2>2. QED
      BY <1>1, <1>3, <1>8, <2>1
  <1>11. QED
    BY <1>2, <1>3, <1>5, <1>6, <1>7, <1>9, <1>10, SMTT(30)

(* The handler that adds a row goes on to one of these. *)
LEMMA AddedFrame ==
  ASSUME EnqueueInv, NEW c \in Calls, call[c].at = "insert", Owners(call[c].id) = {}, rows' = Append(rows, Row(c)),
         NEW h \in Handlers, call' = [call EXCEPT ![c] = h], h.id = call[c].id, h.body = call[c].body,
         h.at \in {"unanswered", "read"}, h.at = "read" => h.job = Len(rows) + 1, h.job <= Len(rows) + 1
  PROVE  EnqueueInv'
  <1>1. call' \in [Calls -> Handlers] /\ call'[c] = h /\ \A d \in Calls \ {c} : call'[d] = call[d]
    BY DEF EnqueueInv
  <1>2. CallInv(c)'
    <2>1. h.job \in Nat /\ Len(rows) \in Nat /\ Len(rows') = Len(rows) + 1
      BY AppendFrame, SMTT(30) DEF EnqueueInv, Handlers
    <2>2. h.id \in Ids /\ h.body \in Bodies
      BY DEF EnqueueInv, CallInv
    <2>3. h.at = "read" => Matches(h.job, h.id, h.body)'
      BY AppendFrame
    <2>4. QED
      BY <1>1, <2>1, <2>2, <2>3 DEF CallInv
  <1>3. ASSUME NEW d \in Calls \ {c} PROVE CallInv(d)'
    <2>1. CallInv(d) /\ call'[d] = call[d]
      BY <1>1 DEF EnqueueInv
    <2>2. \A n, id, body : Matches(n, id, body) => Matches(n, id, body)'
      BY AppendFrame
    <2>3. call[d].job \in Nat /\ Len(rows) \in Nat /\ Len(rows') = Len(rows) + 1
      BY AppendFrame, SMTT(30) DEF EnqueueInv, Handlers
    <2>4. QED
      BY <2>1, <2>2, <2>3, SMTT(30) DEF CallInv
  <1>4. QED
    BY <1>1, <1>2, <1>3, AppendFrame DEF EnqueueInv

(* A request has an id and a body. *)
LEMMA RequestsAre == \A r \in Requests : r[1] \in Ids /\ r[2] \in Bodies
  BY EnqueueConstants, SMTT(30)

(* Every step of a caller, a handler, the store or the process. *)
LEMMA EnqueueInvStep == EnqueueInv /\ [EnqueueNext]_enqueueVars => EnqueueInv'
  <1> SUFFICES ASSUME EnqueueInv, [EnqueueNext]_enqueueVars PROVE EnqueueInv'
    OBVIOUS
  <1>0. \A c \in Calls : call[c] \in Handlers /\ CallInv(c)
    BY DEF EnqueueInv
  <1>1. ASSUME NEW c \in Calls, NEW id \in Ids, NEW body \in Bodies, Send(c, id, body) PROVE EnqueueInv'
    <2> DEFINE h == [at |-> "received", id |-> id, body |-> body, job |-> 0]
    <2>1. h \in Handlers /\ h.at = "received" /\ h.id \in Ids /\ h.body \in Bodies /\ h.job = 0
      BY DEF Handlers, Handling
    <2>2. Len(rows) \in Nat
      BY SMTT(30) DEF EnqueueInv
    <2>3. call' = [call EXCEPT ![c] = h] /\ UNCHANGED rows
      BY <1>1 DEF Send
    <2> HIDE DEF h
    <2>4. h.job <= Len(rows)
      BY <2>1, <2>2, SMTT(30)
    <2>5. QED
      BY <2>1, <2>3, <2>4, HandlerFrame
  <1>2. ASSUME NEW c \in Calls, Resend(c) PROVE EnqueueInv'
    BY <1>2, GotoFrame DEF Resend
  <1>3. ASSUME NEW c \in Calls, Receive(c) PROVE EnqueueInv'
    <2>1. CASE Valid(call[c].id, call[c].body)
      BY <1>3, <2>1, GotoFrame DEF Receive
    <2>2. CASE ~Valid(call[c].id, call[c].body)
      BY <1>3, <2>2, GotoFrame DEF Receive
    <2>3. QED
      BY <2>1, <2>2
  <1>4. ASSUME NEW c \in Calls, Insert(c) PROVE EnqueueInv'
    <2>1. CASE Owners(call[c].id) = {}
      <3> DEFINE h == [call[c] EXCEPT !.at = "read", !.job = Len(rows) + 1]
      <3>1. call[c].at = "insert" /\ rows' = Append(rows, Row(c)) /\ call' = [call EXCEPT ![c] = h]
        BY <1>4, <2>1 DEF Insert
      <3>2. Len(rows) + 1 \in Nat
        BY SMTT(30) DEF EnqueueInv
      <3>3. h \in Handlers /\ h.id = call[c].id /\ h.body = call[c].body /\ h.at = "read" /\ h.job = Len(rows) + 1
        BY <1>0, <3>2 DEF Handlers, Handling
      <3>4. HIDE DEF h
      <3>5. h.job <= Len(rows) + 1
        BY <3>2, <3>3, SMTT(30)
      <3>6. QED
        BY <2>1, <3>1, <3>3, <3>5, AddedFrame
    <2>2. CASE Owners(call[c].id) # {}
      BY <1>4, <2>2, GotoFrame DEF Insert
    <2>3. QED
      BY <2>1, <2>2
  <1>5. ASSUME NEW c \in Calls, Lookup(c) PROVE EnqueueInv'
    <2>1. PICK n \in Owners(call[c].id) :
            \/ Goto(c, "conflict")
            \/ /\ rows[n].fingerprint = RequestFingerprint(call[c].body)
               /\ call' = [call EXCEPT ![c].at = "read", ![c].job = n]
      <3>1. call[c].body \in Bodies
        BY <1>0, <1>5 DEF Lookup, CallInv
      <3>2. Fingerprint[call[c].body] = RequestFingerprint(call[c].body)
        BY <3>1 DEF Fingerprint
      <3>3. QED
        BY <1>5, <3>2 DEF Lookup
    <2>2. UNCHANGED rows /\ call[c].at = "lookup"
      BY <1>5 DEF Lookup
    <2>3. CASE Goto(c, "conflict")
      BY <2>2, <2>3, GotoFrame
    <2>4. CASE /\ rows[n].fingerprint = RequestFingerprint(call[c].body)
               /\ call' = [call EXCEPT ![c].at = "read", ![c].job = n]
      <3> DEFINE h == [call[c] EXCEPT !.at = "read", !.job = n]
      <3>1. n \in Nat /\ n <= Len(rows)
        BY SMTT(30) DEF Owners, EnqueueInv
      <3>2. h \in Handlers /\ h.id = call[c].id /\ h.body = call[c].body /\ h.at = "read" /\ h.job = n
        BY <1>0, <3>1 DEF Handlers, Handling
      <3>3. call' = [call EXCEPT ![c] = h]
        BY <2>4
      <3>4. call[c].id \in Ids /\ call[c].body \in Bodies
        BY <1>0, <2>2 DEF CallInv
      <3>5. HIDE DEF h
      <3>6. QED
        BY <2>2, <2>4, <3>1, <3>2, <3>3, <3>4, HandlerFrame DEF Matches
    <2>5. QED
      BY <2>1, <2>3, <2>4
  <1>6. ASSUME NEW c \in Calls, Read(c) PROVE EnqueueInv'
    BY <1>6, GotoFrame DEF Read
  <1>7. ASSUME NEW c \in Calls, StoreError(c) PROVE EnqueueInv'
    <2>1. CASE UNCHANGED rows
      BY <1>7, <2>1, GotoFrame DEF StoreError
    <2>2. CASE call[c].at = "insert" /\ Owners(call[c].id) = {} /\ rows' = Append(rows, Row(c))
      <3> DEFINE h == [call[c] EXCEPT !.at = "unanswered"]
      <3>1. call' = [call EXCEPT ![c] = h]
        BY <1>7 DEF StoreError, Goto
      <3>2. h \in Handlers /\ h.id = call[c].id /\ h.body = call[c].body /\ h.at = "unanswered" /\ h.job = call[c].job
        BY <1>0 DEF Handlers
      <3>3. h.job <= Len(rows) + 1
        <4>1. call[c].job \in Nat /\ Len(rows) \in Nat /\ call[c].job <= Len(rows)
          BY <1>0, SMTT(30) DEF Handlers, CallInv, EnqueueInv
        <4>2. QED
          BY <3>2, <4>1, SMTT(30)
      <3>4. HIDE DEF h
      <3>5. QED
        BY <2>2, <3>1, <3>2, <3>3, AddedFrame
    <2>3. QED
      BY <1>7, <2>1, <2>2 DEF StoreError
  <1>8. CASE Crash
    <2>1. UNCHANGED rows /\ \A n, id, body : Matches(n, id, body)' = Matches(n, id, body)
      BY <1>8 DEF Crash, Matches, Owners
    <2>2. ASSUME NEW c \in Calls PROVE call'[c] \in Handlers /\ CallInv(c)'
      <3>1. CASE call[c].at \in Handling
        <4>1. call'[c] = [call[c] EXCEPT !.at = "unanswered"]
          BY <1>8, <3>1 DEF Crash
        <4>2. /\ call'[c] \in Handlers /\ call'[c].at = "unanswered" /\ call'[c].id = call[c].id
              /\ call'[c].body = call[c].body /\ call'[c].job = call[c].job
          BY <1>0, <4>1 DEF Handlers
        <4>3. call[c].at # "idle"
          BY <3>1 DEF Handling
        <4>4. QED
          BY <1>0, <2>1, <4>2, <4>3 DEF CallInv
      <3>2. CASE call[c].at \notin Handling
        BY <1>0, <1>8, <2>1, <3>2 DEF Crash, CallInv
      <3>3. QED
        BY <3>1, <3>2
    <2>3. call' \in [Calls -> Handlers]
      BY <1>8, <2>2 DEF Crash
    <2>4. QED
      BY <2>1, <2>2, <2>3 DEF EnqueueInv
  <1>9. CASE UNCHANGED enqueueVars
    BY <1>9 DEF enqueueVars, EnqueueInv, CallInv, Matches, Owners
  <1>10. QED
    BY <1>1, <1>2, <1>3, <1>4, <1>5, <1>6, <1>7, <1>8, <1>9, RequestsAre DEF EnqueueNext, Serve

(***************************************************************************)
(* For any callers, ids and requests, and through any number of store      *)
(* errors and crashes: an accepted caller was given the one job of its     *)
(* validation request id, and only valid requests have jobs (CreateJob).   *)
(***************************************************************************)
THEOREM AcceptedIsTheOneJob == EnqueueSpec => []OneJobPerRequest
  <1>1. EnqueueInv => OneJobPerRequest
    BY SMTT(30) DEF EnqueueInv, CallInv, Matches, OneJobPerRequest, Owners
  <1>2. QED
    BY <1>1, EnqueueInvInit, EnqueueInvStep, PTL DEF EnqueueSpec

(* Errors and crashes are counted up to their bound. *)
FaultsCounted == faults \in 0..FaultBound

(* No step exceeds the bound. *)
LEMMA FaultsStep == FaultsCounted /\ [EnqueueNext]_enqueueVars => FaultsCounted'
  <1> SUFFICES ASSUME faults \in 0..FaultBound, [EnqueueNext]_enqueueVars PROVE faults' \in 0..FaultBound
    BY DEF FaultsCounted
  <1>1. UNCHANGED faults \/ (faults < FaultBound /\ faults' = faults + 1)
    BY DEF EnqueueNext, Send, Resend, Serve, Receive, Insert, Lookup, Read, StoreError, Crash, enqueueVars
  <1>2. QED
    BY <1>1, EnqueueConstants, SMTT(30)

(* The table and the handlers stay well formed, whatever the callers send. *)
THEOREM EnqueueTyped == EnqueueSpec => []EnqueueTypeOK
  <1>1. ASSUME EnqueueInv, FaultsCounted PROVE EnqueueTypeOK
    <2>1. \A n \in DOMAIN rows : rows[n].id \in Ids /\ rows[n].body \in Bodies
      <3>1. \A n \in DOMAIN rows : rows[n] \in Stored
        BY <1>1, SMTT(30) DEF EnqueueInv
      <3>2. QED
        BY <3>1 DEF Stored
    <2>2. ASSUME NEW c \in Calls
          PROVE  call[c].at \in Handling \cup Settled \cup {"unanswered"} /\ call[c].job \in 0..Len(rows)
      <3>1. call[c] \in Handlers /\ call[c].job <= Len(rows) /\ Len(rows) \in Nat
        BY <1>1, SMTT(30) DEF EnqueueInv, CallInv
      <3>2. QED
        BY <3>1, SMTT(30) DEF Handlers
    <2>3. QED
      BY <1>1, <2>1, <2>2 DEF EnqueueTypeOK, FaultsCounted
  <1>2. EnqueueInit => FaultsCounted
    BY EnqueueConstants, SMTT(30) DEF EnqueueInit, FaultsCounted
  <1>3. QED
    BY <1>1, <1>2, EnqueueInvInit, EnqueueInvStep, FaultsStep, PTL DEF EnqueueSpec

----------------------------------------------------------------------------
(***************************************************************************)
(* The refinement.  An id stands for the body of its row; a caller holds   *)
(* an answer once it is accepted or refused.                               *)
(***************************************************************************)
bound  == [id \in Ids |-> Bound(id)]
answer == [c \in Calls |-> Answered(c)]

(* An id with a row stands for the body of that row. *)
LEMMA BoundToRow ==
  ASSUME EnqueueInv, NEW id, NEW n \in Owners(id)
  PROVE  Bound(id) = rows[n].body /\ rows[n].body \in Bodies /\ Bound(id) # Nothing
  <1>1. \A m \in Owners(id) : m = n
    BY DEF EnqueueInv, Owners
  <1>2. rows[n] \in Stored
    BY SMTT(30) DEF EnqueueInv, Owners
  <1>3. Bound(id) = rows[n].body
    BY <1>1 DEF Bound
  <1>4. QED
    BY <1>2, <1>3, EnqueueConstants DEF Stored

(* What Insert binds. *)
LEMMA BoundByInsert ==
  ASSUME EnqueueInv, EnqueueInv', NEW c \in Calls, call[c].at = "insert", Owners(call[c].id) = {},
         rows' = Append(rows, Row(c)), answer' = answer
  PROVE  Promise!Next
  <1> DEFINE id == call[c].id
             body == call[c].body
  <1>1. id \in Ids /\ body \in Bodies
    BY DEF EnqueueInv, CallInv
  <1>2. bound[id] = Nothing
    BY <1>1 DEF bound, Bound
  <1>3. /\ rows \in Seq(Stored) /\ Len(rows) \in Nat /\ DOMAIN rows = 1..Len(rows) /\ DOMAIN rows' = 1..Len(rows) + 1
        /\ rows'[Len(rows) + 1] = Row(c) /\ \A n \in 1..Len(rows) : rows'[n] = rows[n]
    <2>1. Row(c) \in Stored
      BY <1>1 DEF Row, Stored, Fingerprint
    <2>2. QED
      BY <2>1, SMTT(30) DEF EnqueueInv
  <1>4. Row(c).id = id /\ Row(c).body = body
    BY DEF Row
  <1>5. \A k \in Ids : Owners(k)' = IF k = id THEN {Len(rows) + 1} ELSE Owners(k)
    <2>1. \A k : Owners(k)' = {n \in DOMAIN rows' : rows'[n].id = k} /\ Owners(k) = {n \in DOMAIN rows : rows[n].id = k}
      BY DEF Owners
    <2>2. \A n \in 1..Len(rows) : rows[n].id # id
      BY <1>3, <2>1
    <2> HIDE DEF id
    <2>3. \A n : n \in DOMAIN rows' <=> n \in 1..Len(rows) \/ n = Len(rows) + 1
      BY <1>3, SMTT(30)
    <2>4. DOMAIN rows = 1..Len(rows) /\ Len(rows) + 1 \notin 1..Len(rows)
      BY <1>3, SMTT(30)
    <2>5. ASSUME NEW k \in Ids, k = id PROVE Owners(k)' = {Len(rows) + 1}
      BY <1>3, <1>4, <2>1, <2>2, <2>3, <2>5
    <2>6. ASSUME NEW k \in Ids, k # id PROVE Owners(k)' = Owners(k)
      BY <1>3, <1>4, <2>1, <2>3, <2>4, <2>6
    <2>7. QED
      BY <2>5, <2>6
  <1>6. ASSUME NEW k \in Ids PROVE Bound(k)' = IF k = id THEN body ELSE Bound(k)
    <2> DEFINE N == Len(rows) + 1
    <2>1. CASE k = id
      <3>1. Owners(k)' = {N}
        BY <1>5, <2>1
      <3>2. rows'[N].body = body
        BY <1>3, <1>4
      <3> HIDE DEF N
      <3>3. Bound(k)' = rows'[N].body
        BY <3>1 DEF Bound
      <3>4. QED
        BY <2>1, <3>2, <3>3
    <2>2. CASE k # id
      <3>1. Owners(k)' = Owners(k)
        BY <1>5, <2>2
      <3>2. \A n \in Owners(k) : rows'[n] = rows[n]
        BY <1>3 DEF Owners
      <3>3. CASE Owners(k) = {}
        BY <2>2, <3>1, <3>3 DEF Bound
      <3>4. CASE Owners(k) # {}
        <4>1. PICK S : S = Owners(k)
          OBVIOUS
        <4>2. Bound(k) = rows[CHOOSE n \in S : TRUE].body
          BY <3>4, <4>1 DEF Bound
        <4>3. Bound(k)' = rows'[CHOOSE n \in S : TRUE].body
          BY <3>1, <3>4, <4>1 DEF Bound
        <4>4. (CHOOSE n \in S : TRUE) \in S
          BY <3>4, <4>1
        <4>5. QED
          BY <2>2, <3>2, <4>1, <4>2, <4>3, <4>4
      <3>5. QED
        BY <3>3, <3>4
    <2>3. QED
      BY <2>1, <2>2
  <1>7. bound' = [bound EXCEPT ![id] = body]
    BY <1>1, <1>6 DEF bound
  <1> HIDE DEF id, body
  <1>8. Promise!Bind(id, body)
    BY <1>2, <1>7 DEF Promise!Bind, bound, answer
  <1>9. QED
    BY <1>1, <1>8 DEF Promise!Next

(* Without a new row every id stands for what it stood for. *)
LEMMA BoundFrame == UNCHANGED rows => bound' = bound
  BY SMTT(30) DEF bound, Bound, Owners

(* What the step of one handler does to the answers. *)
LEMMA AnswerFrame ==
  ASSUME EnqueueInv, NEW c \in Calls, NEW h, call' = [call EXCEPT ![c] = h]
  PROVE  /\ answer' = [answer EXCEPT ![c] = Answered(c)']
         /\ Answered(c)' = IF h.at \in {"accepted", "conflict"}
                             THEN [id |-> h.id, body |-> h.body, accepted |-> h.at = "accepted"] ELSE Nothing
  <1>1. call'[c] = h /\ \A d \in Calls \ {c} : call'[d] = call[d]
    BY DEF EnqueueInv
  <1>2. \A d \in Calls \ {c} : Answered(d)' = Answered(d)
    BY <1>1 DEF Answered
  <1>3. Answered(c)' = IF h.at \in {"accepted", "conflict"}
                         THEN [id |-> h.id, body |-> h.body, accepted |-> h.at = "accepted"] ELSE Nothing
    BY <1>1 DEF Answered
  <1> DEFINE a == Answered(c)'
  <1> HIDE DEF a
  <1>4. answer' = [answer EXCEPT ![c] = a]
    BY <1>2 DEF answer, a
  <1>5. QED
    BY <1>3, <1>4 DEF a

(* A step that tells no caller anything. *)
LEMMA TellsNothing ==
  ASSUME EnqueueInv, NEW c \in Calls, NEW h, call' = [call EXCEPT ![c] = h],
         call[c].at \notin {"accepted", "conflict"}, h.at \notin {"accepted", "conflict"}
  PROVE  answer' = answer
  <1>1. answer' = [answer EXCEPT ![c] = Nothing]
    BY AnswerFrame
  <1>2. answer[c] = Nothing
    BY DEF answer, Answered
  <1>3. answer \in [Calls -> {answer[d] : d \in Calls}]
    BY DEF answer
  <1>4. QED
    BY <1>1, <1>2, <1>3

(* A handler that goes on without an answer. *)
LEMMA GotoTellsNothing ==
  ASSUME EnqueueInv, NEW c \in Calls, NEW at, Goto(c, at),
         call[c].at \notin {"accepted", "conflict"}, at \notin {"accepted", "conflict"}
  PROVE  answer' = answer
  <1> DEFINE h == [call[c] EXCEPT !.at = at]
  <1>1. call[c] \in Handlers
    BY DEF EnqueueInv
  <1>2. call' = [call EXCEPT ![c] = h] /\ h.at = at
    BY <1>1 DEF Goto, Handlers
  <1> HIDE DEF h
  <1>3. QED
    BY <1>2, TellsNothing

(* An answer is given about the body the id stands for. *)
LEMMA Answers ==
  ASSUME EnqueueInv, UNCHANGED rows, NEW c \in Calls, NEW at \in {"accepted", "conflict"}, Goto(c, at),
         call[c].at \notin {"accepted", "conflict", "idle"}, NEW n \in Owners(call[c].id),
         (at = "accepted") <=> SameRequest(rows[n].body, call[c].body)
  PROVE  Promise!Next
  <1> DEFINE h == [call[c] EXCEPT !.at = at]
             id == call[c].id
             body == call[c].body
             told == [id |-> id, body |-> body, accepted |-> at = "accepted"]
  <1>1. call[c] \in Handlers /\ id \in Ids /\ body \in Bodies
    BY DEF EnqueueInv, CallInv
  <1>2. call' = [call EXCEPT ![c] = h] /\ h.at = at /\ h.id = id /\ h.body = body
    BY <1>1 DEF Goto, Handlers
  <1>3. answer' = [answer EXCEPT ![c] = told]
    <2> HIDE DEF h, id, body
    <2>1. Answered(c)' = told
      BY <1>2, AnswerFrame
    <2>2. QED
      BY <1>2, <2>1, AnswerFrame
  <1>4. bound[id] = rows[n].body /\ bound[id] # Nothing /\ bound' = bound
    BY <1>1, BoundToRow, BoundFrame DEF bound
  <1>5. answer[c] = Nothing
    BY DEF answer, Answered
  <1>6. (at = "accepted") = SameRequest(bound[id], body)
    <2>1. (at = "accepted") \in BOOLEAN /\ SameRequest(bound[id], body) \in BOOLEAN
      BY DEF SameRequest
    <2>2. QED
      BY <1>4, <2>1
  <1> HIDE DEF h, id, body
  <1>7. Promise!Answer(c, id, body)
    BY <1>3, <1>4, <1>5, <1>6 DEF Promise!Answer, bound, answer
  <1>8. QED
    BY <1>1, <1>7 DEF Promise!Next

(***************************************************************************)
(* Every statement of every handler, every lost answer and every crash is  *)
(* a step of the promise, or none.                                         *)
(***************************************************************************)
LEMMA PromiseStep ==
  ASSUME \A body \in Bodies : Plain(body)
  PROVE  EnqueueInv /\ [EnqueueNext]_enqueueVars => [Promise!Next]_<<bound, answer>>
  <1> SUFFICES ASSUME EnqueueInv, [EnqueueNext]_enqueueVars PROVE Promise!Next \/ UNCHANGED <<bound, answer>>
    OBVIOUS
  <1>0. EnqueueInv'
    BY EnqueueInvStep
  <1>1. ASSUME NEW c \in Calls, NEW id \in Ids, NEW body \in Bodies, Send(c, id, body)
        PROVE  Promise!Next \/ UNCHANGED <<bound, answer>>
    <2> DEFINE h == [at |-> "received", id |-> id, body |-> body, job |-> 0]
    <2>1. call' = [call EXCEPT ![c] = h] /\ UNCHANGED rows /\ h.at = "received"
      BY <1>1 DEF Send
    <2> HIDE DEF h
    <2>2. bound' = bound
      BY <2>1, BoundFrame
    <2>3. CASE call[c].at \in {"accepted", "conflict"}
      <3>1. answer[c] = [id |-> call[c].id, body |-> call[c].body, accepted |-> call[c].at = "accepted"]
        BY <2>3 DEF answer, Answered
      <3>2. call[c].id \in Ids /\ call[c].body \in Bodies
        BY <2>3 DEF EnqueueInv, CallInv
      <3>3. answer[c] # Nothing
        <4>1. (call[c].at = "accepted") \in BOOLEAN
          OBVIOUS
        <4>2. answer[c] \in [id : Ids, body : Bodies, accepted : BOOLEAN]
          BY <3>1, <3>2, <4>1, SMTT(30)
        <4>3. QED
          BY <4>2, EnqueueConstants
      <3>4. answer' = [answer EXCEPT ![c] = Nothing]
        BY <2>1, AnswerFrame
      <3>5. Promise!AskAgain(c)
        BY <2>2, <3>3, <3>4 DEF Promise!AskAgain, bound, answer
      <3>6. QED
        BY <3>5 DEF Promise!Next
    <2>4. CASE call[c].at \notin {"accepted", "conflict"}
      BY <2>1, <2>2, <2>4, TellsNothing
    <2>5. QED
      BY <2>3, <2>4
  <1>2. ASSUME NEW c \in Calls, Resend(c) PROVE UNCHANGED <<bound, answer>>
    BY <1>2, BoundFrame, GotoTellsNothing DEF Resend
  <1>3. ASSUME NEW c \in Calls, Receive(c) PROVE UNCHANGED <<bound, answer>>
    <2>1. PICK at \in {"insert", "invalid"} : Goto(c, at)
      BY <1>3 DEF Receive
    <2>2. QED
      BY <1>3, <2>1, BoundFrame, GotoTellsNothing DEF Receive
  <1>4. ASSUME NEW c \in Calls, Insert(c) PROVE Promise!Next \/ UNCHANGED <<bound, answer>>
    <2>1. CASE Owners(call[c].id) = {}
      <3> DEFINE h == [call[c] EXCEPT !.at = "read", !.job = Len(rows) + 1]
      <3>1. call[c].at = "insert" /\ rows' = Append(rows, Row(c)) /\ call' = [call EXCEPT ![c] = h]
        BY <1>4, <2>1 DEF Insert
      <3>2. call[c] \in Handlers
        BY DEF EnqueueInv
      <3>3. h.at = "read"
        BY <3>2 DEF Handlers
      <3> HIDE DEF h
      <3>4. answer' = answer
        BY <3>1, <3>3, TellsNothing
      <3>5. QED
        BY <1>0, <2>1, <3>1, <3>4, BoundByInsert
    <2>2. CASE Owners(call[c].id) # {}
      BY <1>4, <2>2, BoundFrame, GotoTellsNothing DEF Insert
    <2>3. QED
      BY <2>1, <2>2
  <1>5. ASSUME NEW c \in Calls, Lookup(c) PROVE Promise!Next \/ UNCHANGED <<bound, answer>>
    <2>1. PICK n \in Owners(call[c].id) :
            IF rows[n].fingerprint = RequestFingerprint(call[c].body)
              THEN call' = [call EXCEPT ![c].at = "read", ![c].job = n]
              ELSE Goto(c, "conflict")
      <3>1. call[c].body \in Bodies
        BY <1>5 DEF Lookup, EnqueueInv, CallInv
      <3>2. Fingerprint[call[c].body] = RequestFingerprint(call[c].body)
        BY <3>1 DEF Fingerprint
      <3>3. QED
        BY <1>5, <3>2 DEF Lookup
    <2>2. UNCHANGED rows /\ call[c].at = "lookup"
      BY <1>5 DEF Lookup
    <2>3. CASE rows[n].fingerprint = RequestFingerprint(call[c].body)
      <3> DEFINE h == [call[c] EXCEPT !.at = "read", !.job = n]
      <3>1. call[c] \in Handlers /\ call' = [call EXCEPT ![c] = h]
        BY <2>1, <2>3 DEF EnqueueInv
      <3>2. h.at = "read"
        BY <3>1 DEF Handlers
      <3> HIDE DEF h
      <3>3. QED
        BY <2>2, <3>1, <3>2, BoundFrame, TellsNothing
    <2>4. CASE rows[n].fingerprint # RequestFingerprint(call[c].body)
      <3>1. rows[n].body \in Bodies /\ call[c].body \in Bodies
        BY <2>2, BoundToRow DEF EnqueueInv, CallInv
      <3>2. rows[n].fingerprint = RequestFingerprint(rows[n].body)
        BY DEF EnqueueInv, Owners
      <3>3. ~SameRequest(rows[n].body, call[c].body)
        BY <2>4, <3>1, <3>2, PlainTells
      <3>4. QED
        BY <2>1, <2>2, <2>4, <3>3, Answers
    <2>5. QED
      BY <2>3, <2>4
  <1>6. ASSUME NEW c \in Calls, Read(c) PROVE Promise!Next
    <2> DEFINE n == call[c].job
    <2>1. call[c].at = "read" /\ UNCHANGED rows /\ Goto(c, "accepted")
      BY <1>6 DEF Read
    <2>2. n \in Owners(call[c].id) /\ rows[n].fingerprint = RequestFingerprint(call[c].body)
      BY <2>1 DEF EnqueueInv, CallInv, Matches
    <2> HIDE DEF n
    <2>3. rows[n].body \in Bodies /\ call[c].body \in Bodies
      BY <2>1, <2>2, BoundToRow DEF EnqueueInv, CallInv
    <2>4. rows[n].fingerprint = RequestFingerprint(rows[n].body)
      BY <2>2 DEF EnqueueInv, Owners
    <2>5. SameRequest(rows[n].body, call[c].body)
      BY <2>2, <2>3, <2>4, PlainTells
    <2>6. QED
      BY <2>1, <2>2, <2>5, Answers
  <1>7. ASSUME NEW c \in Calls, StoreError(c) PROVE Promise!Next \/ UNCHANGED <<bound, answer>>
    <2>1. answer' = answer
      BY <1>7, GotoTellsNothing DEF StoreError
    <2>2. QED
      BY <1>0, <1>7, <2>1, BoundFrame, BoundByInsert DEF StoreError
  <1>8. CASE Crash
    <2>1. \A c \in Calls : call[c] \in Handlers
      BY DEF EnqueueInv
    <2>2. \A c \in Calls : Answered(c)' = Answered(c)
      BY <1>8, <2>1 DEF Crash, Answered, Handlers, Handling
    <2>3. QED
      BY <1>8, <2>2, BoundFrame DEF Crash, answer
  <1>9. CASE UNCHANGED enqueueVars
    BY <1>9, BoundFrame DEF enqueueVars, answer, Answered
  <1>10. QED
    BY <1>1, <1>2, <1>3, <1>4, <1>5, <1>6, <1>7, <1>8, <1>9, RequestsAre DEF EnqueueNext, Serve

(* Nothing is bound, and nobody has an answer. *)
LEMMA PromiseInit == EnqueueInit => Promise!Init
  <1> SUFFICES ASSUME EnqueueInit PROVE Promise!Init
    OBVIOUS
  <1>1. \A id : Bound(id) = Nothing
    BY SMTT(30) DEF EnqueueInit, Bound, Owners
  <1>2. \A c \in Calls : Answered(c) = Nothing
    BY DEF EnqueueInit, Answered, NoCall
  <1>3. QED
    BY <1>1, <1>2 DEF Promise!Init

(***************************************************************************)
(* The handlers, statement by statement and with any errors and crashes    *)
(* between the statements, implement what the enqueue path promises: an id *)
(* is bound once, and every caller is answered by what it asked for, not   *)
(* by how it listed it.  This is so of any plain requests, without NULs in *)
(* their fields and without actions listed twice.                          *)
(***************************************************************************)
THEOREM HandlersKeepPromise ==
  ASSUME \A body \in Bodies : Plain(body)
  PROVE  EnqueueSpec => EnqueuesOnce
  <1>1. EnqueueSpec => Promise!Init
    BY PromiseInit, PTL DEF EnqueueSpec
  <1>2. EnqueueSpec => [][Promise!Next]_<<bound, answer>>
    BY EnqueueInvInit, EnqueueInvStep, PromiseStep, PTL DEF EnqueueSpec
  <1>3. QED
    BY <1>1, <1>2, PTL DEF EnqueuesOnce, Promise!Spec, bound, answer
=============================================================================
