----------------------------- MODULE SeqFilter ------------------------------
(***************************************************************************)
(* Keeping some elements of a sequence, in order: the filter(...) of a     *)
(* queue in the client SDKs.  It is SelectSeq of the standard module       *)
(* Sequences with a set in place of a test, as a recursive function, which *)
(* unlike SelectSeq the provers can unfold.                                *)
(*                                                                         *)
(* Its facts are proved by induction over the length.  The induction       *)
(* theorems of the library take an operator, which the provers cannot      *)
(* instantiate; that every set of natural numbers has a least element      *)
(* (WFMin) takes a set, and is enough.                                     *)
(***************************************************************************)
EXTENDS WellFoundedInduction, FiniteSetTheorems, Sequences, TLAPS

\* The elements of q.
Elements(q) == {q[i] : i \in DOMAIN q}

\* F[i] is what is kept of the first i elements of q.
Filtered(q, K) ==
  LET F[i \in 0 .. Len(q)] == IF i = 0 THEN << >>
                              ELSE IF q[i] \in K THEN Append(F[i - 1], q[i])
                              ELSE F[i - 1]
  IN  F[Len(q)]

-----------------------------------------------------------------------------

\* Induction over the natural numbers, for a set.
LEMMA NatSetInduction ==
  ASSUME NEW T, 0 \in T, \A n \in Nat : n \in T => n + 1 \in T
  PROVE  Nat \subseteq T
<1> SUFFICES ASSUME Nat \ T # {} PROVE FALSE
  OBVIOUS
<1> DEFINE R == OpToRel(<, Nat)
           U == Nat \ T
<1>1. IsWellFoundedOn(R, Nat)
  BY NatLessThanWellFounded
<1>2. \A m, n \in Nat : m < n => <<m, n>> \in R
  BY DEF OpToRel
<1>3. U \subseteq Nat /\ U # {}
  OBVIOUS
<1> HIDE DEF R, U
<1>4. PICK x \in U : \A y \in U : ~ (<<y, x>> \in R)
  BY <1>1, <1>3, WFMin
<1>5. x \in Nat /\ x \notin T /\ x # 0
  BY <1>4 DEF U
<1>6. x - 1 \in Nat /\ x - 1 < x
  BY <1>5
<1>7. x - 1 \notin U
  BY <1>2, <1>3, <1>4, <1>5, <1>6
<1>8. x - 1 \in T
  BY <1>6, <1>7 DEF U
<1>9. (x - 1) + 1 \in T
  BY <1>6, <1>8
<1> QED BY <1>5, <1>9

\* What is kept of the first i elements, from what is kept of those before.
FilterStep(q, K, F, i) ==
  IF i = 0 THEN << >> ELSE IF q[i] \in K THEN Append(F[i - 1], q[i]) ELSE F[i - 1]

\* The recursion defines a function.
LEMMA FilterDefined ==
  ASSUME NEW S, NEW q \in Seq(S), NEW K
  PROVE  \E F : F = [i \in 0 .. Len(q) |-> FilterStep(q, K, F, i)]
<1> DEFINE Good(n) == \E g \in [0 .. n -> Seq(S)] : \A i \in 0 .. n : g[i] = FilterStep(q, K, g, i)
           T == {n \in Nat : n <= Len(q) => Good(n)}
<1>1. Len(q) \in Nat /\ \A i \in 1 .. Len(q) : q[i] \in S
  OBVIOUS
<1>2. Good(0)
  <2> DEFINE g == [i \in 0 .. 0 |-> << >>]
  <2>1. g \in [0 .. 0 -> Seq(S)] /\ \A i \in 0 .. 0 : g[i] = FilterStep(q, K, g, i)
    BY DEF FilterStep
  <2> HIDE DEF g
  <2> QED BY <2>1
<1>3. ASSUME NEW n \in Nat, n < Len(q), Good(n) PROVE Good(n + 1)
  <2>1. PICK g \in [0 .. n -> Seq(S)] : \A i \in 0 .. n : g[i] = FilterStep(q, K, g, i)
    BY <1>3
  <2> DEFINE x == IF q[n + 1] \in K THEN Append(g[n], q[n + 1]) ELSE g[n]
             h == [i \in 0 .. n + 1 |-> IF i <= n THEN g[i] ELSE x]
  <2>2. g[n] \in Seq(S) /\ q[n + 1] \in S
    BY <1>1, <1>3, <2>1
  <2>3. x \in Seq(S)
    BY <2>2
  <2> HIDE DEF x
  <2>4. h \in [0 .. n + 1 -> Seq(S)] /\ h[n + 1] = x /\ \A i \in 0 .. n : h[i] = g[i]
    BY <1>3, <2>1, <2>3
  <2> HIDE DEF h
  <2>5. \A i \in 0 .. n : h[i] = FilterStep(q, K, h, i)
    <3> SUFFICES ASSUME NEW i \in 0 .. n PROVE h[i] = FilterStep(q, K, h, i)
      OBVIOUS
    <3>1. i # 0 => i - 1 \in 0 .. n
      BY <1>3
    <3>2. FilterStep(q, K, h, i) = FilterStep(q, K, g, i)
      BY <2>4, <3>1 DEF FilterStep
    <3> QED BY <2>1, <2>4, <3>2
  <2>6. h[n + 1] = FilterStep(q, K, h, n + 1)
    <3>1. n + 1 # 0 /\ (n + 1) - 1 = n /\ n \in 0 .. n
      BY <1>3
    <3>2. h[n] = g[n]
      BY <2>4, <3>1
    <3> QED BY <2>4, <3>1, <3>2 DEF FilterStep, x
  <2>7. \A i \in 0 .. n + 1 : i \in 0 .. n \/ i = n + 1
    BY <1>3
  <2> QED BY <2>4, <2>5, <2>6, <2>7
<1>4. \A n \in Nat : n \in T => n + 1 \in T
  <2> HIDE DEF Good
  <2> SUFFICES ASSUME NEW n \in Nat, n <= Len(q) => Good(n), n + 1 <= Len(q) PROVE Good(n + 1)
    OBVIOUS
  <2> QED BY <1>1, <1>3
<1>5. Nat \subseteq T
  <2>1. 0 \in T
    BY <1>2
  <2> HIDE DEF T
  <2> QED BY <1>4, <2>1, NatSetInduction
<1>6. Good(Len(q))
  <2> HIDE DEF Good
  <2> QED BY <1>1, <1>5
<1>7. PICK g \in [0 .. Len(q) -> Seq(S)] : \A i \in 0 .. Len(q) : g[i] = FilterStep(q, K, g, i)
  BY <1>6
<1>8. g = [i \in 0 .. Len(q) |-> FilterStep(q, K, g, i)]
  BY <1>7
<1> QED BY <1>8

\* The recursion, unfolded.
LEMMA FilterUnfolds ==
  ASSUME NEW S, NEW q \in Seq(S), NEW K
  PROVE  \E F : /\ Filtered(q, K) = F[Len(q)] /\ F[0] = << >>
               /\ \A n \in Nat : n < Len(q) =>
                    F[n + 1] = IF q[n + 1] \in K THEN Append(F[n], q[n + 1]) ELSE F[n]
<1> DEFINE F == CHOOSE F : F = [i \in 0 .. Len(q) |-> FilterStep(q, K, F, i)]
<1>1. Filtered(q, K) = F[Len(q)]
  BY DEF Filtered, FilterStep
<1>2. F = [i \in 0 .. Len(q) |-> FilterStep(q, K, F, i)]
  BY FilterDefined
<1> HIDE DEF F
<1>3. Len(q) \in Nat /\ \A i \in 1 .. Len(q) : q[i] \in S
  OBVIOUS
<1>4. F[0] = << >>
  BY <1>2, <1>3 DEF FilterStep
<1>5. ASSUME NEW n \in Nat, n < Len(q)
      PROVE  F[n + 1] = IF q[n + 1] \in K THEN Append(F[n], q[n + 1]) ELSE F[n]
  <2>1. n + 1 \in 0 .. Len(q) /\ n + 1 # 0 /\ (n + 1) - 1 = n
    BY <1>3, <1>5
  <2>2. F[n + 1] = FilterStep(q, K, F, n + 1)
    BY <1>2, <2>1
  <2> QED BY <2>1, <2>2 DEF FilterStep
<1> QED BY <1>1, <1>4, <1>5

\* What Filtered returns: the elements that are in K, no longer than q, and q itself
\* when they all are.
LEMMA FilteredFacts ==
  ASSUME NEW S, NEW q \in Seq(S), NEW K
  PROVE  /\ Filtered(q, K) \in Seq(S)
         /\ Len(Filtered(q, K)) <= Len(q)
         /\ Elements(Filtered(q, K)) = Elements(q) \cap K
         /\ Elements(q) \subseteq K => Filtered(q, K) = q
<1>1. PICK F : /\ Filtered(q, K) = F[Len(q)] /\ F[0] = << >>
               /\ \A n \in Nat : n < Len(q) =>
                    F[n + 1] = IF q[n + 1] \in K THEN Append(F[n], q[n + 1]) ELSE F[n]
  BY FilterUnfolds
<1>3. Len(q) \in Nat /\ \A i \in 1 .. Len(q) : q[i] \in S
  OBVIOUS
<1>4. F[0] = << >>
  BY <1>1
<1>5. ASSUME NEW n \in Nat, n < Len(q)
      PROVE  F[n + 1] = IF q[n + 1] \in K THEN Append(F[n], q[n + 1]) ELSE F[n]
  BY <1>1, <1>5
<1> DEFINE Kept(n) == {x \in K : \E i \in 1 .. n : x = q[i]}
           Fine(n) == /\ F[n] \in Seq(S)
                      /\ Len(F[n]) <= n
                      /\ Elements(F[n]) = Kept(n)
                      /\ (\A i \in 1 .. n : q[i] \in K) =>
                           Len(F[n]) = n /\ \A i \in 1 .. n : F[n][i] = q[i]
           T == {n \in Nat : n <= Len(q) => Fine(n)}
<1>6. Fine(0)
  <2>1. << >> \in Seq(S) /\ Len(<< >>) = 0 /\ Elements(<< >>) = {}
    BY DEF Elements
  <2>2. Kept(0) = {}
    OBVIOUS
  <2> QED BY <1>4, <2>1, <2>2
<1>7. ASSUME NEW n \in Nat, n < Len(q), Fine(n) PROVE Fine(n + 1)
  <2> DEFINE f == F[n]
             y == q[n + 1]
  <2>1. /\ f \in Seq(S) /\ Len(f) <= n /\ Elements(f) = Kept(n) /\ y \in S
        /\ (\A i \in 1 .. n : q[i] \in K) => Len(f) = n /\ \A i \in 1 .. n : f[i] = q[i]
    BY <1>3, <1>7
  <2>2. F[n + 1] = IF y \in K THEN Append(f, y) ELSE f
    BY <1>5, <1>7
  <2>3. Kept(n + 1) = IF y \in K THEN Kept(n) \cup {y} ELSE Kept(n)
    <3>1. \A i \in 1 .. n + 1 : i \in 1 .. n \/ i = n + 1
      BY <1>7
    <3>2. 1 .. n \subseteq 1 .. n + 1 /\ n + 1 \in 1 .. n + 1
      BY <1>7
    <3> HIDE DEF y
    <3>3. \A x : (\E i \in 1 .. n + 1 : x = q[i]) <=> (\E i \in 1 .. n : x = q[i]) \/ x = y
      BY <3>1, <3>2 DEF y
    <3> QED BY <3>3
  <2> HIDE DEF f, y, Kept
  <2>4. CASE y \in K
    <3> DEFINE g == Append(f, y)
    <3>1. /\ g \in Seq(S) /\ Len(g) = Len(f) + 1 /\ g[Len(f) + 1] = y
          /\ \A i \in 1 .. Len(f) : g[i] = f[i]
      BY <2>1
    <3>2. DOMAIN g = 1 .. Len(f) + 1 /\ DOMAIN f = 1 .. Len(f) /\ Len(f) \in Nat
      BY <2>1, <3>1
    <3> HIDE DEF g
    <3>3. Elements(g) = Elements(f) \cup {y}
      <4>1. \A i \in 1 .. Len(f) + 1 : i \in 1 .. Len(f) \/ i = Len(f) + 1
        BY <3>2
      <4>2. 1 .. Len(f) \subseteq 1 .. Len(f) + 1 /\ Len(f) + 1 \in 1 .. Len(f) + 1
        BY <3>2
      <4>3. Elements(g) \subseteq Elements(f) \cup {y}
        BY <3>1, <3>2, <4>1 DEF Elements
      <4>4. Elements(f) \subseteq Elements(g)
        BY <3>1, <3>2, <4>2 DEF Elements
      <4>5. y \in Elements(g)
        BY <3>1, <3>2, <4>2 DEF Elements
      <4> QED BY <4>3, <4>4, <4>5
    <3>4. ASSUME \A i \in 1 .. n + 1 : q[i] \in K
          PROVE  Len(g) = n + 1 /\ \A i \in 1 .. n + 1 : g[i] = q[i]
      <4>1. Len(f) = n /\ \A i \in 1 .. n : f[i] = q[i]
        BY <1>7, <2>1, <3>4
      <4>2. \A i \in 1 .. n + 1 : i \in 1 .. n \/ i = n + 1
        BY <1>7
      <4> QED BY <3>1, <4>1, <4>2 DEF y
    <3>5. F[n + 1] = g
      BY <2>2, <2>4 DEF g
    <3>6. g \in Seq(S) /\ Len(g) <= n + 1
      <4>1. Len(f) \in Nat /\ Len(f) <= n /\ n \in Nat
        BY <2>1, <3>2
      <4>2. g \in Seq(S) /\ Len(g) = Len(f) + 1
        BY <3>1
      <4> QED BY <4>1, <4>2
    <3>7. Elements(g) = Kept(n + 1)
      BY <2>1, <2>3, <2>4, <3>3
    <3>8. (\A i \in 1 .. n + 1 : q[i] \in K) =>
            Len(g) = n + 1 /\ \A i \in 1 .. n + 1 : g[i] = q[i]
      BY <3>4
    <3> QED BY <3>5, <3>6, <3>7, <3>8
  <2>5. CASE y \notin K
    <3>1. F[n + 1] = f
      BY <2>2, <2>5
    <3>2. ~ (\A i \in 1 .. n + 1 : q[i] \in K)
      BY <1>7, <2>5 DEF y
    <3>3. f \in Seq(S) /\ Len(f) \in Nat /\ Len(f) <= n
      BY <2>1
    <3>4. Len(f) <= n + 1
      BY <1>7, <3>3
    <3>5. Elements(f) = Kept(n + 1)
      BY <2>1, <2>3, <2>5
    <3> QED BY <3>1, <3>2, <3>3, <3>4, <3>5
  <2> QED BY <2>4, <2>5
<1>8. \A n \in Nat : n \in T => n + 1 \in T
  <2> HIDE DEF Fine
  <2> SUFFICES ASSUME NEW n \in Nat, n <= Len(q) => Fine(n), n + 1 <= Len(q) PROVE Fine(n + 1)
    OBVIOUS
  <2> QED BY <1>3, <1>7
<1>9. Nat \subseteq T
  <2>1. 0 \in T
    BY <1>6
  <2> HIDE DEF T
  <2> QED BY <1>8, <2>1, NatSetInduction
<1>10. Fine(Len(q))
  <2> HIDE DEF Fine
  <2> QED BY <1>3, <1>9
<1> DEFINE f == F[Len(q)]
<1>11. DOMAIN q = 1 .. Len(q)
  OBVIOUS
<1>12. Kept(Len(q)) = Elements(q) \cap K
  BY <1>11 DEF Elements
<1> HIDE DEF Kept
<1>13. f \in Seq(S) /\ Len(f) <= Len(q) /\ Elements(f) = Elements(q) \cap K
  BY <1>10, <1>12
<1>14. Elements(q) \subseteq K => f = q
  <2> SUFFICES ASSUME Elements(q) \subseteq K PROVE f = q
    OBVIOUS
  <2>1. \A i \in 1 .. Len(q) : q[i] \in K
    BY <1>11 DEF Elements
  <2>2. Len(f) = Len(q) /\ \A i \in 1 .. Len(q) : f[i] = q[i]
    BY <1>10, <2>1
  <2> HIDE DEF f
  <2> QED BY <1>13, <2>2
<1> QED BY <1>1, <1>13, <1>14

\* A part of a sequence has no other elements.
LEMMA PartFacts ==
  ASSUME NEW S, NEW q \in Seq(S), NEW m \in Nat, NEW n \in Nat, 1 <= m, m <= n + 1, n <= Len(q)
  PROVE  /\ SubSeq(q, m, n) \in Seq(S) /\ Len(SubSeq(q, m, n)) = n + 1 - m
         /\ Elements(SubSeq(q, m, n)) \subseteq Elements(q)
<1> DEFINE s == SubSeq(q, m, n)
<1>1. s \in Seq(S) /\ Len(s) = n + 1 - m
  OBVIOUS
<1>2. DOMAIN s = 1 .. (n + 1 - m) /\ DOMAIN q = 1 .. Len(q) /\ Len(q) \in Nat
  OBVIOUS
<1>3. \A i \in 1 .. (n + 1 - m) : s[i] = q[m + i - 1] /\ m + i - 1 \in 1 .. Len(q)
  BY <1>2
<1> HIDE DEF s
<1>4. Elements(s) \subseteq Elements(q)
  BY <1>2, <1>3 DEF Elements
<1> QED BY <1>1, <1>4 DEF s

\* The elements of a sequence with one more at its end.
LEMMA AppendFacts ==
  ASSUME NEW S, NEW q \in Seq(S), NEW e \in S
  PROVE  /\ Append(q, e) \in Seq(S) /\ Len(Append(q, e)) = Len(q) + 1
         /\ Elements(Append(q, e)) = Elements(q) \cup {e}
<1> DEFINE a == Append(q, e)
<1>1. a \in Seq(S) /\ Len(a) = Len(q) + 1 /\ Len(q) \in Nat
  OBVIOUS
<1>2. DOMAIN a = 1 .. Len(q) + 1 /\ DOMAIN q = 1 .. Len(q)
  OBVIOUS
<1>3. a[Len(q) + 1] = e /\ \A i \in 1 .. Len(q) : a[i] = q[i]
  OBVIOUS
<1>4. \A i \in 1 .. Len(q) + 1 : i \in 1 .. Len(q) \/ i = Len(q) + 1
  BY <1>1
<1>5. 1 .. Len(q) \subseteq 1 .. Len(q) + 1 /\ Len(q) + 1 \in 1 .. Len(q) + 1
  BY <1>1
<1> HIDE DEF a
<1>6. Elements(a) \subseteq Elements(q) \cup {e}
  BY <1>2, <1>3, <1>4 DEF Elements
<1>7. Elements(q) \subseteq Elements(a)
  BY <1>2, <1>3, <1>5 DEF Elements
<1>8. e \in Elements(a)
  BY <1>2, <1>3, <1>5 DEF Elements
<1> QED BY <1>1, <1>6, <1>7, <1>8 DEF a

\* A sequence cut in two loses no element.
LEMMA CutFacts ==
  ASSUME NEW S, NEW q \in Seq(S), NEW n \in Nat, n <= Len(q)
  PROVE  Elements(q) \subseteq Elements(SubSeq(q, 1, n)) \cup Elements(SubSeq(q, n + 1, Len(q)))
<1> DEFINE a == SubSeq(q, 1, n)
           b == SubSeq(q, n + 1, Len(q))
<1>1. Len(q) \in Nat /\ DOMAIN q = 1 .. Len(q)
  OBVIOUS
<1>2. DOMAIN a = 1 .. n /\ \A i \in 1 .. n : a[i] = q[i]
  BY <1>1
<1>3. DOMAIN b = 1 .. Len(q) - n /\ \A i \in 1 .. Len(q) - n : b[i] = q[n + i]
  BY <1>1
<1>4. ASSUME NEW i \in 1 .. Len(q) PROVE i \in 1 .. n \/ (i - n \in 1 .. Len(q) - n /\ n + (i - n) = i)
  BY <1>1
<1> HIDE DEF a, b
<1>5. ASSUME NEW i \in 1 .. Len(q) PROVE q[i] \in Elements(a) \cup Elements(b)
  <2>1. CASE i \in 1 .. n
    BY <1>2, <2>1 DEF Elements
  <2>2. CASE i - n \in 1 .. Len(q) - n /\ n + (i - n) = i
    <3>1. b[i - n] = q[i]
      BY <1>3, <2>2
    <3> QED BY <1>3, <2>2, <3>1 DEF Elements
  <2> QED BY <1>4, <2>1, <2>2
<1>6. \A x \in Elements(q) : \E i \in 1 .. Len(q) : x = q[i]
  BY <1>1 DEF Elements
<1> QED BY <1>5, <1>6 DEF a, b

\* Where the i-th element of q goes if it is kept: behind those kept before it.
Place(q, K, i) == Cardinality({j \in 1 .. i : q[j] \in K})

\* And there it is.
LEMMA FilteredIndex ==
  ASSUME NEW S, NEW q \in Seq(S), NEW K, NEW i \in 1 .. Len(q), q[i] \in K
  PROVE  Place(q, K, i) \in 1 .. Len(Filtered(q, K)) /\ Filtered(q, K)[Place(q, K, i)] = q[i]
<1> DEFINE C(n) == Place(q, K, n)
<1>0. \A n \in 0 .. Len(q) : C(n) = Cardinality({j \in 1 .. n : q[j] \in K})
  BY DEF Place
<1>1. PICK F : /\ Filtered(q, K) = F[Len(q)] /\ F[0] = << >>
               /\ \A n \in Nat : n < Len(q) =>
                    F[n + 1] = IF q[n + 1] \in K THEN Append(F[n], q[n + 1]) ELSE F[n]
  BY FilterUnfolds
<1>2. Len(q) \in Nat /\ \A m \in 1 .. Len(q) : q[m] \in S
  OBVIOUS
<1> DEFINE In(n) == {j \in 1 .. n : q[j] \in K}
<1>3. C(0) = 0
  <2>1. In(0) = {} /\ 0 \in 0 .. Len(q)
    BY <1>2
  <2>2. C(0) = Cardinality(In(0))
    BY <1>0, <2>1
  <2> QED BY <2>1, <2>2, FS_EmptySet
<1>4. ASSUME NEW n \in Nat, n < Len(q)
      PROVE  C(n) \in Nat /\ C(n + 1) = IF q[n + 1] \in K THEN C(n) + 1 ELSE C(n)
  <2>1. n \in 0 .. Len(q) /\ n + 1 \in 0 .. Len(q)
    BY <1>2, <1>4
  <2>2. C(n) = Cardinality(In(n)) /\ C(n + 1) = Cardinality(In(n + 1))
    BY <1>0, <2>1
  <2>3. IsFiniteSet(1 .. n)
    BY FS_Interval
  <2>4. In(n) \subseteq 1 .. n /\ n + 1 \notin In(n)
    BY <1>4
  <2>5. \A j : j \in 1 .. n + 1 <=> j \in 1 .. n \/ j = n + 1
    BY <1>4
  <2>6. In(n + 1) = IF q[n + 1] \in K THEN In(n) \cup {n + 1} ELSE In(n)
    BY <2>5
  <2> HIDE DEF In
  <2>7. IsFiniteSet(In(n)) /\ Cardinality(In(n)) \in Nat
    BY <2>3, <2>4, FS_Subset, FS_CardinalityType
  <2>8. Cardinality(In(n) \cup {n + 1}) = Cardinality(In(n)) + 1
    BY <2>4, <2>7, FS_AddElement
  <2> QED BY <2>2, <2>6, <2>7, <2>8
<1> HIDE DEF In
<1> DEFINE Fine(n) == /\ F[n] \in Seq(S) /\ C(n) \in Nat /\ Len(F[n]) = C(n)
                      /\ \A m \in 1 .. n : q[m] \in K => C(m) \in 1 .. C(n) /\ F[n][C(m)] = q[m]
           T == {n \in Nat : n <= Len(q) => Fine(n)}
<1>5. Fine(0)
  BY <1>1, <1>3
<1>6. ASSUME NEW n \in Nat, n < Len(q), Fine(n) PROVE Fine(n + 1)
  <2> DEFINE f == F[n]
             y == q[n + 1]
             c == C(n)
  <2>1. /\ f \in Seq(S) /\ c \in Nat /\ Len(f) = c /\ y \in S
        /\ \A m \in 1 .. n : q[m] \in K => C(m) \in 1 .. c /\ f[C(m)] = q[m]
    BY <1>2, <1>6
  <2>2. F[n + 1] = IF y \in K THEN Append(f, y) ELSE f
    BY <1>1, <1>6
  <2>3. C(n + 1) = IF y \in K THEN c + 1 ELSE c
    BY <1>4, <1>6
  <2>4. \A m \in 1 .. n + 1 : m \in 1 .. n \/ m = n + 1
    BY <1>6
  <2> HIDE DEF f, c
  <2>5. CASE y \in K
    <3> DEFINE g == Append(f, y)
    <3>1. g \in Seq(S) /\ Len(g) = c + 1 /\ g[c + 1] = y /\ \A m \in 1 .. c : g[m] = f[m]
      BY <2>1
    <3>2. F[n + 1] = g /\ C(n + 1) = c + 1
      BY <2>2, <2>3, <2>5
    <3> HIDE DEF g
    <3>3. \A m \in 1 .. c : m \in 1 .. c + 1
      BY <2>1
    <3>4. c + 1 \in 1 .. c + 1 /\ c + 1 \in Nat
      BY <2>1
    <3>5. ASSUME NEW m \in 1 .. n + 1, q[m] \in K PROVE C(m) \in 1 .. c + 1 /\ g[C(m)] = q[m]
      <4>1. CASE m \in 1 .. n
        BY <2>1, <3>1, <3>3, <3>5, <4>1
      <4>2. CASE m = n + 1
        BY <3>1, <3>2, <3>4, <4>2
      <4> QED BY <2>4, <4>1, <4>2
    <3> QED BY <3>1, <3>2, <3>4, <3>5
  <2>6. CASE y \notin K
    <3>1. F[n + 1] = f /\ C(n + 1) = c
      BY <2>2, <2>3, <2>6
    <3>2. ASSUME NEW m \in 1 .. n + 1, q[m] \in K PROVE C(m) \in 1 .. c /\ f[C(m)] = q[m]
      BY <2>1, <2>4, <2>6, <3>2
    <3> QED BY <2>1, <3>1, <3>2
  <2> QED BY <2>5, <2>6
<1>7. \A n \in Nat : n \in T => n + 1 \in T
  <2> HIDE DEF Fine
  <2> SUFFICES ASSUME NEW n \in Nat, n <= Len(q) => Fine(n), n + 1 <= Len(q) PROVE Fine(n + 1)
    OBVIOUS
  <2> QED BY <1>2, <1>6
<1>8. Nat \subseteq T
  <2>1. 0 \in T
    BY <1>5
  <2> HIDE DEF T
  <2> QED BY <1>7, <2>1, NatSetInduction
<1>9. Fine(Len(q))
  <2> HIDE DEF Fine
  <2> QED BY <1>2, <1>8
<1>10. C(i) \in 1 .. Len(Filtered(q, K)) /\ Filtered(q, K)[C(i)] = q[i]
  BY <1>1, <1>9
<1> QED BY <1>10
=============================================================================
