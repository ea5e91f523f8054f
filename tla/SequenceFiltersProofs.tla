----------------------- MODULE SequenceFiltersProofs -----------------------
(***************************************************************************)
(* What filtering a sequence returns, for every sequence and every set.    *)
(* Induction is a set of counterexamples without a least number.           *)
(***************************************************************************)
EXTENDS SequenceFilters, FiniteSetTheorems, SequenceTheorems, TLAPS

\* A nonempty set of natural numbers has a least one: among the intervals that
\* end in the set, strict inclusion is well founded.
LEMMA LeastNat ==
    ASSUME NEW T \in SUBSET Nat, T # {}
    PROVE  \E n \in T : \A m \in T : n <= m
<1>1. PICK k \in T : TRUE
  OBVIOUS
<1> DEFINE B == {1..m : m \in {i \in T : i <= k}}
           R == StrictSubsetOrdering(1..k)
<1>2. IsFiniteSet(1..k)
  BY FS_Interval
<1>3. IsWellFoundedOn(R, SUBSET (1..k))
  BY <1>2, FS_StrictSubsetOrderingWellFounded, FS_FiniteSubsetsOfFinite
<1>4. B \subseteq SUBSET (1..k) /\ B # {}
  OBVIOUS
<1> HIDE DEF R, B
<1>5. PICK b \in B : \A c \in B : ~(<<c, b>> \in R)
  BY <1>3, <1>4, WFMin
<1>6. PICK n \in T : n <= k /\ b = 1..n
  BY <1>5 DEF B
<1>7. ASSUME NEW m \in T, m < n PROVE FALSE
  <2>1. 1..m \in B
    BY <1>6, <1>7 DEF B
  <2>2. 1..m \subseteq 1..n /\ 1..m # 1..n
    <3>1. n \in 1..n /\ n \notin 1..m
      BY <1>7
    <3> QED
      BY <1>7, <3>1
  <2>3. <<1..m, b>> \in R
    BY <1>4, <1>6, <2>1, <2>2 DEF R, StrictSubsetOrdering
  <2> QED
    BY <1>5, <2>1, <2>3
<1> QED
  BY <1>6, <1>7

\* The function that FilterUpTo chooses exists.
LEMMA FilterUpToDef ==
    ASSUME NEW S, NEW s \in Seq(S), NEW K
    PROVE  FilterUpTo(s, K) =
              [i \in 0..Len(s) |->
                  IF i = 0 THEN <<>>
                  ELSE IF s[i] \in K THEN Append(FilterUpTo(s, K)[i - 1], s[i])
                                     ELSE FilterUpTo(s, K)[i - 1]]
<1> DEFINE Next(i, q) == IF s[i] \in K THEN Append(q, s[i]) ELSE q
           Rec(n, f) == f = [i \in 0..n |-> IF i = 0 THEN <<>> ELSE Next(i, f[i - 1])]
           Bad == {n \in Nat : ~\E f : Rec(n, f)}
<1>1. Bad = {}
  <2> SUFFICES ASSUME Bad # {} PROVE FALSE
    OBVIOUS
  <2>1. PICK n \in Bad : \A m \in Bad : n <= m
    <3> HIDE DEF Rec
    <3> QED
      BY LeastNat
  <2>2. CASE n = 0
    <3>1. Rec(0, [i \in 0..0 |-> <<>>])
      OBVIOUS
    <3> QED
      BY <2>1, <2>2, <3>1
  <2>3. CASE n # 0
    <3>1. n - 1 \in Nat /\ n - 1 \notin Bad
      <4> HIDE DEF Rec
      <4> QED
        BY <2>1, <2>3
    <3>2. PICK f : Rec(n - 1, f)
      BY <3>1
    <3> DEFINE g == [i \in 0..n |-> IF i = n THEN Next(n, f[n - 1]) ELSE f[i]]
    <3>3. \A i \in 0..n : g[i] = IF i = 0 THEN <<>> ELSE Next(i, g[i - 1])
      <4> SUFFICES ASSUME NEW i \in 0..n
                   PROVE  g[i] = IF i = 0 THEN <<>> ELSE Next(i, g[i - 1])
        OBVIOUS
      <4>1. i < n => g[i] = f[i]
        BY <3>1
      <4>2. CASE i = 0
        BY <2>3, <3>1, <3>2, <4>1, <4>2
      <4>3. CASE i # 0 /\ i < n
        <5>1. i \in 0..n - 1 /\ i - 1 \in 0..n /\ i - 1 # n
          BY <3>1, <4>3
        <5>2. f[i] = Next(i, f[i - 1])
          BY <3>2, <4>3, <5>1
        <5> QED
          BY <4>1, <4>3, <5>1, <5>2
      <4>4. CASE i = n
        <5>1. n - 1 \in 0..n /\ n - 1 # n
          BY <3>1
        <5> QED
          BY <2>3, <4>4, <5>1
      <4> QED
        BY <4>2, <4>3, <4>4
    <3>4. Rec(n, g)
      BY <3>3
    <3> QED
      BY <2>1, <3>4
  <2> QED
    BY <2>2, <2>3
<1>2. Len(s) \in Nat
  OBVIOUS
<1>3. \E f : Rec(Len(s), f)
  BY <1>1, <1>2
<1> QED
  BY <1>3 DEF FilterUpTo

\* Its values, one element after the other.
LEMMA FilterUpToStep ==
    ASSUME NEW S, NEW s \in Seq(S), NEW K
    PROVE  /\ FilterUpTo(s, K)[0] = <<>>
           /\ \A i \in 1..Len(s) :
                FilterUpTo(s, K)[i] = IF s[i] \in K THEN Append(FilterUpTo(s, K)[i - 1], s[i])
                                                    ELSE FilterUpTo(s, K)[i - 1]
<1>1. 0 \in 0..Len(s) /\ \A i \in 1..Len(s) : i \in 0..Len(s) /\ i # 0
  OBVIOUS
<1> DEFINE F == FilterUpTo(s, K)
<1>2. F = [i \in 0..Len(s) |-> IF i = 0 THEN <<>>
                               ELSE IF s[i] \in K THEN Append(F[i - 1], s[i]) ELSE F[i - 1]]
  BY FilterUpToDef
<1> HIDE DEF F
<1>3. F[0] = <<>>
  BY <1>1, <1>2
<1>4. \A i \in 1..Len(s) : F[i] = IF s[i] \in K THEN Append(F[i - 1], s[i]) ELSE F[i - 1]
  BY <1>1, <1>2
<1> QED
  BY <1>3, <1>4 DEF F

\* q has the first n elements of s that belong to K, each once if s has each once.
Filtered(q, s, n, K) ==
    /\ \A x : (\E i \in 1..Len(q) : q[i] = x) <=> x \in K /\ \E i \in 1..n : s[i] = x
    /\ (\A i, j \in 1..Len(s) : s[i] = s[j] => i = j)
         => \A i, j \in 1..Len(q) : q[i] = q[j] => i = j

\* Filtering up to n does what its name says.
LEMMA FilterUpToElements ==
    ASSUME NEW S, NEW s \in Seq(S), NEW K
    PROVE  \A n \in 0..Len(s) : FilterUpTo(s, K)[n] \in Seq(S) /\ Filtered(FilterUpTo(s, K)[n], s, n, K)
<1> DEFINE F == FilterUpTo(s, K)
           Good(n) == /\ F[n] \in Seq(S)
                      /\ \A x : (\E i \in 1..Len(F[n]) : F[n][i] = x)
                                   <=> x \in K /\ \E i \in 1..n : s[i] = x
                      /\ (\A i, j \in 1..Len(s) : s[i] = s[j] => i = j)
                           => \A i, j \in 1..Len(F[n]) : F[n][i] = F[n][j] => i = j
           Bad == {n \in 0..Len(s) : ~Good(n)}
<1>1. /\ F[0] = <<>>
      /\ \A i \in 1..Len(s) : F[i] = IF s[i] \in K THEN Append(F[i - 1], s[i]) ELSE F[i - 1]
  BY FilterUpToStep
<1> HIDE DEF F
<1>2. Bad = {}
  <2> SUFFICES ASSUME Bad # {} PROVE FALSE
    OBVIOUS
  <2>1. Bad \in SUBSET Nat
    OBVIOUS
  <2>2. PICK n \in Bad : \A m \in Bad : n <= m
    <3> HIDE DEF Bad
    <3> QED
      BY <2>1, LeastNat
  <2>3. CASE n = 0
    <3>1. Good(0)
      BY <1>1
    <3> QED
      BY <2>3, <3>1
  <2>4. CASE n # 0
    <3>1. n \in 1..Len(s) /\ n - 1 \in 0..Len(s) /\ n - 1 < n /\ s[n] \in S
      BY <2>4
    <3>2. Good(n - 1)
      <4>1. n - 1 \notin Bad
        <5> HIDE DEF Bad
        <5> QED
          BY <2>1, <2>2, <3>1
      <4> QED
        BY <3>1, <4>1
    <3>3. \A x : (\E i \in 1..n : s[i] = x) <=> x = s[n] \/ \E i \in 1..n - 1 : s[i] = x
      <4>1. \A i \in 1..n : i \in 1..n - 1 \/ i = n
        BY <3>1
      <4> QED
        BY <3>1, <4>1
    <3>4. \A x : (\E i \in 1..Len(F[n - 1]) : F[n - 1][i] = x)
                    <=> x \in K /\ \E i \in 1..n - 1 : s[i] = x
      BY <3>2
    <3>5. CASE s[n] \notin K
      <4>1. F[n] = F[n - 1]
        BY <1>1, <3>1, <3>5
      <4>2. Good(n)
        <5>1. \A x : (\E i \in 1..Len(F[n]) : F[n][i] = x) <=> x \in K /\ \E i \in 1..n : s[i] = x
          BY <3>3, <3>4, <3>5, <4>1
        <5> QED
          BY <3>2, <4>1, <5>1
      <4> QED
        BY <4>2
    <3>6. CASE s[n] \in K
      <4> DEFINE q == F[n - 1]
      <4>1. F[n] = Append(q, s[n]) /\ q \in Seq(S)
        BY <1>1, <3>1, <3>2, <3>6
      <4>2. /\ F[n] \in Seq(S) /\ Len(F[n]) = Len(q) + 1 /\ F[n][Len(q) + 1] = s[n]
            /\ \A i \in 1..Len(q) : F[n][i] = q[i]
        BY <3>1, <4>1
      <4>3. \A x : (\E i \in 1..Len(F[n]) : F[n][i] = x)
                      <=> x = s[n] \/ \E i \in 1..Len(q) : q[i] = x
        BY <4>1, <4>2
      <4>4. \A x : (\E i \in 1..Len(F[n]) : F[n][i] = x) <=> x \in K /\ \E i \in 1..n : s[i] = x
        BY <3>3, <3>4, <3>6, <4>3
      <4>5. ASSUME \A i, j \in 1..Len(s) : s[i] = s[j] => i = j
            PROVE  \A i, j \in 1..Len(F[n]) : F[n][i] = F[n][j] => i = j
        <5>1. ~\E i \in 1..Len(q) : q[i] = s[n]
          <6>1. ~\E i \in 1..n - 1 : s[i] = s[n]
            BY <3>1, <4>5
          <6> QED
            BY <3>4, <6>1
        <5>2. \A i, j \in 1..Len(q) : q[i] = q[j] => i = j
          BY <3>2, <4>5
        <5> QED
          BY <4>1, <4>2, <5>1, <5>2
      <4> QED
        BY <4>2, <4>4, <4>5
    <3> QED
      BY <3>5, <3>6
  <2> QED
    BY <2>3, <2>4
<1>3. \A n \in 0..Len(s) : Good(n)
  BY <1>2
<1>4. \A n \in 0..Len(s) : Good(n) => F[n] \in Seq(S) /\ Filtered(F[n], s, n, K)
  BY DEF Filtered
<1> HIDE DEF Good
<1> QED
  BY <1>3, <1>4 DEF F

\* A filtered sequence has the elements of the sequence that belong to the set, and
\* has each of them once if the sequence has.
THEOREM FilterElements ==
    ASSUME NEW S, NEW s \in Seq(S), NEW K
    PROVE  Filter(s, K) \in Seq(S) /\ Filtered(Filter(s, K), s, Len(s), K)
<1>1. Len(s) \in 0..Len(s)
  OBVIOUS
<1> QED
  BY <1>1, FilterUpToElements DEF Filter

\* The elements of a prefix are the first ones of the sequence.
THEOREM PrefixElements ==
    ASSUME NEW S, NEW s \in Seq(S), NEW n \in Nat
    PROVE  /\ Prefix(s, n) \in Seq(S)
           /\ Len(Prefix(s, n)) = IF n < Len(s) THEN n ELSE Len(s)
           /\ Len(Prefix(s, n)) <= n
           /\ \A i \in 1..Len(Prefix(s, n)) : i \in 1..Len(s) /\ Prefix(s, n)[i] = s[i]
<1> DEFINE m == IF n < Len(s) THEN n ELSE Len(s)
<1>1. m \in 0..Len(s) /\ m <= n /\ \A i \in 1..m : s[i] \in S
  OBVIOUS
<1> HIDE DEF m
<1>2. /\ SubSeq(s, 1, m) \in Seq(S)
      /\ Len(SubSeq(s, 1, m)) = IF 1 <= m THEN m - 1 + 1 ELSE 0
      /\ \A i \in 1..m - 1 + 1 : SubSeq(s, 1, m)[i] = s[1 + i - 1]
  BY <1>1, SubSeqProperties
<1>3. Prefix(s, n) = SubSeq(s, 1, m)
  BY DEF Prefix, m
<1>4. Len(Prefix(s, n)) = m
  BY <1>1, <1>2, <1>3
<1>5. \A i \in 1..m : i \in 1..Len(s) /\ Prefix(s, n)[i] = s[i]
  BY <1>1, <1>2, <1>3
<1> QED
  BY <1>1, <1>2, <1>3, <1>4, <1>5 DEF m

\* Filtering grows a sequence from the left: an element that is kept stands at the
\* place that filtering had reached with it.
THEOREM FilterPlaces ==
    ASSUME NEW S, NEW s \in Seq(S), NEW K, NEW i \in 1..Len(s), s[i] \in K
    PROVE  /\ Len(FilterUpTo(s, K)[i]) \in 1..Len(Filter(s, K))
           /\ Filter(s, K)[Len(FilterUpTo(s, K)[i])] = s[i]
<1> DEFINE F == FilterUpTo(s, K)
<1>1. \A n \in 1..Len(s) : F[n] = IF s[n] \in K THEN Append(F[n - 1], s[n]) ELSE F[n - 1]
  BY FilterUpToStep
<1>2. \A n \in 0..Len(s) : F[n] \in Seq(S)
  BY FilterUpToElements
<1> HIDE DEF F
<1> DEFINE Good(n) == Len(F[i]) \in 1..Len(F[n]) /\ F[n][Len(F[i])] = s[i]
           Bad == {n \in i..Len(s) : ~Good(n)}
<1>3. Good(i)
  <2>1. i - 1 \in 0..Len(s) /\ s[i] \in S
    OBVIOUS
  <2>2. F[i] = Append(F[i - 1], s[i]) /\ F[i - 1] \in Seq(S)
    BY <1>1, <1>2, <2>1
  <2> QED
    BY <2>1, <2>2
<1>4. Bad = {}
  <2> SUFFICES ASSUME Bad # {} PROVE FALSE
    OBVIOUS
  <2>1. Bad \in SUBSET Nat
    OBVIOUS
  <2>2. PICK n \in Bad : \A m \in Bad : n <= m
    <3> HIDE DEF Bad
    <3> QED
      BY <2>1, LeastNat
  <2>3. n # i
    BY <1>3
  <2>4. n \in 1..Len(s) /\ n - 1 \in i..Len(s) /\ n - 1 \in 0..Len(s) /\ n - 1 < n /\ s[n] \in S
    BY <2>3
  <2>5. Good(n - 1)
    <3>1. n - 1 \notin Bad
      <4> HIDE DEF Bad
      <4> QED
        BY <2>1, <2>2, <2>4
    <3> QED
      BY <2>4, <3>1
  <2>6. F[n - 1] \in Seq(S) /\ (F[n] = Append(F[n - 1], s[n]) \/ F[n] = F[n - 1])
    BY <1>1, <1>2, <2>4
  <2>7. CASE F[n] = F[n - 1]
    <3>1. Good(n)
      BY <2>5, <2>7
    <3> QED
      BY <3>1
  <2>8. CASE F[n] = Append(F[n - 1], s[n])
    <3> DEFINE q == F[n - 1]
    <3>1. q \in Seq(S) /\ F[n] = Append(q, s[n]) /\ Len(F[i]) \in 1..Len(q) /\ q[Len(F[i])] = s[i]
      BY <2>5, <2>6, <2>8
    <3> HIDE DEF q
    <3>2. Len(F[n]) = Len(q) + 1 /\ \A k \in 1..Len(q) : F[n][k] = q[k]
      BY <2>4, <3>1
    <3>3. Good(n)
      BY <3>1, <3>2
    <3> QED
      BY <3>3
  <2> QED
    BY <2>6, <2>7, <2>8
<1>5. Len(s) \in i..Len(s)
  OBVIOUS
<1>6. Good(Len(s))
  BY <1>4, <1>5
<1> QED
  BY <1>6 DEF F, Filter
=============================================================================
