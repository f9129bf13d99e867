-------------------------- MODULE AdmissionProofs --------------------------
(***************************************************************************)
(* What the admission decision promises, for any models, loaded in any     *)
(* number, and any budget.  It is made of sums and of a walk along a sorted*)
(* list, so the first half is what those are: the library's induction      *)
(* takes a predicate, which no backend instantiates; here what is proved   *)
(* by induction is a set of sets instead, and the one that fails first is  *)
(* found by WFMin.                                                         *)
(***************************************************************************)
EXTENDS Admission, FiniteSetTheorems, WellFoundedInduction, TLAPS

-----------------------------------------------------------------------------
(* Induction. *)

(* What holds of a set when it holds of all that are smaller holds of all. *)
LEMMA SubsetInduction ==
    ASSUME NEW S, IsFiniteSet(S), NEW Good,
           \A T \in SUBSET S : (\A U \in SUBSET T : U # T => U \in Good) => T \in Good
    PROVE  \A T \in SUBSET S : T \in Good
<1> DEFINE Bad == {T \in SUBSET S : T \notin Good}
<1> SUFFICES ASSUME Bad # {}
             PROVE  FALSE
  OBVIOUS
<1>1. Bad \subseteq FiniteSubsetsOf(S)
  BY FS_Subset DEF FiniteSubsetsOf
<1>2. PICK T \in Bad : \A U \in Bad : <<U, T>> \notin StrictSubsetOrdering(S)
  <2> HIDE DEF Bad
  <2> QED
    BY <1>1, FS_StrictSubsetOrderingWellFounded, WFMin
<1>3. \A U \in SUBSET T : U # T => U \in Good
  BY <1>2 DEF StrictSubsetOrdering
<1> QED
  BY <1>3

(* The least of a set of naturals.                                         *)
LEMMA LeastNatural ==
    ASSUME NEW T \in SUBSET Nat, T # {}
    PROVE  \E n \in T : \A m \in T : n <= m
<1>1. PICK k \in T : TRUE
  OBVIOUS
<1> DEFINE Below == {n \in T : n <= k}
           Initial == {0..n : n \in Below}
<1>2. Initial \subseteq FiniteSubsetsOf(Nat) /\ Initial # {}
  <2>1. \A n \in Below : n \in Nat /\ 0..n \subseteq Nat /\ IsFiniteSet(0..n)
    BY FS_Interval
  <2>2. k \in Below
    BY <1>1
  <2> QED
    BY <2>1, <2>2 DEF FiniteSubsetsOf
<1>3. PICK I \in Initial : \A J \in Initial : <<J, I>> \notin StrictSubsetOrdering(Nat)
  <2> HIDE DEF Initial
  <2> QED
    BY <1>2, FS_StrictSubsetOrderingWellFounded, WFMin
<1>4. PICK n \in Below : I = 0..n
  OBVIOUS
<1>5. ASSUME NEW m \in Below, m < n
      PROVE  FALSE
  <2>1. 0..m \subseteq 0..n /\ n \in 0..n /\ n \notin 0..m
    BY <1>5
  <2>2. <<0..m, 0..n>> \in StrictSubsetOrdering(Nat)
    BY <2>1 DEF StrictSubsetOrdering
  <2> QED
    BY <1>3, <1>4, <2>2
<1>6. \A m \in T : n <= m
  BY <1>5
<1> QED
  BY <1>6

(* What holds of 0, and of the next number when it holds of one, holds of  *)
(* all.                                                                    *)
LEMMA NaturalInduction ==
    ASSUME NEW Good, 0 \in Good, \A n \in Nat : n \in Good => n + 1 \in Good
    PROVE  \A n \in Nat : n \in Good
<1> SUFFICES ASSUME {n \in Nat : n \notin Good} # {}
             PROVE  FALSE
  OBVIOUS
<1>1. PICK n \in {m \in Nat : m \notin Good} : \A m \in {k \in Nat : k \notin Good} : n <= m
  BY LeastNatural
<1>2. n # 0 /\ n - 1 \in Nat
  BY <1>1
<1>3. n - 1 \in Good
  BY <1>1, <1>2
<1> QED
  BY <1>1, <1>2, <1>3

-----------------------------------------------------------------------------
(* A sorted list, and the loop that walks it. *)

(* R orders C: of two different elements the one goes before the other.    *)
IsOrder(R, C) ==
    /\ \A a, b, c \in C : <<a, b>> \in R /\ <<b, c>> \in R => <<a, c>> \in R
    /\ \A a, b \in C : a # b => <<a, b>> \in R \/ <<b, a>> \in R
    /\ \A a \in C : <<a, a>> \notin R

LEMMA LastExists ==
    ASSUME NEW C, IsFiniteSet(C), NEW R, IsOrder(R, C)
    PROVE  \A T \in SUBSET C : T # {} =>
              \E m \in T : \A n \in T \ {m} : <<n, m>> \in R
<1> DEFINE Last(T, m) == \A n \in T \ {m} : <<n, m>> \in R
           Good == {T \in SUBSET C : T # {} => \E m \in T : Last(T, m)}
<1>1. ASSUME NEW T \in SUBSET C, \A U \in SUBSET T : U # T => U \in Good
      PROVE  T \in Good
  <2>1. CASE T = {}
    BY <2>1
  <2>2. CASE T # {}
    <3>1. PICK x \in T : TRUE
      BY <2>2
    <3>2. T \ {x} \in Good
      BY <1>1, <3>1
    <3>3. CASE T \ {x} = {}
      BY <3>1, <3>3
    <3>4. CASE T \ {x} # {}
      <4>1. PICK m \in T \ {x} : Last(T \ {x}, m)
        BY <3>2, <3>4
      <4>2. CASE <<x, m>> \in R
        BY <4>1, <4>2
      <4>3. CASE <<m, x>> \in R
        <5>1. \A n \in T \ {x} : <<n, x>> \in R
          BY <4>1, <4>3 DEF IsOrder
        <5> QED
          BY <5>1, <3>1
      <4> QED
        BY <4>1, <4>2, <4>3 DEF IsOrder
    <3> QED
      BY <3>3, <3>4
  <2> QED
    BY <2>1, <2>2
<1> HIDE DEF Good
<1>2. \A T \in SUBSET C : T \in Good
  BY <1>1, SubsetInduction
<1> QED
  BY <1>2 DEF Good

IsSorted(s, R) == \A i, j \in DOMAIN s : i < j => <<s[i], s[j]>> \in R

(* A finite set can be sorted. *)
LEMMA SortedListExists ==
    ASSUME NEW C, IsFiniteSet(C), NEW R, IsOrder(R, C)
    PROVE  \E s \in [1..Cardinality(C) -> C] : IsSorted(s, R)
<1> DEFINE Good == {T \in SUBSET C : \E s \in [1..Cardinality(T) -> T] : IsSorted(s, R)}
<1>1. ASSUME NEW T \in SUBSET C, \A U \in SUBSET T : U # T => U \in Good
      PROVE  T \in Good
  <2>0. IsFiniteSet(T)
    BY FS_Subset
  <2>1. CASE T = {}
    <3>1. Cardinality(T) = 0 /\ 1..0 = {}
      BY <2>1, FS_EmptySet
    <3> DEFINE s == [i \in 1..Cardinality(T) |-> i]
    <3>2. s \in [1..Cardinality(T) -> T] /\ IsSorted(s, R)
      BY <3>1 DEF IsSorted
    <3> QED
      BY <3>2
  <2>2. CASE T # {}
    <3>1. PICK m \in T : \A n \in T \ {m} : <<n, m>> \in R
      BY <2>2, LastExists
    <3> DEFINE U == T \ {m}
               k == Cardinality(U)
    <3>2. /\ IsFiniteSet(U) /\ k \in Nat /\ Cardinality(T) = k + 1
      <4>1. IsFiniteSet(U) /\ k = Cardinality(T) - 1
        BY <2>0, <3>1, FS_RemoveElement
      <4>2. k \in Nat /\ Cardinality(T) \in Nat
        BY <2>0, <4>1, FS_CardinalityType
      <4> HIDE DEF k, U
      <4> QED
        BY <4>1, <4>2
    <3>3. PICK s \in [1..k -> U] : IsSorted(s, R)
      BY <1>1, <3>1
    <3> HIDE DEF U, k
    <3> DEFINE t == [i \in 1..(k + 1) |-> IF i = k + 1 THEN m ELSE s[i]]
    <3>4. U \subseteq T /\ m \in T /\ \A n \in U : <<n, m>> \in R
      BY <3>1 DEF U
    <3>5. \A i \in 1..(k + 1) : i # k + 1 => i \in 1..k
      BY <3>2
    <3>6. t \in [1..(k + 1) -> T]
      BY <3>3, <3>4, <3>5
    <3>7. IsSorted(t, R)
      <4> SUFFICES ASSUME NEW i \in 1..(k + 1), NEW j \in 1..(k + 1), i < j
                   PROVE  <<t[i], t[j]>> \in R
        BY DEF IsSorted
      <4>1. i \in 1..k /\ t[i] = s[i] /\ s[i] \in U
        BY <3>2, <3>3, <3>5
      <4>2. CASE j = k + 1
        BY <4>1, <4>2, <3>4
      <4>3. CASE j # k + 1
        BY <4>1, <4>3, <3>3, <3>5 DEF IsSorted
      <4> QED
        BY <4>2, <4>3
    <3> HIDE DEF t
    <3> QED
      BY <3>2, <3>6, <3>7
  <2> QED
    BY <2>1, <2>2
<1> HIDE DEF Good
<1>2. \A T \in SUBSET C : T \in Good
  BY <1>1, SubsetInduction
<1> QED
  BY <1>2 DEF Good

(* It has each element of the set, and each once. *)
LEMMA SortedListIsWhole ==
    ASSUME NEW C, IsFiniteSet(C), NEW R, IsOrder(R, C),
           NEW s \in [1..Cardinality(C) -> C], IsSorted(s, R)
    PROVE  \A c \in C : \E i \in 1..Cardinality(C) : s[i] = c
<1> DEFINE n == Cardinality(C)
<1>1. n \in Nat /\ IsFiniteSet(1..n) /\ Cardinality(1..n) = n
  BY FS_CardinalityType, FS_Interval
<1>2. \A i, j \in 1..n : s[i] = s[j] => i = j
  <2> SUFFICES ASSUME NEW i \in 1..n, NEW j \in 1..n, i < j
               PROVE  s[i] # s[j]
    BY <1>1
  <2>1. s[i] \in C /\ <<s[i], s[j]>> \in R
    BY DEF IsSorted
  <2> QED
    BY <2>1 DEF IsOrder
<1>3. s \in Injection(1..n, C)
  BY <1>2 DEF Injection, IsInjective
<1>4. s \in Surjection(1..n, C)
  BY <1>1, <1>3, FS_Injection
<1> QED
  BY <1>4 DEF Surjection

(* What has a part in Enough is in it. *)
IsUpward(Enough, C) ==
    \A S, T \in SUBSET C : S \subseteq T /\ S \in Enough => T \in Enough

FirstOf(s, k) == {s[j] : j \in 1..k}

(* What a walk along s has taken after i steps, when it stops at the first *)
(* set in Enough.                                                          *)
Walked(s, Enough, i) == {s[k] : k \in {l \in 1..i : FirstOf(s, l - 1) \notin Enough}}

(* One step of it: nothing more is taken once there is enough. *)
Taking(S, Enough, x) == IF S \in Enough THEN S ELSE S \cup {x}

LEMMA WalkStep ==
    ASSUME NEW n \in Nat, NEW C, NEW s \in [1..n -> C], NEW Enough,
           IsUpward(Enough, C),
           NEW i \in 1..n
    PROVE  Walked(s, Enough, i) = Taking(Walked(s, Enough, i - 1), Enough, s[i])
<1>1. \A k \in 0..n : FirstOf(s, k) \in SUBSET C
  BY DEF FirstOf
<1>2. \A k, l \in 0..n : k <= l => FirstOf(s, k) \subseteq FirstOf(s, l)
  BY DEF FirstOf
<1>3. Walked(s, Enough, i - 1) \in SUBSET C
  BY DEF Walked
<1>4. CASE FirstOf(s, i - 1) \notin Enough
  <2>1. \A l \in 1..i : FirstOf(s, l - 1) \notin Enough
    <3> SUFFICES ASSUME NEW l \in 1..i
                 PROVE  FirstOf(s, l - 1) \notin Enough
      OBVIOUS
    <3>1. l - 1 \in 0..n /\ i - 1 \in 0..n /\ l - 1 <= i - 1
      OBVIOUS
    <3> QED
      BY <1>1, <1>2, <1>4, <3>1 DEF IsUpward
  <2>2. Walked(s, Enough, i) = FirstOf(s, i)
    <3>1. {l \in 1..i : FirstOf(s, l - 1) \notin Enough} = 1..i
      BY <2>1
    <3> QED
      BY <3>1 DEF Walked, FirstOf
  <2>3. Walked(s, Enough, i - 1) = FirstOf(s, i - 1)
    <3>1. {l \in 1..(i - 1) : FirstOf(s, l - 1) \notin Enough} = 1..(i - 1)
      BY <2>1
    <3> QED
      BY <3>1 DEF Walked, FirstOf
  <2>4. FirstOf(s, i) = FirstOf(s, i - 1) \cup {s[i]}
    BY DEF FirstOf
  <2> QED
    BY <1>4, <2>2, <2>3, <2>4 DEF Taking
<1>5. CASE FirstOf(s, i - 1) \in Enough
  <2>1. Walked(s, Enough, i) = Walked(s, Enough, i - 1)
    <3>1. {l \in 1..i : FirstOf(s, l - 1) \notin Enough}
            = {l \in 1..(i - 1) : FirstOf(s, l - 1) \notin Enough}
      BY <1>5
    <3> QED
      BY <3>1 DEF Walked
  <2> DEFINE K == {k \in 0..(i - 1) : FirstOf(s, k) \in Enough}
  <2>2. K \in SUBSET Nat /\ i - 1 \in K
    BY <1>5
  <2>3. PICK k \in K : \A l \in K : k <= l
    <3> HIDE DEF K
    <3> QED
      BY <2>2, LeastNatural
  <2>4. \A l \in 1..k : FirstOf(s, l - 1) \notin Enough
    <3> SUFFICES ASSUME NEW l \in 1..k, FirstOf(s, l - 1) \in Enough
                 PROVE  FALSE
      OBVIOUS
    <3>1. l - 1 \in K /\ ~(k <= l - 1)
      BY <2>3
    <3> QED
      BY <2>3, <3>1
  <2>5. FirstOf(s, k) \subseteq Walked(s, Enough, i - 1)
    <3> SUFFICES ASSUME NEW j \in 1..k
                 PROVE  s[j] \in Walked(s, Enough, i - 1)
      BY DEF FirstOf
    <3>1. j \in 1..(i - 1)
      BY <2>3
    <3> QED
      BY <2>4, <3>1 DEF Walked
  <2>6. Walked(s, Enough, i - 1) \in Enough
    BY <1>1, <1>3, <2>3, <2>5 DEF IsUpward
  <2> QED
    BY <2>1, <2>6 DEF Taking
<1> QED
  BY <1>4, <1>5

(* Whatever obeys the loop's steps takes what a walk takes. *)
Obeys(taken, s, Enough, C, n) ==
    /\ taken[0] = {}
    /\ \A i \in 1..n : taken[i - 1] \in SUBSET C =>
            taken[i] = Taking(taken[i - 1], Enough, s[i])

LEMMA LoopWalks ==
    ASSUME NEW n \in Nat, NEW C, NEW s \in [1..n -> C], NEW Enough,
           IsUpward(Enough, C),
           NEW taken, Obeys(taken, s, Enough, C, n)
    PROVE  \A i \in 0..n : taken[i] = Walked(s, Enough, i)
<1> DEFINE Good == {i \in Nat : i <= n => taken[i] = Walked(s, Enough, i)}
<1>0. \A l \in 1..n : Walked(s, Enough, l) = Taking(Walked(s, Enough, l - 1), Enough, s[l])
  BY WalkStep
<1>1. 0 \in Good
  BY DEF Walked, Obeys
<1>2. ASSUME NEW i \in Nat, i \in Good
      PROVE  i + 1 \in Good
  <2> SUFFICES ASSUME i + 1 <= n
               PROVE  taken[i + 1] = Walked(s, Enough, i + 1)
    OBVIOUS
  <2>1. i + 1 \in 1..n /\ (i + 1) - 1 = i /\ i <= n
    OBVIOUS
  <2>2. taken[i] = Walked(s, Enough, i)
    BY <1>2, <2>1
  <2>3. Walked(s, Enough, i) \in SUBSET C
    BY <2>1 DEF Walked
  <2> HIDE DEF Good
  <2> DEFINE j == i + 1
  <2>6. j \in 1..n /\ j - 1 = i
    BY <2>1
  <2> HIDE DEF j
  <2>4. taken[j] = Taking(taken[i], Enough, s[j])
    BY <2>2, <2>3, <2>6 DEF Obeys
  <2>5. Walked(s, Enough, j) = Taking(Walked(s, Enough, i), Enough, s[j])
    <3>1. Walked(s, Enough, j) = Taking(Walked(s, Enough, j - 1), Enough, s[j])
      BY <1>0, <2>6
    <3> QED
      BY <2>6, <3>1
  <2>7. taken[j] = Walked(s, Enough, j)
    BY <2>2, <2>4, <2>5
  <2> QED
    BY <2>7 DEF j
<1> HIDE DEF Good
<1>3. \A i \in Nat : i \in Good
  BY <1>1, <1>2, NaturalInduction
<1> QED
  BY <1>3 DEF Good

-----------------------------------------------------------------------------
(* A sum is what its recursion says. *)

SumOf(f, S) == MapThenSumSet(LAMBDA m : f[m], S)

Pick(s) == CHOOSE x \in s : TRUE

Following(f, g, S) ==
    [s \in SUBSET S |-> IF s = {} THEN 0 ELSE f[Pick(s)] + g[s \ {Pick(s)}]]

Follows(f, g, S) == g = Following(f, g, S)

LEMMA SumIsChosen ==
    ASSUME NEW f, NEW S
    PROVE  SumOf(f, S) = (CHOOSE g : g = Following(f, g, S))[S]
BY Zenon DEF SumOf, MapThenSumSet, MapThenFoldSet, Following, Pick

(* There is a function that follows the recursion: one that does so for    *)
(* sets of up to n elements is made into one for n + 1.                    *)
LEMMA FollowingExists ==
    ASSUME NEW f, NEW S, IsFiniteSet(S), \A x \in S : f[x] \in Nat
    PROVE  \E g \in [SUBSET S -> Nat] : g = Following(f, g, S)
<1> DEFINE Upto(n) == {s \in SUBSET S : Cardinality(s) <= n}
           Good == {n \in Nat : \E g \in [SUBSET S -> Nat] :
                        \A s \in Upto(n) : g[s] = Following(f, g, S)[s]}
<1>0. \A s \in SUBSET S : /\ IsFiniteSet(s) /\ Cardinality(s) \in Nat
                          /\ s # {} => /\ Pick(s) \in s
                                       /\ Cardinality(s \ {Pick(s)}) = Cardinality(s) - 1
                          /\ Cardinality(s) = 0 <=> s = {}
  <2> TAKE s \in SUBSET S
  <2>1. IsFiniteSet(s)
    BY FS_Subset
  <2>2. Cardinality(s) \in Nat
    BY <2>1, FS_CardinalityType
  <2>3. s # {} => Pick(s) \in s
    BY DEF Pick
  <2>4. s # {} => Cardinality(s \ {Pick(s)}) = Cardinality(s) - 1
    BY <2>1, <2>3, FS_RemoveElement
  <2>5. Cardinality(s) = 0 <=> s = {}
    BY <2>1, FS_EmptySet
  <2> QED
    BY <2>1, <2>2, <2>3, <2>4, <2>5
<1>1. 0 \in Good
  <2> DEFINE g == [s \in SUBSET S |-> 0]
  <2>1. ASSUME NEW s \in Upto(0)
        PROVE  s = {}
    <3>1. Cardinality(s) \in Nat /\ Cardinality(s) <= 0
      BY <1>0
    <3>2. Cardinality(s) = 0
      BY <3>1
    <3> QED
      BY <1>0, <3>2
  <2>2. g \in [SUBSET S -> Nat] /\ \A s \in Upto(0) : g[s] = Following(f, g, S)[s]
    BY <2>1 DEF Following
  <2> QED
    BY <2>2
<1>2. ASSUME NEW n \in Nat, n \in Good
      PROVE  n + 1 \in Good
  <2>1. PICK g \in [SUBSET S -> Nat] : \A s \in Upto(n) : g[s] = Following(f, g, S)[s]
    BY <1>2
  <2> DEFINE h == Following(f, g, S)
  <2>2. \A s \in SUBSET S : s # {} => s \ {Pick(s)} \in SUBSET S /\ f[Pick(s)] \in Nat
    BY <1>0
  <2>3. h \in [SUBSET S -> Nat]
    BY <2>1, <2>2 DEF Following
  <2>4. ASSUME NEW s \in Upto(n + 1)
        PROVE  h[s] = Following(f, h, S)[s]
    <3>1. CASE s = {}
      BY <3>1 DEF Following
    <3>2. CASE s # {}
      <4> DEFINE rest == s \ {Pick(s)}
      <4>1. rest \in Upto(n)
        BY <1>0, <3>2
      <4>2. h[rest] = g[rest]
        BY <2>1, <4>1
      <4>3. h[s] = f[Pick(s)] + g[rest]
        BY <3>2 DEF Following
      <4>4. Following(f, h, S)[s] = f[Pick(s)] + h[rest]
        BY <3>2 DEF Following
      <4> QED
        BY <4>2, <4>3, <4>4
    <3> QED
      BY <3>1, <3>2
  <2>5. \E k \in [SUBSET S -> Nat] : \A s \in Upto(n + 1) : k[s] = Following(f, k, S)[s]
    <3> HIDE DEF h
    <3> QED
      BY <2>3, <2>4
  <2> QED
    BY <2>5
<1>3. \A n \in Nat : n \in Good
  <2> HIDE DEF Good
  <2> QED
    BY <1>1, <1>2, NaturalInduction
<1>4. PICK g \in [SUBSET S -> Nat] :
         \A s \in Upto(Cardinality(S)) : g[s] = Following(f, g, S)[s]
  BY <1>0, <1>3
<1>5. \A s \in SUBSET S : s \in Upto(Cardinality(S))
  BY <1>0, FS_Subset
<1>6. g = Following(f, g, S)
  BY <1>4, <1>5 DEF Following
<1> QED
  BY <1>6

(* And no two of them disagree, also when one goes further.                *)
LEMMA FollowingAgree ==
    ASSUME NEW f, NEW S, NEW T \in SUBSET S, IsFiniteSet(T),
           NEW g, Follows(f, g, S), NEW h, Follows(f, h, T)
    PROVE  \A s \in SUBSET T : g[s] = h[s]
<1> USE DEF Follows
<1> DEFINE Good == {s \in SUBSET T : g[s] = h[s]}
<1>1. ASSUME NEW s \in SUBSET T, \A u \in SUBSET s : u # s => u \in Good
      PROVE  s \in Good
  <2>1. CASE s = {}
    <3>1. g[s] = 0 /\ h[s] = 0
      BY <2>1 DEF Following
    <3> QED
      BY <3>1
  <2>2. CASE s # {}
    <3> DEFINE rest == s \ {Pick(s)}
    <3>1. Pick(s) \in s
      BY <2>2 DEF Pick
    <3>2. g[rest] = h[rest]
      BY <1>1, <3>1
    <3>3. g[s] = f[Pick(s)] + g[rest] /\ h[s] = f[Pick(s)] + h[rest]
      BY <2>2 DEF Following
    <3> QED
      BY <3>2, <3>3
  <2> QED
    BY <2>1, <2>2
<1>2. \A s \in SUBSET T : s \in Good
  <2> HIDE DEF Good
  <2> QED
    BY <1>1, SubsetInduction
<1> QED
  BY <1>2

(* So the sum of a set is what any function that follows the recursion on  *)
(* a larger one says of it.                                                *)
LEMMA SumIsFollowed ==
    ASSUME NEW f, NEW S, IsFiniteSet(S), NEW T \in SUBSET S, \A x \in S : f[x] \in Nat,
           NEW g, Follows(f, g, S)
    PROVE  SumOf(f, T) = g[T]
<1>1. IsFiniteSet(T) /\ \A x \in T : f[x] \in Nat
  BY FS_Subset
<1>2. \E h : h = Following(f, h, T)
  BY <1>1, FollowingExists
<1> DEFINE chosen == CHOOSE h : h = Following(f, h, T)
<1>3. chosen = Following(f, chosen, T)
  BY <1>2
<1>4. SumOf(f, T) = chosen[T]
  BY SumIsChosen
<1>5. ASSUME NEW h, Follows(f, h, T)
      PROVE  g[T] = h[T]
  <2>1. \A s \in SUBSET T : g[s] = h[s]
    BY <1>1, <1>5, FollowingAgree
  <2> QED
    BY <2>1
<1> HIDE DEF chosen
<1> QED
  BY <1>3, <1>4, <1>5 DEF Follows

(* The recursion itself.                                                   *)
LEMMA SumRecursion ==
    ASSUME NEW f, NEW S, IsFiniteSet(S), \A x \in S : f[x] \in Nat
    PROVE  /\ SumOf(f, {}) = 0
           /\ SumOf(f, S) \in Nat
           /\ S # {} => SumOf(f, S) = f[Pick(S)] + SumOf(f, S \ {Pick(S)})
<1>1. PICK g \in [SUBSET S -> Nat] : Follows(f, g, S)
  BY FollowingExists DEF Follows
<1>2. \A T \in SUBSET S : SumOf(f, T) = g[T]
  BY <1>1, SumIsFollowed
<1>3. g[{}] = 0 /\ (S # {} => g[S] = f[Pick(S)] + g[S \ {Pick(S)}])
  BY <1>1 DEF Follows, Following
<1> QED
  BY <1>1, <1>2, <1>3

(* Whichever element goes first: what it adds to the others.               *)
LEMMA SumTakesAny ==
    ASSUME NEW f, NEW S, IsFiniteSet(S), \A x \in S : f[x] \in Nat, NEW x \in S
    PROVE  SumOf(f, S) = f[x] + SumOf(f, S \ {x})
<1> DEFINE Good == {T \in SUBSET S :
                      \A y \in T : SumOf(f, T) = f[y] + SumOf(f, T \ {y})}
<1>1. ASSUME NEW T \in SUBSET S, \A U \in SUBSET T : U # T => U \in Good
      PROVE  T \in Good
  <2> SUFFICES ASSUME NEW y \in T
               PROVE  SumOf(f, T) = f[y] + SumOf(f, T \ {y})
    OBVIOUS
  <2> DEFINE z == Pick(T)
             both == T \ {y, z}
  <2>1. z \in T
    BY DEF Pick
  <2> HIDE DEF z
  <2>2. IsFiniteSet(T) /\ \A U \in SUBSET T : IsFiniteSet(U) /\ SumOf(f, U) \in Nat
    BY SumRecursion, FS_Subset
  <2>3. SumOf(f, T) = f[z] + SumOf(f, T \ {z})
    BY <2>2, SumRecursion DEF z
  <2>4. CASE y = z
    BY <2>3, <2>4
  <2>5. CASE y # z
    <3>1. SumOf(f, T \ {z}) = f[y] + SumOf(f, both)
      <4>1. T \ {z} \in Good /\ y \in T \ {z} /\ (T \ {z}) \ {y} = both
        BY <1>1, <2>1, <2>5
      <4> QED
        BY <4>1
    <3>2. SumOf(f, T \ {y}) = f[z] + SumOf(f, both)
      <4>1. T \ {y} \in Good /\ z \in T \ {y} /\ (T \ {y}) \ {z} = both
        BY <1>1, <2>1, <2>5
      <4> QED
        BY <4>1
    <3>3. f[y] \in Nat /\ f[z] \in Nat /\ SumOf(f, both) \in Nat
      BY <2>1, <2>2
    <3> QED
      BY <2>3, <3>1, <3>2, <3>3
  <2> QED
    BY <2>4, <2>5
<1>2. \A T \in SUBSET S : T \in Good
  <2> HIDE DEF Good
  <2> QED
    BY <1>1, SubsetInduction
<1> QED
  BY <1>2

(* What a part of a set comes to, and what the rest of it does.            *)
LEMMA SumSplits ==
    ASSUME NEW f, NEW S, IsFiniteSet(S), \A x \in S : f[x] \in Nat, NEW T \in SUBSET S
    PROVE  /\ SumOf(f, T) \in Nat /\ SumOf(f, S \ T) \in Nat
           /\ SumOf(f, S) = SumOf(f, T) + SumOf(f, S \ T)
<1> DEFINE Good == {U \in SUBSET T : SumOf(f, S) = SumOf(f, U) + SumOf(f, S \ U)}
<1>0. \A U \in SUBSET S : IsFiniteSet(U) /\ SumOf(f, U) \in Nat
  BY SumRecursion, FS_Subset
<1>1. ASSUME NEW U \in SUBSET T, \A V \in SUBSET U : V # U => V \in Good
      PROVE  U \in Good
  <2>1. CASE U = {}
    <3>1. SumOf(f, S \ U) = SumOf(f, S) /\ SumOf(f, U) = SumOf(f, {})
      <4>1. S \ U = S
        BY <2>1
      <4> QED
        BY <2>1, <4>1
    <3>2. SumOf(f, {}) = 0 /\ SumOf(f, S) \in Nat
      BY SumRecursion
    <3> QED
      BY <3>1, <3>2
  <2>2. CASE U # {}
    <3>1. PICK x \in U : TRUE
      BY <2>2
    <3>2. SumOf(f, S) = SumOf(f, U \ {x}) + SumOf(f, S \ (U \ {x}))
      BY <1>1
    <3>3. SumOf(f, U) = f[x] + SumOf(f, U \ {x})
      BY <1>0, SumTakesAny
    <3>4. SumOf(f, S \ (U \ {x})) = f[x] + SumOf(f, S \ U)
      <4>1. (S \ (U \ {x})) \ {x} = S \ U /\ x \in S \ (U \ {x})
        OBVIOUS
      <4> QED
        BY <1>0, <4>1, SumTakesAny
    <3>5. /\ SumOf(f, U \ {x}) \in Nat /\ SumOf(f, S \ U) \in Nat /\ f[x] \in Nat
          /\ SumOf(f, S) \in Nat /\ SumOf(f, U) \in Nat
      BY <1>0
    <3> QED
      BY <3>2, <3>3, <3>4, <3>5
  <2> QED
    BY <2>1, <2>2
<1>2. \A U \in SUBSET T : U \in Good
  <2>1. IsFiniteSet(T)
    BY FS_Subset
  <2> HIDE DEF Good
  <2> QED
    BY <1>1, <2>1, SubsetInduction
<1> QED
  BY <1>0, <1>2

(* A part of a set comes to no more than all of it.                        *)
LEMMA SumOfPart ==
    ASSUME NEW f, NEW S, IsFiniteSet(S), \A x \in S : f[x] \in Nat, NEW T \in SUBSET S
    PROVE  SumOf(f, T) <= SumOf(f, S)
<1>1. SumOf(f, T) \in Nat /\ SumOf(f, S \ T) \in Nat
      /\ SumOf(f, S) = SumOf(f, T) + SumOf(f, S \ T)
  BY SumSplits
<1> QED
  BY <1>1

(* A sum says nothing of what is not in its set.                           *)
LEMMA SumSeesItsSet ==
    ASSUME NEW S, IsFiniteSet(S), NEW f, NEW g, \A x \in S : f[x] \in Nat /\ g[x] = f[x]
    PROVE  SumOf(g, S) = SumOf(f, S)
<1> DEFINE Good == {T \in SUBSET S : SumOf(g, T) = SumOf(f, T)}
<1>1. ASSUME NEW T \in SUBSET S, \A U \in SUBSET T : U # T => U \in Good
      PROVE  T \in Good
  <2>0. IsFiniteSet(T)
    BY FS_Subset
  <2>1. CASE T = {}
    BY <2>0, <2>1, SumRecursion
  <2>2. CASE T # {}
    <3>1. PICK x \in T : TRUE
      BY <2>2
    <3>2. SumOf(g, T) = g[x] + SumOf(g, T \ {x})
      BY <2>0, SumTakesAny
    <3>3. SumOf(f, T) = f[x] + SumOf(f, T \ {x})
      BY <2>0, SumTakesAny
    <3>4. SumOf(g, T \ {x}) = SumOf(f, T \ {x})
      BY <1>1
    <3> QED
      BY <3>2, <3>3, <3>4
  <2> QED
    BY <2>1, <2>2
<1>2. \A T \in SUBSET S : T \in Good
  <2> HIDE DEF Good
  <2> QED
    BY <1>1, SubsetInduction
<1> QED
  BY <1>2

-----------------------------------------------------------------------------
(* The sums of Admission. *)

CostsIn(held)   == [m \in DOMAIN held |-> held[m].cost]
DevicesIn(held) == [m \in DOMAIN held |-> held[m].device]

IsHeld(held) == /\ IsFiniteSet(DOMAIN held)
                /\ held \in [DOMAIN held -> HeldModel]

(* What is loaded comes to the sum of its charges.                         *)
LEMMA CostIsSum ==
    ASSUME NEW held, IsHeld(held), NEW S \in SUBSET DOMAIN held
    PROVE  CostOf(held, S) = SumOf(CostsIn(held), S)
<1> DEFINE f == CostsIn(held)
           Cost(g) == [s \in SUBSET S |-> IF s = {} THEN 0
                                          ELSE held[Pick(s)].cost + g[s \ {Pick(s)}]]
<1>1. IsFiniteSet(S) /\ \A x \in S : f[x] \in Nat /\ f[x] = held[x].cost
  BY FS_Subset DEF IsHeld, CostsIn, HeldModel
<1> DEFINE chosen == CHOOSE g : g = Cost(g)
<1>2. CostOf(held, S) = chosen[S]
  BY Zenon DEF CostOf, MapThenSumSet, MapThenFoldSet, Pick
<1>3. \A g : Cost(g) = Following(f, g, S)
  <2> TAKE g
  <2>1. \A s \in SUBSET S : s # {} => Pick(s) \in S
    BY DEF Pick
  <2> HIDE DEF f
  <2> QED
    BY <1>1, <2>1 DEF Following
<1>4. \E g : g = Cost(g)
  BY <1>1, <1>3, FollowingExists
<1>5. chosen = Cost(chosen)
  BY <1>4
<1> HIDE DEF chosen, Cost, f
<1>6. Follows(f, chosen, S)
  BY <1>3, <1>5 DEF Follows
<1>7. SumOf(f, S) = chosen[S]
  BY <1>1, <1>6, SumIsFollowed
<1> QED
  BY <1>2, <1>7 DEF f

(* And what is on the device to the sum of its shares.                     *)
LEMMA DeviceIsSum ==
    ASSUME NEW held, IsHeld(held), NEW S \in SUBSET DOMAIN held
    PROVE  DeviceOf(held, S) = SumOf(DevicesIn(held), S)
<1> DEFINE f == DevicesIn(held)
           Device(g) == [s \in SUBSET S |-> IF s = {} THEN 0
                                            ELSE held[Pick(s)].device + g[s \ {Pick(s)}]]
<1>1. IsFiniteSet(S) /\ \A x \in S : f[x] \in Nat /\ f[x] = held[x].device
  BY FS_Subset DEF IsHeld, DevicesIn, HeldModel
<1> DEFINE chosen == CHOOSE g : g = Device(g)
<1>2. DeviceOf(held, S) = chosen[S]
  BY Zenon DEF DeviceOf, MapThenSumSet, MapThenFoldSet, Pick
<1>3. \A g : Device(g) = Following(f, g, S)
  <2> TAKE g
  <2>1. \A s \in SUBSET S : s # {} => Pick(s) \in S
    BY DEF Pick
  <2> HIDE DEF f
  <2> QED
    BY <1>1, <2>1 DEF Following
<1>4. \E g : g = Device(g)
  BY <1>1, <1>3, FollowingExists
<1>5. chosen = Device(chosen)
  BY <1>4
<1> HIDE DEF chosen, Device, f
<1>6. Follows(f, chosen, S)
  BY <1>3, <1>5 DEF Follows
<1>7. SumOf(f, S) = chosen[S]
  BY <1>1, <1>6, SumIsFollowed
<1> QED
  BY <1>2, <1>7 DEF f

(* What is left of what is loaded once some of it has gone.                *)
Left(held, S) == [m \in DOMAIN held \ S |-> held[m]]

(* What the ledger and the device count, and how they change with what is  *)
(* unloaded.                                                               *)
LEMMA HeldSums ==
    ASSUME NEW held, IsHeld(held), NEW S \in SUBSET DOMAIN held
    PROVE  /\ CostOf(held, S) \in Nat /\ DeviceOf(held, S) \in Nat
           /\ CostOf(held, DOMAIN held \ S) \in Nat
           /\ CostOf(held, DOMAIN held) = CostOf(held, S) + CostOf(held, DOMAIN held \ S)
           /\ \A T \in SUBSET S : /\ CostOf(held, T) <= CostOf(held, S)
                                  /\ DeviceOf(held, T) <= DeviceOf(held, S)
           /\ CostOf(held, {}) = 0 /\ DeviceOf(held, {}) = 0
<1> DEFINE D == DOMAIN held
<1>1. \A T \in SUBSET D : /\ CostOf(held, T) = SumOf(CostsIn(held), T)
                          /\ DeviceOf(held, T) = SumOf(DevicesIn(held), T)
  BY CostIsSum, DeviceIsSum
<1>2. \A x \in D : CostsIn(held)[x] \in Nat /\ DevicesIn(held)[x] \in Nat
  BY DEF IsHeld, CostsIn, DevicesIn, HeldModel
<1>3. IsFiniteSet(D) /\ IsFiniteSet(S)
  BY FS_Subset DEF IsHeld
<1>4. /\ SumOf(CostsIn(held), S) \in Nat /\ SumOf(CostsIn(held), D \ S) \in Nat
      /\ SumOf(CostsIn(held), D) = SumOf(CostsIn(held), S) + SumOf(CostsIn(held), D \ S)
  <2> DEFINE f == CostsIn(held)
  <2>1. S \in SUBSET D /\ \A x \in D : f[x] \in Nat
    BY <1>2
  <2> HIDE DEF D, f
  <2>2. /\ SumOf(f, S) \in Nat /\ SumOf(f, D \ S) \in Nat
        /\ SumOf(f, D) = SumOf(f, S) + SumOf(f, D \ S)
    BY <1>3, <2>1, SumSplits
  <2> QED
    BY <2>2 DEF f
<1>5. /\ SumOf(DevicesIn(held), S) \in Nat
      /\ SumOf(CostsIn(held), {}) = 0 /\ SumOf(DevicesIn(held), {}) = 0
  BY <1>2, <1>3, SumRecursion
<1>6. \A T \in SUBSET S : /\ SumOf(CostsIn(held), T) <= SumOf(CostsIn(held), S)
                          /\ SumOf(DevicesIn(held), T) <= SumOf(DevicesIn(held), S)
  BY <1>2, <1>3, SumOfPart
<1> QED
  BY <1>1, <1>4, <1>5, <1>6

(* What is loaded comes to more when one is: what it is charged.           *)
LEMMA CostWithOneMore ==
    ASSUME NEW held, IsHeld(held), NEW S \in SUBSET DOMAIN held, NEW m \in S
    PROVE  CostOf(held, S) = held[m].cost + CostOf(held, S \ {m})
<1>1. IsFiniteSet(S) /\ \A x \in S : CostsIn(held)[x] \in Nat
  BY FS_Subset DEF IsHeld, CostsIn, HeldModel
<1>2. SumOf(CostsIn(held), S) = CostsIn(held)[m] + SumOf(CostsIn(held), S \ {m})
  BY <1>1, SumTakesAny
<1> QED
  BY <1>2, CostIsSum DEF CostsIn

(* Two that are charged alike come to the same.                            *)
LEMMA SameCosts ==
    ASSUME NEW held, IsHeld(held), NEW other, IsHeld(other),
           NEW S \in SUBSET DOMAIN held, S \subseteq DOMAIN other,
           \A m \in S : other[m].cost = held[m].cost
    PROVE  CostOf(other, S) = CostOf(held, S)
<1>1. /\ IsFiniteSet(S)
      /\ \A x \in S : CostsIn(held)[x] \in Nat /\ CostsIn(other)[x] = CostsIn(held)[x]
  BY FS_Subset DEF IsHeld, CostsIn, HeldModel
<1>2. SumOf(CostsIn(other), S) = SumOf(CostsIn(held), S)
  BY <1>1, SumSeesItsSet
<1> QED
  BY <1>2, CostIsSum

(* Fewer of them come to no more.                                          *)
LEMMA FewerCostNoMore ==
    ASSUME NEW held, IsHeld(held), NEW other, IsHeld(other),
           NEW S \in SUBSET DOMAIN held, NEW T \in SUBSET S, T \subseteq DOMAIN other,
           \A m \in T : other[m].cost = held[m].cost
    PROVE  /\ CostOf(other, T) \in Nat /\ CostOf(held, S) \in Nat
           /\ CostOf(other, T) <= CostOf(held, S)
<1>1. T \in SUBSET DOMAIN held /\ T \in SUBSET DOMAIN other
  OBVIOUS
<1>2. CostOf(other, T) = CostOf(held, T)
  BY <1>1, SameCosts
<1>3. CostOf(held, T) <= CostOf(held, S) /\ CostOf(held, S) \in Nat
  BY HeldSums
<1>4. CostOf(held, T) \in Nat
  BY <1>1, HeldSums
<1> QED
  BY <1>2, <1>3, <1>4

(* What is left is loaded still, and costs what it did.                    *)
LEMMA LeftCosts ==
    ASSUME NEW held, IsHeld(held), NEW S \in SUBSET DOMAIN held
    PROVE  /\ IsHeld(Left(held, S))
           /\ CostOf(Left(held, S), DOMAIN held \ S) = CostOf(held, DOMAIN held \ S)
<1>1. IsHeld(Left(held, S))
  BY FS_Subset DEF IsHeld, Left
<1>2. \A m \in DOMAIN held \ S : Left(held, S)[m].cost = held[m].cost
  BY DEF Left
<1>3. DOMAIN Left(held, S) = DOMAIN held \ S
  BY DEF Left
<1> QED
  BY <1>1, <1>2, <1>3, SameCosts

-----------------------------------------------------------------------------
(* The decision. *)

IsWanted(wanted) == wanted.cost \in Nat /\ wanted.device \in Nat

IsReading(n) == n \in Nat \cup {None}

(* What a "none" of the two questions means.                               *)
LEMMA RoomMeans ==
    ASSUME NEW held, IsHeld(held), NEW wanted, IsWanted(wanted),
           NEW limit, IsReading(limit), NEW deviceFree, IsReading(deviceFree),
           NEW freed \in SUBSET DOMAIN held
    PROVE  Short(limit, deviceFree, held, wanted, freed) = "none" <=>
              /\ limit # None =>
                    CostOf(held, DOMAIN held \ freed) + wanted.cost <= limit
              /\ deviceFree # None =>
                    wanted.device <= deviceFree + DeviceOf(held, freed)
<1>1. /\ CostOf(held, freed) \in Nat /\ DeviceOf(held, freed) \in Nat
      /\ CostOf(held, DOMAIN held \ freed) \in Nat
      /\ CostOf(held, DOMAIN held)
           = CostOf(held, freed) + CostOf(held, DOMAIN held \ freed)
  BY HeldSums
<1>2. SaturatingSub(CostOf(held, DOMAIN held), CostOf(held, freed))
        = CostOf(held, DOMAIN held \ freed)
  BY <1>1 DEF SaturatingSub
<1> QED
  BY <1>1, <1>2 DEF Short, IsReading, IsWanted

(* What admit promises: with what it named unloaded, both questions are    *)
(* answered.                                                               *)
LEMMA AdmittedFits ==
    ASSUME NEW held, IsHeld(held), NEW used, NEW wanted, IsWanted(wanted),
           NEW limit, IsReading(limit), NEW deviceFree, IsReading(deviceFree),
           wanted.id \notin DOMAIN held
    PROVE  LET decision == Decide(limit, deviceFree, held, used, wanted)
           IN  /\ decision.unload \in SUBSET Candidates(held, wanted)
               /\ decision.kind = "fits" => decision.unload = {}
               /\ decision.kind \in {"fits", "unload"} =>
                    /\ limit # None =>
                         CostOf(held, DOMAIN held \ decision.unload) + wanted.cost <= limit
                    /\ deviceFree # None =>
                         wanted.device <= deviceFree + DeviceOf(held, decision.unload)
<1> DEFINE victims == Victims(limit, deviceFree, held, used, wanted)
           decision == Decide(limit, deviceFree, held, used, wanted)
<1>1. victims \in SUBSET Candidates(held, wanted)
  BY DEF Victims
<1>2. Candidates(held, wanted) \subseteq DOMAIN held
  BY DEF Candidates
<1>3. \/ decision = Decision("refuse", {})
      \/ decision = Decision("blocked", {})
      \/ /\ decision = Decision("fits", {})
         /\ Short(limit, deviceFree, held, wanted, {}) = "none"
      \/ /\ decision = Decision("unload", victims)
         /\ Short(limit, deviceFree, held, wanted, victims) = "none"
  BY DEF Decide
<1> HIDE DEF victims, decision
<1>4. ASSUME NEW freed \in SUBSET DOMAIN held,
             Short(limit, deviceFree, held, wanted, freed) = "none"
      PROVE  /\ limit # None =>
                   CostOf(held, DOMAIN held \ freed) + wanted.cost <= limit
             /\ deviceFree # None =>
                   wanted.device <= deviceFree + DeviceOf(held, freed)
  BY <1>4, RoomMeans
<1>5. CASE decision.kind \in {"fits", "unload"}
  <2>1. /\ decision.unload \in SUBSET Candidates(held, wanted)
        /\ decision.kind = "fits" => decision.unload = {}
        /\ Short(limit, deviceFree, held, wanted, decision.unload) = "none"
    BY <1>1, <1>3, <1>5 DEF Decision
  <2>2. decision.unload \in SUBSET DOMAIN held
    BY <1>2, <2>1
  <2> QED
    BY <1>4, <2>1, <2>2 DEF decision
<1>6. CASE decision.kind \notin {"fits", "unload"}
  BY <1>1, <1>3, <1>6 DEF Decision, decision
<1> QED
  BY <1>5, <1>6

(* More unloaded is more room.                                             *)
LEMMA RoomGrows ==
    ASSUME NEW held, IsHeld(held), NEW wanted, IsWanted(wanted),
           NEW limit, IsReading(limit), NEW deviceFree, IsReading(deviceFree),
           NEW more \in SUBSET DOMAIN held, NEW freed \in SUBSET more,
           Short(limit, deviceFree, held, wanted, freed) = "none"
    PROVE  Short(limit, deviceFree, held, wanted, more) = "none"
<1>1. /\ CostOf(held, more) \in Nat /\ CostOf(held, freed) \in Nat
      /\ CostOf(held, freed) <= CostOf(held, more)
      /\ DeviceOf(held, more) \in Nat /\ DeviceOf(held, freed) \in Nat
      /\ DeviceOf(held, freed) <= DeviceOf(held, more)
      /\ CostOf(held, DOMAIN held \ more) \in Nat
      /\ CostOf(held, DOMAIN held) = CostOf(held, more) + CostOf(held, DOMAIN held \ more)
      /\ CostOf(held, DOMAIN held \ freed) \in Nat
      /\ CostOf(held, DOMAIN held) = CostOf(held, freed) + CostOf(held, DOMAIN held \ freed)
  <2>1. freed \in SUBSET DOMAIN held
    OBVIOUS
  <2> QED
    BY <2>1, HeldSums
<1>2. /\ limit # None => CostOf(held, DOMAIN held \ freed) + wanted.cost <= limit
      /\ deviceFree # None => wanted.device <= deviceFree + DeviceOf(held, freed)
  <2>1. freed \in SUBSET DOMAIN held
    OBVIOUS
  <2> QED
    BY <2>1, RoomMeans
<1>3. /\ limit # None => CostOf(held, DOMAIN held \ more) + wanted.cost <= limit
      /\ deviceFree # None => wanted.device <= deviceFree + DeviceOf(held, more)
  BY <1>1, <1>2 DEF IsReading, IsWanted
<1> QED
  BY <1>3, RoomMeans

(* The victims make room whenever all the candidates would: the first      *)
(* candidate left out is reached with nothing missing, and everything that *)
(* goes before it is a victim.                                             *)
LEMMA VictimsSuffice ==
    ASSUME NEW held, IsHeld(held), NEW wanted, IsWanted(wanted),
           NEW limit, IsReading(limit), NEW deviceFree, IsReading(deviceFree),
           NEW used, \A m \in DOMAIN held : used[m] \in Nat,
           Short(limit, deviceFree, held, wanted,
                 Victims(limit, deviceFree, held, used, wanted)) # "none"
    PROVE  Victims(limit, deviceFree, held, used, wanted) = Candidates(held, wanted)
<1> DEFINE C == Candidates(held, wanted)
           V == Victims(limit, deviceFree, held, used, wanted)
           Before(m) == {c \in C : GoesBefore(held, used, c, m)}
           Prefixes == {Before(m) : m \in C \ V}
<1>0. IsFiniteSet(C) /\ C \subseteq DOMAIN held
  BY FS_Subset DEF IsHeld, Candidates
<1>1. V = {m \in C : Short(limit, deviceFree, held, wanted, Before(m)) # "none"}
  BY DEF Victims
<1>2. ASSUME NEW m \in C, NEW n \in Before(m)
      PROVE  Before(n) \subseteq Before(m) /\ Before(n) # Before(m)
  <2>1. \A c \in C : held[c].guest \in BOOLEAN /\ used[c] \in Nat
    BY <1>0 DEF IsHeld, HeldModel
  <2>2. n \notin Before(n)
    BY <2>1 DEF GoesBefore
  <2>3. \A c \in C : GoesBefore(held, used, c, n) => GoesBefore(held, used, c, m)
    BY <2>1 DEF GoesBefore
  <2> QED
    BY <2>2, <2>3
<1> HIDE DEF C, V
<1>3. ASSUME Prefixes # {}
      PROVE  FALSE
  <2>1. Prefixes \subseteq FiniteSubsetsOf(C)
    BY <1>0, FS_Subset DEF FiniteSubsetsOf
  <2>2. PICK P \in Prefixes : \A Q \in Prefixes : <<Q, P>> \notin StrictSubsetOrdering(C)
    <3> HIDE DEF Prefixes
    <3> QED
      BY <1>3, <2>1, FS_StrictSubsetOrderingWellFounded, WFMin
  <2>3. PICK m \in C \ V : P = Before(m)
    BY <2>2
  <2>4. ASSUME NEW n \in Before(m), n \notin V
        PROVE  FALSE
    <3>1. Before(n) \in Prefixes
      BY <2>4
    <3>2. Before(n) \subseteq Before(m) /\ Before(n) # Before(m)
      BY <1>2, <2>3
    <3>3. <<Before(n), P>> \in StrictSubsetOrdering(C)
      BY <2>3, <3>2 DEF StrictSubsetOrdering
    <3> QED
      BY <2>2, <3>1, <3>3
  <2>5. Before(m) \subseteq V
    BY <2>4
  <2>6. Short(limit, deviceFree, held, wanted, Before(m)) = "none"
    BY <1>1, <2>3
  <2>7. V \in SUBSET DOMAIN held
    BY <1>0, <1>1
  <2>8. Short(limit, deviceFree, held, wanted, V) = "none"
    <3> DEFINE freed == Before(m)
    <3>1. freed \in SUBSET V /\ Short(limit, deviceFree, held, wanted, freed) = "none"
      BY <2>5, <2>6
    <3> HIDE DEF freed
    <3> QED
      BY <2>7, <3>1, RoomGrows
  <2> QED
    BY <2>8 DEF V
<1>4. V \subseteq C
  BY <1>1
<1>5. V = C
  BY <1>3, <1>4
<1> QED
  BY <1>5 DEF V, C

(* Refusing is permanent: the same question, put when everything on demand *)
(* has gone and given its share of the device back, is refused again.      *)
LEMMA RefusedStaysRefused ==
    ASSUME NEW held, IsHeld(held), NEW wanted, IsWanted(wanted),
           NEW limit, IsReading(limit), NEW deviceFree, IsReading(deviceFree),
           NEW used, \A m \in DOMAIN held : used[m] \in Nat,
           wanted.id \notin DOMAIN held,
           NEW onDemand, onDemand = {m \in DOMAIN held : ~held[m].resident},
           NEW free,
           free = IF deviceFree = None THEN None ELSE deviceFree + DeviceOf(held, onDemand),
           Decide(limit, deviceFree, held, used, wanted).kind = "refuse"
    PROVE  Decide(limit, free, Left(held, onDemand), used, wanted).kind = "refuse"
<1> DEFINE left == Left(held, onDemand)
           V == Victims(limit, deviceFree, held, used, wanted)
<1>1. onDemand \in SUBSET DOMAIN held /\ DOMAIN left = DOMAIN held \ onDemand
  BY DEF Left
<1>2. CASE limit # None /\ wanted.cost > limit
  BY <1>1, <1>2 DEF Decide, Decision
<1>3. CASE ~(limit # None /\ wanted.cost > limit)
  <2>1. /\ Short(limit, deviceFree, held, wanted, V) # "none"
        /\ ~FreesItself(held, wanted)
    BY <1>3 DEF Decide, Decision
  <2>2. V = Candidates(held, wanted)
    BY <2>1, VictimsSuffice
  <2>3. Candidates(held, wanted) = onDemand
    <3>1. \A m \in onDemand : ~held[m].busy /\ m # wanted.id
      BY <2>1 DEF FreesItself
    <3> QED
      BY <3>1 DEF Candidates
  <2>4. Short(limit, deviceFree, held, wanted, onDemand) # "none"
    BY <2>1, <2>2, <2>3
  <2> HIDE DEF left
  <2>5. /\ IsHeld(left)
        /\ CostOf(left, DOMAIN left) = CostOf(held, DOMAIN held \ onDemand)
    BY <1>1, LeftCosts DEF left
  <2>6. DeviceOf(left, {}) = 0
    BY <2>5, HeldSums
  <2>7. DeviceOf(held, onDemand) \in Nat
    BY <1>1, HeldSums
  <2>8. free \in Nat \cup {None} /\ (free = None <=> deviceFree = None)
    BY <2>7, NoneAssumption DEF IsReading
  <2>9. Short(limit, free, left, wanted, {}) # "none"
    <3>1. ~ /\ limit # None =>
                 CostOf(held, DOMAIN held \ onDemand) + wanted.cost <= limit
            /\ deviceFree # None =>
                 wanted.device <= deviceFree + DeviceOf(held, onDemand)
      BY <1>1, <2>4, RoomMeans
    <3>2. Short(limit, free, left, wanted, {}) = "none" <=>
             /\ limit # None => CostOf(left, DOMAIN left \ {}) + wanted.cost <= limit
             /\ free # None => wanted.device <= free + DeviceOf(left, {})
      <4>1. {} \in SUBSET DOMAIN left /\ IsReading(free)
        BY <2>8 DEF IsReading
      <4> QED
        BY <2>5, <4>1, RoomMeans
    <3>3. DOMAIN left \ {} = DOMAIN left
      OBVIOUS
    <3> QED
      BY <2>5, <2>6, <2>8, <3>1, <3>2, <3>3 DEF IsReading
  <2>10. Candidates(left, wanted) = {} /\ ~FreesItself(left, wanted)
    BY <1>1 DEF left, Left, Candidates, FreesItself
  <2>11. Victims(limit, free, left, used, wanted) = {}
    BY <2>10 DEF Victims
  <2> QED
    BY <1>1, <2>9, <2>10, <2>11 DEF Decide, Decision, left
<1> QED
  BY <1>2, <1>3

(* Guests first and coldest first orders the candidates, when no two were  *)
(* used at once.                                                           *)
Ordering(held, used, C) ==
    {p \in C \X C : GoesBefore(held, used, p[1], p[2])}

LEMMA CandidatesAreOrdered ==
    ASSUME NEW held, IsHeld(held), NEW C \in SUBSET DOMAIN held,
           NEW used, \A m \in DOMAIN held : used[m] \in Nat,
           \A a, b \in DOMAIN held : used[a] = used[b] => a = b
    PROVE  IsOrder(Ordering(held, used, C), C)
<1>1. \A c \in C : held[c].guest \in BOOLEAN /\ used[c] \in Nat
  BY DEF IsHeld, HeldModel
<1>2. \A a, b \in C : <<a, b>> \in Ordering(held, used, C)
                        <=> GoesBefore(held, used, a, b)
  BY DEF Ordering
<1>3. \A a, b, c \in C : GoesBefore(held, used, a, b) /\ GoesBefore(held, used, b, c)
                            => GoesBefore(held, used, a, c)
  BY <1>1 DEF GoesBefore
<1>4. \A a, b \in C : a # b => GoesBefore(held, used, a, b) \/ GoesBefore(held, used, b, a)
  <2> SUFFICES ASSUME NEW a \in C, NEW b \in C, a # b
               PROVE  GoesBefore(held, used, a, b) \/ GoesBefore(held, used, b, a)
    OBVIOUS
  <2>1. used[a] < used[b] \/ used[b] < used[a]
    BY <1>1
  <2> QED
    BY <1>1, <2>1 DEF GoesBefore
<1>5. \A a \in C : ~GoesBefore(held, used, a, a)
  BY <1>1 DEF GoesBefore
<1> QED
  BY <1>2, <1>3, <1>4, <1>5 DEF IsOrder

(* What makes room. *)
MakesRoom(limit, deviceFree, held, wanted) ==
    {S \in SUBSET Candidates(held, wanted) :
        Short(limit, deviceFree, held, wanted, S) = "none"}

(* The victims are what a walk along the sorted candidates takes.          *)
LEMMA VictimsAreWalked ==
    ASSUME NEW held, IsHeld(held), NEW wanted, IsWanted(wanted),
           NEW limit, IsReading(limit), NEW deviceFree, IsReading(deviceFree),
           NEW used, \A m \in DOMAIN held : used[m] \in Nat,
           \A a, b \in DOMAIN held : used[a] = used[b] => a = b,
           NEW C, C = Candidates(held, wanted),
           NEW s \in [1..Cardinality(C) -> C], IsSorted(s, Ordering(held, used, C))
    PROVE  Victims(limit, deviceFree, held, used, wanted)
             = Walked(s, MakesRoom(limit, deviceFree, held, wanted), Cardinality(C))
<1> DEFINE n == Cardinality(C)
           Enough == MakesRoom(limit, deviceFree, held, wanted)
           R == Ordering(held, used, C)
           Before(m) == {c \in C : GoesBefore(held, used, c, m)}
<1>1. C \in SUBSET DOMAIN held /\ IsFiniteSet(C)
  BY FS_Subset DEF IsHeld, Candidates
<1>2. IsOrder(R, C)
  BY <1>1, CandidatesAreOrdered
<1>3. \A c \in C : \E i \in 1..n : s[i] = c
  <2>1. IsSorted(s, R) /\ s \in [1..n -> C]
    OBVIOUS
  <2> QED
    BY ONLY <1>1, <1>2, <2>1, SortedListIsWhole
<1>4. n \in Nat
  BY <1>1, FS_CardinalityType
<1>5. ASSUME NEW k \in 1..n
      PROVE  Before(s[k]) = FirstOf(s, k - 1)
  <2>1. \A j \in 1..n : <<s[j], s[k]>> \in R <=> j < k
    <3> SUFFICES ASSUME NEW j \in 1..n
                 PROVE  <<s[j], s[k]>> \in R <=> j < k
      OBVIOUS
    <3>1. j < k => <<s[j], s[k]>> \in R
      BY DEF IsSorted
    <3>2. k < j => <<s[k], s[j]>> \in R
      BY DEF IsSorted
    <3>3. s[j] \in C /\ s[k] \in C
      OBVIOUS
    <3> HIDE DEF R
    <3>4. j = k \/ k < j => <<s[j], s[k]>> \notin R
      BY <1>2, <3>2, <3>3 DEF IsOrder
    <3>5. j < k \/ j = k \/ k < j
      BY <1>4
    <3> QED
      BY <1>4, <3>1, <3>4, <3>5
  <2>2. \A j \in 1..n : GoesBefore(held, used, s[j], s[k]) <=> j < k
    <3>1. \A j \in 1..n : s[j] \in C /\ s[k] \in C
      OBVIOUS
    <3> QED
      BY <2>1, <3>1 DEF Ordering
  <2>3. \A j \in 1..n : j < k <=> j \in 1..(k - 1)
    BY <1>4
  <2>4. ASSUME NEW c \in Before(s[k]) PROVE c \in FirstOf(s, k - 1)
    <3>1. PICK j \in 1..n : s[j] = c
      BY <1>3
    <3>2. j < k
      BY <2>2, <2>4, <3>1
    <3> QED
      BY <2>3, <3>1, <3>2 DEF FirstOf
  <2>5. ASSUME NEW c \in FirstOf(s, k - 1) PROVE c \in Before(s[k])
    <3>1. PICK j \in 1..(k - 1) : s[j] = c
      BY DEF FirstOf
    <3>2. j \in 1..n /\ j < k
      BY <1>4
    <3> QED
      BY <2>2, <3>1, <3>2
  <2> QED
    BY <2>4, <2>5
<1>6. ASSUME NEW k \in 1..n
      PROVE  s[k] \in Victims(limit, deviceFree, held, used, wanted)
                <=> FirstOf(s, k - 1) \notin Enough
  <2>1. s[k] \in C /\ Before(s[k]) \in SUBSET C
    OBVIOUS
  <2>2. s[k] \in Victims(limit, deviceFree, held, used, wanted)
            <=> Short(limit, deviceFree, held, wanted, Before(s[k])) # "none"
    BY <2>1 DEF Victims
  <2>3. Before(s[k]) = FirstOf(s, k - 1)
    BY <1>5
  <2> HIDE DEF Before
  <2> QED
    BY <2>1, <2>2, <2>3 DEF MakesRoom
<1>7. Victims(limit, deviceFree, held, used, wanted) \subseteq C
  BY DEF Victims
<1> HIDE DEF n, Enough
<1> QED
  BY <1>3, <1>6, <1>7 DEF Walked, n, Enough

=============================================================================
