---------------------------- MODULE InputsProofs ----------------------------
(***************************************************************************)
(* What is made of any input of the pure parts, whatever the constants:    *)
(* of a request as its client sends it (Requests), of a catalog's text and *)
(* the models root it is read against (CatalogText, ModelFiles), of what a *)
(* machine and its operator say of memory, and of where serve is told to   *)
(* listen (Machine, Startup).  A state of MCInputs is a question and its   *)
(* answer, and Answer gives the answer in one step; so the invariants say  *)
(* what the question and its answer are, and the work is in what Answer    *)
(* makes of the one asked.                                                 *)
(*                                                                         *)
(* The code reads lines, headers, figures, arguments, pairs and files in   *)
(* loops, and the modules say each loop as a fold.  The value of a fold is *)
(* the last of the values its loop goes through, a function from how far   *)
(* the loop has come: a lemma takes out that function, and what the loop   *)
(* keeps true is then shown of it by the least index where it would fail.  *)
(***************************************************************************)
EXTENDS MCInputs, FiniteSetTheorems, WellFoundedInduction, TLAPS

-----------------------------------------------------------------------------
(* Induction. *)

(* The least and the largest of a set of indices, as the library picks     *)
(* them.                                                                   *)
LEMMA LeastNatural ==
    ASSUME NEW Ns \in SUBSET Nat, Ns # {}
    PROVE  \E n \in Ns : \A m \in Ns : n <= m
<1>1. PICK k \in Ns : TRUE
  OBVIOUS
<1> DEFINE Below == {n \in Ns : n <= k}
           Initial == {0..n : n \in Below}
<1>2. Initial \subseteq FiniteSubsetsOf(Nat) /\ Initial # {}
  <2>1. \A n \in Below : n \in Nat /\ 0..n \subseteq Nat /\ IsFiniteSet(0..n)
    BY FS_Interval
  <2>2. k \in Below
    BY <1>1
  <2> QED
    BY <2>1, <2>2 DEF FiniteSubsetsOf
<1>3. PICK Short \in Initial : \A J \in Initial : <<J, Short>> \notin StrictSubsetOrdering(Nat)
  <2> HIDE DEF Initial
  <2> QED
    BY <1>2, FS_StrictSubsetOrderingWellFounded, WFMin
<1>4. PICK n \in Below : Short = 0..n
  OBVIOUS
<1>5. ASSUME NEW m \in Below, m < n
      PROVE  FALSE
  <2>1. 0..m \subseteq 0..n /\ n \in 0..n /\ n \notin 0..m
    BY <1>5
  <2>2. <<0..m, 0..n>> \in StrictSubsetOrdering(Nat)
    BY <2>1 DEF StrictSubsetOrdering
  <2> QED
    BY <1>3, <1>4, <2>2
<1>6. \A m \in Ns : n <= m
  BY <1>5
<1> QED
  BY <1>6

(* What holds of 0, and of the next index when it holds of one, holds of   *)
(* all there are.                                                          *)
LEMMA IndexInduction ==
    ASSUME NEW n \in Nat, NEW Good, 0 \in Good,
           \A i \in 1..n : i - 1 \in Good => i \in Good
    PROVE  \A i \in 0..n : i \in Good
<1> DEFINE Bad == {i \in 0..n : i \notin Good}
<1> SUFFICES ASSUME Bad # {}
             PROVE  FALSE
  OBVIOUS
<1>1. PICK i \in Bad : \A m \in Bad : i <= m
  <2>1. Bad \in SUBSET Nat
    OBVIOUS
  <2> HIDE DEF Bad
  <2> QED
    BY <2>1, LeastNatural
<1>2. i \in 1..n /\ i - 1 \in 0..n
  BY <1>1
<1>3. i - 1 \in Good
  BY <1>1, <1>2
<1> QED
  BY <1>1, <1>2, <1>3

LEMMA LargestIndex ==
    ASSUME NEW n \in Nat, NEW Ns \in SUBSET (1..n), Ns # {}
    PROVE  Max(Ns) \in Ns /\ \A m \in Ns : m <= Max(Ns)
<1> DEFINE Above == {n - m : m \in Ns}
<1>1. Above \in SUBSET Nat /\ Above # {}
  <2>1. \A m \in Ns : m \in 1..n
    OBVIOUS
  <2>2. \A m \in 1..n : n - m \in Nat
    OBVIOUS
  <2> QED
    BY <2>1, <2>2
<1>2. PICK k \in Above : \A m \in Above : k <= m
  BY <1>1, LeastNatural
<1>3. PICK x \in Ns : k = n - x
  OBVIOUS
<1>4. \A m \in Ns : x >= m
  <2> TAKE m \in Ns
  <2>1. n - x <= n - m
    BY <1>2, <1>3
  <2> QED
    BY <2>1, <1>3
<1>5. Max(Ns) \in Ns /\ \A y \in Ns : Max(Ns) >= y
  BY <1>3, <1>4 DEF Max
<1> QED
  BY <1>5

-----------------------------------------------------------------------------
(* Loops.  A step is a function of an index and of what there is so far.   *)

IsRun(r, base, Step, n) ==
    r[0] = base /\ \A i \in 1..n : r[i] = Step[i, r[i - 1]]

LEMMA RunExists ==
    ASSUME NEW n \in Nat, NEW D, NEW base \in D, NEW Step \in [(1..n) \X D -> D]
    PROVE  \E r \in [0..n -> D] : IsRun(r, base, Step, n)
<1> DEFINE Good == {i \in 0..n : \E r \in [0..n -> D] : IsRun(r, base, Step, i)}
<1>1. 0 \in Good
  <2>1. [j \in 0..n |-> base] \in [0..n -> D]
    OBVIOUS
  <2>2. IsRun([j \in 0..n |-> base], base, Step, 0)
    BY DEF IsRun
  <2> QED
    BY <2>1, <2>2
<1>2. ASSUME NEW i \in 1..n, i - 1 \in Good
      PROVE  i \in Good
  <2>1. PICK r \in [0..n -> D] : IsRun(r, base, Step, i - 1)
    BY <1>2
  <2>2. <<i, r[i - 1]>> \in (1..n) \X D
    BY <2>1
  <2>3. Step[i, r[i - 1]] \in D
    BY <2>2
  <2> DEFINE longer == [j \in 0..n |-> IF j = i THEN Step[i, r[i - 1]] ELSE r[j]]
  <2>4. longer \in [0..n -> D]
    BY <2>1, <2>3
  <2>5. /\ longer[i] = Step[i, r[i - 1]]
        /\ \A j \in 0..(i - 1) : longer[j] = r[j]
    <3>1. i \in 0..n /\ \A j \in 0..(i - 1) : j \in 0..n /\ j # i
      OBVIOUS
    <3> QED
      BY <3>1, Zenon
  <2>6. r[0] = base /\ \A j \in 1..(i - 1) : r[j] = Step[j, r[j - 1]]
    BY <2>1 DEF IsRun
  <2> HIDE DEF longer
  <2>7. longer[0] = base /\ longer[i] = Step[i, longer[i - 1]]
    <3>1. 0 \in 0..(i - 1) /\ i - 1 \in 0..(i - 1)
      OBVIOUS
    <3>2. longer[0] = r[0] /\ longer[i - 1] = r[i - 1]
      BY <2>5, <3>1, Zenon
    <3> QED
      BY <2>5, <2>6, <3>2
  <2>8. ASSUME NEW j \in 1..i
        PROVE  longer[j] = Step[j, longer[j - 1]]
    <3>1. CASE j = i
      BY <2>7, <3>1
    <3>2. CASE j # i
      <4>1. j \in 1..(i - 1) /\ j \in 0..(i - 1) /\ j - 1 \in 0..(i - 1)
        BY ONLY <3>2, j \in 1..i, i \in 1..n, n \in Nat
      <4>2. longer[j] = r[j] /\ longer[j - 1] = r[j - 1]
        BY <2>5, <4>1
      <4> QED
        BY <2>6, <4>1, <4>2
    <3> QED
      BY <3>1, <3>2
  <2>9. IsRun(longer, base, Step, i)
    BY <2>7, <2>8 DEF IsRun
  <2> QED
    BY <2>4, <2>9
<1>3. \A i \in 0..n : i \in Good
  <2> HIDE DEF Good
  <2> QED
    BY <1>1, <1>2, IndexInduction
<1>4. n \in Good
  BY <1>3
<1> QED
  BY <1>4

(* The library's fold of a sequence takes the largest index off a set of   *)
(* indices, again and again: what makes it the run of the same steps is    *)
(* that some function of sets does so at all.                              *)
Folding(g, base, Step, n) ==
    g = [s \in SUBSET (1..n) |-> IF s = {} THEN base
                                 ELSE Step[Max(s), g[s \ {Max(s)}]]]

LEMMA FoldingExists ==
    ASSUME NEW n \in Nat, NEW D, NEW base \in D, NEW Step \in [(1..n) \X D -> D]
    PROVE  \E g \in [SUBSET (1..n) -> D] : Folding(g, base, Step, n)
<1> DEFINE Sets == SUBSET (1..n)
           All == [Sets -> D]
           Each == [ig \in (1..n) \X All |->
                       [s \in Sets |-> IF ig[1] \in s THEN Step[ig[1], ig[2][s]]
                                                      ELSE ig[2][s]]]
           Start == [s \in Sets |-> base]
<1>1. Start \in All
  OBVIOUS
<1>2. Each \in [(1..n) \X All -> All]
  <2>1. ASSUME NEW i \in 1..n, NEW g \in All
        PROVE  [s \in Sets |-> IF i \in s THEN Step[i, g[s]] ELSE g[s]] \in All
    <3>1. \A s \in Sets : g[s] \in D /\ <<i, g[s]>> \in (1..n) \X D
      OBVIOUS
    <3>2. \A s \in Sets : Step[i, g[s]] \in D
      BY <3>1
    <3> QED
      BY <3>1, <3>2
  <2> QED
    BY <2>1
<1>3. PICK r \in [0..n -> All] : IsRun(r, Start, Each, n)
  <2> HIDE DEF Start, Each, All
  <2> QED
    BY <1>1, <1>2, RunExists
<1>4. \A s \in Sets : r[0][s] = base
  BY <1>3 DEF IsRun
<1>5. ASSUME NEW i \in 1..n, NEW s \in Sets
      PROVE  r[i][s] = IF i \in s THEN Step[i, r[i - 1][s]] ELSE r[i - 1][s]
  <2>1. <<i, r[i - 1]>> \in (1..n) \X All
    <3>1. i - 1 \in 0..n
      OBVIOUS
    <3>2. r[i - 1] \in All
      <4> HIDE DEF All
      <4> QED
        BY <1>3, <3>1
    <3> QED
      BY <3>2
  <2>2. r[i] = Each[i, r[i - 1]]
    BY <1>3 DEF IsRun
  <2> QED
    BY <2>1, <2>2
<1> HIDE DEF Start, Each
<1>6. ASSUME NEW s \in Sets, NEW i \in 0..n, \A m \in s : m <= i
      PROVE  r[n][s] = r[i][s]
  <2> DEFINE Good == {j \in 0..n : j >= i => r[j][s] = r[i][s]}
  <2>1. 0 \in Good
    OBVIOUS
  <2>2. ASSUME NEW j \in 1..n, j - 1 \in Good
        PROVE  j \in Good
    <3>1. CASE j - 1 >= i
      <4>1. j \notin s
        BY <1>6, <3>1
      <4>2. r[j][s] = r[j - 1][s]
        BY <1>5, <4>1
      <4> QED
        BY <2>2, <3>1, <4>2
    <3>2. CASE ~(j - 1 >= i)
      BY <3>2
    <3> QED
      BY <3>1, <3>2
  <2>3. n \in Good
    <3> HIDE DEF Good
    <3>1. \A j \in 0..n : j \in Good
      BY <2>1, <2>2, IndexInduction
    <3> QED
      BY <3>1
  <2> QED
    BY <2>3
<1>7. ASSUME NEW s \in Sets, NEW t \in Sets, NEW i \in 0..n,
             \A m \in 1..i : m \in s <=> m \in t
      PROVE  r[i][s] = r[i][t]
  <2> DEFINE Good == {j \in 0..n : j <= i => r[j][s] = r[j][t]}
  <2>1. 0 \in Good
    BY <1>4
  <2>2. ASSUME NEW j \in 1..n, j - 1 \in Good
        PROVE  j \in Good
    <3>1. CASE j <= i
      <4>1. j \in s <=> j \in t
        BY <1>7, <3>1
      <4>2. r[j - 1][s] = r[j - 1][t]
        BY <2>2, <3>1
      <4>3. r[j][s] = IF j \in s THEN Step[j, r[j - 1][s]] ELSE r[j - 1][s]
        BY <1>5
      <4>4. r[j][t] = IF j \in t THEN Step[j, r[j - 1][t]] ELSE r[j - 1][t]
        BY <1>5
      <4>5. r[j][s] = r[j][t]
        BY ONLY <4>1, <4>2, <4>3, <4>4
      <4> QED
        BY <4>5
    <3>2. CASE ~(j <= i)
      BY <3>2
    <3> QED
      BY <3>1, <3>2
  <2>3. i \in Good
    <3> HIDE DEF Good
    <3>1. \A j \in 0..n : j \in Good
      BY <2>1, <2>2, IndexInduction
    <3> QED
      BY <3>1
  <2> QED
    BY <2>3
<1>8. ASSUME NEW s \in Sets
      PROVE  r[n][s] = IF s = {} THEN base ELSE Step[Max(s), r[n][s \ {Max(s)}]]
  <2>1. CASE s = {}
    <3>1. r[n][s] = r[0][s]
      <4>1. 0 \in 0..n /\ \A m \in s : m <= 0
        BY <2>1
      <4> QED
        BY <1>6, <4>1
    <3> QED
      BY <1>4, <2>1, <3>1
  <2>2. CASE s # {}
    <3>1. PICK m \in s : m = Max(s) /\ \A k \in s : k <= m
      BY <2>2, LargestIndex
    <3>2. m \in 1..n /\ m - 1 \in 0..n /\ s \ {m} \in Sets
      OBVIOUS
    <3>3. r[n][s] = r[m][s]
      <4>1. m \in 0..n /\ \A k \in s : k <= m
        BY <3>1, <3>2
      <4> QED
        BY <1>6, <4>1
    <3>4. r[m][s] = Step[m, r[m - 1][s]]
      BY <1>5, <3>2
    <3>5. r[m - 1][s] = r[m - 1][s \ {m}]
      <4>1. \A k \in 1..(m - 1) : k \in s <=> k \in s \ {m}
        BY <3>2
      <4> QED
        BY <1>7, <3>2, <4>1
    <3>6. r[n][s \ {m}] = r[m - 1][s \ {m}]
      <4>1. \A k \in s \ {m} : k <= m - 1
        BY <3>1, <3>2
      <4> QED
        BY <1>6, <3>2, <4>1
    <3> QED
      BY <2>2, <3>1, <3>3, <3>4, <3>5, <3>6
  <2> QED
    BY <2>1, <2>2
<1>9. r[n] \in [Sets -> D]
  <2>1. n \in 0..n
    OBVIOUS
  <2> QED
    BY <1>3, <2>1
<1>10. r[n] = [s \in Sets |-> IF s = {} THEN base ELSE Step[Max(s), r[n][s \ {Max(s)}]]]
  BY <1>8, <1>9
<1> QED
  BY <1>9, <1>10 DEF Folding

(* Along the whole ranges of indices the largest is the next.              *)
LEMMA WholeRanges ==
    ASSUME NEW n \in Nat, NEW i \in 1..n
    PROVE  /\ 1..i \in SUBSET (1..n) /\ 1..i # {}
           /\ Max(1..i) = i
           /\ (1..i) \ {i} = 1..(i - 1)
<1>1. 1..i \in SUBSET (1..n) /\ 1..i # {} /\ i \in 1..i
  OBVIOUS
<1>2. Max(1..i) \in 1..i /\ \A m \in 1..i : m <= Max(1..i)
  BY <1>1, LargestIndex
<1>3. Max(1..i) <= i /\ i <= Max(1..i)
  BY <1>1, <1>2
<1>4. (1..i) \ {i} = 1..(i - 1)
  OBVIOUS
<1> QED
  BY <1>1, <1>2, <1>3, <1>4

-----------------------------------------------------------------------------
(* The headers of a request, read one after another.                       *)

Claims == [length : Int, chunked : BOOLEAN, expects : BOOLEAN,
           room : {"any", "free", "unknown"}]

LEMMA SaysType ==
    ASSUME NEW so \in Claims, NEW header
    PROVE  Says(so, header) \in Claims
<1>1. Length(header.value) \in Int
  BY BoundsAssumption DEF Length, Counts, Malformed
<1>2. Room(so.room, header.value) \in {"any", "free", "unknown"}
  BY DEF Room, AllowedRoom, Claims
<1> QED
  BY <1>1, <1>2 DEF Says, Claims

(* The fold of the headers, as the equation it satisfies.                *)
SayingAll(g, s) ==
    g = [t \in SUBSET DOMAIN s |->
            IF t = {} THEN Unsaid ELSE Says(g[t \ {Max(t)}], s[Max(t)])]

LEMMA ParsedIsChosen ==
    ASSUME NEW s
    PROVE  Parsed(s) = (CHOOSE g : SayingAll(g, s))[DOMAIN s]
BY Zenon DEF Parsed, FoldLeft, MapThenFoldSet, SayingAll

LEMMA HeadersAreRead ==
    ASSUME NEW n \in Nat, NEW s, DOMAIN s = 1..n
    PROVE  \E r : /\ r[0] = Unsaid
                  /\ \A i \in 1..n : r[i] = Says(r[i - 1], s[i])
                  /\ Parsed(s) = r[n]
<1> DEFINE Sets == SUBSET (1..n)
<1>1. \E g : SayingAll(g, s)
  <2> DEFINE Step == [iv \in (1..n) \X Claims |-> Says(iv[2], s[iv[1]])]
  <2>1. Step \in [(1..n) \X Claims -> Claims]
    BY SaysType
  <2>2. Unsaid \in Claims
    BY DEF Unsaid, Claims, Absent
  <2>3. PICK g \in [Sets -> Claims] : Folding(g, Unsaid, Step, n)
    <3> HIDE DEF Step
    <3> QED
      BY <2>1, <2>2, FoldingExists
  <2>4. ASSUME NEW t \in Sets, t # {}
        PROVE  Step[Max(t), g[t \ {Max(t)}]] = Says(g[t \ {Max(t)}], s[Max(t)])
    <3>1. Max(t) \in 1..n
      BY <2>4, LargestIndex
    <3>2. g[t \ {Max(t)}] \in Claims
      BY <2>3
    <3>3. <<Max(t), g[t \ {Max(t)}]>> \in (1..n) \X Claims
      BY <3>1, <3>2
    <3> QED
      BY <3>3
  <2> HIDE DEF Step
  <2>5. \A t \in Sets : (IF t = {} THEN Unsaid ELSE Step[Max(t), g[t \ {Max(t)}]])
                        = IF t = {} THEN Unsaid ELSE Says(g[t \ {Max(t)}], s[Max(t)])
    BY <2>4, Zenon
  <2>6. SayingAll(g, s)
    BY <2>3, <2>5, Zenon DEF Folding, SayingAll
  <2> QED
    BY <2>6
<1>2. PICK g : SayingAll(g, s) /\ Parsed(s) = g[1..n]
  BY <1>1, ParsedIsChosen, Zenon
<1>3. g[1..0] = Unsaid
  <2>1. 1..0 = {} /\ {} \in Sets
    OBVIOUS
  <2>2. g[{}] = Unsaid
    BY <1>2, <2>1 DEF SayingAll
  <2> QED
    BY <2>1, <2>2
<1>4. ASSUME NEW i \in 1..n
      PROVE  g[1..i] = Says(g[1..(i - 1)], s[i])
  <2>1. g[1..i] = Says(g[(1..i) \ {Max(1..i)}], s[Max(1..i)])
    BY <1>2, WholeRanges, Zenon DEF SayingAll
  <2> QED
    BY <2>1, WholeRanges
<1> DEFINE r == [i \in 0..n |-> g[1..i]]
<1>5. r[0] = Unsaid /\ r[n] = g[1..n]
  <2>1. 0 \in 0..n /\ n \in 0..n
    OBVIOUS
  <2> QED
    BY <1>3, <2>1, Zenon
<1>6. \A i \in 1..n : r[i] = Says(r[i - 1], s[i])
  <2> TAKE i \in 1..n
  <2>1. i \in 0..n /\ i - 1 \in 0..n
    OBVIOUS
  <2> QED
    BY <1>4, <2>1
<1> QED
  BY <1>2, <1>5, <1>6

(* What has been said by the first of some lines.                          *)
Has(lines, i, name, value) == \E j \in 1..i : lines[j].name = name /\ lines[j].value = value
HasOther(lines, i, name, value) ==
    \E j \in 1..i : lines[j].name = name /\ lines[j].value # value

SaidBy(so, lines, i) ==
    /\ so \in Claims
    /\ so.chunked <=> Has(lines, i, "transfer-encoding", "chunked")
    /\ so.expects <=> Has(lines, i, "expect", "100-continue")
    /\ so.room = "unknown" <=> HasOther(lines, i, "room", "free")
    /\ so.room = "free" => Has(lines, i, "room", "free")
    /\ so.room = "any" => ~Has(lines, i, "room", "free")
    /\ so.length = Absent \/ \E j \in 1..i : /\ lines[j].name = "content-length"
                                           /\ so.length = Length(lines[j].value)

LEMMA OneMoreHeader ==
    ASSUME NEW lines, NEW i \in Nat \ {0}, NEW so, SaidBy(so, lines, i - 1)
    PROVE  SaidBy(Says(so, lines[i]), lines, i)
<1> DEFINE then == Says(so, lines[i])
<1>1. so \in Claims /\ then \in Claims
  BY SaysType DEF SaidBy
<1>2. \A j : j \in 1..i <=> j \in 1..(i - 1) \/ j = i
  OBVIOUS
<1>3. \A name, value :
        /\ Has(lines, i, name, value)
              <=> Has(lines, i - 1, name, value)
                  \/ (lines[i].name = name /\ lines[i].value = value)
        /\ HasOther(lines, i, name, value)
              <=> HasOther(lines, i - 1, name, value)
                  \/ (lines[i].name = name /\ lines[i].value # value)
  BY <1>2, Zenon DEF Has, HasOther
<1>4. then.chunked <=> Has(lines, i, "transfer-encoding", "chunked")
  <2>1. then.chunked = IF lines[i].name = "transfer-encoding"
                       THEN so.chunked \/ lines[i].value = "chunked" ELSE so.chunked
    BY <1>1 DEF Says, Claims
  <2>2. so.chunked <=> Has(lines, i - 1, "transfer-encoding", "chunked")
    BY DEF SaidBy
  <2> HIDE DEF then
  <2> QED
    BY <1>3, <2>1, <2>2, Zenon
<1>5. then.expects <=> Has(lines, i, "expect", "100-continue")
  <2>1. then.expects = IF lines[i].name = "expect"
                       THEN so.expects \/ lines[i].value = "100-continue" ELSE so.expects
    BY <1>1 DEF Says, Claims
  <2>2. so.expects <=> Has(lines, i - 1, "expect", "100-continue")
    BY DEF SaidBy
  <2> HIDE DEF then
  <2> QED
    BY <1>3, <2>1, <2>2, Zenon
<1>6. /\ then.room = "unknown" <=> HasOther(lines, i, "room", "free")
      /\ then.room = "free" => Has(lines, i, "room", "free")
      /\ then.room = "any" => ~Has(lines, i, "room", "free")
  <2>1. then.room = IF lines[i].name # "room" \/ so.room = "unknown" THEN so.room
                    ELSE IF lines[i].value = "free" THEN "free" ELSE "unknown"
    BY <1>1 DEF Says, Claims, Room, AllowedRoom
  <2>2. /\ so.room = "unknown" <=> HasOther(lines, i - 1, "room", "free")
        /\ so.room = "free" => Has(lines, i - 1, "room", "free")
        /\ so.room = "any" => ~Has(lines, i - 1, "room", "free")
        /\ so.room \in {"any", "free", "unknown"}
    BY DEF SaidBy, Claims
  <2>3. /\ Has(lines, i, "room", "free")
              <=> Has(lines, i - 1, "room", "free")
                  \/ (lines[i].name = "room" /\ lines[i].value = "free")
        /\ HasOther(lines, i, "room", "free")
              <=> HasOther(lines, i - 1, "room", "free")
                  \/ (lines[i].name = "room" /\ lines[i].value # "free")
    BY <1>3
  <2> HIDE DEF then
  <2> QED
    BY ONLY <2>1, <2>2, <2>3
<1>7. then.length = Absent \/ \E j \in 1..i : /\ lines[j].name = "content-length"
                                            /\ then.length = Length(lines[j].value)
  <2>1. then.length = IF lines[i].name = "content-length"
                      THEN Length(lines[i].value) ELSE so.length
    BY <1>1 DEF Says, Claims
  <2>2. so.length = Absent \/ \E j \in 1..(i - 1) : /\ lines[j].name = "content-length"
                                                 /\ so.length = Length(lines[j].value)
    BY DEF SaidBy
  <2> HIDE DEF then
  <2> QED
    BY <1>2, <2>1, <2>2
<1> QED
  BY <1>1, <1>4, <1>5, <1>6, <1>7 DEF SaidBy

(* So what is parsed is what the lines say, whatever their order.          *)
LEMMA ParsedSays ==
    ASSUME NEW n \in Nat, NEW lines, DOMAIN lines = 1..n
    PROVE  SaidBy(Parsed(lines), lines, n)
<1>1. PICK r : /\ r[0] = Unsaid
               /\ \A i \in 1..n : r[i] = Says(r[i - 1], lines[i])
               /\ Parsed(lines) = r[n]
  BY HeadersAreRead
<1> DEFINE Good == {i \in 0..n : SaidBy(r[i], lines, i)}
<1>2. 0 \in Good
  <2>1. SaidBy(Unsaid, lines, 0)
    BY DEF SaidBy, Unsaid, Claims, Absent, Has, HasOther
  <2> QED
    BY <1>1, <2>1
<1>3. ASSUME NEW i \in 1..n, i - 1 \in Good
      PROVE  i \in Good
  <2>1. SaidBy(Says(r[i - 1], lines[i]), lines, i)
    BY <1>3, OneMoreHeader
  <2> QED
    BY <1>1, <2>1
<1>4. n \in Good
  <2> HIDE DEF Good
  <2>1. \A i \in 0..n : i \in Good
    BY <1>2, <1>3, IndexInduction
  <2> QED
    BY <2>1
<1> QED
  BY <1>1, <1>4
-----------------------------------------------------------------------------
(* The head of a request, read one line after another.                     *)

NothingRead == [bytes |-> 0, lines |-> 0, ended |-> "reading"]
HeadStates == [bytes : Int, lines : Int, ended : {"reading", "HeadTooLarge", "read"}]
Taken(sizes) == FoldLeft(TakeLine, NothingRead, sizes)

LEMMA TakeLineType ==
    ASSUME NEW head \in HeadStates, NEW line \in Nat
    PROVE  TakeLine(head, line) \in HeadStates
<1>1. Least(line + Ending, MaxHeadBytes - head.bytes) \in Int
  BY BoundsAssumption DEF Least, Ending, HeadStates
<1>2. /\ head.bytes + Least(line + Ending, MaxHeadBytes - head.bytes) \in Int
      /\ head.lines + 1 \in Int
  BY <1>1 DEF HeadStates
<1> DEFINE more == [head EXCEPT !.bytes = @ + Least(line + Ending, MaxHeadBytes - head.bytes),
                                !.lines = @ + 1]
<1>3. more \in HeadStates
  <2>1. \A b, l \in Int : [head EXCEPT !.bytes = b, !.lines = l] \in HeadStates
    BY DEF HeadStates
  <2> QED
    BY <1>2, <2>1
<1>4. \A ended \in {"HeadTooLarge", "read"} : [head EXCEPT !.ended = ended] \in HeadStates
  BY DEF HeadStates
<1> QED
  BY <1>3, <1>4 DEF TakeLine

(* The fold of the lines, as the equation it satisfies.                  *)
TakingAll(g, s) ==
    g = [t \in SUBSET DOMAIN s |->
            IF t = {} THEN NothingRead ELSE TakeLine(g[t \ {Max(t)}], s[Max(t)])]

LEMMA TakenIsChosen ==
    ASSUME NEW s
    PROVE  Taken(s) = (CHOOSE g : TakingAll(g, s))[DOMAIN s]
BY Zenon DEF Taken, FoldLeft, MapThenFoldSet, TakingAll

LEMMA LinesAreTaken ==
    ASSUME NEW n \in Nat, NEW s, DOMAIN s = 1..n,
           \A i \in 1..n : s[i] \in Nat
    PROVE  \E r : /\ r[0] = NothingRead
                  /\ \A i \in 1..n : r[i] = TakeLine(r[i - 1], s[i])
                  /\ Taken(s) = r[n]
<1> DEFINE Sets == SUBSET (1..n)
<1>1. \E g : TakingAll(g, s)
  <2> DEFINE Step == [iv \in (1..n) \X HeadStates |-> TakeLine(iv[2], s[iv[1]])]
  <2>1. Step \in [(1..n) \X HeadStates -> HeadStates]
    BY TakeLineType
  <2>2. NothingRead \in HeadStates
    BY DEF NothingRead, HeadStates
  <2>3. PICK g \in [Sets -> HeadStates] : Folding(g, NothingRead, Step, n)
    <3> HIDE DEF Step
    <3> QED
      BY <2>1, <2>2, FoldingExists
  <2>4. ASSUME NEW t \in Sets, t # {}
        PROVE  Step[Max(t), g[t \ {Max(t)}]] = TakeLine(g[t \ {Max(t)}], s[Max(t)])
    <3>1. Max(t) \in 1..n
      BY <2>4, LargestIndex
    <3>2. g[t \ {Max(t)}] \in HeadStates
      BY <2>3
    <3>3. <<Max(t), g[t \ {Max(t)}]>> \in (1..n) \X HeadStates
      BY <3>1, <3>2
    <3> QED
      BY <3>3
  <2> HIDE DEF Step
  <2>5. \A t \in Sets : (IF t = {} THEN NothingRead ELSE Step[Max(t), g[t \ {Max(t)}]])
                        = IF t = {} THEN NothingRead ELSE TakeLine(g[t \ {Max(t)}], s[Max(t)])
    BY <2>4, Zenon
  <2>6. TakingAll(g, s)
    BY <2>3, <2>5, Zenon DEF Folding, TakingAll
  <2> QED
    BY <2>6
<1>2. PICK g : TakingAll(g, s) /\ Taken(s) = g[1..n]
  BY <1>1, TakenIsChosen, Zenon
<1>3. g[1..0] = NothingRead
  <2>1. 1..0 = {} /\ {} \in Sets
    OBVIOUS
  <2>2. g[{}] = NothingRead
    BY <1>2, <2>1 DEF TakingAll
  <2> QED
    BY <2>1, <2>2
<1>4. ASSUME NEW i \in 1..n
      PROVE  g[1..i] = TakeLine(g[1..(i - 1)], s[i])
  <2>1. g[1..i] = TakeLine(g[(1..i) \ {Max(1..i)}], s[Max(1..i)])
    BY <1>2, WholeRanges, Zenon DEF TakingAll
  <2> QED
    BY <2>1, WholeRanges
<1> DEFINE r == [i \in 0..n |-> g[1..i]]
<1>5. r[0] = NothingRead /\ r[n] = g[1..n]
  <2>1. 0 \in 0..n /\ n \in 0..n
    OBVIOUS
  <2> QED
    BY <1>3, <2>1, Zenon
<1>6. \A i \in 1..n : r[i] = TakeLine(r[i - 1], s[i])
  <2> TAKE i \in 1..n
  <2>1. i \in 0..n /\ i - 1 \in 0..n
    OBVIOUS
  <2> QED
    BY <1>4, <2>1
<1> QED
  BY <1>2, <1>5, <1>6

(* The bytes of some lines, each with its ending.                          *)
Bytes(sizes) == FoldLeft(LAMBDA sum, size : sum + size + 2, 0, sizes)

(* The fold of their bytes, as the equation it satisfies.                *)
CountingAll(g, s) ==
    g = [t \in SUBSET DOMAIN s |->
            IF t = {} THEN 0 ELSE g[t \ {Max(t)}] + s[Max(t)] + 2]

LEMMA BytesAreChosen ==
    ASSUME NEW s
    PROVE  Bytes(s) = (CHOOSE g : CountingAll(g, s))[DOMAIN s]
BY Zenon DEF Bytes, FoldLeft, MapThenFoldSet, CountingAll

LEMMA BytesAreCounted ==
    ASSUME NEW n \in Nat, NEW s, DOMAIN s = 1..n,
           \A i \in 1..n : s[i] \in Nat
    PROVE  \E r : /\ r[0] = 0
                  /\ \A i \in 1..n : r[i] = r[i - 1] + s[i] + 2
                  /\ Bytes(s) = r[n]
<1> DEFINE Sets == SUBSET (1..n)
<1>1. \E g : CountingAll(g, s)
  <2> DEFINE Step == [iv \in (1..n) \X Int |-> iv[2] + s[iv[1]] + 2]
  <2>1. Step \in [(1..n) \X Int -> Int]
    OBVIOUS
  <2>2. 0 \in Int
    OBVIOUS
  <2>3. PICK g \in [Sets -> Int] : Folding(g, 0, Step, n)
    <3> HIDE DEF Step
    <3> QED
      BY <2>1, <2>2, FoldingExists
  <2>4. ASSUME NEW t \in Sets, t # {}
        PROVE  Step[Max(t), g[t \ {Max(t)}]] = g[t \ {Max(t)}] + s[Max(t)] + 2
    <3>1. Max(t) \in 1..n
      BY <2>4, LargestIndex
    <3>2. g[t \ {Max(t)}] \in Int
      BY <2>3
    <3>3. <<Max(t), g[t \ {Max(t)}]>> \in (1..n) \X Int
      BY <3>1, <3>2
    <3> QED
      BY <3>3
  <2> HIDE DEF Step
  <2>5. \A t \in Sets : (IF t = {} THEN 0 ELSE Step[Max(t), g[t \ {Max(t)}]])
                        = IF t = {} THEN 0 ELSE g[t \ {Max(t)}] + s[Max(t)] + 2
    BY <2>4, Zenon
  <2>6. CountingAll(g, s)
    BY <2>3, <2>5, Zenon DEF Folding, CountingAll
  <2> QED
    BY <2>6
<1>2. PICK g : CountingAll(g, s) /\ Bytes(s) = g[1..n]
  BY <1>1, BytesAreChosen, Zenon
<1>3. g[1..0] = 0
  <2>1. 1..0 = {} /\ {} \in Sets
    OBVIOUS
  <2>2. g[{}] = 0
    BY <1>2, <2>1 DEF CountingAll
  <2> QED
    BY <2>1, <2>2
<1>4. ASSUME NEW i \in 1..n
      PROVE  g[1..i] = g[1..(i - 1)] + s[i] + 2
  <2>1. g[1..i] = g[(1..i) \ {Max(1..i)}] + s[Max(1..i)] + 2
    BY <1>2, WholeRanges, Zenon DEF CountingAll
  <2> QED
    BY <2>1, WholeRanges
<1> DEFINE r == [i \in 0..n |-> g[1..i]]
<1>5. r[0] = 0 /\ r[n] = g[1..n]
  <2>1. 0 \in 0..n /\ n \in 0..n
    OBVIOUS
  <2> QED
    BY <1>3, <2>1, Zenon
<1>6. \A i \in 1..n : r[i] = r[i - 1] + s[i] + 2
  <2> TAKE i \in 1..n
  <2>1. i \in 0..n /\ i - 1 \in 0..n
    OBVIOUS
  <2> QED
    BY <1>4, <2>1
<1> QED
  BY <1>2, <1>5, <1>6

(* While no blank line comes, the bound holds of what was read, or it was  *)
(* passed.                                                                 *)
Reading(head, bytes, i) ==
    /\ bytes \in Nat
    /\ \/ /\ head.bytes = Least(bytes, MaxHeadBytes)
          /\ head.lines = i
          /\ head.ended = "reading"
          /\ i <= MaxHeadLines
       \/ /\ head.ended = "HeadTooLarge"
          /\ bytes >= MaxHeadBytes \/ i > MaxHeadLines

LEMMA OneMoreLine ==
    ASSUME NEW head \in HeadStates, NEW bytes, NEW i \in Nat \ {0}, NEW line \in Nat \ {0},
           Reading(head, bytes, i - 1)
    PROVE  Reading(TakeLine(head, line), bytes + line + 2, i)
<1> DEFINE left == MaxHeadBytes - head.bytes
           then == TakeLine(head, line)
<1>1. bytes \in Nat /\ bytes + line + 2 \in Nat /\ MaxHeadBytes \in Nat /\ MaxHeadLines \in Nat
  BY BoundsAssumption DEF Reading
<1>2. CASE head.ended = "HeadTooLarge"
  <2>1. then = head
    BY <1>2 DEF TakeLine
  <2>2. bytes >= MaxHeadBytes \/ i - 1 > MaxHeadLines
    BY <1>2 DEF Reading
  <2>3. bytes + line + 2 >= MaxHeadBytes \/ i > MaxHeadLines
    BY <1>1, <2>2
  <2> QED
    BY <1>1, <1>2, <2>1, <2>3 DEF Reading
<1>3. CASE head.ended # "HeadTooLarge"
  <2>1. /\ head.bytes = Least(bytes, MaxHeadBytes)
        /\ head.lines = i - 1
        /\ head.ended = "reading"
        /\ i - 1 <= MaxHeadLines
    BY <1>3 DEF Reading
  <2>2. head.bytes \in Nat /\ left \in Nat
    BY <1>1, <2>1 DEF Least
  <2>3. CASE left = 0
    <3>1. then.ended = "HeadTooLarge"
      BY <2>1, <2>3 DEF TakeLine, HeadStates
    <3>2. bytes + line + 2 >= MaxHeadBytes
      BY <1>1, <2>1, <2>3 DEF Least
    <3> QED
      BY <1>1, <3>1, <3>2 DEF Reading
  <2>4. CASE left # 0 /\ i - 1 >= MaxHeadLines
    <3>1. then.ended = "HeadTooLarge"
      BY <2>1, <2>4 DEF TakeLine, HeadStates
    <3>2. i > MaxHeadLines
      BY <1>1, <2>4
    <3> QED
      BY <1>1, <3>1, <3>2 DEF Reading
  <2>5. CASE left # 0 /\ ~(i - 1 >= MaxHeadLines)
    <3>1. then = [head EXCEPT !.bytes = @ + Least(line + Ending, left), !.lines = @ + 1]
      BY <2>1, <2>5 DEF TakeLine
    <3>2. /\ then.bytes = head.bytes + Least(line + Ending, left)
          /\ then.lines = head.lines + 1
          /\ then.ended = head.ended
      BY <3>1 DEF HeadStates
    <3>3. head.bytes + Least(line + Ending, left) = Least(bytes + line + 2, MaxHeadBytes)
      BY <1>1, <2>1 DEF Least, Ending
    <3>4. head.lines + 1 = i /\ i <= MaxHeadLines
      BY <1>1, <2>1, <2>5
    <3>5. Reading(then, bytes + line + 2, i)
      <4> HIDE DEF then
      <4> QED
        BY <1>1, <2>1, <3>2, <3>3, <3>4 DEF Reading
    <3> QED
      BY <3>5
  <2> QED
    BY <2>3, <2>4, <2>5
<1> QED
  BY <1>2, <1>3

(* The first blank line, and what comes before it.                         *)
BlankLine(sizes) == SelectInSeq(sizes, LAMBDA size : size = 0)
Kept(sizes) == IF BlankLine(sizes) = 0 THEN sizes ELSE SubSeq(sizes, 1, BlankLine(sizes) - 1)
TooLarge(sizes) == Bytes(Kept(sizes)) >= MaxHeadBytes \/ Len(Kept(sizes)) > MaxHeadLines

LEMMA FirstBlank ==
    ASSUME NEW sizes \in Seq(Nat)
    PROVE  LET k == BlankLine(sizes)
           IN  \/ k = 0 /\ \A i \in 1..Len(sizes) : sizes[i] # 0
               \/ /\ k \in 1..Len(sizes) /\ sizes[k] = 0
                  /\ \A i \in 1..(k - 1) : sizes[i] # 0
<1> DEFINE Blanks == {i \in 1..Len(sizes) : sizes[i] = 0}
<1>1. BlankLine(sizes) = IF Blanks # {} THEN Min(Blanks) ELSE 0
  BY DEF BlankLine, SelectInSeq
<1>2. CASE Blanks = {}
  BY <1>1, <1>2
<1>3. CASE Blanks # {}
  <2>1. Blanks \in SUBSET Nat
    OBVIOUS
  <2>2. PICK x \in Blanks : \A y \in Blanks : x <= y
    <3> HIDE DEF Blanks
    <3> QED
      BY <1>3, <2>1, LeastNatural
  <2>3. Min(Blanks) \in Blanks /\ \A y \in Blanks : Min(Blanks) <= y
    BY <2>2 DEF Min
  <2>4. PICK k \in Blanks : k = BlankLine(sizes) /\ \A y \in Blanks : k <= y
    BY <1>1, <1>3, <2>3
  <2>5. \A i \in 1..(k - 1) : sizes[i] # 0
    BY <2>4
  <2> QED
    BY <2>4, <2>5
<1> QED
  BY <1>2, <1>3
(* What comes before it: as many lines, and the same ones.                 *)
LEMMA KeptLines ==
    ASSUME NEW sizes \in Seq(Nat)
    PROVE  /\ DOMAIN Kept(sizes) = 1..Len(Kept(sizes))
           /\ Len(Kept(sizes)) = IF BlankLine(sizes) = 0 THEN Len(sizes) ELSE BlankLine(sizes) - 1
           /\ \A i \in 1..Len(Kept(sizes)) : /\ Kept(sizes)[i] = sizes[i]
                                             /\ sizes[i] \in Nat \ {0}
<1> DEFINE k == BlankLine(sizes)
<1>1. CASE k = 0
  <2>1. Kept(sizes) = sizes
    BY <1>1 DEF Kept
  <2>2. \A i \in 1..Len(sizes) : sizes[i] \in Nat \ {0}
    BY <1>1, FirstBlank
  <2> QED
    BY <1>1, <2>1, <2>2
<1>2. CASE k # 0
  <2>1. k \in 1..Len(sizes) /\ \A i \in 1..(k - 1) : sizes[i] # 0
    BY <1>2, FirstBlank
  <2>2. Kept(sizes) = SubSeq(sizes, 1, k - 1)
    BY <1>2 DEF Kept
  <2> HIDE DEF k
  <2>3. /\ SubSeq(sizes, 1, k - 1) \in Seq(Nat)
        /\ Len(SubSeq(sizes, 1, k - 1)) = k - 1
        /\ \A i \in 1..(k - 1) : SubSeq(sizes, 1, k - 1)[i] = sizes[i]
    BY <2>1
  <2>4. \A i \in 1..(k - 1) : sizes[i] \in Nat \ {0}
    BY <2>1
  <2> USE DEF k
  <2> QED
    BY <1>2, <2>2, <2>3, <2>4
<1> QED
  BY <1>1, <1>2

(* After the lines that come before a blank one.                           *)
LEMMA ReadSoFar ==
    ASSUME NEW sizes \in Seq(Nat), NEW r,
           r[0] = NothingRead,
           \A i \in 1..Len(sizes) : r[i] = TakeLine(r[i - 1], sizes[i])
    PROVE  LET m == Len(Kept(sizes))
           IN  r[m] \in HeadStates /\ Reading(r[m], Bytes(Kept(sizes)), m)
<1> DEFINE m == Len(Kept(sizes))
<1>1. m \in 0..Len(sizes) /\ m \in Nat
  BY FirstBlank, KeptLines
<1>2. /\ DOMAIN Kept(sizes) = 1..m
      /\ \A i \in 1..m : Kept(sizes)[i] = sizes[i] /\ sizes[i] \in Nat \ {0}
  BY KeptLines
<1>3. PICK c : /\ c[0] = 0
               /\ \A i \in 1..m : c[i] = c[i - 1] + Kept(sizes)[i] + 2
               /\ Bytes(Kept(sizes)) = c[m]
  <2> HIDE DEF m
  <2>1. \A i \in 1..m : Kept(sizes)[i] \in Nat
    BY <1>2
  <2> QED
    BY <1>1, <1>2, <2>1, BytesAreCounted
<1> DEFINE Good == {i \in 0..m : r[i] \in HeadStates /\ Reading(r[i], c[i], i)}
<1>4. 0 \in Good
  BY <1>1, <1>3, BoundsAssumption DEF NothingRead, HeadStates, Reading, Least
<1>5. ASSUME NEW i \in 1..m, i - 1 \in Good
      PROVE  i \in Good
  <2> HIDE DEF m
  <2>1. i \in 1..Len(sizes) /\ sizes[i] \in Nat \ {0} /\ i \in Nat \ {0} /\ i \in 0..m
    BY <1>1, <1>2
  <2>2. r[i] = TakeLine(r[i - 1], sizes[i]) /\ c[i] = c[i - 1] + sizes[i] + 2
    BY <1>2, <1>3, <2>1
  <2>3. r[i - 1] \in HeadStates /\ Reading(r[i - 1], c[i - 1], i - 1)
    BY <1>5
  <2>4. TakeLine(r[i - 1], sizes[i]) \in HeadStates
    BY <2>1, <2>3, TakeLineType
  <2>5. Reading(TakeLine(r[i - 1], sizes[i]), c[i - 1] + sizes[i] + 2, i)
    BY <2>1, <2>3, OneMoreLine
  <2> QED
    BY <2>1, <2>2, <2>4, <2>5
<1>6. m \in Good
  <2> HIDE DEF Good, m
  <2>1. \A i \in 0..m : i \in Good
    BY <1>1, <1>4, <1>5, IndexInduction
  <2> QED
    BY <1>1, <2>1
<1> QED
  BY <1>3, <1>6

(* A head that has ended has ended.                                        *)
LEMMA NoMoreIsTaken ==
    ASSUME NEW sizes \in Seq(Nat), NEW r, NEW k \in 0..Len(sizes),
           \A i \in 1..Len(sizes) : r[i] = TakeLine(r[i - 1], sizes[i]),
           r[k].ended # "reading"
    PROVE  r[Len(sizes)] = r[k]
<1> DEFINE n == Len(sizes)
           Good == {i \in 0..n : i >= k => r[i] = r[k]}
<1>1. 0 \in Good
  OBVIOUS
<1>2. ASSUME NEW i \in 1..n, i - 1 \in Good
      PROVE  i \in Good
  <2>1. CASE i - 1 >= k
    <3>1. r[i - 1] = r[k]
      BY <1>2, <2>1
    <3>2. r[i] = r[k]
      BY <3>1 DEF TakeLine
    <3> QED
      BY <3>2
  <2>2. CASE ~(i - 1 >= k)
    BY <2>2
  <2> QED
    BY <2>1, <2>2
<1>3. n \in Good
  <2>0. n \in Nat
    OBVIOUS
  <2> HIDE DEF Good, n
  <2>1. \A i \in 0..n : i \in Good
    BY <1>1, <1>2, <2>0, IndexInduction
  <2> QED
    BY <2>0, <2>1
<1> QED
  BY <1>3
(* A head is read, or refused, for exactly what it is.                     *)
LEMMA HeadIsBounded ==
    ASSUME NEW sizes \in Seq(Nat), NEW after
    PROVE  LET head == ReadHead(sizes, after)
           IN  /\ head \in {"read", "HeadTooLarge", "RequestTimeout", "MalformedRequest"}
               /\ head = "HeadTooLarge" <=> TooLarge(sizes)
               /\ head = "RequestTimeout"
                    <=> ~TooLarge(sizes) /\ BlankLine(sizes) = 0 /\ after = "silence"
               /\ head = "MalformedRequest"
                    <=> ~TooLarge(sizes) /\ BlankLine(sizes) = 0 /\ after # "silence"
<1> DEFINE n == Len(sizes)
           m == Len(Kept(sizes))
           bytes == Bytes(Kept(sizes))
           head == ReadHead(sizes, after)
<1>1. PICK r : /\ r[0] = NothingRead
               /\ \A i \in 1..n : r[i] = TakeLine(r[i - 1], sizes[i])
               /\ Taken(sizes) = r[n]
  <2>1. n \in Nat /\ DOMAIN sizes = 1..n /\ \A i \in 1..n : sizes[i] \in Nat
    OBVIOUS
  <2> HIDE DEF n
  <2> QED
    BY <2>1, LinesAreTaken
<1>2. head = IF r[n].ended # "reading" THEN r[n].ended
             ELSE IF r[n].bytes = MaxHeadBytes THEN "HeadTooLarge" ELSE Unread(after)
  <2>1. head = IF Taken(sizes).ended # "reading" THEN Taken(sizes).ended
               ELSE IF Taken(sizes).bytes = MaxHeadBytes THEN "HeadTooLarge"
               ELSE Unread(after)
    BY Zenon DEF ReadHead, Taken, NothingRead
  <2> QED
    BY <1>1, <2>1
<1>3. r[m] \in HeadStates /\ Reading(r[m], bytes, m)
  BY <1>1, ReadSoFar
<1>4. m \in 0..n /\ MaxHeadBytes \in Nat /\ MaxHeadLines \in Nat /\ bytes \in Nat
  BY <1>3, FirstBlank, KeptLines, BoundsAssumption DEF Reading
<1>5. TooLarge(sizes) <=> bytes >= MaxHeadBytes \/ m > MaxHeadLines
  BY DEF TooLarge
<1>6. CASE r[m].ended = "HeadTooLarge"
  <2>1. r[n] = r[m]
    BY <1>1, <1>4, <1>6, NoMoreIsTaken
  <2>2. TooLarge(sizes)
    BY <1>3, <1>5, <1>6 DEF Reading
  <2>3. head = "HeadTooLarge"
    BY <1>2, <1>6, <2>1
  <2> QED
    BY <2>2, <2>3
<1>7. CASE /\ r[m].bytes = Least(bytes, MaxHeadBytes)
           /\ r[m].lines = m
           /\ r[m].ended = "reading"
           /\ m <= MaxHeadLines
  <2>1. r[m].bytes = MaxHeadBytes <=> TooLarge(sizes)
    BY <1>4, <1>5, <1>7 DEF Least
  <2>2. CASE BlankLine(sizes) = 0
    <3>1. m = n
      BY <2>2, KeptLines
    <3>2. head = IF r[m].bytes = MaxHeadBytes THEN "HeadTooLarge" ELSE Unread(after)
      BY <1>2, <1>7, <3>1
    <3> QED
      BY <2>1, <2>2, <3>2 DEF Unread
  <2>3. CASE BlankLine(sizes) # 0
    <3>1. m + 1 \in 1..n /\ m + 1 \in 0..n /\ sizes[m + 1] = 0
      BY <2>3, FirstBlank, KeptLines
    <3>2. r[m + 1] = TakeLine(r[m], 0)
      <4>1. m + 1 - 1 = m
        BY <1>4
      <4> QED
        BY <1>1, <3>1, <4>1
    <3>3. r[m + 1].ended = IF MaxHeadBytes - r[m].bytes = 0 THEN "HeadTooLarge" ELSE "read"
      BY <1>3, <1>7, <3>2 DEF TakeLine, HeadStates
    <3>4. MaxHeadBytes - r[m].bytes = 0 <=> r[m].bytes = MaxHeadBytes
      BY <1>3, <1>4 DEF HeadStates
    <3>5. r[n] = r[m + 1]
      <4>1. r[m + 1].ended # "reading"
        BY <3>3
      <4> QED
        BY <1>1, <3>1, <4>1, NoMoreIsTaken
    <3>6. head = r[m + 1].ended
      BY <1>2, <3>3, <3>5
    <3> QED
      BY <2>1, <2>3, <3>3, <3>4, <3>6
  <2> QED
    BY <2>2, <2>3
<1> QED
  BY <1>3, <1>6, <1>7 DEF Reading
-----------------------------------------------------------------------------
(* What is done for a request, from one operator of its path to the next.  *)

Fields == {"status", "cause", "says", "report", "told", "read", "asked", "room",
           "path", "sent"}

LEMMA NothingIsDone ==
    /\ DOMAIN Nothing = Fields
    /\ Nothing.told = FALSE /\ Nothing.read = FALSE
    /\ Nothing.asked = "" /\ Nothing.cause = ""
BY DEF Nothing, Fields

(* The same but for its answer.                                            *)
Keeps(a, done, cause) ==
    /\ DOMAIN a = Fields /\ a.cause = cause
    /\ a.told = done.told /\ a.read = done.read
    /\ a.asked = done.asked /\ a.room = done.room

LEMMA RefuseKeeps ==
    ASSUME NEW done, DOMAIN done = Fields, NEW cause
    PROVE  Keeps(Refuse(done, cause), done, cause)
BY DEF Refuse, Fields, Keeps

LEMMA ReplyKeeps ==
    ASSUME NEW done, DOMAIN done = Fields, NEW report
    PROVE  Keeps(Reply(done, report), done, done.cause)
BY DEF Reply, Fields, Keeps

Waits(done, so) == ~done.read /\ BodyBytes(so) > 0

(* The same, and its body passed on where nobody has read it and the child *)
(* is not lost.                                                            *)
PassesOn(a, done, request, so, waits) ==
    /\ DOMAIN a = Fields /\ a.cause = done.cause
    /\ a.told = (done.told \/ (waits /\ so.expects))
    /\ a.read = (done.read \/ (waits /\ request.child # "lost"))
    /\ a.asked = done.asked /\ a.room = done.room

LEMMA RelayKeeps ==
    ASSUME NEW done, DOMAIN done = Fields, done.read \in BOOLEAN,
           NEW request, NEW so, NEW endpoint
    PROVE  PassesOn(Relay(done, request, so, endpoint), done, request, so, Waits(done, so))
<1> DEFINE told == [done EXCEPT !.told = @ \/ (Waits(done, so) /\ so.expects)]
<1>1. /\ DOMAIN told = Fields /\ told.cause = done.cause /\ told.read = done.read
      /\ told.told = (done.told \/ (Waits(done, so) /\ so.expects))
      /\ told.asked = done.asked /\ told.room = done.room
  BY DEF Fields
<1>2. CASE request.child = "lost"
  <2>1. Relay(done, request, so, endpoint) = told
    BY <1>2, Zenon DEF Relay, Waits
  <2>2. PassesOn(told, done, request, so, Waits(done, so))
    BY <1>1, <1>2 DEF PassesOn
  <2> QED
    BY <2>1, <2>2, Zenon
<1>3. CASE request.child # "lost"
  BY <1>3 DEF Relay, Fields, PassesOn, Waits
<1> QED
  BY <1>2, <1>3

(* A request as the code has one once its bytes are in: sizes and lines    *)
(* are sequences, and a launcher either does what it is asked or fails for *)
(* one of its reasons.  No model served has an empty name.                 *)
IsRequest(request) ==
    /\ request.sizes \in Seq(Nat)
    /\ \E n \in Nat : DOMAIN request.lines = 1..n
    /\ request.outcome \in {"done"} \cup DOMAIN Failed
    /\ "" \notin DOMAIN request.view.served

(* Told exactly when read; timed out only on the body; and asking of a     *)
(* model only what may be asked.                                           *)
ToldWhenRead(a, so) ==
    /\ a.read \in BOOLEAN
    /\ a.told = (a.read /\ so.expects)

CauseOf(a) ==
    /\ a.cause # "HeadTooLarge"
    /\ a.cause = "RequestTimeout" => a.read

Asks(a, request, so) ==
    a.asked # "" => a.room = so.room /\ a.asked \in DOMAIN request.view.served

Fair(a, request, so) ==
    DOMAIN a = Fields /\ ToldWhenRead(a, so) /\ CauseOf(a) /\ Asks(a, request, so)

(* In the end the child may have been lost, with its model got and its     *)
(* caller told.                                                            *)
ChildIsLost(a, request) == request.child = "lost" /\ a.asked # "" /\ a.cause = ""

ToldOrLost(a, request, so) ==
    \/ ToldWhenRead(a, so)
    \/ ChildIsLost(a, request) /\ a.read = FALSE /\ a.told = so.expects

FairOrLost(a, request, so) ==
    /\ DOMAIN a = Fields /\ ToldOrLost(a, request, so)
    /\ CauseOf(a) /\ Asks(a, request, so)

LEMMA FairIsEnough ==
    ASSUME NEW a, NEW request, NEW so, Fair(a, request, so)
    PROVE  FairOrLost(a, request, so)
BY DEF Fair, FairOrLost, ToldOrLost

LEMMA KeepsFair ==
    ASSUME NEW done, NEW request, NEW so, Fair(done, request, so), NEW a, NEW cause,
           Keeps(a, done, cause),
           \/ cause \notin {"HeadTooLarge", "RequestTimeout"}
           \/ cause = done.cause
           \/ cause = "RequestTimeout" /\ done.read
    PROVE  Fair(a, request, so) /\ a.asked = done.asked
BY DEF Fair, Keeps, ToldWhenRead, CauseOf, Asks

LEMMA FailedCauses ==
    ASSUME NEW outcome \in DOMAIN Failed
    PROVE  Failed[outcome] \notin {"HeadTooLarge", "RequestTimeout"}
BY DEF Failed

LEMMA RelayIsFair ==
    ASSUME NEW done, NEW request, NEW so \in Claims, NEW endpoint, Fair(done, request, so),
           done.asked # "", done.cause = ""
    PROVE  LET a == Relay(done, request, so, endpoint)
           IN  FairOrLost(a, request, so) /\ a.asked = done.asked
<1> SUFFICES ASSUME NEW a, a = Relay(done, request, so, endpoint)
             PROVE  FairOrLost(a, request, so) /\ a.asked = done.asked
  OBVIOUS
<1>1. PICK waits \in BOOLEAN : PassesOn(a, done, request, so, waits)
  <2>1. DOMAIN done = Fields /\ done.read \in BOOLEAN
    BY DEF Fair, ToldWhenRead
  <2>2. PassesOn(a, done, request, so, Waits(done, so))
    BY <2>1, RelayKeeps
  <2>3. Waits(done, so) \in BOOLEAN
    BY Zenon DEF Waits
  <2> QED
    BY <2>2, <2>3
<1>2. so.expects \in BOOLEAN
  BY DEF Claims
<1>3. ToldOrLost(a, request, so)
  <2>1. CASE request.child = "lost" /\ waits /\ ~done.read
    <3>1. a.read = FALSE /\ a.told = so.expects
      BY <1>1, <1>2, <2>1 DEF Fair, ToldWhenRead, PassesOn
    <3>2. ChildIsLost(a, request)
      BY <1>1, <2>1 DEF ChildIsLost, PassesOn
    <3> QED
      BY <3>1, <3>2 DEF ToldOrLost
  <2>2. CASE ~(request.child = "lost" /\ waits /\ ~done.read)
    <3>1. ToldWhenRead(a, so)
      BY <1>1, <1>2, <2>2 DEF Fair, ToldWhenRead, PassesOn
    <3> QED
      BY <3>1 DEF ToldOrLost
  <2> QED
    BY <2>1, <2>2
<1>4. CauseOf(a) /\ Asks(a, request, so)
  BY <1>1 DEF Fair, ToldWhenRead, CauseOf, Asks, PassesOn
<1> QED
  BY <1>1, <1>3, <1>4 DEF FairOrLost, PassesOn

LEMMA AskForIsFair ==
    ASSUME NEW done, NEW request, NEW so \in Claims, NEW endpoint, NEW model,
           IsRequest(request), Fair(done, request, so), done.asked = "", done.cause = ""
    PROVE  LET a == AskFor(done, request, so, endpoint, model)
           IN  FairOrLost(a, request, so) /\ a.asked \in {"", model}
<1> SUFFICES ASSUME NEW a, a = AskFor(done, request, so, endpoint, model)
             PROVE  FairOrLost(a, request, so) /\ a.asked \in {"", model}
  OBVIOUS
<1>1. PICK asking : asking = [done EXCEPT !.asked = model, !.room = so.room]
  OBVIOUS
<1>2. /\ DOMAIN asking = Fields
      /\ asking.told = done.told /\ asking.read = done.read /\ asking.cause = done.cause
      /\ asking.asked = model /\ asking.room = so.room
  BY <1>1 DEF Fair, Fields
<1>3. DOMAIN done = Fields
  BY DEF Fair
<1>4. CASE model \notin DOMAIN request.view.served
  <2>1. a = Refuse(done, "ModelNotFound")
    BY <1>4 DEF AskFor
  <2>2. Keeps(a, done, "ModelNotFound")
    BY <1>3, <2>1, RefuseKeeps
  <2> QED
    BY <2>2, KeepsFair, FairIsEnough
<1>5. CASE model \in DOMAIN request.view.served
  <2>1. Fair(asking, request, so)
    BY <1>2, <1>5 DEF Fair, ToldWhenRead, CauseOf, Asks
  <2>2. CASE endpoint.shape = "unload"
    <3>1. a = Unload(done, request)
      BY <1>5, <2>2 DEF AskFor
    <3>2. a = Reply(done, {"success"}) \/ a = Refuse(done, "ModelBusy")
      BY <3>1 DEF Unload
    <3>3. Keeps(a, done, done.cause) \/ Keeps(a, done, "ModelBusy")
      BY <1>3, <3>2, RefuseKeeps, ReplyKeeps
    <3> QED
      BY <3>3, KeepsFair, FairIsEnough
  <2>3. CASE endpoint.shape # "unload" /\ request.outcome # "done"
    <3>1. a = Refuse(asking, Failed[request.outcome])
      BY <1>1, <1>5, <2>3, Zenon DEF AskFor, Load
    <3>2. Failed[request.outcome] \notin {"HeadTooLarge", "RequestTimeout"}
      BY <2>3, FailedCauses DEF IsRequest
    <3>3. Keeps(a, asking, Failed[request.outcome])
      BY <1>2, <3>1, RefuseKeeps
    <3> QED
      BY <1>2, <2>1, <3>2, <3>3, KeepsFair, FairIsEnough
  <2>4. CASE endpoint.shape = "load" /\ request.outcome = "done"
    <3>1. a = Reply(asking, {"success"})
      BY <1>1, <1>5, <2>4, Zenon DEF AskFor, Load
    <3>2. Keeps(a, asking, asking.cause)
      BY <1>2, <3>1, ReplyKeeps
    <3> QED
      BY <1>2, <2>1, <3>2, KeepsFair, FairIsEnough
  <2>5. CASE endpoint.shape \notin {"load", "unload"} /\ request.outcome = "done"
    <3>1. a = Relay(asking, request, so, endpoint)
      BY <1>1, <1>5, <2>5 DEF AskFor
    <3>2. LET b == Relay(asking, request, so, endpoint)
          IN  FairOrLost(b, request, so) /\ b.asked = asking.asked
      <4>1. asking.asked # "" /\ asking.cause = ""
        BY <1>2, <1>5 DEF IsRequest
      <4> QED
        BY <2>1, <4>1, RelayIsFair
    <3> QED
      BY <1>2, <3>1, <3>2
  <2> QED
    BY <2>2, <2>3, <2>4, <2>5
<1> QED
  BY <1>4, <1>5
(* A model named in a body is named in one that is declared, within the    *)
(* bound.                                                                  *)
NamesIt(a, request, so) ==
    /\ so.length # Absent /\ ~(so.length > MaxBodyBytes)
    /\ request.body = a.asked

LEMMA NamedInBodyIsFair ==
    ASSUME NEW request, NEW so \in Claims, NEW endpoint, IsRequest(request)
    PROVE  LET a == NamedInBody(Nothing, request, so, endpoint)
           IN  FairOrLost(a, request, so) /\ (a.asked # "" => NamesIt(a, request, so))
<1> SUFFICES ASSUME NEW a, a = NamedInBody(Nothing, request, so, endpoint)
             PROVE  FairOrLost(a, request, so) /\ (a.asked # "" => NamesIt(a, request, so))
  OBVIOUS
<1>1. Fair(Nothing, request, so)
  BY NothingIsDone DEF Fair, ToldWhenRead, CauseOf, Asks
<1>2. PICK reading : reading = [Nothing EXCEPT !.told = so.expects, !.read = TRUE]
  OBVIOUS
<1>3. /\ DOMAIN reading = Fields /\ reading.told = so.expects /\ reading.read = TRUE
      /\ reading.cause = "" /\ reading.asked = ""
  BY <1>2, NothingIsDone DEF Fields
<1>4. Fair(reading, request, so)
  <2>1. so.expects \in BOOLEAN
    BY DEF Claims
  <2> QED
    BY <1>3, <2>1 DEF Fair, ToldWhenRead, CauseOf, Asks
<1>5. CASE so.length = Absent \/ so.length > MaxBodyBytes
  <2>1. a = Refuse(Nothing, "LengthRequired") \/ a = Refuse(Nothing, "BodyTooLarge")
    BY <1>5 DEF NamedInBody
  <2>2. Keeps(a, Nothing, "LengthRequired") \/ Keeps(a, Nothing, "BodyTooLarge")
    BY <2>1, NothingIsDone, RefuseKeeps
  <2> QED
    BY <1>1, <2>2, KeepsFair, FairIsEnough, NothingIsDone
<1>6. CASE /\ ~(so.length = Absent \/ so.length > MaxBodyBytes)
           /\ request.body \in DOMAIN Unreadable
  <2>1. a = Refuse(reading, Unreadable[request.body])
    BY <1>2, <1>6, Zenon DEF NamedInBody
  <2>2. Keeps(a, reading, Unreadable[request.body])
    BY <1>3, <2>1, RefuseKeeps
  <2>3. Unreadable[request.body] # "HeadTooLarge"
    BY <1>6 DEF Unreadable
  <2> QED
    BY <1>3, <1>4, <2>2, <2>3, KeepsFair, FairIsEnough
<1>7. CASE /\ ~(so.length = Absent \/ so.length > MaxBodyBytes)
           /\ request.body \notin DOMAIN Unreadable
  <2>1. a = AskFor(reading, request, so, endpoint, request.body)
    BY <1>2, <1>7, Zenon DEF NamedInBody
  <2>2. LET b == AskFor(reading, request, so, endpoint, request.body)
        IN  FairOrLost(b, request, so) /\ b.asked \in {"", request.body}
    BY <1>3, <1>4, AskForIsFair
  <2> QED
    BY <1>7, <2>1, <2>2 DEF NamesIt
<1> QED
  BY <1>5, <1>6, <1>7

(* What is asked of a model passed its framing and its room first.         *)
Passed(a, request, so, endpoint) ==
    /\ ~so.chunked /\ so.length # Malformed /\ so.room # "unknown"
    /\ endpoint.shape \notin OwnReads
    /\ endpoint.shape # "dedicated" => NamesIt(a, request, so)

LEMMA FramedIsFair ==
    ASSUME NEW request, NEW so \in Claims, NEW endpoint, IsRequest(request)
    PROVE  LET a == Framed(request, so, endpoint)
           IN  FairOrLost(a, request, so) /\ (a.asked # "" => Passed(a, request, so, endpoint))
<1> SUFFICES ASSUME NEW a, a = Framed(request, so, endpoint)
             PROVE  /\ FairOrLost(a, request, so)
                    /\ a.asked # "" => Passed(a, request, so, endpoint)
  OBVIOUS
<1>1. Fair(Nothing, request, so)
  BY NothingIsDone DEF Fair, ToldWhenRead, CauseOf, Asks
<1>2. CASE so.chunked \/ so.length = Malformed \/ so.room = "unknown"
  <2>1. PICK cause \in {"ChunkedBody", "MalformedLength", "UnknownRoom"} :
          a = Refuse(Nothing, cause)
    BY <1>2 DEF Framed, Claims
  <2>2. Keeps(a, Nothing, cause)
    BY <2>1, NothingIsDone, RefuseKeeps
  <2> QED
    BY <1>1, <2>2, KeepsFair, FairIsEnough, NothingIsDone
<1> DEFINE framed == ~so.chunked /\ so.length # Malformed /\ so.room # "unknown"
<1>3. CASE framed /\ endpoint.shape \in OwnReads \cup {"reload"}
  <2>1. \/ a = Reply(Nothing, ReportOf(endpoint.shape, request.view))
        \/ a = Reply(Nothing, ReloadOf(request.view))
        \/ a = Refuse(Nothing, "CatalogUnreadable")
    BY <1>3, Zenon DEF Framed, Reload
  <2>2. Keeps(a, Nothing, Nothing.cause) \/ Keeps(a, Nothing, "CatalogUnreadable")
    BY <2>1, NothingIsDone, RefuseKeeps, ReplyKeeps
  <2> QED
    BY <1>1, <2>2, KeepsFair, FairIsEnough, NothingIsDone
<1>4. CASE framed /\ endpoint.shape \notin OwnReads \cup {"reload"}
  <2>1. a = ToModel(Nothing, request, so, endpoint)
    BY <1>4, Zenon DEF Framed
  <2>2. CASE endpoint.shape = "dedicated"
    <3>1. a = AskFor(Nothing, request, so, endpoint, endpoint.id)
      BY <2>1, <2>2 DEF ToModel
    <3>2. LET b == AskFor(Nothing, request, so, endpoint, endpoint.id)
          IN  FairOrLost(b, request, so)
      BY <1>1, NothingIsDone, AskForIsFair
    <3> QED
      BY <1>4, <2>2, <3>1, <3>2 DEF Passed
  <2>3. CASE endpoint.shape # "dedicated"
    <3>1. a = NamedInBody(Nothing, request, so, endpoint)
      BY <2>1, <2>3 DEF ToModel
    <3>2. FairOrLost(a, request, so) /\ (a.asked # "" => NamesIt(a, request, so))
      BY <3>1, NamedInBodyIsFair
    <3> QED
      BY <1>4, <2>3, <3>2 DEF Passed
  <2> QED
    BY <2>2, <2>3
<1> QED
  BY <1>2, <1>3, <1>4
(* And its caller, and what it asks, before that.                          *)
Let(request, endpoint) ==
    LET access == Access(request.key, request.origins)
    IN  /\ OriginIsListed(access, request.lines)
        /\ CarriesTheKey(access, request.method, request.lines)
        /\ request.method # "OPTIONS"
        /\ request.method \in Allowed(endpoint)

LEMMA RoutedIsFair ==
    ASSUME NEW request, NEW endpoint, IsRequest(request)
    PROVE  LET a  == Routed(request, endpoint)
               so == Parsed(request.lines)
           IN  /\ FairOrLost(a, request, so)
               /\ a.asked # "" => Let(request, endpoint) /\ Passed(a, request, so, endpoint)
<1> DEFINE access == Access(request.key, request.origins)
<1> SUFFICES ASSUME NEW a, a = Routed(request, endpoint),
                    NEW so, so = Parsed(request.lines)
             PROVE  /\ FairOrLost(a, request, so)
                    /\ a.asked # "" => /\ Let(request, endpoint)
                                       /\ Passed(a, request, so, endpoint)
  OBVIOUS
<1>1. so \in Claims
  BY ParsedSays DEF IsRequest, SaidBy
<1>2. Fair(Nothing, request, so)
  BY NothingIsDone DEF Fair, ToldWhenRead, CauseOf, Asks
<1>3. CASE Let(request, endpoint)
  <2>1. a = Framed(request, so, endpoint)
    BY <1>3, Zenon DEF Let, Routed
  <2>2. LET b == Framed(request, so, endpoint)
        IN  FairOrLost(b, request, so) /\ (b.asked # "" => Passed(b, request, so, endpoint))
    BY <1>1, FramedIsFair
  <2> QED
    BY <1>3, <2>1, <2>2
<1>4. CASE ~Let(request, endpoint)
  <2>1. \/ \E cause \in {"OriginNotAllowed", "Unauthorized", "MethodNotAllowed"} :
              a = Refuse(Nothing, cause)
        \/ a = Preflight(endpoint)
    BY <1>4, Zenon DEF Let, Routed
  <2>2. Keeps(Preflight(endpoint), Nothing, Nothing.cause)
    BY NothingIsDone DEF Preflight, Keeps, Fields
  <2>3. \/ Keeps(a, Nothing, Nothing.cause)
        \/ \E cause \in {"OriginNotAllowed", "Unauthorized", "MethodNotAllowed"} :
              Keeps(a, Nothing, cause)
    BY <2>1, <2>2, NothingIsDone, RefuseKeeps
  <2>4. FairOrLost(a, request, so) /\ a.asked = ""
    BY <1>2, <2>3, KeepsFair, FairIsEnough, NothingIsDone
  <2> QED
    BY <2>4
<1> QED
  BY <1>3, <1>4

LEMMA AnswerIsFair ==
    ASSUME NEW request, IsRequest(request)
    PROVE  LET a    == Answer(request)
               so   == Parsed(request.lines)
               head == ReadHead(request.sizes, request.after)
           IN  /\ ToldOrLost(a, request, so)
               /\ head # "read" => a.cause = head /\ a.read = FALSE /\ a.asked = ""
               /\ head = "read" => CauseOf(a) /\ Asks(a, request, so)
               /\ a.asked # "" => /\ Let(request, Endpoint(request.path))
                                  /\ Passed(a, request, so, Endpoint(request.path))
<1> DEFINE endpoint == Endpoint(request.path)
<1> SUFFICES ASSUME NEW a, a = Answer(request), NEW so, so = Parsed(request.lines),
                    NEW head, head = ReadHead(request.sizes, request.after)
             PROVE  /\ ToldOrLost(a, request, so)
                    /\ head # "read" => a.cause = head /\ a.read = FALSE /\ a.asked = ""
                    /\ head = "read" => CauseOf(a) /\ Asks(a, request, so)
                    /\ a.asked # "" => Let(request, endpoint)
                                       /\ Passed(a, request, so, endpoint)
  OBVIOUS
<1>1. Fair(Nothing, request, so)
  BY NothingIsDone DEF Fair, ToldWhenRead, CauseOf, Asks
<1>2. CASE head # "read"
  <2>1. a = Refuse(Nothing, head)
    BY <1>2, Zenon DEF Answer
  <2>2. Keeps(a, Nothing, head)
    BY <2>1, NothingIsDone, RefuseKeeps
  <2> QED
    BY <1>2, <2>2, NothingIsDone DEF Keeps, ToldWhenRead, ToldOrLost
<1>3. CASE head = "read" /\ a # Routed(request, endpoint)
  <2>1. \E cause \in {"MalformedRequest", "PathNotFound"} : a = Refuse(Nothing, cause)
    BY <1>3, Zenon DEF Answer
  <2>2. \E cause \in {"MalformedRequest", "PathNotFound"} : Keeps(a, Nothing, cause)
    BY <2>1, NothingIsDone, RefuseKeeps
  <2>3. FairOrLost(a, request, so) /\ a.asked = ""
    BY <1>1, <2>2, KeepsFair, FairIsEnough, NothingIsDone
  <2> QED
    BY <1>3, <2>3 DEF FairOrLost
<1>4. CASE head = "read" /\ a = Routed(request, endpoint)
  <2>1. LET b == Routed(request, endpoint)
        IN  /\ FairOrLost(b, request, so)
            /\ b.asked # "" => Let(request, endpoint) /\ Passed(b, request, so, endpoint)
    BY RoutedIsFair
  <2> QED
    BY <1>4, <2>1 DEF FairOrLost
<1> QED
  BY <1>2, <1>3, <1>4
-----------------------------------------------------------------------------
(* The requests that are asked here.                                       *)

LEMMA UpToAreSequences ==
    ASSUME NEW S, NEW n \in Nat, NEW s \in UpTo(S, n)
    PROVE  s \in Seq(S) /\ (\E k \in Nat : DOMAIN s = 1..k) /\ \A i \in DOMAIN s : s[i] \in S
BY DEF UpTo

(* The one value of an expectation that there is.                          *)
ExpectsInFull(request) ==
    \A i \in DOMAIN request.lines :
        request.lines[i].name = "expect" => request.lines[i].value = "100-continue"

(* A header that is no expectation has another name.                       *)
LEMMA ExpectsAreFull ==
    ASSUME NEW header \in About \cup Some, header.name = "expect"
    PROVE  header.value = "100-continue"
<1>1. \A name, value : H(name, value).name = name /\ H(name, value).value = value
  BY DEF H
<1>2. CASE header = H("expect", "100-continue")
  BY <1>1, <1>2
<1>3. CASE header # H("expect", "100-continue")
  <2> DEFINE Others == {"content-length", "transfer-encoding", "room", "host",
                        "connection", ""}
  <2>1. PICK name, value : header = H(name, value) /\ name \in Others
    BY <1>3 DEF About, Some
  <2>2. header.name = name
    BY <1>1, <2>1
  <2> QED
    BY <2>1, <2>2
<1> QED
  BY <1>2, <1>3

RequestsAsked == HeadsRead \cup RequestsRouted \cup RequestsMade

LEMMA AskedAreRequests ==
    ASSUME NEW request \in RequestsAsked
    PROVE  IsRequest(request) /\ ExpectsInFull(request)
<1>1. request.outcome \in {"done"} \cup DOMAIN Failed
  BY DEF RequestsAsked, HeadsRead, RequestsRouted, RequestsMade, Failed
<1>2. request.sizes \in UpTo({0, 1, 2, 5}, 4) \cup {<<1, 1, 0>>}
  BY DEF RequestsAsked, HeadsRead, RequestsRouted, RequestsMade
<1>3. request.sizes \in Seq(Nat)
  <2>1. CASE request.sizes \in UpTo({0, 1, 2, 5}, 4)
    <3>1. request.sizes \in Seq({0, 1, 2, 5})
      BY <2>1, UpToAreSequences
    <3> QED
      BY <3>1
  <2>2. CASE request.sizes = <<1, 1, 0>>
    BY <2>2
  <2> QED
    BY <1>2, <2>1, <2>2
<1>4. \/ request.lines = <<>>
      \/ request.lines \in UpTo(Auth \cup From, 2)
      \/ request.lines \in UpTo(About, 2)
      \/ request.lines \in UpTo(Some, 3)
  BY DEF RequestsAsked, HeadsRead, RequestsRouted, RequestsMade
<1>5. /\ \E k \in Nat : DOMAIN request.lines = 1..k
      /\ \A i \in DOMAIN request.lines : request.lines[i] \in Auth \cup From \cup About \cup Some
  BY <1>4, UpToAreSequences
<1>6. \A header \in Auth \cup From : header.name # "expect"
  BY DEF Auth, From, H
<1>7. ExpectsInFull(request)
  BY <1>5, <1>6, ExpectsAreFull DEF ExpectsInFull
<1>8. "" \notin DOMAIN request.view.served
  <2>1. request.view = View
    BY DEF RequestsAsked, HeadsRead, RequestsRouted, RequestsMade
  <2>2. DOMAIN View.served = {"a", "b", "e"}
    BY DEF View
  <2> QED
    BY <2>1, <2>2
<1> QED
  BY <1>1, <1>3, <1>5, <1>7, <1>8 DEF IsRequest

(* A path that names its model in the body names none itself.              *)
LEMMA BareIsWhole ==
    ASSUME NEW words, NEW path \in Seq(words), path # <<>>, path[Len(path)] # Slash
    PROVE  Bare(path) = path
<1> DEFINE Spoken == {i \in 1..Len(path) : path[i] # Slash}
           n == Len(path)
<1>1. n \in Spoken /\ n \in Nat /\ Spoken \in SUBSET (1..n)
  OBVIOUS
<1>2. Max(Spoken) = n
  <2>1. Max(Spoken) \in Spoken /\ \A m \in Spoken : m <= Max(Spoken)
    <3> HIDE DEF Spoken, n
    <3> QED
      BY <1>1, LargestIndex, Zenon
  <2>2. n <= Max(Spoken) /\ Max(Spoken) <= n
    BY <1>1, <2>1
  <2> QED
    BY <1>1, <2>1, <2>2
<1>3. SelectLastInSeq(path, LAMBDA piece : piece # Slash) = IF Spoken # {} THEN Max(Spoken) ELSE 0
  BY Zenon DEF SelectLastInSeq
<1>4. SelectLastInSeq(path, LAMBDA piece : piece # Slash) = n
  BY <1>1, <1>2, <1>3, Zenon
<1>5. SubSeq(path, 1, n) = path
  OBVIOUS
<1> QED
  BY <1>4, <1>5 DEF Bare

LEMMA NamedInBodyNamesNone ==
    ASSUME NEW path \in NamedInBodies
    PROVE  Endpoint(path).shape # "dedicated"
<1>1. path \in Seq({"/", "v1", "chat", "models", "load", "unload"})
  <2>1. CASE path = <<"/", "v1", "/", "chat">>
    BY <2>1
  <2>2. CASE path = <<"/", "models", "/", "load">>
    BY <2>2
  <2>3. CASE path = <<"/", "models", "/", "unload">>
    BY <2>3
  <2> QED
    BY <2>1, <2>2, <2>3 DEF NamedInBodies
<1>2. Len(path) = 4 /\ path[4] \in {"chat", "load", "unload"}
  BY DEF NamedInBodies
<1>3. path # <<>> /\ path[Len(path)] # Slash
  BY <1>2 DEF Slash
<1>4. Bare(path) = path
  BY <1>1, <1>3, BareIsWhole
<1>5. DOMAIN OwnPaths = {"catalogue", "properties", "metrics", "reload", "load", "unload"}
  BY DEF OwnPaths
<1>6. \A name, id, suffix : Named(name, id, suffix).shape = name
  BY DEF Named
<1>7. CASE \E own \in DOMAIN OwnPaths : OwnPaths[own] = Bare(path)
  <2>1. PICK shape \in DOMAIN OwnPaths : Endpoint(path).shape = shape
    <3>1. PICK own : /\ own \in DOMAIN OwnPaths
                     /\ own = CHOOSE o \in DOMAIN OwnPaths : OwnPaths[o] = Bare(path)
      BY <1>7
    <3>2. Endpoint(path) = Named(own, "", Bare(path))
      BY <1>7, <3>1 DEF Endpoint
    <3>3. Endpoint(path).shape = own
      BY <1>6, <3>2
    <3> QED
      BY <3>1, <3>3
  <2> QED
    BY <1>5, <2>1
<1>8. CASE ~\E own \in DOMAIN OwnPaths : OwnPaths[own] = Bare(path)
  <2>1. path = <<"/", "v1", "/", "chat">>
    <3>1. path # <<"/", "models", "/", "load">> /\ path # <<"/", "models", "/", "unload">>
      BY <1>4, <1>5, <1>8 DEF OwnPaths
    <3> QED
      BY <3>1 DEF NamedInBodies
  <2>2. ~IsPrefix(Dedicated, path)
    <3>1. SubSeq(Dedicated, 1, Len(Dedicated))[2] = "models"
      BY DEF Dedicated
    <3>2. SubSeq(path, 1, Len(Dedicated))[2] = "v1"
      BY <2>1 DEF Dedicated
    <3> QED
      BY <3>1, <3>2, Zenon DEF IsPrefix
  <2>3. Endpoint(path) \in {Named("listing", "", Listing), Named("generic", "", path), NotServed}
    BY <1>8, <2>2, Zenon DEF Endpoint
  <2>4. /\ Named("listing", "", Listing).shape = "listing"
        /\ Named("generic", "", path).shape = "generic"
        /\ NotServed.shape = "none"
    BY DEF Named, NotServed
  <2>5. Endpoint(path).shape \in {"listing", "generic", "none"}
    BY <2>3, <2>4
  <2> QED
    BY <2>5
<1> QED
  BY <1>7, <1>8

-----------------------------------------------------------------------------
(* What is known of a state: the question is one of those asked here, and  *)
(* its answer, once there is one, is what the code answers.                *)
AnsweredAsAsked ==
    Asked("request") => /\ question.input \in RequestsAsked
                        /\ answer \in {<<>>, <<Answer(question.input)>>}

LEMMA AnsweredAsAskedIsInvariant == Spec => []AnsweredAsAsked
<1>1. Init => AnsweredAsAsked
  <2> SUFFICES ASSUME Init, Asked("request")
               PROVE  question.input \in RequestsAsked /\ answer = <<>>
    BY DEF AnsweredAsAsked
  <2>1. \A about, input : question = Ask(about, input) =>
            question.about = about /\ question.input = input
    BY DEF Ask
  <2>2. answer = <<>>
    BY DEF Init
  <2>3. CASE \E request \in RequestsAsked : question = Ask("request", request)
    BY <2>1, <2>2, <2>3
  <2>4. CASE ~\E request \in RequestsAsked : question = Ask("request", request)
    <3>1. \E about \in {"catalog", "estimate", "discovery", "machine", "serve"} :
            \E input : question = Ask(about, input)
      BY <2>4 DEF Init, RequestsAsked, AsksForAnEstimate, Estimated, AsksForDiscovery
    <3>2. question.about \in {"catalog", "estimate", "discovery", "machine", "serve"}
      BY <2>1, <3>1
    <3> QED
      BY <3>2 DEF Asked
  <2> QED
    BY <2>3, <2>4
<1>2. AnsweredAsAsked /\ [Next]_vars => AnsweredAsAsked'
  <2> SUFFICES ASSUME AnsweredAsAsked, [Next]_vars, Asked("request")'
               PROVE  /\ question'.input \in RequestsAsked
                      /\ answer' \in {<<>>, <<Answer(question'.input)>>}
    BY DEF AnsweredAsAsked
  <2>1. question' = question
    BY DEF Next, AnswerRequest, ReadCatalog, EstimateEntry, Discover, Configure,
           StartServing, Given, vars
  <2>2. question.about = "request" /\ AnsweredAsAsked /\ Asked("request")
    BY <2>1 DEF Asked
  <2>3. AnswerRequest \/ answer' = answer
    BY <2>2 DEF Next, ReadCatalog, EstimateEntry, Discover, Configure,
                StartServing, Asked, vars
  <2>4. answer' \in {<<>>, <<Answer(question.input)>>}
    BY <2>2, <2>3 DEF AnsweredAsAsked, AnswerRequest, Given
  <2> QED
    BY <2>1, <2>2, <2>4 DEF AnsweredAsAsked
<1> QED
  BY <1>1, <1>2, PTL DEF Spec
-----------------------------------------------------------------------------
(* What is claimed of the answers.                                         *)

(* A head is read exactly when its blank line comes within the bounds, for *)
(* any bounds (proxy/head/read.rs).                                        *)
THEOREM HeadBounds == Spec => []HeadBoundsHold
<1>1. AnsweredAsAsked => HeadBoundsHold
  <2> SUFFICES ASSUME AnsweredAsAsked, Answered("request")
               PROVE  HeadBoundsHold
    BY DEF HeadBoundsHold
  <2>1. PICK request \in RequestsAsked : request = question.input /\ answer = <<Answer(request)>>
    BY DEF AnsweredAsAsked, Answered
  <2>2. PICK a : a = Answer(request) /\ answer[1] = a
    BY <2>1
  <2>3. IsRequest(request)
    BY AskedAreRequests
  <2> DEFINE sizes == request.sizes
             head == ReadHead(sizes, request.after)
  <2>4. /\ head \in {"read", "HeadTooLarge", "RequestTimeout", "MalformedRequest"}
        /\ head = "HeadTooLarge" <=> TooLarge(sizes)
        /\ head = "RequestTimeout"
             <=> ~TooLarge(sizes) /\ BlankLine(sizes) = 0 /\ request.after = "silence"
        /\ head = "MalformedRequest"
             <=> ~TooLarge(sizes) /\ BlankLine(sizes) = 0 /\ request.after # "silence"
    BY <2>3, HeadIsBounded DEF IsRequest
  <2>5. /\ head # "read" => a.cause = head /\ a.read = FALSE
        /\ head = "read" => CauseOf(a)
    BY <2>2, <2>3, AnswerIsFair
  <2> HIDE DEF head
  <2>6. /\ a.cause = "HeadTooLarge" <=> TooLarge(sizes)
        /\ a.cause = "RequestTimeout" /\ ~a.read
             <=> ~TooLarge(sizes) /\ BlankLine(sizes) = 0 /\ request.after = "silence"
        /\ ~TooLarge(sizes) /\ BlankLine(sizes) = 0 /\ request.after # "silence"
             => a.cause = "MalformedRequest"
    BY <2>4, <2>5 DEF CauseOf
  <2> QED
    BY <2>1, <2>2, <2>6, Zenon DEF HeadBoundsHold, TooLarge, Kept, BlankLine, Bytes
<1> QED
  BY <1>1, AnsweredAsAskedIsInvariant, PTL

(* Whoever holds a body back is told to send it before it is read, and is  *)
(* told in vain only where the child it is for is lost                     *)
(* (answer/connection.rs:107-123, 143-160, relay.rs:51-63).                *)
THEOREM ToldIffRead == Spec => []ToldToSendIsRead
<1>1. AnsweredAsAsked => ToldToSendIsRead
  <2> SUFFICES ASSUME AnsweredAsAsked, Answered("request")
               PROVE  ToldToSendIsRead
    BY DEF ToldToSendIsRead
  <2>1. PICK request \in RequestsAsked : request = question.input /\ answer = <<Answer(request)>>
    BY DEF AnsweredAsAsked, Answered
  <2>2. PICK a : a = Answer(request) /\ answer[1] = a
    BY <2>1
  <2>3. IsRequest(request) /\ ExpectsInFull(request)
    BY AskedAreRequests
  <2>4. PICK so : so = Parsed(request.lines)
    OBVIOUS
  <2>5. ToldOrLost(a, request, so)
    BY <2>2, <2>3, <2>4, AnswerIsFair
  <2>6. PICK n \in Nat : DOMAIN request.lines = 1..n
    BY <2>3 DEF IsRequest
  <2>7. so.expects <=> Has(request.lines, n, "expect", "100-continue")
    BY <2>4, <2>6, ParsedSays DEF SaidBy
  <2>8. Has(request.lines, n, "expect", "100-continue")
          <=> \E line \in Range(request.lines) : line.name = "expect"
    BY <2>3, <2>6 DEF Has, ExpectsInFull, Range
  <2>9. so.expects \in BOOLEAN
    BY <2>4, <2>6, ParsedSays DEF SaidBy, Claims
  <2>10. /\ a.read /\ so.expects => a.told
         /\ a.told => so.expects /\ (a.read \/ ChildIsLost(a, request))
    BY <2>5, <2>9, Zenon DEF ToldWhenRead, ToldOrLost
  <2> QED
    BY <2>1, <2>2, <2>7, <2>8, <2>10, Zenon DEF ToldToSendIsRead, ChildIsLost
<1> QED
  BY <1>1, AnsweredAsAskedIsInvariant, PTL

(* A request asks nothing of a model unless everything it carries may be   *)
(* answered (answer/connection.rs:34-96, parsed.rs:139-143).               *)
THEOREM OnlyAnswerableAsks == Spec => []OnlyWhatCanBeAnsweredAsks
<1>1. AnsweredAsAsked => OnlyWhatCanBeAnsweredAsks
  <2> SUFFICES ASSUME AnsweredAsAsked, Answered("request"), answer[1].asked # ""
               PROVE  OnlyWhatCanBeAnsweredAsks
    BY DEF OnlyWhatCanBeAnsweredAsks
  <2>1. PICK request \in RequestsAsked : request = question.input /\ answer = <<Answer(request)>>
    BY DEF AnsweredAsAsked, Answered
  <2>2. PICK a : a = Answer(request) /\ answer[1] = a
    BY <2>1
  <2>3. IsRequest(request)
    BY AskedAreRequests
  <2>4. PICK so, endpoint : so = Parsed(request.lines) /\ endpoint = Endpoint(request.path)
    OBVIOUS
  <2>5. Asks(a, request, so) /\ Let(request, endpoint) /\ Passed(a, request, so, endpoint)
    BY <2>2, <2>3, <2>4, AnswerIsFair
  <2>6. PICK n \in Nat : DOMAIN request.lines = 1..n
    BY <2>3 DEF IsRequest
  <2>7. SaidBy(so, request.lines, n)
    BY <2>4, <2>6, ParsedSays
  <2> DEFINE said(name) == {line.value : line \in {l \in Range(request.lines) : l.name = name}}
  <2>8. \A name, value :
          value \in said(name) <=> Has(request.lines, n, name, value)
    BY <2>6 DEF Has, Range
  <2>9. /\ request.origins \ {""} = {} \/ said("origin") = {}
             \/ Header(request.lines, "origin") \in request.origins
        /\ request.key = "" \/ Header(request.lines, "authorization") = request.key
        /\ request.method \in {"GET", "POST"}
    <3>1. /\ OriginIsListed(Access(request.key, request.origins), request.lines)
          /\ CarriesTheKey(Access(request.key, request.origins), request.method, request.lines)
          /\ request.method # "OPTIONS" /\ request.method \in Allowed(endpoint)
          /\ endpoint.shape \notin OwnReads
      BY <2>5, Zenon DEF Let, Passed
    <3>2. \/ request.origins \ {""} = {}
          \/ ~\E i \in DOMAIN request.lines : request.lines[i].name = "origin"
          \/ Header(request.lines, "origin") \in request.origins
      BY <3>1 DEF OriginIsListed, Access
    <3>3. said("origin") = {}
            \/ \E i \in DOMAIN request.lines : request.lines[i].name = "origin"
      BY DEF Range
    <3>4. request.key = "" \/ Header(request.lines, "authorization") = request.key
      BY <3>1 DEF CarriesTheKey, Access
    <3>5. request.method \in {"GET", "POST"}
      BY <3>1 DEF Allowed
    <3> HIDE DEF said
    <3> QED
      BY <3>2, <3>3, <3>4, <3>5
  <2>10. /\ "chunked" \notin said("transfer-encoding")
         /\ said("room") \subseteq {"free"}
         /\ a.room = IF said("room") = {} THEN "any" ELSE "free"
         /\ a.asked \in DOMAIN request.view.served
    <3>1. /\ ~so.chunked /\ so.room # "unknown" /\ so \in Claims
          /\ a.room = so.room /\ a.asked \in DOMAIN request.view.served
      BY <2>2, <2>5, <2>7 DEF Asks, Passed, SaidBy
    <3>2. ~Has(request.lines, n, "transfer-encoding", "chunked")
      BY <2>7, <3>1 DEF SaidBy
    <3>3. \A value : value # "free" => ~Has(request.lines, n, "room", value)
      BY <2>7, <3>1 DEF SaidBy, HasOther, Has
    <3>4. /\ so.room \in {"any", "free"}
          /\ so.room = "free" => Has(request.lines, n, "room", "free")
          /\ so.room = "any" => ~Has(request.lines, n, "room", "free")
      BY <2>7, <3>1 DEF SaidBy, Claims
    <3> HIDE DEF said
    <3>5. said("room") \subseteq {"free"}
      BY <2>8, <3>3
    <3>6. "free" \in said("room") <=> so.room = "free"
      BY <2>8, <3>4
    <3> QED
      BY <2>8, <3>1, <3>2, <3>4, <3>5, <3>6
  <2>11. ASSUME request.path \in NamedInBodies
         PROVE  /\ said("content-length") \cap {"none", "some", "most"} # {}
                /\ request.body = a.asked
    <3>1. endpoint.shape # "dedicated"
      BY <2>4, <2>11, NamedInBodyNamesNone
    <3>2. /\ so.length # Malformed /\ so.length # Absent
          /\ ~(so.length > MaxBodyBytes) /\ request.body = a.asked
      BY <2>2, <2>5, <3>1 DEF Passed, NamesIt
    <3>3. PICK j \in 1..n : /\ request.lines[j].name = "content-length"
                            /\ so.length = Length(request.lines[j].value)
      BY <2>7, <3>2 DEF SaidBy
    <3>4. PICK value : value = request.lines[j].value
      OBVIOUS
    <3>5. value \in said("content-length")
      BY <2>6, <3>3, <3>4 DEF Range
    <3>6. value \in {"none", "some", "most"}
      <4>1. value \in DOMAIN Counts /\ so.length = Counts[value]
        BY <3>2, <3>3, <3>4 DEF Length
      <4>2. value \in {"none", "some", "most", "more"}
        BY <4>1 DEF Counts
      <4>3. Counts["more"] = MaxBodyBytes + 1 /\ MaxBodyBytes + 1 > MaxBodyBytes
        <5>1. Counts["more"] = MaxBodyBytes + 1
          BY DEF Counts
        <5>2. MaxBodyBytes + 1 > MaxBodyBytes
          BY ONLY BoundsAssumption DEF BoundsAssumption
        <5> QED
          BY <5>1, <5>2
      <4>4. value # "more"
        BY <3>2, <4>1, <4>3
      <4> QED
        BY <4>2, <4>4
    <3> HIDE DEF said
    <3> QED
      BY <3>2, <3>5, <3>6
  <2>12. a.asked # ""
    BY <2>2
  <2> QED
    BY <2>1, <2>2, <2>9, <2>10, <2>11, Zenon DEF OnlyWhatCanBeAnsweredAsks
<1> QED
  BY <1>1, AnsweredAsAskedIsInvariant, PTL

-----------------------------------------------------------------------------
(* Figures added up, pieces kept, and addresses waited for. *)

(* The fold of some numbers, as the equation it satisfies.               *)
AddingAll(g, s) ==
    g = [t \in SUBSET DOMAIN s |->
            IF t = {} THEN 0 ELSE g[t \ {Max(t)}] + s[Max(t)]]

LEMMA SumIsChosen ==
    ASSUME NEW s
    PROVE  Sum(s) = (CHOOSE g : AddingAll(g, s))[DOMAIN s]
BY Zenon DEF Sum, FoldLeft, MapThenFoldSet, AddingAll

LEMMA NumbersAreAdded ==
    ASSUME NEW n \in Nat, NEW s, DOMAIN s = 1..n, \A i \in 1..n : s[i] \in Nat
    PROVE  \E r : /\ r[0] = 0
                  /\ \A i \in 1..n : r[i] = r[i - 1] + s[i]
                  /\ Sum(s) = r[n]
<1> DEFINE Sets == SUBSET (1..n)
<1>1. \E g : AddingAll(g, s)
  <2> DEFINE Step == [iv \in (1..n) \X Int |-> iv[2] + s[iv[1]]]
  <2>1. Step \in [(1..n) \X Int -> Int]
    OBVIOUS
  <2>2. 0 \in Int
    OBVIOUS
  <2>3. PICK g \in [Sets -> Int] : Folding(g, 0, Step, n)
    <3> HIDE DEF Step
    <3> QED
      BY <2>1, <2>2, FoldingExists
  <2>4. ASSUME NEW t \in Sets, t # {}
        PROVE  Step[Max(t), g[t \ {Max(t)}]] = g[t \ {Max(t)}] + s[Max(t)]
    <3>1. Max(t) \in 1..n
      BY <2>4, LargestIndex
    <3>2. g[t \ {Max(t)}] \in Int
      BY <2>3
    <3>3. <<Max(t), g[t \ {Max(t)}]>> \in (1..n) \X Int
      BY <3>1, <3>2
    <3> QED
      BY <3>3
  <2> HIDE DEF Step
  <2>5. \A t \in Sets : (IF t = {} THEN 0 ELSE Step[Max(t), g[t \ {Max(t)}]])
                        = IF t = {} THEN 0 ELSE g[t \ {Max(t)}] + s[Max(t)]
    BY <2>4, Zenon
  <2>6. AddingAll(g, s)
    BY <2>3, <2>5, Zenon DEF Folding, AddingAll
  <2> QED
    BY <2>6
<1>2. PICK g : AddingAll(g, s) /\ Sum(s) = g[1..n]
  BY <1>1, SumIsChosen, Zenon
<1>3. g[1..0] = 0
  <2>1. 1..0 = {} /\ {} \in Sets
    OBVIOUS
  <2>2. g[{}] = 0
    BY <1>2, <2>1 DEF AddingAll
  <2> QED
    BY <2>1, <2>2
<1>4. ASSUME NEW i \in 1..n
      PROVE  g[1..i] = g[1..(i - 1)] + s[i]
  <2>1. g[1..i] = g[(1..i) \ {Max(1..i)}] + s[Max(1..i)]
    BY <1>2, WholeRanges, Zenon DEF AddingAll
  <2> QED
    BY <2>1, WholeRanges
<1> DEFINE r == [i \in 0..n |-> g[1..i]]
<1>5. r[0] = 0 /\ r[n] = g[1..n]
  <2>1. 0 \in 0..n /\ n \in 0..n
    OBVIOUS
  <2> QED
    BY <1>3, <2>1, Zenon
<1>6. \A i \in 1..n : r[i] = r[i - 1] + s[i]
  <2> TAKE i \in 1..n
  <2>1. i \in 0..n /\ i - 1 \in 0..n
    OBVIOUS
  <2> QED
    BY <1>4, <2>1
<1> QED
  BY <1>2, <1>5, <1>6

(* The fold of some pieces, as the equation it satisfies.                *)
KeepingAll(g, s) ==
    g = [t \in SUBSET DOMAIN s |->
            IF t = {} THEN <<>> ELSE Keeping(g[t \ {Max(t)}], s[Max(t)])]

LEMMA KeptIsChosen ==
    ASSUME NEW s
    PROVE  FoldLeft(Keeping, <<>>, s) = (CHOOSE g : KeepingAll(g, s))[DOMAIN s]
BY Zenon DEF FoldLeft, MapThenFoldSet, KeepingAll

LEMMA PiecesAreKept ==
    ASSUME NEW n \in Nat, NEW s, DOMAIN s = 1..n, NEW S, \A i \in 1..n : s[i] \in S
    PROVE  \E r : /\ r[0] = <<>>
                  /\ \A i \in 1..n : r[i] = Keeping(r[i - 1], s[i])
                  /\ FoldLeft(Keeping, <<>>, s) = r[n]
<1> DEFINE Sets == SUBSET (1..n)
<1>1. \E g : KeepingAll(g, s)
  <2> DEFINE Step == [iv \in (1..n) \X Seq(S) |-> Keeping(iv[2], s[iv[1]])]
  <2>1. Step \in [(1..n) \X Seq(S) -> Seq(S)]
    BY DEF Keeping
  <2>2. <<>> \in Seq(S)
    OBVIOUS
  <2>3. PICK g \in [Sets -> Seq(S)] : Folding(g, <<>>, Step, n)
    <3> HIDE DEF Step
    <3> QED
      BY <2>1, <2>2, FoldingExists
  <2>4. ASSUME NEW t \in Sets, t # {}
        PROVE  Step[Max(t), g[t \ {Max(t)}]] = Keeping(g[t \ {Max(t)}], s[Max(t)])
    <3>1. Max(t) \in 1..n
      BY <2>4, LargestIndex
    <3>2. g[t \ {Max(t)}] \in Seq(S)
      BY <2>3
    <3>3. <<Max(t), g[t \ {Max(t)}]>> \in (1..n) \X Seq(S)
      BY <3>1, <3>2
    <3> QED
      BY <3>3
  <2> HIDE DEF Step
  <2>5. \A t \in Sets : (IF t = {} THEN <<>> ELSE Step[Max(t), g[t \ {Max(t)}]])
                        = IF t = {} THEN <<>> ELSE Keeping(g[t \ {Max(t)}], s[Max(t)])
    BY <2>4, Zenon
  <2>6. KeepingAll(g, s)
    BY <2>3, <2>5, Zenon DEF Folding, KeepingAll
  <2> QED
    BY <2>6
<1>2. PICK g : KeepingAll(g, s) /\ FoldLeft(Keeping, <<>>, s) = g[1..n]
  BY <1>1, KeptIsChosen, Zenon
<1>3. g[1..0] = <<>>
  <2>1. 1..0 = {} /\ {} \in Sets
    OBVIOUS
  <2>2. g[{}] = <<>>
    BY <1>2, <2>1 DEF KeepingAll
  <2> QED
    BY <2>1, <2>2
<1>4. ASSUME NEW i \in 1..n
      PROVE  g[1..i] = Keeping(g[1..(i - 1)], s[i])
  <2>1. g[1..i] = Keeping(g[(1..i) \ {Max(1..i)}], s[Max(1..i)])
    BY <1>2, WholeRanges, Zenon DEF KeepingAll
  <2> QED
    BY <2>1, WholeRanges
<1> DEFINE r == [i \in 0..n |-> g[1..i]]
<1>5. r[0] = <<>> /\ r[n] = g[1..n]
  <2>1. 0 \in 0..n /\ n \in 0..n
    OBVIOUS
  <2> QED
    BY <1>3, <2>1, Zenon
<1>6. \A i \in 1..n : r[i] = Keeping(r[i - 1], s[i])
  <2> TAKE i \in 1..n
  <2>1. i \in 0..n /\ i - 1 \in 0..n
    OBVIOUS
  <2> QED
    BY <1>4, <2>1
<1> QED
  BY <1>2, <1>5, <1>6

(* The fold of the waits, as the equation it satisfies.                  *)
AwaitingAll(g, s) ==
    g = [t \in SUBSET DOMAIN s |->
            IF t = {} THEN 0 ELSE Awaited(g[t \ {Max(t)}], s[Max(t)])]

LEMMA AwaitIsChosen ==
    ASSUME NEW s
    PROVE  AwaitAssigned(s) = (CHOOSE g : AwaitingAll(g, s))[DOMAIN s]
BY Zenon DEF AwaitAssigned, FoldLeft, MapThenFoldSet, AwaitingAll

LEMMA AddressesAreAwaited ==
    ASSUME NEW n \in Nat, NEW s, DOMAIN s = 1..n, \A i \in 1..n : s[i].assigned \in Int
    PROVE  \E r : /\ r[0] = 0
                  /\ \A i \in 1..n : r[i] = Awaited(r[i - 1], s[i])
                  /\ AwaitAssigned(s) = r[n]
<1> DEFINE Sets == SUBSET (1..n)
<1>1. \E g : AwaitingAll(g, s)
  <2> DEFINE Step == [iv \in (1..n) \X Int |-> Awaited(iv[2], s[iv[1]])]
  <2>1. Step \in [(1..n) \X Int -> Int]
    BY StartupAssumption DEF Awaited, Greater, AtMost
  <2>2. 0 \in Int
    OBVIOUS
  <2>3. PICK g \in [Sets -> Int] : Folding(g, 0, Step, n)
    <3> HIDE DEF Step
    <3> QED
      BY <2>1, <2>2, FoldingExists
  <2>4. ASSUME NEW t \in Sets, t # {}
        PROVE  Step[Max(t), g[t \ {Max(t)}]] = Awaited(g[t \ {Max(t)}], s[Max(t)])
    <3>1. Max(t) \in 1..n
      BY <2>4, LargestIndex
    <3>2. g[t \ {Max(t)}] \in Int
      BY <2>3
    <3>3. <<Max(t), g[t \ {Max(t)}]>> \in (1..n) \X Int
      BY <3>1, <3>2
    <3> QED
      BY <3>3
  <2> HIDE DEF Step
  <2>5. \A t \in Sets : (IF t = {} THEN 0 ELSE Step[Max(t), g[t \ {Max(t)}]])
                        = IF t = {} THEN 0 ELSE Awaited(g[t \ {Max(t)}], s[Max(t)])
    BY <2>4, Zenon
  <2>6. AwaitingAll(g, s)
    BY <2>3, <2>5, Zenon DEF Folding, AwaitingAll
  <2> QED
    BY <2>6
<1>2. PICK g : AwaitingAll(g, s) /\ AwaitAssigned(s) = g[1..n]
  BY <1>1, AwaitIsChosen, Zenon
<1>3. g[1..0] = 0
  <2>1. 1..0 = {} /\ {} \in Sets
    OBVIOUS
  <2>2. g[{}] = 0
    BY <1>2, <2>1 DEF AwaitingAll
  <2> QED
    BY <2>1, <2>2
<1>4. ASSUME NEW i \in 1..n
      PROVE  g[1..i] = Awaited(g[1..(i - 1)], s[i])
  <2>1. g[1..i] = Awaited(g[(1..i) \ {Max(1..i)}], s[Max(1..i)])
    BY <1>2, WholeRanges, Zenon DEF AwaitingAll
  <2> QED
    BY <2>1, WholeRanges
<1> DEFINE r == [i \in 0..n |-> g[1..i]]
<1>5. r[0] = 0 /\ r[n] = g[1..n]
  <2>1. 0 \in 0..n /\ n \in 0..n
    OBVIOUS
  <2> QED
    BY <1>3, <2>1, Zenon
<1>6. \A i \in 1..n : r[i] = Awaited(r[i - 1], s[i])
  <2> TAKE i \in 1..n
  <2>1. i \in 0..n /\ i - 1 \in 0..n
    OBVIOUS
  <2> QED
    BY <1>4, <2>1
<1> QED
  BY <1>2, <1>5, <1>6

(* A sum of naturals is no less than any of them.                          *)
LEMMA SumIsNoLess ==
    ASSUME NEW n \in Nat, NEW s, DOMAIN s = 1..n, \A i \in 1..n : s[i] \in Nat
    PROVE  Sum(s) \in Nat /\ \A i \in 1..n : s[i] <= Sum(s)
<1>1. PICK r : /\ r[0] = 0
               /\ \A i \in 1..n : r[i] = r[i - 1] + s[i]
               /\ Sum(s) = r[n]
  BY NumbersAreAdded
<1> DEFINE Good == {i \in 0..n : r[i] \in Nat /\ \A j \in 1..i : s[j] <= r[i]}
<1>2. 0 \in Good
  BY <1>1
<1>3. ASSUME NEW i \in 1..n, i - 1 \in Good
      PROVE  i \in Good
  <2>1. r[i] = r[i - 1] + s[i] /\ r[i - 1] \in Nat /\ s[i] \in Nat
    BY <1>1, <1>3
  <2>2. ASSUME NEW j \in 1..i
        PROVE  s[j] <= r[i]
    <3>1. CASE j = i
      BY <2>1, <3>1
    <3>2. CASE j # i
      <4>1. s[j] <= r[i - 1] /\ s[j] \in Nat
        BY <1>3, <3>2
      <4> QED
        BY <2>1, <4>1
    <3> QED
      BY <3>1, <3>2
  <2> QED
    BY <2>1, <2>2
<1>4. n \in Good
  <2> HIDE DEF Good
  <2>1. \A i \in 0..n : i \in Good
    BY <1>2, <1>3, IndexInduction
  <2> QED
    BY <2>1
<1> QED
  BY <1>1, <1>4

(* What is kept of some pieces: those that are not blank, and none twice   *)
(* that was not there twice.  A port that is left open may be.             *)
Apart(p, K) == \A k, l \in K : p[k] = p[l] => k = l \/ p[k].port = AnyPort
AnotherOf(p, k, a) == p[k] = a => a.port = AnyPort
Filled(s, i) == {j \in 1..i : s[j].is # "blank"}
KeptFrom(p, s, i) ==
    /\ \A k \in DOMAIN p : \E j \in Filled(s, i) : p[k] = s[j]
    /\ \A j \in Filled(s, i) : \E k \in DOMAIN p : p[k] = s[j]
    /\ Apart(p, DOMAIN p) <=> Apart(s, Filled(s, i))

LEMMA OneMoreApart ==
    ASSUME NEW p, NEW q, NEW K, NEW x, x \notin K, \A k \in K : q[k] = p[k]
    PROVE  Apart(q, K \cup {x}) <=> Apart(p, K) /\ \A k \in K : AnotherOf(p, k, q[x])
<1>1. ASSUME Apart(q, K \cup {x})
      PROVE  Apart(p, K) /\ \A k \in K : AnotherOf(p, k, q[x])
  <2>1. ASSUME NEW k \in K, NEW l \in K, p[k] = p[l]
        PROVE  k = l \/ p[k].port = AnyPort
    <3>1. q[k] = q[l] /\ q[k] = p[k]
      BY <2>1
    <3> QED
      BY <1>1, <3>1, Zenon DEF Apart
  <2>2. ASSUME NEW k \in K, p[k] = q[x]
        PROVE  q[x].port = AnyPort
    <3>1. q[k] = q[x] /\ k # x
      BY <2>2
    <3> QED
      BY <1>1, <3>1 DEF Apart
  <2> QED
    BY <2>1, <2>2 DEF Apart, AnotherOf
<1>2. ASSUME Apart(p, K), \A k \in K : AnotherOf(p, k, q[x]),
             NEW k \in K \cup {x}, NEW l \in K \cup {x}, q[k] = q[l]
      PROVE  k = l \/ q[k].port = AnyPort
  <2>1. CASE k \in K /\ l \in K
    <3>1. p[k] = p[l] /\ p[k] = q[k]
      BY <1>2, <2>1
    <3> QED
      BY <1>2, <2>1, <3>1, Zenon DEF Apart
  <2>2. CASE k = x \/ l = x
    <3>1. q[k] = q[x] /\ q[l] = q[x]
      BY <1>2, <2>2
    <3>2. CASE k \in K \/ l \in K
      <4>1. q[x].port = AnyPort
        BY <1>2, <3>1, <3>2 DEF AnotherOf
      <4> QED
        BY <3>1, <4>1
    <3> QED
      BY <2>2, <3>2
  <2> QED
    BY <2>1, <2>2
<1> QED
  BY <1>1, <1>2 DEF Apart

LEMMA OneMorePiece ==
    ASSUME NEW S, NEW n \in Nat, NEW s, NEW i \in 1..n, s[i] \in S,
           NEW p \in Seq(S), KeptFrom(p, s, i - 1)
    PROVE  Keeping(p, s[i]) \in Seq(S) /\ KeptFrom(Keeping(p, s[i]), s, i)
<1>1. CASE s[i].is = "blank"
  <2>1. Filled(s, i) = Filled(s, i - 1)
    BY <1>1 DEF Filled
  <2>2. Keeping(p, s[i]) = p
    BY <1>1 DEF Keeping
  <2> QED
    BY <2>1, <2>2 DEF KeptFrom
<1>2. CASE s[i].is # "blank"
  <2>1. Filled(s, i) = Filled(s, i - 1) \cup {i} /\ i \notin Filled(s, i - 1)
    BY <1>2 DEF Filled
  <2>2. PICK q : q = Keeping(p, s[i])
    OBVIOUS
  <2>3. PICK m \in Nat : m = Len(p) /\ DOMAIN p = 1..m
    OBVIOUS
  <2>4. q = Append(p, s[i])
    BY <1>2, <2>2 DEF Keeping
  <2>5. /\ q \in Seq(S) /\ DOMAIN q = 1..(m + 1)
        /\ q[m + 1] = s[i] /\ \A k \in 1..m : q[k] = p[k]
    BY <2>3, <2>4
  <2>6. PICK D : D = DOMAIN p /\ DOMAIN q = D \cup {m + 1} /\ m + 1 \notin D
    BY <2>3, <2>5
  <2>7. \A k \in D : q[k] = p[k]
    BY <2>3, <2>5, <2>6
  <2>8. PICK G : G = Filled(s, i - 1) /\ Filled(s, i) = G \cup {i} /\ i \notin G
    BY <2>1
  <2>9. /\ \A k \in D : \E j \in G : p[k] = s[j]
        /\ \A j \in G : \E k \in D : p[k] = s[j]
        /\ Apart(p, D) <=> Apart(s, G)
    BY <2>6, <2>8 DEF KeptFrom
  <2>10. Apart(q, D \cup {m + 1}) <=> Apart(p, D) /\ \A k \in D : AnotherOf(p, k, s[i])
    <3>1. Apart(q, D \cup {m + 1})
            <=> Apart(p, D) /\ \A k \in D : AnotherOf(p, k, q[m + 1])
      BY ONLY <2>6, <2>7, OneMoreApart
    <3> QED
      BY <2>5, <3>1, Zenon
  <2>11. Apart(s, G \cup {i}) <=> Apart(s, G) /\ \A j \in G : AnotherOf(s, j, s[i])
    BY <2>8, OneMoreApart
  <2>12. (\A k \in D : AnotherOf(p, k, s[i])) <=> \A j \in G : AnotherOf(s, j, s[i])
    BY <2>9, Zenon DEF AnotherOf
  <2>13. Apart(q, DOMAIN q) <=> Apart(s, Filled(s, i))
    <3>1. Apart(q, DOMAIN q) <=> Apart(p, D) /\ \A k \in D : AnotherOf(p, k, s[i])
      BY <2>6, <2>10, Zenon
    <3>2. Apart(s, Filled(s, i)) <=> Apart(s, G) /\ \A j \in G : AnotherOf(s, j, s[i])
      BY <2>8, <2>11, Zenon
    <3>3. Apart(p, D) <=> Apart(s, G)
      BY <2>9, Zenon
    <3> QED
      BY <2>12, <3>1, <3>2, <3>3, Zenon
  <2>14. \A k \in DOMAIN q : \E j \in Filled(s, i) : q[k] = s[j]
    <3>1. \A k \in D : \E j \in G : q[k] = s[j]
      BY <2>7, <2>9
    <3> QED
      BY <2>5, <2>6, <2>8, <3>1
  <2>15. \A j \in Filled(s, i) : \E k \in DOMAIN q : q[k] = s[j]
    <3>1. \A j \in G : \E k \in D : q[k] = s[j]
      BY <2>7, <2>9
    <3>2. m + 1 \in DOMAIN q /\ q[m + 1] = s[i]
      BY <2>5, <2>6
    <3> QED
      BY <2>6, <2>8, <3>1, <3>2, Zenon
  <2> QED
    BY <2>2, <2>5, <2>13, <2>14, <2>15 DEF KeptFrom
<1> QED
  BY <1>1, <1>2

LEMMA PiecesKept ==
    ASSUME NEW n \in Nat, NEW s, DOMAIN s = 1..n, NEW S, \A i \in 1..n : s[i] \in S
    PROVE  /\ FoldLeft(Keeping, <<>>, s) \in Seq(S)
           /\ KeptFrom(FoldLeft(Keeping, <<>>, s), s, n)
<1>1. PICK r : /\ r[0] = <<>>
               /\ \A i \in 1..n : r[i] = Keeping(r[i - 1], s[i])
               /\ FoldLeft(Keeping, <<>>, s) = r[n]
  BY PiecesAreKept
<1> DEFINE Good == {i \in 0..n : r[i] \in Seq(S) /\ KeptFrom(r[i], s, i)}
<1>2. 0 \in Good
  <2>1. r[0] = <<>> /\ DOMAIN <<>> = {} /\ Filled(s, 0) = {} /\ <<>> \in Seq(S)
    BY <1>1 DEF Filled
  <2>2. KeptFrom(<<>>, s, 0)
    BY <2>1, Zenon DEF KeptFrom, Apart
  <2>3. r[0] \in Seq(S) /\ KeptFrom(r[0], s, 0) /\ 0 \in 0..n
    BY <2>1, <2>2
  <2> QED
    BY <2>3
<1>3. ASSUME NEW i \in 1..n, i - 1 \in Good
      PROVE  i \in Good
  <2>1. s[i] \in S /\ r[i - 1] \in Seq(S) /\ KeptFrom(r[i - 1], s, i - 1)
    BY <1>3
  <2>2. r[i] = Keeping(r[i - 1], s[i])
    BY <1>1
  <2>3. r[i] \in Seq(S) /\ KeptFrom(r[i], s, i)
    BY <2>1, <2>2, OneMorePiece
  <2> QED
    BY <2>3
<1>4. n \in Good
  <2> HIDE DEF Good
  <2>1. \A i \in 0..n : i \in Good
    BY <1>2, <1>3, IndexInduction
  <2> QED
    BY <2>1
<1> QED
  BY <1>1, <1>4

(* The wait ends in time, and ends late enough for whatever came in time.  *)
LEMMA WaitIsLongEnough ==
    ASSUME NEW n \in Nat, NEW s, DOMAIN s = 1..n,
           \A i \in 1..n : s[i].assigned \in Int
    PROVE  /\ AwaitAssigned(s) \in Int
           /\ \A i \in 1..n : ~s[i].taken =>
                (s[i].assigned <= AwaitAssigned(s) <=> s[i].assigned <= AssignedWithin)
<1>1. PICK r : /\ r[0] = 0
               /\ \A i \in 1..n : r[i] = Awaited(r[i - 1], s[i])
               /\ AwaitAssigned(s) = r[n]
  BY AddressesAreAwaited
<1> DEFINE Good == {i \in 0..n : /\ r[i] \in Int /\ r[i] <= AssignedWithin
                                 /\ \A j \in 1..i : ~s[j].taken =>
                                      AtMost(s[j].assigned, AssignedWithin) <= r[i]}
<1>2. 0 \in Good
  BY <1>1, StartupAssumption
<1>3. ASSUME NEW i \in 1..n, i - 1 \in Good
      PROVE  i \in Good
  <2>1. PICK was, is : was = r[i - 1] /\ is = r[i]
    OBVIOUS
  <2>2. is = Awaited(was, s[i])
    BY <1>1, <2>1
  <2>3. /\ was \in Int /\ was <= AssignedWithin
        /\ \A j \in 1..(i - 1) : ~s[j].taken =>
             AtMost(s[j].assigned, AssignedWithin) <= was
    BY <1>3, <2>1
  <2>4. /\ is \in Int /\ is <= AssignedWithin /\ was <= is
        /\ ~s[i].taken => AtMost(s[i].assigned, AssignedWithin) <= is
    BY <2>2, <2>3, StartupAssumption DEF Awaited, Greater, AtMost
  <2>5. ASSUME NEW j \in 1..i, ~s[j].taken
        PROVE  AtMost(s[j].assigned, AssignedWithin) <= is
    <3>1. CASE j = i
      BY <2>4, <2>5, <3>1
    <3>2. CASE j # i
      <4>1. AtMost(s[j].assigned, AssignedWithin) <= was
        BY <2>3, <2>5, <3>2
      <4>2. AtMost(s[j].assigned, AssignedWithin) \in Int
        BY StartupAssumption DEF AtMost
      <4> QED
        BY <2>3, <2>4, <4>1, <4>2
    <3> QED
      BY <3>1, <3>2
  <2> QED
    BY <2>1, <2>4, <2>5
<1>4. n \in Good
  <2> HIDE DEF Good
  <2>1. \A i \in 0..n : i \in Good
    BY <1>2, <1>3, IndexInduction
  <2> QED
    BY <2>1
<1>5. ASSUME NEW i \in 1..n, ~s[i].taken
      PROVE  s[i].assigned <= AwaitAssigned(s) <=> s[i].assigned <= AssignedWithin
  <2>1. PICK now : now = AwaitAssigned(s)
    OBVIOUS
  <2>2. now \in Int /\ now <= AssignedWithin /\ AtMost(s[i].assigned, AssignedWithin) <= now
    BY <1>1, <1>4, <1>5, <2>1
  <2> QED
    BY <2>1, <2>2, StartupAssumption DEF AtMost
<1> QED
  BY <1>1, <1>4, <1>5

-----------------------------------------------------------------------------
(* What serve says. *)

LEMMA LeastIndex ==
    ASSUME NEW n \in Nat, NEW Ns \in SUBSET (1..n), Ns # {}
    PROVE  Min(Ns) \in Ns /\ \A m \in Ns : Min(Ns) <= m
<1>1. PICK k \in Ns : \A m \in Ns : k <= m
  BY LeastNatural
<1> QED
  BY <1>1 DEF Min

(* A setting is a fault when it was mistyped, a budget when it is too much *)
(* as well.                                                                *)
LEMMA FaultsOfSettings ==
    ASSUME NEW variable \in Variables
    PROVE  /\ \A machine : Budget(variable, machine).fault
                             <=> ~(Understood(variable) /\ variable.of <= MaxLimit)
           /\ Window(variable).fault <=> ~Understood(variable)
           /\ Wait(variable).fault <=> ~Understood(variable)
<1>1. /\ variable.is \in {"unset", "empty", "number", "words"} /\ variable.of \in Nat
      /\ variable.is # "number" => variable.of <= MaxLimit
      /\ MaxLimit \in Nat
  <2>1. MaxLimit \in Nat
    BY MachineAssumption
  <2> QED
    BY <2>1 DEF Variables
<1>2. \A unset : Variable(variable, unset).fault <=> ~Understood(variable)
  BY <1>1 DEF Variable, Understood, IsUnset, Fault, Set
<1>3. \A unset : Variable(variable, unset) \in [fault : BOOLEAN, value : {{}, unset, {variable.of}}]
  BY <1>1 DEF Variable, IsUnset, Fault, Set
<1>4. ASSUME NEW machine
      PROVE  Budget(variable, machine).fault
               <=> ~(Understood(variable) /\ variable.of <= MaxLimit)
  <2>1. CASE variable.is = "number" /\ variable.of > MaxLimit
    BY <1>1, <2>1 DEF Budget, Fault
  <2>2. CASE ~(variable.is = "number" /\ variable.of > MaxLimit)
    <3>1. PICK unset : Budget(variable, machine) = Variable(variable, unset)
      BY <2>2 DEF Budget
    <3>2. variable.of <= MaxLimit
      BY <1>1, <2>2
    <3> QED
      BY <1>2, <3>1, <3>2
  <2> QED
    BY <2>1, <2>2
<1>5. Window(variable).fault <=> ~Understood(variable)
  BY <1>2, <1>3 DEF Window
<1>6. Wait(variable).fault <=> ~Understood(variable)
  BY <1>2 DEF Wait
<1> QED
  BY <1>4, <1>5, <1>6

(* The first fault is said, and addresses are bound where there is none.   *)
Faults(setup, addresses) ==
    \/ ~setup.usable \/ Root(setup.root, setup.home).fault \/ setup.located = {}
    \/ addresses.fault \/ Budget(setup.budget, setup.machine).fault
    \/ Window(setup.window).fault \/ Wait(setup.wait).fault

LEMMA FirstFaultIsSaid ==
    ASSUME NEW setup, NEW addresses, addresses = Addresses(setup.operand)
    PROVE  IF Faults(setup, addresses) THEN Serve(setup) # "serving"
           ELSE Serve(setup) = Reserve(First(addresses.value),
                                       AwaitAssigned(First(addresses.value)))
<1> DEFINE words == {"catalog", "root", "binary", "addresses", "budget", "window", "wait"}
<1>1. PICK R : R = <<<<"catalog", ~setup.usable>>,
                     <<"root", Root(setup.root, setup.home).fault>>,
                     <<"binary", setup.located = {}>>,
                     <<"addresses", addresses.fault>>,
                     <<"budget", Budget(setup.budget, setup.machine).fault>>,
                     <<"window", Window(setup.window).fault>>,
                     <<"wait", Wait(setup.wait).fault>>>>
  OBVIOUS
<1> DEFINE wrong == {i \in 1..7 : R[i][2]}
<1>2. Len(R) = 7 /\ \A i \in 1..7 : R[i][1] \in words
  BY <1>1
<1>3. wrong # {} <=> Faults(setup, addresses)
  <2>1. /\ R[1][2] <=> ~setup.usable
        /\ R[2][2] <=> Root(setup.root, setup.home).fault
        /\ R[3][2] <=> setup.located = {}
        /\ R[4][2] <=> addresses.fault
        /\ R[5][2] <=> Budget(setup.budget, setup.machine).fault
        /\ R[6][2] <=> Window(setup.window).fault
        /\ R[7][2] <=> Wait(setup.wait).fault
    BY <1>1, Zenon
  <2>2. wrong # {} <=> R[1][2] \/ R[2][2] \/ R[3][2] \/ R[4][2] \/ R[5][2] \/ R[6][2] \/ R[7][2]
    OBVIOUS
  <2> QED
    BY <2>1, <2>2, Zenon DEF Faults
<1>4. SelectInSeq(R, LAMBDA reading : reading[2]) = IF wrong # {} THEN Min(wrong) ELSE 0
  BY <1>2, Zenon DEF SelectInSeq
<1>5. PICK first : first = SelectInSeq(R, LAMBDA reading : reading[2])
  OBVIOUS
<1>6. Serve(setup) = IF first # 0 THEN R[first][1]
                     ELSE Reserve(First(addresses.value),
                                  AwaitAssigned(First(addresses.value)))
  BY <1>1, <1>5, Zenon DEF Serve
<1>7. CASE wrong # {}
  <2>1. first \in 1..7
    <3>1. wrong \in SUBSET (1..7) /\ 7 \in Nat
      OBVIOUS
    <3> HIDE DEF wrong
    <3> QED
      BY <1>4, <1>5, <1>7, <3>1, LeastIndex
  <2>2. Serve(setup) = R[first][1]
    BY <1>6, <2>1
  <2>3. Serve(setup) \in words
    BY <1>2, <2>1, <2>2
  <2> QED
    BY <1>3, <1>7, <2>3
<1>8. CASE wrong = {}
  <2>1. first = 0
    BY <1>4, <1>5, <1>8
  <2> QED
    BY <1>3, <1>6, <1>8, <2>1
<1> QED
  BY <1>7, <1>8

(* An address as the operand may have one, and one that can be bound.      *)
IsAddress(a) == a.wildcard \in BOOLEAN /\ a.taken \in BOOLEAN /\ a.assigned \in Int
IsFine(a) == ~a.wildcard /\ ~a.taken /\ a.assigned <= AssignedWithin

LEMMA ServesWhenAllAreBound ==
    ASSUME NEW n \in Nat, NEW p, DOMAIN p = 1..n, p = <<>> <=> n = 0,
           \A i \in 1..n : IsAddress(p[i])
    PROVE  Reserve(p, AwaitAssigned(p)) = "serving"
             <=> n # 0 /\ (\A i \in 1..n : IsFine(p[i])) /\ Apart(p, 1..n)
<1>1. PICK now : now = AwaitAssigned(p)
  OBVIOUS
<1> DEFINE failing == {i \in DOMAIN p : p[i].wildcard \/ ~Bindable(p, i, now)}
<1>2. Reserve(p, now) = "serving" <=> n # 0 /\ failing = {}
  <2>1. PICK first : first = CHOOSE i \in failing : \A j \in failing : i <= j
    OBVIOUS
  <2>2. Reserve(p, now) = IF p = <<>> THEN "no address"
                          ELSE IF failing = {} THEN "serving"
                          ELSE IF p[first].wildcard THEN "wildcard" ELSE "cannot bind"
    BY <2>1, Zenon DEF Reserve
  <2> HIDE DEF failing
  <2> QED
    BY <2>2
<1>3. \A i \in 1..n : ~p[i].taken =>
        (p[i].assigned <= now <=> p[i].assigned <= AssignedWithin)
  BY <1>1, WaitIsLongEnough DEF IsAddress
<1>4. failing = {} <=> \A i \in 1..n : ~p[i].wildcard /\ Bindable(p, i, now)
  OBVIOUS
<1>5. \A i \in 1..n : ~p[i].wildcard /\ Bindable(p, i, now)
                        <=> IsFine(p[i]) /\ \A j \in 1..(i - 1) : AnotherOf(p, j, p[i])
  BY <1>3 DEF Bindable, IsFine, AnotherOf
<1>6. (\A i \in 1..n : \A j \in 1..(i - 1) : AnotherOf(p, j, p[i])) <=> Apart(p, 1..n)
  <2>1. ASSUME \A i \in 1..n : \A j \in 1..(i - 1) : AnotherOf(p, j, p[i]),
               NEW k \in 1..n, NEW l \in 1..n, p[k] = p[l]
        PROVE  k = l \/ p[k].port = AnyPort
    <3>1. CASE k < l
      <4>1. k \in 1..(l - 1)
        BY <3>1
      <4>2. p[l].port = AnyPort
        BY <2>1, <4>1 DEF AnotherOf
      <4> QED
        BY <2>1, <4>2
    <3>2. CASE l < k
      <4>1. l \in 1..(k - 1)
        BY <3>2
      <4> QED
        BY <2>1, <4>1 DEF AnotherOf
    <3> QED
      BY <3>1, <3>2
  <2>2. ASSUME Apart(p, 1..n), NEW i \in 1..n, NEW j \in 1..(i - 1), p[j] = p[i]
        PROVE  p[i].port = AnyPort
    <3>1. j \in 1..n /\ j # i
      OBVIOUS
    <3> QED
      BY <2>2, <3>1 DEF Apart
  <2> QED
    BY <2>1, <2>2 DEF Apart, AnotherOf
<1> HIDE DEF failing
<1>7. failing = {} <=> (\A i \in 1..n : IsFine(p[i])) /\ Apart(p, 1..n)
  BY <1>4, <1>5, <1>6, Zenon
<1> QED
  BY <1>1, <1>2, <1>7, ZenonT(30)

(* What is to be bound is what the operand names.                          *)
LEMMA BoundAsNamed ==
    ASSUME NEW n \in Nat, NEW s, DOMAIN s = 1..n, NEW S, \A i \in 1..n : s[i] \in S,
           \A i \in 1..n : s[i].is \in {"blank", "words", "address"},
           \A i \in 1..n : s[i].is = "address" => IsAddress(s[i])
    PROVE  LET addresses == Addresses(s)
               named     == {i \in 1..n : s[i].is = "address"}
           IN  /\ addresses.fault <=> \E i \in 1..n : s[i].is = "words"
               /\ ~addresses.fault =>
                    (Reserve(First(addresses.value), AwaitAssigned(First(addresses.value)))
                       = "serving"
                     <=> named # {} /\ (\A i \in named : IsFine(s[i])) /\ Apart(s, named))
<1>1. PICK p : p = FoldLeft(Keeping, <<>>, s)
  OBVIOUS
<1>2. PICK addresses : addresses = Addresses(s)
  OBVIOUS
<1>3. p \in Seq(S) /\ KeptFrom(p, s, n)
  BY <1>1, PiecesKept
<1>4. PICK m \in Nat : DOMAIN p = 1..m /\ (p = <<>> <=> m = 0)
  <2>1. Len(p) \in Nat /\ DOMAIN p = 1..Len(p) /\ (p = <<>> <=> Len(p) = 0)
    BY <1>3
  <2> QED
    BY <2>1
<1>5. addresses = IF \E k \in DOMAIN p : p[k].is = "words" THEN Fault ELSE Set({p})
  BY <1>1, <1>2, Zenon DEF Addresses
<1> DEFINE named == {i \in 1..n : s[i].is = "address"}
           filled == Filled(s, n)
<1>6. /\ \A k \in 1..m : \E j \in filled : p[k] = s[j]
      /\ \A j \in filled : \E k \in 1..m : p[k] = s[j]
      /\ Apart(p, 1..m) <=> Apart(s, filled)
  <2>1. PICK D : D = DOMAIN p
    OBVIOUS
  <2>2. PICK G : G = filled
    OBVIOUS
  <2>3. /\ \A k \in D : \E j \in G : p[k] = s[j]
        /\ \A j \in G : \E k \in D : p[k] = s[j]
        /\ Apart(p, D) <=> Apart(s, G)
    BY <1>3, <2>1, <2>2, ZenonT(30) DEF KeptFrom
  <2>4. D = 1..m
    BY <1>4, <2>1, Zenon
  <2> QED
    BY <2>2, <2>3, <2>4, Zenon
<1>7. filled = {i \in 1..n : s[i].is # "blank"}
  BY DEF Filled
<1> HIDE DEF filled
<1>8. (\E k \in DOMAIN p : p[k].is = "words") <=> \E i \in 1..n : s[i].is = "words"
  <2>1. (\E k \in DOMAIN p : p[k].is = "words") <=> \E i \in filled : s[i].is = "words"
    BY <1>4, <1>6, Zenon
  <2> QED
    BY <1>7, <2>1
<1>9. addresses.fault <=> \E i \in 1..n : s[i].is = "words"
  BY <1>5, <1>8 DEF Fault, Set
<1>10. ASSUME ~addresses.fault
       PROVE  Reserve(First(addresses.value), AwaitAssigned(First(addresses.value)))
                = "serving"
              <=> named # {} /\ (\A i \in named : IsFine(s[i])) /\ Apart(s, named)
  <2>1. addresses.value = {p}
    BY <1>5, <1>8, <1>9, <1>10 DEF Set
  <2>2. First(addresses.value) = p
    BY <2>1 DEF First
  <2>3. filled = named
    BY <1>7, <1>9, <1>10
  <2>4. \A j \in filled : IsAddress(s[j])
    BY <2>3
  <2>5. \A k \in 1..m : IsAddress(p[k])
    BY <1>6, <2>4, Zenon
  <2>6. Reserve(p, AwaitAssigned(p)) = "serving"
          <=> m # 0 /\ (\A k \in 1..m : IsFine(p[k])) /\ Apart(p, 1..m)
    BY <1>4, <2>5, ServesWhenAllAreBound
  <2>7. m # 0 <=> filled # {}
    <3>1. m # 0 <=> \E k \in 1..m : TRUE
      OBVIOUS
    <3> QED
      BY <1>6, <3>1
  <2>8. (\A k \in 1..m : IsFine(p[k])) <=> \A i \in filled : IsFine(s[i])
    BY <1>6, Zenon
  <2> HIDE DEF named
  <2> QED
    BY <1>6, <2>2, <2>3, <2>6, <2>7, <2>8, Zenon
<1> QED
  BY <1>2, <1>9, <1>10

(* What a router is told, as the code has it once it is parsed.            *)
IsOperand(pieces, n) ==
    /\ DOMAIN pieces = 1..n
    /\ \A i \in 1..n : /\ pieces[i].is \in {"blank", "words", "address"}
                       /\ pieces[i].is = "address" => IsAddress(pieces[i])

LEMMA PiecesAreOperands ==
    ASSUME NEW k \in Nat, NEW pieces \in UpTo(Pieces, k)
    PROVE  \E n \in Nat : IsOperand(pieces, n)
<1>1. PICK n \in 0..k : pieces \in [1..n -> Pieces]
  BY DEF UpTo
<1>2. \A piece \in Pieces : /\ piece.is \in {"blank", "words", "address"}
                            /\ piece.is = "address" => IsAddress(piece)
  <2>1. ASSUME NEW name, NEW port, NEW wildcard \in BOOLEAN, NEW taken \in BOOLEAN,
               NEW assigned \in Int, NEW piece,
               piece = Address(name, port, wildcard, taken, assigned)
        PROVE  piece.is = "address" /\ IsAddress(piece)
    BY <2>1 DEF Address, IsAddress
  <2>2. AssignedWithin - 1 \in Int /\ AssignedWithin + 1 \in Int /\ 0 \in Int
    BY StartupAssumption
  <2> TAKE piece \in Pieces
  <2>3. CASE piece \in {[is |-> "blank"], [is |-> "words"]}
    BY <2>3
  <2>4. CASE piece \notin {[is |-> "blank"], [is |-> "words"]}
    <3>1. \/ \E port : piece = Address("loopback", port, FALSE, FALSE, 0)
          \/ piece = Address("bridge", 80, FALSE, FALSE, AssignedWithin - 1)
          \/ piece = Address("later", AnyPort, FALSE, FALSE, AssignedWithin + 1)
          \/ piece = Address("other", 80, FALSE, TRUE, 0)
          \/ piece = Address("any", 80, TRUE, FALSE, 0)
      BY <2>4, Zenon DEF Pieces, Loopback
    <3>2. piece.is = "address" /\ IsAddress(piece)
      <4>1. TRUE \in BOOLEAN /\ FALSE \in BOOLEAN
        OBVIOUS
      <4> QED
        BY <2>1, <2>2, <3>1, <4>1, Zenon
    <3> QED
      BY <3>2
  <2> QED
    BY <2>3, <2>4
<1>3. \A i \in 1..n : pieces[i] \in Pieces
  BY <1>1
<1> QED
  BY <1>1, <1>2, <1>3 DEF IsOperand

LEMMA UpToGrows ==
    ASSUME NEW k \in Nat, NEW R, NEW S, R \subseteq S
    PROVE  UpTo(R, k) \subseteq UpTo(S, k)
<1> SUFFICES ASSUME NEW s \in UpTo(R, k)
             PROVE  s \in UpTo(S, k)
  OBVIOUS
<1>1. PICK n \in 0..k : s \in [1..n -> R]
  BY DEF UpTo
<1>2. s \in [1..n -> S]
  BY <1>1
<1> QED
  BY <1>2 DEF UpTo

IsSetup(setup) ==
    /\ setup.usable \in BOOLEAN
    /\ setup.root.is \in {"unset", "words"}
    /\ setup.budget \in Variables /\ setup.window \in Variables /\ setup.wait \in Variables
    /\ \E n \in Nat : IsOperand(setup.operand, n)

LEMMA SetupsAreOnes ==
    ASSUME NEW setup \in Setups
    PROVE  IsSetup(setup)
<1>1. [is |-> "unset", of |-> 0] \in Variables /\ [is |-> "empty", of |-> 0] \in Variables
      /\ [is |-> "number", of |-> 0] \in Variables
  BY DEF Variables
<1>2. PICK known : known = Variables
  OBVIOUS
<1>3. PICK machine : machine = AMachine
  OBVIOUS
<1>4. PICK three, two : /\ three = UpTo(Pieces, 3)
                        /\ two = UpTo(Loopback, 2)
  OBVIOUS
<1>5. /\ setup.usable \in BOOLEAN
      /\ setup.root.is \in {"unset", "words"}
      /\ setup.budget \in known /\ setup.window \in known /\ setup.wait \in known
      /\ setup.operand \in three \/ setup.operand \in two
  <2>1. CASE setup \in
               [usable : BOOLEAN, root : {[is |-> "unset", of |-> 0], [is |-> "words", of |-> 0]},
                home : {{}, {1}}, located : {{}, {1}}, machine : {machine},
                operand : three, budget : {[is |-> "unset", of |-> 0]},
                window : {[is |-> "empty", of |-> 0]}, wait : {[is |-> "number", of |-> 0]}]
    BY <1>1, <1>2, <2>1
  <2>2. CASE setup \in
               [usable : {TRUE}, root : {[is |-> "unset", of |-> 0]}, home : {{1}},
                located : {{}, {1}}, machine : {machine}, operand : two,
                budget : known, window : known, wait : known]
    <3>1. /\ setup.usable \in {TRUE} /\ setup.operand \in two
          /\ setup.root \in {[is |-> "unset", of |-> 0]}
          /\ setup.budget \in known /\ setup.window \in known /\ setup.wait \in known
      BY <2>2
    <3>2. setup.usable \in BOOLEAN /\ setup.root.is = "unset"
      <4>1. setup.root = [is |-> "unset", of |-> 0] /\ setup.usable = TRUE
        BY <3>1
      <4>2. setup.root.is = "unset"
        BY <4>1
      <4>3. setup.usable \in BOOLEAN
        BY <4>1, Zenon
      <4> QED
        BY <4>2, <4>3
    <3> QED
      BY <3>1, <3>2
  <2> QED
    BY <1>2, <1>3, <1>4, <2>1, <2>2, Zenon DEF Setups
<1>6. two \subseteq UpTo(Pieces, 2)
  <2>1. Loopback \subseteq Pieces
    BY Zenon DEF Pieces
  <2> QED
    BY <1>4, <2>1, UpToGrows
<1>7. \E n \in Nat : IsOperand(setup.operand, n)
  BY <1>4, <1>5, <1>6, PiecesAreOperands
<1> QED
  BY <1>2, <1>5, <1>7 DEF IsSetup

LEMMA ServesExactly ==
    ASSUME NEW setup, IsSetup(setup)
    PROVE  LET pieces  == setup.operand
               address == {i \in DOMAIN pieces : pieces[i].is = "address"}
           IN  Serve(setup) = "serving" <=>
                 /\ setup.usable /\ setup.located # {}
                 /\ setup.home # {} \/ setup.root.is # "unset"
                 /\ Understood(setup.budget) /\ setup.budget.of <= MaxLimit
                 /\ Understood(setup.window) /\ Understood(setup.wait)
                 /\ address # {}
                 /\ \A i \in DOMAIN pieces : pieces[i].is # "words"
                 /\ \A i \in address : ~pieces[i].wildcard /\ ~pieces[i].taken
                                         /\ pieces[i].assigned <= AssignedWithin
                 /\ \A i, j \in address :
                      pieces[i] = pieces[j] => i = j \/ pieces[i].port = AnyPort
<1> DEFINE pieces == setup.operand
           address == {i \in DOMAIN pieces : pieces[i].is = "address"}
<1>1. PICK n \in Nat : IsOperand(pieces, n)
  BY DEF IsSetup
<1>2. PICK addresses : addresses = Addresses(pieces)
  OBVIOUS
<1>3. address = {i \in 1..n : pieces[i].is = "address"} /\ DOMAIN pieces = 1..n
  BY <1>1 DEF IsOperand
<1>4. PICK bound : bound = Reserve(First(addresses.value),
                                   AwaitAssigned(First(addresses.value)))
  OBVIOUS
<1>5. /\ addresses.fault <=> \E i \in 1..n : pieces[i].is = "words"
      /\ ~addresses.fault =>
           (bound = "serving"
            <=> address # {} /\ (\A i \in address : IsFine(pieces[i]))
                /\ Apart(pieces, address))
  <2>1. PICK S : S = {pieces[i] : i \in 1..n}
    OBVIOUS
  <2>2. \A i \in 1..n : pieces[i] \in S
    BY <2>1
  <2> HIDE DEF pieces
  <2> QED
    BY <1>1, <1>2, <1>3, <1>4, <2>2, BoundAsNamed DEF IsOperand
<1>6. Root(setup.root, setup.home).fault <=> ~(setup.home # {} \/ setup.root.is # "unset")
  BY DEF Root, IsUnset, IsSetup, Fault, Set
<1>7. /\ Budget(setup.budget, setup.machine).fault
           <=> ~(Understood(setup.budget) /\ setup.budget.of <= MaxLimit)
      /\ Window(setup.window).fault <=> ~Understood(setup.window)
      /\ Wait(setup.wait).fault <=> ~Understood(setup.wait)
  BY FaultsOfSettings DEF IsSetup
<1>8. Serve(setup) = "serving" <=> ~Faults(setup, addresses) /\ bound = "serving"
  BY <1>2, <1>4, FirstFaultIsSaid
<1> HIDE DEF address
<1>9. Serve(setup) = "serving" <=>
        /\ setup.usable /\ setup.located # {}
        /\ setup.home # {} \/ setup.root.is # "unset"
        /\ Understood(setup.budget) /\ setup.budget.of <= MaxLimit
        /\ Understood(setup.window) /\ Understood(setup.wait)
        /\ ~addresses.fault /\ bound = "serving"
  BY <1>6, <1>7, <1>8, Zenon DEF Faults
<1>10. ~addresses.fault <=> \A i \in DOMAIN pieces : pieces[i].is # "words"
  BY <1>3, <1>5, Zenon
<1>11. /\ (\A i \in address : IsFine(pieces[i]))
            <=> \A i \in address : ~pieces[i].wildcard /\ ~pieces[i].taken
                                     /\ pieces[i].assigned <= AssignedWithin
       /\ Apart(pieces, address)
            <=> \A i, j \in address :
                  pieces[i] = pieces[j] => i = j \/ pieces[i].port = AnyPort
  BY DEF IsFine, Apart
<1>12. Serve(setup) = "serving" <=>
         /\ setup.usable /\ setup.located # {}
         /\ setup.home # {} \/ setup.root.is # "unset"
         /\ Understood(setup.budget) /\ setup.budget.of <= MaxLimit
         /\ Understood(setup.window) /\ Understood(setup.wait)
         /\ address # {}
         /\ \A i \in DOMAIN pieces : pieces[i].is # "words"
         /\ \A i \in address : ~pieces[i].wildcard /\ ~pieces[i].taken
                                 /\ pieces[i].assigned <= AssignedWithin
         /\ \A i, j \in address :
              pieces[i] = pieces[j] => i = j \/ pieces[i].port = AnyPort
  BY <1>5, <1>9, <1>10, <1>11, Zenon
<1> QED
  BY <1>12, Zenon DEF address

-----------------------------------------------------------------------------
(* What is made of what the tools print. *)

(* A line has figures on its sides, or none, and one on its left at most.  *)
IsLine(line) ==
    /\ line.left \in SUBSET Nat /\ line.right \in SUBSET Nat /\ line.of \in Nat
    /\ \A a, b \in line.left : a = b
IsText(text, n) == DOMAIN text = 1..n /\ \A i \in 1..n : IsLine(text[i])

LEMMA FirstIsOne ==
    ASSUME NEW S, S # {}
    PROVE  First(S) \in S
BY DEF First

LEMMA SideIsNoLess ==
    ASSUME NEW n \in Nat, NEW text, IsText(text, n), NEW side \in {"left", "right"},
           NEW lines \in SUBSET (1..n), \A i \in lines : text[i][side] # {}
    PROVE  /\ Side(text, lines, side) \in Nat
           /\ \A i \in lines : First(text[i][side]) <= Side(text, lines, side)
<1>1. PICK s : s = [i \in DOMAIN text |-> IF i \in lines THEN First(text[i][side]) ELSE 0]
  OBVIOUS
<1>2. \A i \in lines : First(text[i][side]) \in Nat
  <2> TAKE i \in lines
  <2>1. text[i][side] \in SUBSET Nat /\ text[i][side] # {}
    BY DEF IsText, IsLine
  <2> QED
    BY <2>1, FirstIsOne
<1>3. DOMAIN s = 1..n /\ \A i \in 1..n : s[i] \in Nat
  BY <1>1, <1>2 DEF IsText
<1>4. Sum(s) \in Nat /\ \A i \in 1..n : s[i] <= Sum(s)
  BY <1>3, SumIsNoLess
<1>5. \A i \in lines : s[i] = First(text[i][side])
  BY <1>1 DEF IsText
<1>6. Side(text, lines, side) = Sum(s)
  BY <1>1, Zenon DEF Side
<1> QED
  BY <1>4, <1>5, <1>6

(* The devices are what their lines add up to, when every line is one.     *)
Lefts(text) == [i \in DOMAIN text |->
                  IF text[i].is = "pair" THEN First(text[i].left) ELSE 0]
AllRead(text) ==
    /\ \A i \in DOMAIN text : text[i].is = "blank"
                                \/ (text[i].is = "pair" /\ text[i].right # {})
    /\ \E i \in DOMAIN text : text[i].is = "pair"

LEMMA DevicesAreWhole ==
    ASSUME NEW n \in Nat, NEW text, IsText(text, n),
           \A i \in 1..n : text[i].is = "pair" => text[i].left # {}
    PROVE  IF AllRead(text)
           THEN \E device : /\ Devices(text) = {device}
                            /\ device.total \in Nat /\ device.used \in Nat
                            /\ device.total = Sum(Lefts(text))
           ELSE Devices(text) = {}
<1>1. PICK lines : lines = NonBlank(text)
  OBVIOUS
<1>2. DOMAIN text = 1..n /\ lines = {i \in 1..n : text[i].is # "blank"}
  BY <1>1 DEF NonBlank, IsText
<1>3. AllRead(text) <=> lines # {} /\ \A i \in lines : IsPair(text[i])
  BY <1>2 DEF AllRead, IsPair
<1>4. Devices(text) = IF lines = {} \/ \E i \in lines : ~IsPair(text[i]) THEN {}
                      ELSE Summed(text, lines)
  BY <1>1, Zenon DEF Devices
<1>5. CASE AllRead(text)
  <2>1. PICK device : device = [total |-> Side(text, lines, "left"),
                                used  |-> Side(text, lines, "right")]
    OBVIOUS
  <2>2. Devices(text) = {device}
    BY <1>3, <1>4, <1>5, <2>1 DEF Summed
  <2>3. \A i \in lines : text[i]["left"] # {} /\ text[i]["right"] # {}
    BY <1>3, <1>5 DEF IsPair
  <2>4. Side(text, lines, "left") \in Nat /\ Side(text, lines, "right") \in Nat
    BY <1>2, <2>3, SideIsNoLess
  <2>5. \A i \in 1..n : i \in lines <=> text[i].is = "pair"
    BY <1>2, <1>3, <1>5 DEF IsPair
  <2>6. [i \in DOMAIN text |-> IF i \in lines THEN First(text[i]["left"]) ELSE 0]
          = Lefts(text)
    BY <1>2, <2>5 DEF Lefts
  <2>7. Side(text, lines, "left") = Sum(Lefts(text))
    BY <2>6, Zenon DEF Side
  <2> QED
    BY <1>5, <2>1, <2>2, <2>4, <2>7
<1>6. CASE ~AllRead(text)
  BY <1>3, <1>4, <1>6
<1> QED
  BY <1>5, <1>6

(* What a process holds is no less than what any of its lines says, and    *)
(* they all say.                                                           *)
Own(text, pid) == {i \in DOMAIN text : text[i].is = "pair" /\ text[i].left = {pid}}

LEMMA AppsAreWhole ==
    ASSUME NEW n \in Nat, NEW text, IsText(text, n), NEW pid
    PROVE  \/ ComputeApps(text, pid) = {}
           \/ \E held \in Nat :
                /\ ComputeApps(text, pid) = {held}
                /\ Own(text, pid) # {}
                /\ \A i \in Own(text, pid) : /\ text[i].right # {}
                                             /\ First(text[i].right) <= held
<1>1. PICK own : own = Own(text, pid)
  OBVIOUS
<1>2. ComputeApps(text, pid) = IF own = {} \/ \E i \in own : text[i].right = {} THEN {}
                               ELSE {Side(text, own, "right")}
  BY <1>1, Zenon DEF ComputeApps, Own
<1>3. own \in SUBSET (1..n)
  BY <1>1 DEF Own, IsText
<1>4. CASE ~(own = {} \/ \E i \in own : text[i].right = {})
  <2>1. /\ Side(text, own, "right") \in Nat
        /\ \A i \in own : First(text[i]["right"]) <= Side(text, own, "right")
    <3>1. \A i \in own : text[i]["right"] # {}
      BY <1>4
    <3> QED
      BY <1>3, <3>1, SideIsNoLess
  <2> QED
    BY <1>1, <1>2, <1>4, <2>1
<1> QED
  BY <1>2, <1>4

(* A figure on its own, or on its line, is one.                            *)
LEMMA OneFigure ==
    ASSUME NEW n \in Nat, NEW text, IsText(text, n), NEW kind
    PROVE  /\ \A x \in Scaled(text) : \E i \in 1..n :
                text[i].is = "number" /\ x = text[i].of \div UnitsPerMib
           /\ \A x, y \in Scaled(text) : x = y
           /\ \A x \in OnLine(text, kind) : \E i \in 1..n : \E m \in text[i].left :
                text[i].is = kind /\ x = m \div UnitsPerMib
           /\ \A x, y \in OnLine(text, kind) : x = y
<1>1. PICK alone : alone = {i \in NonBlank(text) : NonBlank(text) = {i} /\ text[i].is = "number"}
  OBVIOUS
<1>2. Scaled(text) = {text[i].of \div UnitsPerMib : i \in alone}
  BY <1>1, Zenon DEF Scaled
<1>3. /\ \A i \in alone : i \in 1..n /\ text[i].is = "number"
      /\ \A i, j \in alone : i = j
  BY <1>1 DEF NonBlank, IsText
<1>4. PICK first : first = SelectInSeq(text, LAMBDA line : line.is = kind)
  OBVIOUS
<1>5. OnLine(text, kind) = IF first = 0 THEN {}
                           ELSE {m \div UnitsPerMib : m \in text[first].left}
  BY <1>4, Zenon DEF OnLine
<1>6. first # 0 => first \in 1..n /\ text[first].is = kind
  <2>1. PICK of : of = {i \in 1..Len(text) : text[i].is = kind}
    OBVIOUS
  <2>2. first = IF of # {} THEN Min(of) ELSE 0
    BY <1>4, <2>1, Zenon DEF SelectInSeq
  <2>3. Len(text) = n
    BY DEF IsText
  <2>4. of \in SUBSET (1..n)
    BY <2>1, <2>3
  <2>5. of # {} => Min(of) \in of
    BY <2>4, LeastIndex
  <2> QED
    BY <2>1, <2>2, <2>3, <2>5
<1>7. first # 0 => \A a, b \in text[first].left : a = b
  BY <1>6 DEF IsText, IsLine
<1> QED
  BY <1>2, <1>3, <1>5, <1>6, <1>7

(* The machines that are asked about here.                                 *)
SaysMemory(text, n) ==
    \A i \in 1..n : /\ text[i].is = "number" => text[i].of = 900
                    /\ text[i].is = "MemTotal" => text[i].left = {900}

ALineEach(text)  == \E n \in Nat : IsText(text, n)
APairEach(text)  == \E n \in Nat : /\ IsText(text, n)
                                   /\ \A i \in 1..n : text[i].is = "pair" => text[i].left # {}
TheMemory(text)  == \E n \in Nat : IsText(text, n) /\ SaysMemory(text, n)

IsMachine(machine) ==
    /\ machine.tool \in BOOLEAN
    /\ APairEach(machine.devices.text)
    /\ ALineEach(machine.apps.text)
    /\ ALineEach(machine.resident.text)
    /\ machine.system.ended = "success" => TheMemory(machine.system.text)

LEMMA LinesAreLines ==
    ASSUME NEW is, NEW of \in Nat
    PROVE  IsLine(Line(is, of)) /\ Line(is, of).is = is /\ Line(is, of).of = of
           /\ Line(is, of).left = {of}
BY DEF IsLine, Line

LEMMA PairsAreLines ==
    ASSUME NEW left \in Nat, NEW right \in SUBSET Nat
    PROVE  IsLine(Pairing({left}, right)) /\ Pairing({left}, right).is = "pair"
           /\ Pairing({left}, right).left # {}
BY DEF IsLine, Pairing

LEMMA TextsAreTexts ==
    ASSUME NEW lines, \A line \in lines : IsLine(line), NEW k \in Nat, NEW text \in UpTo(lines, k)
    PROVE  \E n \in Nat : IsText(text, n) /\ \A i \in 1..n : text[i] \in lines
<1>1. PICK n \in 0..k : text \in [1..n -> lines]
  BY DEF UpTo
<1> QED
  BY <1>1 DEF IsText

LEMMA DeviceTextsAreTexts ==
    ASSUME NEW text \in DeviceTexts
    PROVE  \E n \in Nat : /\ IsText(text, n)
                          /\ \A i \in 1..n : text[i].is = "pair" => text[i].left # {}
<1> DEFINE lines == {Line("blank", 0), Line("error", 0), Pairing({3}, {1}),
                     Pairing({60}, {20}), Pairing({60}, {})}
<1>1. \A line \in lines : IsLine(line) /\ (line.is = "pair" => line.left # {})
  <2>1. \A right \in SUBSET Nat : \A left \in Nat :
          IsLine(Pairing({left}, right)) /\ Pairing({left}, right).left # {}
    BY PairsAreLines
  <2>2. IsLine(Line("blank", 0)) /\ IsLine(Line("error", 0))
        /\ Line("blank", 0).left # {} /\ Line("error", 0).left # {}
    BY LinesAreLines
  <2>3. {1} \in SUBSET Nat /\ {20} \in SUBSET Nat /\ {} \in SUBSET Nat /\ 3 \in Nat /\ 60 \in Nat
    OBVIOUS
  <2> QED
    BY <2>1, <2>2, <2>3, Zenon
<1>2. text \in UpTo(lines, 2)
  BY Zenon DEF DeviceTexts
<1> HIDE DEF lines
<1>3. PICK n \in Nat : IsText(text, n) /\ \A i \in 1..n : text[i] \in lines
  BY <1>1, <1>2, TextsAreTexts
<1> QED
  BY <1>1, <1>3

LEMMA AppTextsAreTexts ==
    ASSUME NEW text \in AppTexts
    PROVE  \E n \in Nat : IsText(text, n)
<1> DEFINE lines == {Pairing({1}, {5}), Pairing({1}, {7}), Pairing({1}, {}), Pairing({2}, {9}),
                     Line("error", 0)}
<1>1. \A line \in lines : IsLine(line)
  <2>1. \A right \in SUBSET Nat : \A left \in Nat : IsLine(Pairing({left}, right))
    BY PairsAreLines
  <2>2. IsLine(Line("error", 0))
    BY LinesAreLines
  <2>3. {5} \in SUBSET Nat /\ {7} \in SUBSET Nat /\ {9} \in SUBSET Nat /\ {} \in SUBSET Nat
        /\ 1 \in Nat /\ 2 \in Nat
    OBVIOUS
  <2> QED
    BY <2>1, <2>2, <2>3, Zenon
<1>2. text \in UpTo(lines, 2)
  BY Zenon DEF AppTexts
<1> HIDE DEF lines
<1> QED
  BY <1>1, <1>2, TextsAreTexts

LEMMA ShortTexts ==
    /\ IsText(<<>>, 0)
    /\ \A line : IsLine(line) => IsText(<<line>>, 1)
    /\ \A line, other : IsLine(line) /\ IsLine(other) => IsText(<<line, other>>, 2)
BY DEF IsText

LEMMA SystemTextsAreTexts ==
    ASSUME NEW text \in SystemTexts
    PROVE  \E n \in Nat : IsText(text, n) /\ SaysMemory(text, n)
<1>1. \A is : \A of \in Nat : /\ IsLine(Line(is, of)) /\ Line(is, of).is = is
                              /\ Line(is, of).of = of /\ Line(is, of).left = {of}
  BY LinesAreLines
<1>2. CASE text = <<>>
  BY <1>2, ShortTexts DEF SaysMemory
<1>3. CASE text = <<Line("number", 900)>>
  <2>1. IsText(text, 1)
    BY <1>1, <1>3, ShortTexts
  <2>2. text[1] = Line("number", 900)
    BY <1>3
  <2>3. SaysMemory(text, 1)
    BY <1>1, <2>2 DEF SaysMemory
  <2> QED
    BY <2>1, <2>3
<1>4. CASE text = <<Line("error", 0)>>
  <2>1. IsText(text, 1)
    BY <1>1, <1>4, ShortTexts
  <2>2. text[1] = Line("error", 0)
    BY <1>4
  <2>3. SaysMemory(text, 1)
    BY <1>1, <2>2 DEF SaysMemory
  <2> QED
    BY <2>1, <2>3
<1>5. CASE text = <<Line("MemFree", 8), Line("MemTotal", 900)>>
  <2>1. IsText(text, 2)
    BY <1>1, <1>5, ShortTexts
  <2>2. text[1] = Line("MemFree", 8) /\ text[2] = Line("MemTotal", 900)
    BY <1>5
  <2>3. SaysMemory(text, 2)
    BY <1>1, <2>2 DEF SaysMemory
  <2> QED
    BY <2>1, <2>3
<1> QED
  BY <1>2, <1>3, <1>4, <1>5 DEF SystemTexts

NotRead == <<Line("number", 900)>>

LEMMA OtherTextsAreTexts ==
    /\ ALineEach(NotRead) /\ APairEach(NotRead)
    /\ ALineEach(<<>>) /\ APairEach(<<>>)
    /\ ALineEach(<<Line("number", 90)>>) /\ ALineEach(<<Line("quoted", 90)>>)
<1>1. /\ IsText(<<Line("number", 900)>>, 1) /\ IsText(<<Line("number", 90)>>, 1)
      /\ IsText(<<Line("quoted", 90)>>, 1)
  BY LinesAreLines, ShortTexts
<1>2. IsText(<<>>, 0) /\ \A i \in 1..0 : <<>>[i].is = "pair" => <<>>[i].left # {}
  BY ShortTexts
<1>3. Line("number", 900).left # {}
  <2>1. Line("number", 900).left = {900}
    BY LinesAreLines
  <2> QED
    BY <2>1
<1>4. 0 \in Nat /\ 1 \in Nat
  OBVIOUS
<1>5. PICK text : text = NotRead
  OBVIOUS
<1>6. IsText(text, 1) /\ \A i \in 1..1 : text[i].left # {}
  <2>1. text = <<Line("number", 900)>>
    BY <1>5, Zenon DEF NotRead
  <2>2. PICK line : line = Line("number", 900)
    OBVIOUS
  <2>3. text = <<line>> /\ line.left # {}
    BY <1>3, <2>1, <2>2
  <2>4. \A i \in 1..1 : text[i].left # {}
    BY ONLY <2>3
  <2>5. IsText(text, 1)
    BY <1>1, <2>1
  <2> QED
    BY <2>4, <2>5
<1>7. ALineEach(NotRead) /\ APairEach(NotRead)
  BY <1>4, <1>5, <1>6, Zenon DEF ALineEach, APairEach
<1>8. ALineEach(<<Line("number", 90)>>) /\ ALineEach(<<Line("quoted", 90)>>)
  BY <1>1, <1>4, Zenon DEF ALineEach
<1>9. ALineEach(<<>>) /\ APairEach(<<>>)
  <2>1. PICK nothing : nothing = <<>>
    OBVIOUS
  <2>2. /\ IsText(nothing, 0)
        /\ \A i \in 1..0 : nothing[i].is = "pair" => nothing[i].left # {}
    BY <1>2, <2>1, Zenon
  <2> QED
    BY <1>4, <2>1, <2>2, Zenon DEF ALineEach, APairEach
<1> QED
  BY <1>7, <1>8, <1>9

LEMMA EndsAreRuns ==
    ASSUME NEW texts, NEW run \in Ends(texts)
    PROVE  \/ run.ended = "success" /\ run.text \in texts
           \/ run.ended # "success" /\ run.text = NotRead
<1>1. \/ \E text \in texts : run = [ended |-> "success", text |-> text]
      \/ \E ended \in {"failure", "killed", "not spawned"} :
           run = [ended |-> ended, text |-> NotRead]
  BY ZenonT(60) DEF Ends, NotRead
<1>2. ASSUME NEW ended, NEW text, run = [ended |-> ended, text |-> text]
      PROVE  run.ended = ended /\ run.text = text
  BY <1>2
<1>3. CASE \E text \in texts : run = [ended |-> "success", text |-> text]
  BY <1>2, <1>3
<1>4. CASE \E ended \in {"failure", "killed", "not spawned"} :
             run = [ended |-> ended, text |-> NotRead]
  <2>1. PICK ended \in {"failure", "killed", "not spawned"} :
               run = [ended |-> ended, text |-> NotRead]
    BY <1>4
  <2>2. run.ended = ended /\ run.text = NotRead /\ ended # "success"
    BY <1>2, <2>1
  <2> QED
    BY <2>2
<1> QED
  BY <1>1, <1>3, <1>4

LEMMA MachinesAreOnes ==
    ASSUME NEW machine \in Machines
    PROVE  IsMachine(machine)
<1>1. PICK silent : silent = Silent
  OBVIOUS
<1>2. silent.ended = "failure" /\ silent.text = <<>>
  BY <1>1 DEF Silent
<1>3. PICK devices, systems, apps, residents :
        /\ devices = Ends(DeviceTexts) /\ systems = Ends(SystemTexts)
        /\ apps = Ends(AppTexts)
        /\ residents = Ends({<<Line("number", 90)>>, <<Line("quoted", 90)>>, <<>>})
  OBVIOUS
<1>4. \/ machine \in [platform : {"linux", "macos", "other"}, tool : BOOLEAN, devices : devices,
                      system : systems, apps : {silent}, resident : {silent}]
      \/ machine \in [platform : {"linux", "windows"}, tool : {TRUE}, devices : {silent},
                      system : {silent}, apps : apps, resident : residents]
  <2>1. machine \in Machines
    OBVIOUS
  <2>2. \/ machine \in [platform : {"linux", "macos", "other"}, tool : BOOLEAN,
                        devices : Ends(DeviceTexts), system : Ends(SystemTexts),
                        apps : {Silent}, resident : {Silent}]
        \/ machine \in [platform : {"linux", "windows"}, tool : {TRUE}, devices : {Silent},
                        system : {Silent}, apps : Ends(AppTexts),
                        resident : Ends({<<Line("number", 90)>>, <<Line("quoted", 90)>>, <<>>})]
    BY <2>1, ZenonT(30) DEF Machines
  <2> QED
    BY <1>1, <1>3, <2>2, ZenonT(30)
<1>5. /\ machine.tool \in {TRUE, FALSE}
      /\ machine.devices \in devices \cup {silent} /\ machine.system \in systems \cup {silent}
      /\ machine.apps \in apps \cup {silent} /\ machine.resident \in residents \cup {silent}
  BY <1>4
<1>6. APairEach(machine.devices.text)
  <2>1. machine.devices.text \in DeviceTexts \cup {<<>>, NotRead}
    BY <1>2, <1>3, <1>5, EndsAreRuns
  <2>2. \A text \in DeviceTexts : APairEach(text)
    BY DeviceTextsAreTexts DEF APairEach
  <2> QED
    BY <2>1, <2>2, OtherTextsAreTexts
<1>7. ALineEach(machine.apps.text)
  <2>1. machine.apps.text \in AppTexts \cup {<<>>, NotRead}
    BY <1>2, <1>3, <1>5, EndsAreRuns
  <2>2. \A text \in AppTexts : ALineEach(text)
    BY AppTextsAreTexts DEF ALineEach
  <2> QED
    BY <2>1, <2>2, OtherTextsAreTexts
<1>8. ALineEach(machine.resident.text)
  <2>1. PICK texts : texts = {<<Line("number", 90)>>, <<Line("quoted", 90)>>, <<>>}
    OBVIOUS
  <2>2. machine.resident.text \in texts \cup {<<>>, NotRead}
    BY <1>2, <1>3, <1>5, <2>1, EndsAreRuns
  <2> QED
    BY <2>1, <2>2, OtherTextsAreTexts
<1>9. machine.system.ended = "success" => TheMemory(machine.system.text)
  <2>1. machine.system.ended = "success" => machine.system.text \in SystemTexts
    BY <1>2, <1>3, <1>5, EndsAreRuns
  <2>2. \A text \in SystemTexts : TheMemory(text)
    BY SystemTextsAreTexts DEF TheMemory
  <2> QED
    BY <2>1, <2>2
<1> QED
  BY <1>5, <1>6, <1>7, <1>8, <1>9 DEF IsMachine

(* The device is what its tool printed, whole, or it is not known.         *)
ToolSays(machine) ==
    machine.tool /\ machine.devices.ended = "success" /\ AllRead(machine.devices.text)

LEMMA DeviceIsWhole ==
    ASSUME NEW machine, IsMachine(machine)
    PROVE  IF ToolSays(machine)
           THEN \E device : /\ DeviceOf(machine) = {device}
                            /\ device.total \in Nat /\ device.used \in Nat
                            /\ device.total = Sum(Lefts(machine.devices.text))
           ELSE DeviceOf(machine) = {}
<1>1. PICK text : text = machine.devices.text
  OBVIOUS
<1>2. DeviceOf(machine) = IF machine.tool /\ machine.devices.ended = "success"
                          THEN Devices(text) ELSE {}
  <2>1. DeviceOf(machine) = UNION {Devices(t) : t \in IF machine.tool
                                                       THEN Output(machine.devices) ELSE {}}
    BY Zenon DEF DeviceOf
  <2>2. Output(machine.devices) = IF machine.devices.ended = "success" THEN {text} ELSE {}
    BY <1>1, Zenon DEF Output
  <2>3. UNION {Devices(t) : t \in {text}} = Devices(text)
    OBVIOUS
  <2>4. UNION {Devices(t) : t \in {}} = {}
    OBVIOUS
  <2> QED
    BY <2>1, <2>2, <2>3, <2>4
<1>3. IF AllRead(text)
      THEN \E device : /\ Devices(text) = {device}
                       /\ device.total \in Nat /\ device.used \in Nat
                       /\ device.total = Sum(Lefts(text))
      ELSE Devices(text) = {}
  <2>1. APairEach(text)
    BY <1>1 DEF IsMachine
  <2> QED
    BY <2>1, DevicesAreWhole DEF APairEach
<1> QED
  BY <1>1, <1>2, <1>3, Zenon DEF ToolSays

(* Memory is what a tool says of it.                                       *)
LEMMA MemoryIsAsSaid ==
    ASSUME NEW machine, IsMachine(machine)
    PROVE  SystemTotal(machine) \subseteq {900 \div UnitsPerMib}
<1>1. PICK text : text = machine.system.text
  OBVIOUS
<1>2. SystemTotal(machine) \subseteq
        IF machine.system.ended # "success" THEN {}
        ELSE MeminfoTotal(text) \cup Scaled(text)
  <2>1. Output(machine.system) = IF machine.system.ended = "success" THEN {text} ELSE {}
    BY <1>1, Zenon DEF Output
  <2>2. SystemTotal(machine) =
          UNION {IF machine.platform = "linux" THEN MeminfoTotal(t)
                 ELSE IF machine.platform \in {"macos", "windows"} THEN Scaled(t) ELSE {} :
                 t \in Output(machine.system)}
    BY Zenon DEF SystemTotal
  <2> QED
    BY <2>1, <2>2
<1>3. ASSUME machine.system.ended = "success"
      PROVE  MeminfoTotal(text) \cup Scaled(text) \subseteq {900 \div UnitsPerMib}
  <2>1. PICK n \in Nat : IsText(text, n) /\ SaysMemory(text, n)
    BY <1>1, <1>3 DEF IsMachine, TheMemory
  <2>2. \A x \in MeminfoTotal(text) : x = 900 \div UnitsPerMib
    <3> TAKE x \in MeminfoTotal(text)
    <3>1. PICK i \in 1..n : \E m \in text[i].left :
                 text[i].is = "MemTotal" /\ x = m \div UnitsPerMib
      BY <2>1, OneFigure DEF MeminfoTotal
    <3>2. text[i].left = {900}
      BY <2>1, <3>1 DEF SaysMemory
    <3> QED
      BY <3>1, <3>2
  <2>3. \A x \in Scaled(text) : x = 900 \div UnitsPerMib
    <3> TAKE x \in Scaled(text)
    <3>1. PICK i \in 1..n : text[i].is = "number" /\ x = text[i].of \div UnitsPerMib
      BY <2>1, OneFigure
    <3>2. text[i].of = 900
      BY <2>1, <3>1 DEF SaysMemory
    <3> QED
      BY <3>1, <3>2
  <2> QED
    BY <2>2, <2>3
<1> QED
  BY <1>2, <1>3

(* What is resident is one figure, where it is known.                      *)
LEMMA ResidentIsOne ==
    ASSUME NEW machine, IsMachine(machine)
    PROVE  LET resident == Measure(machine, 1).resident
           IN  resident \subseteq Int /\ \A x, y \in resident : x = y
<1>1. PICK text : text = machine.resident.text
  OBVIOUS
<1>2. PICK n \in Nat : IsText(text, n)
  BY <1>1 DEF IsMachine, ALineEach
<1>3. PICK read : read = IF machine.platform = "windows" THEN TasklistRss(text) ELSE Scaled(text)
  OBVIOUS
<1>4. UnitsPerMib \in Nat \ {0}
  BY MachineAssumption
<1>5. read \subseteq Int /\ \A x, y \in read : x = y
  <2>1. TasklistRss(text) \subseteq Int /\ \A x, y \in TasklistRss(text) : x = y
    <3>1. \A x, y \in TasklistRss(text) : x = y
      BY <1>2, OneFigure DEF TasklistRss
    <3>2. ASSUME NEW x \in TasklistRss(text)
          PROVE  x \in Int
      <4>1. PICK i \in 1..n : \E m \in text[i].left : x = m \div UnitsPerMib
        BY <1>2, OneFigure DEF TasklistRss
      <4>2. PICK m \in text[i].left : x = m \div UnitsPerMib
        BY <4>1
      <4>3. m \in Nat
        BY <1>2 DEF IsText, IsLine
      <4> QED
        BY <1>4, <4>2, <4>3
    <3> QED
      BY <3>1, <3>2
  <2>2. Scaled(text) \subseteq Int /\ \A x, y \in Scaled(text) : x = y
    <3>1. \A x, y \in Scaled(text) : x = y
      BY <1>2, OneFigure
    <3>2. ASSUME NEW x \in Scaled(text)
          PROVE  x \in Int
      <4>1. PICK i \in 1..n : x = text[i].of \div UnitsPerMib
        BY <1>2, OneFigure
      <4>2. text[i].of \in Nat
        BY <1>2 DEF IsText, IsLine
      <4> QED
        BY <1>4, <4>1, <4>2
    <3> QED
      BY <3>1, <3>2
  <2> QED
    BY <1>3, <2>1, <2>2
<1>6. Measure(machine, 1).resident = IF machine.resident.ended = "success" THEN read ELSE {}
  <2>1. Output(machine.resident) = IF machine.resident.ended = "success" THEN {text} ELSE {}
    BY <1>1, Zenon DEF Output
  <2>2. PICK resident :
          resident = UNION {IF machine.platform = "windows" THEN TasklistRss(t) ELSE Scaled(t) :
                            t \in Output(machine.resident)}
    OBVIOUS
  <2>3. Measure(machine, 1).resident = resident
    BY <2>2, Zenon DEF Measure
  <2>4. resident = IF machine.resident.ended = "success" THEN read ELSE {}
    BY <1>3, <2>1, <2>2
  <2> QED
    BY <2>3, <2>4
<1> QED
  BY <1>5, <1>6

(* What a process holds of the device is all its lines, or not known; what *)
(* it holds is no less.                                                    *)
LEMMA HeldIsWhole ==
    ASSUME NEW machine, IsMachine(machine), Measure(machine, 1).device # {}
    PROVE  LET device == First(Measure(machine, 1).device)
               own    == Own(machine.apps.text, 1)
           IN  /\ First(LargestMib(Measure(machine, 1))) >= device
               /\ own # {} /\ \A i \in own : machine.apps.text[i].right # {}
               /\ \A i \in own : device >= First(machine.apps.text[i].right)
<1>1. PICK text : text = machine.apps.text
  OBVIOUS
<1>2. PICK measured : measured = Measure(machine, 1)
  OBVIOUS
<1>3. PICK n \in Nat : IsText(text, n)
  BY <1>1 DEF IsMachine, ALineEach
<1>4. measured.device = ComputeApps(text, 1)
  <2>1. Output(machine.apps) = IF machine.apps.ended = "success" THEN {text} ELSE {}
    BY <1>1, Zenon DEF Output
  <2>2. PICK device : device = UNION {ComputeApps(t, 1) :
                                      t \in IF machine.tool THEN Output(machine.apps) ELSE {}}
    OBVIOUS
  <2>3. measured.device = device
    BY <1>2, <2>2, Zenon DEF Measure
  <2>4. device # {}
    BY <1>2, <2>3
  <2> QED
    BY <2>1, <2>2, <2>3, <2>4
<1>5. PICK held \in Nat : /\ ComputeApps(text, 1) = {held}
                          /\ Own(text, 1) # {}
                          /\ \A i \in Own(text, 1) : /\ text[i].right # {}
                                                     /\ First(text[i].right) <= held
  BY <1>2, <1>3, <1>4, AppsAreWhole
<1>6. First(measured.device) = held
  BY <1>4, <1>5 DEF First
<1>7. First(LargestMib(measured)) >= held
  <2>1. PICK resident : resident = measured.resident
    OBVIOUS
  <2>2. resident \subseteq Int /\ \A x, y \in resident : x = y
    BY <1>2, <2>1, ResidentIsOne
  <2>3. PICK known : known = resident \cup {held}
    OBVIOUS
  <2>4. LargestMib(measured) = {x \in known : \A other \in known : other <= x}
    BY <1>4, <1>5, <2>1, <2>3, Zenon DEF LargestMib
  <2>5. \E x \in known : \A other \in known : other <= x
    <3>1. CASE \E x \in resident : x > held
      BY <2>2, <2>3, <3>1
    <3>2. CASE ~\E x \in resident : x > held
      BY <2>2, <2>3, <3>2
    <3> QED
      BY <3>1, <3>2
  <2>6. LargestMib(measured) # {}
    BY <2>4, <2>5
  <2>7. First(LargestMib(measured)) \in LargestMib(measured)
    BY <2>6, FirstIsOne
  <2>8. held \in known /\ known \subseteq Int
    BY <2>2, <2>3
  <2> QED
    BY <2>4, <2>7, <2>8
<1>8. \A i \in Own(text, 1) : First(text[i].right) \in Nat
  <2> TAKE i \in Own(text, 1)
  <2>1. text[i].right \in SUBSET Nat /\ text[i].right # {}
    BY <1>3, <1>5 DEF Own, IsText, IsLine
  <2> QED
    BY <2>1, FirstIsOne
<1> QED
  BY <1>1, <1>2, <1>5, <1>6, <1>7, <1>8

(* What a machine sets where nobody did: less than its device by a margin, *)
(* or its share of memory; and something, or nothing at all.               *)
LEMMA DerivedIsWithin ==
    ASSUME NEW machine, IsMachine(machine), NEW limit \in Derived(machine)
    PROVE  /\ limit > 0
           /\ IF ToolSays(machine)
              THEN LET total == Sum(Lefts(machine.devices.text))
                   IN  limit + MinDeviceMargin <= total /\ limit + total \div 10 <= total
              ELSE limit * 100 <= (900 \div UnitsPerMib) * SystemShare
<1>1. /\ MaxLimit \in Nat \ {0} /\ UnitsPerMib \in Nat \ {0} /\ MinDeviceMargin \in Nat
      /\ SystemShare \in Nat
  BY MachineAssumption
<1>2. PICK memory : memory = 900 \div UnitsPerMib
  OBVIOUS
<1>3. memory \in Nat
  BY <1>1, <1>2
<1>4. PICK device, limits :
        /\ device = DeviceOf(machine)
        /\ limits = IF device # {} THEN {FromDevice(First(device))}
                    ELSE {(total * SystemShare) \div 100 : total \in SystemTotal(machine)}
        /\ Derived(machine) = {AtMost(l, MaxLimit) : l \in limits \ {0}}
  BY Zenon DEF Derived
<1>5. PICK l \in limits \ {0} : limit = AtMost(l, MaxLimit)
  BY <1>4
<1>6. CASE ToolSays(machine)
  <2>1. PICK d : /\ device = {d} /\ d.total \in Nat
                 /\ d.total = Sum(Lefts(machine.devices.text))
    BY <1>4, <1>6, DeviceIsWhole
  <2>2. First(device) = d
    BY <2>1 DEF First
  <2>3. l = FromDevice(d)
    BY <1>4, <1>5, <2>1, <2>2
  <2>4. PICK total : total = d.total /\ total \in Nat
    BY <2>1
  <2>5. l = Greater(total - Margin(total), 0)
    BY <2>3, <2>4 DEF FromDevice
  <2>6. PICK margin \in Nat, tenth \in Nat :
           margin = Margin(total) /\ tenth = total \div 10
           /\ margin >= MinDeviceMargin /\ margin >= tenth
    BY <1>1, <2>4 DEF Margin, Greater
  <2>7. l \in Nat /\ l # 0 /\ l + MinDeviceMargin <= total /\ l + tenth <= total
    BY <1>1, <1>5, <2>4, <2>5, <2>6 DEF Greater
  <2>8. limit > 0 /\ limit + MinDeviceMargin <= total /\ limit + tenth <= total
    BY <1>1, <1>5, <2>4, <2>6, <2>7 DEF AtMost
  <2> QED
    BY <1>6, <2>1, <2>4, <2>6, <2>8
<1>7. CASE ~ToolSays(machine)
  <2>1. device = {}
    BY <1>4, <1>7, DeviceIsWhole
  <2>2. SystemTotal(machine) \subseteq {memory}
    BY <1>2, MemoryIsAsSaid
  <2>3. l = (memory * SystemShare) \div 100 /\ l # 0
    BY <1>4, <1>5, <2>1, <2>2
  <2>4. PICK share : share = memory * SystemShare /\ share \in Nat
    BY <1>1, <1>3
  <2>5. l \in Nat /\ l * 100 <= share
    BY <2>3, <2>4
  <2>6. limit \in Nat /\ limit > 0 /\ limit <= l
    BY <1>1, <1>5, <2>3, <2>5 DEF AtMost
  <2>7. limit * 100 <= share
    BY <2>4, <2>5, <2>6
  <2> QED
    BY <1>2, <1>7, <2>4, <2>6, <2>7
<1> QED
  BY <1>6, <1>7

(* What is free of a device is no more than there is of it.                *)
LEMMA FreeIsWhole ==
    ASSUME NEW machine, IsMachine(machine),
           NEW free, free = {Free(device) : device \in DeviceOf(machine)}, free # {}
    PROVE  ToolSays(machine) /\ First(free) <= Sum(Lefts(machine.devices.text))
<1>1. ToolSays(machine)
  BY DeviceIsWhole
<1>2. PICK d : /\ DeviceOf(machine) = {d} /\ d.total \in Nat /\ d.used \in Nat
               /\ d.total = Sum(Lefts(machine.devices.text))
  BY <1>1, DeviceIsWhole
<1>3. free = {Free(d)}
  BY <1>2
<1>4. First(free) = Free(d)
  BY <1>3 DEF First
<1>5. Free(d) <= d.total
  <2>1. PICK total, used : total = d.total /\ used = d.used /\ total \in Nat /\ used \in Nat
    BY <1>2
  <2> QED
    BY <2>1 DEF Free, Greater
<1> QED
  BY <1>1, <1>2, <1>4, <1>5

(* A setting, as each of those who read it understands it.                 *)
LEMMA SettingsAreUnderstood ==
    ASSUME NEW variable \in Variables, NEW machine
    PROVE  /\ variable.is = "words" => /\ Budget(variable, machine).fault
                                       /\ Window(variable).fault /\ Wait(variable).fault
           /\ variable.is \in {"unset", "empty"} =>
                /\ Window(variable).value = {} /\ Wait(variable).value = {WaitDefault}
                /\ Root(variable, {}).fault
                /\ Budget(variable, machine).value = Derived(machine)
           /\ variable.is = "number" /\ variable.of = 0 =>
                Window(variable).value = {} /\ Wait(variable).value = {0}
<1>1. variable.is = "words" => /\ Budget(variable, machine).fault
                               /\ Window(variable).fault /\ Wait(variable).fault
  BY FaultsOfSettings DEF Understood
<1>2. \A read : [read EXCEPT !.value = @ \ {0}] = [read EXCEPT !.value = read.value \ {0}]
  OBVIOUS
<1>3. \A value : /\ Set(value).value = value
                 /\ [Set(value) EXCEPT !.value = @ \ {0}].value = value \ {0}
  BY DEF Set
<1>4. ASSUME variable.is \in {"unset", "empty"}
      PROVE  /\ Window(variable).value = {} /\ Wait(variable).value = {WaitDefault}
             /\ Root(variable, {}).fault
             /\ Budget(variable, machine).value = Derived(machine)
  <2>1. IsUnset(variable) /\ variable.is # "number"
    BY <1>4 DEF IsUnset
  <2>2. \A unset : Variable(variable, unset) = Set(unset)
    BY <2>1 DEF Variable
  <2>3. Window(variable).value = {}
    BY <1>3, <2>2 DEF Window
  <2>4. Wait(variable).value = {WaitDefault}
    BY <1>3, <2>2 DEF Wait
  <2>5. Root(variable, {}).fault
    BY <2>1 DEF Root, Fault
  <2>6. Budget(variable, machine).value = Derived(machine)
    BY <1>3, <2>1, <2>2 DEF Budget
  <2> QED
    BY <2>3, <2>4, <2>5, <2>6
<1>5. ASSUME variable.is = "number", variable.of = 0
      PROVE  Window(variable).value = {} /\ Wait(variable).value = {0}
  <2>1. \A unset : Variable(variable, unset) = Set({0})
    BY <1>5 DEF Variable, IsUnset
  <2>2. Window(variable).value = {}
    BY <1>3, <2>1 DEF Window
  <2> QED
    BY <1>3, <2>1, <2>2 DEF Wait
<1> QED
  BY <1>1, <1>4, <1>5

-----------------------------------------------------------------------------
(* What is known of a state in which a machine or a start was asked about. *)
SettledAsAsked ==
    /\ Asked("machine") =>
         /\ question.input \in Settings
         /\ answer \in {<<>>, <<Configured(question.input.variable, question.input.machine)>>}
    /\ Asked("serve") =>
         question.input \in Setups /\ answer \in {<<>>, <<Serve(question.input)>>}

LEMMA SettledAsAskedIsInvariant == Spec => []SettledAsAsked
<1>1. Init => SettledAsAsked
  <2> SUFFICES ASSUME Init
               PROVE  SettledAsAsked
    OBVIOUS
  <2>1. answer = <<>>
    BY DEF Init
  <2>2. CASE \E setting \in Settings : question = Ask("machine", setting)
    BY <2>1, <2>2 DEF SettledAsAsked, Asked, Ask
  <2>3. CASE \E setup \in Setups : question = Ask("serve", setup)
    BY <2>1, <2>3 DEF SettledAsAsked, Asked, Ask
  <2>4. CASE \E about \in {"request", "catalog", "estimate", "discovery"} :
               \E input : question = Ask(about, input)
    <3>1. question.about \in {"request", "catalog", "estimate", "discovery"}
      BY <2>4 DEF Ask
    <3> QED
      BY <3>1 DEF SettledAsAsked, Asked
  <2>5. \/ \E setting \in Settings : question = Ask("machine", setting)
        \/ \E setup \in Setups : question = Ask("serve", setup)
        \/ \E about \in {"request", "catalog", "estimate", "discovery"} :
             \E input : question = Ask(about, input)
    BY DEF Init, AsksForAnEstimate, Estimated, AsksForDiscovery
  <2> QED
    BY <2>2, <2>3, <2>4, <2>5
<1>2. SettledAsAsked /\ [Next]_vars => SettledAsAsked'
  <2> SUFFICES ASSUME SettledAsAsked, [Next]_vars
               PROVE  SettledAsAsked'
    OBVIOUS
  <2>1. question' = question
    BY DEF Next, AnswerRequest, ReadCatalog, EstimateEntry, Discover, Configure,
           StartServing, Given, vars
  <2>2. ASSUME Asked("machine")
        PROVE  /\ question.input \in Settings
               /\ answer' \in {<<>>, <<Configured(question.input.variable,
                                                   question.input.machine)>>}
    <3>1. Configure \/ answer' = answer
      BY <2>2 DEF Next, AnswerRequest, ReadCatalog, EstimateEntry, Discover,
                  StartServing, Asked, vars
    <3> QED
      BY <2>2, <3>1 DEF SettledAsAsked, Configure, Given
  <2>3. ASSUME Asked("serve")
        PROVE  question.input \in Setups /\ answer' \in {<<>>, <<Serve(question.input)>>}
    <3>1. StartServing \/ answer' = answer
      BY <2>3 DEF Next, AnswerRequest, ReadCatalog, EstimateEntry, Discover,
                  Configure, Asked, vars
    <3> QED
      BY <2>3, <3>1 DEF SettledAsAsked, StartServing, Given
  <2> QED
    BY <2>1, <2>2, <2>3 DEF SettledAsAsked, Asked
<1> QED
  BY <1>1, <1>2, PTL DEF Spec

(* Nothing is guessed, on any machine and for any operand: what is set     *)
(* leaves the margin and the tenth, or the share, what cannot be read is   *)
(* unknown, and serve serves exactly when it understood everything and     *)
(* holds every address, an open port for each time it is given (budget.rs, *)
(* memory/parse.rs, listen.rs, serving.rs).                                *)
THEOREM NoFigureIsGuessed == Spec => []NothingIsGuessed
<1>1. SettledAsAsked => FiguresAreWholeOrUnknown
  <2> SUFFICES ASSUME SettledAsAsked, Answered("machine")
               PROVE  FiguresAreWholeOrUnknown
    BY DEF FiguresAreWholeOrUnknown
  <2>1. PICK variable, machine : /\ variable = question.input.variable
                                 /\ machine = question.input.machine
                                 /\ variable \in Variables /\ machine \in Machines
    BY DEF SettledAsAsked, Answered, Settings
  <2>2. PICK reply : reply = answer[1] /\ reply = Configured(variable, machine)
    BY <2>1 DEF SettledAsAsked, Answered
  <2>3. IsMachine(machine)
    BY <2>1, MachinesAreOnes
  <2>4. /\ reply.budget = Budget(variable, machine) /\ reply.window = Window(variable)
        /\ reply.wait = Wait(variable) /\ reply.root = Root(variable, {})
        /\ reply.free = {Free(device) : device \in DeviceOf(machine)}
        /\ reply.measured = Measure(machine, 1)
        /\ reply.held = LargestMib(Measure(machine, 1))
    BY <2>2 DEF Configured
  <2>5. ToolSays(machine) <=>
          /\ machine.tool
          /\ Readable(machine.devices, LAMBDA line :
                        line.is = "blank" \/ (line.is = "pair" /\ line.right # {}))
          /\ \E i \in DOMAIN machine.devices.text : machine.devices.text[i].is = "pair"
    BY DEF ToolSays, AllRead, Readable
  <2>6. PICK total : total = Sum(Lefts(machine.devices.text))
    OBVIOUS
  <2>7. /\ variable.is = "words" => reply.budget.fault /\ reply.window.fault /\ reply.wait.fault
        /\ variable.is \in {"unset", "empty"} =>
             /\ reply.window.value = {} /\ reply.wait.value = {WaitDefault}
             /\ reply.root.fault
             /\ \A limit \in reply.budget.value :
                  /\ limit > 0
                  /\ IF ToolSays(machine) THEN /\ limit + MinDeviceMargin <= total
                                               /\ limit + total \div 10 <= total
                     ELSE limit * 100 <= (900 \div UnitsPerMib) * SystemShare
        /\ variable.is = "number" /\ variable.of = 0 =>
             reply.window.value = {} /\ reply.wait.value = {0}
    BY <2>1, <2>3, <2>4, <2>6, SettingsAreUnderstood, DerivedIsWithin
  <2>8. reply.free # {} => ToolSays(machine) /\ First(reply.free) <= total
    BY <2>3, <2>4, <2>6, FreeIsWhole
  <2>9. reply.measured.device # {} =>
          /\ First(reply.held) >= First(reply.measured.device)
          /\ Own(machine.apps.text, 1) # {}
          /\ \A i \in Own(machine.apps.text, 1) : machine.apps.text[i].right # {}
          /\ \A i \in Own(machine.apps.text, 1) :
               First(reply.measured.device) >= First(machine.apps.text[i].right)
    BY <2>3, <2>4, HeldIsWhole
  <2> DEFINE devices == machine.devices
             whole == /\ machine.tool
                      /\ Readable(devices, LAMBDA line :
                                     line.is = "blank" \/ (line.is = "pair" /\ line.right # {}))
                      /\ \E i \in DOMAIN devices.text : devices.text[i].is = "pair"
             sum == Sum([i \in DOMAIN devices.text |->
                         IF devices.text[i].is = "pair"
                         THEN First(devices.text[i].left) ELSE 0])
             own == {i \in DOMAIN machine.apps.text :
                       machine.apps.text[i].is = "pair" /\ machine.apps.text[i].left = {1}}
  <2>10. sum = total /\ own = Own(machine.apps.text, 1)
    BY <2>6, Zenon DEF Lefts, Own
  <2>11. whole <=> ToolSays(machine)
    BY <2>5
  <2> HIDE DEF whole, sum, own
  <2>12. /\ variable.is = "words" => reply.budget.fault /\ reply.window.fault
                                     /\ reply.wait.fault
         /\ variable.is \in {"unset", "empty"} =>
              /\ reply.window.value = {} /\ reply.wait.value = {WaitDefault}
              /\ reply.root.fault
              /\ \A limit \in reply.budget.value :
                   /\ limit > 0
                   /\ IF whole THEN /\ limit + MinDeviceMargin <= sum
                                    /\ limit + sum \div 10 <= sum
                      ELSE limit * 100 <= (900 \div UnitsPerMib) * SystemShare
         /\ variable.is = "number" /\ variable.of = 0 =>
              reply.window.value = {} /\ reply.wait.value = {0}
         /\ reply.free # {} => whole /\ First(reply.free) <= sum
         /\ reply.measured.device # {} =>
              /\ First(reply.held) >= First(reply.measured.device)
              /\ own # {} /\ \A i \in own : machine.apps.text[i].right # {}
              /\ \A i \in own : First(reply.measured.device) >=
                                   First(machine.apps.text[i].right)
    BY <2>7, <2>8, <2>9, <2>10, <2>11, ZenonT(60)
  <2>13. WholeOrUnknown(variable, machine, reply)
    BY <2>12, ZenonT(60) DEF WholeOrUnknown, whole, sum, own
  <2> QED
    BY <2>1, <2>2, <2>13 DEF FiguresAreWholeOrUnknown
<1>2. SettledAsAsked => ServesWhatItWasTold
  <2> SUFFICES ASSUME SettledAsAsked, Answered("serve")
               PROVE  ServesWhatItWasTold
    BY DEF ServesWhatItWasTold
  <2>1. PICK setup : setup = question.input /\ IsSetup(setup)
    BY SetupsAreOnes DEF SettledAsAsked, Answered
  <2>2. answer[1] = Serve(setup)
    BY <2>1 DEF SettledAsAsked, Answered
  <2> QED
    BY <2>1, <2>2, ServesExactly, Zenon DEF ServesWhatItWasTold
<1>3. SettledAsAsked => NothingIsGuessed
  BY <1>1, <1>2 DEF NothingIsGuessed
<1> QED
  BY <1>3, SettledAsAskedIsInvariant, PTL

-----------------------------------------------------------------------------
(* What is wrong with a catalog's text, said field by field. *)

(* A problem is said of a field of a scope. *)
Each(scope, fields) == {<<scope, f>> : f \in fields}

LEMMA SaidTogether ==
    ASSUME NEW A, NEW B
    PROVE  Said(A \cup B) = Said(A) \cup Said(B)
BY DEF Said

LEMMA SaidOfNone == Said({}) = {}
BY DEF Said

LEMMA EachTogether ==
    ASSUME NEW scope, NEW A, NEW B
    PROVE  Each(scope, A \cup B) = Each(scope, A) \cup Each(scope, B)
BY DEF Each

LEMMA SaidOfFour ==
    ASSUME NEW A, NEW B, NEW C, NEW D
    PROVE  Said(((A \cup B) \cup C) \cup D)
             = ((Said(A) \cup Said(B)) \cup Said(C)) \cup Said(D)
BY DEF Said

LEMMA EachOfThree ==
    ASSUME NEW scope, NEW A, NEW B, NEW C
    PROVE  Each(scope, (A \cup B) \cup C)
             = (Each(scope, A) \cup Each(scope, B)) \cup Each(scope, C)
BY DEF Each

LEMMA ProblemSays ==
    ASSUME NEW scope, NEW field, NEW complaint
    PROVE  /\ Problem(scope, field, complaint).scope = scope
           /\ Problem(scope, field, complaint).field = field
BY DEF Problem

LEMMA SaidOfOne ==
    ASSUME NEW scope, NEW field, NEW complaint
    PROVE  Said({Problem(scope, field, complaint)}) = Each(scope, {field})
<1>1. PICK p : p = Problem(scope, field, complaint)
  OBVIOUS
<1>2. p.scope = scope /\ p.field = field
  BY <1>1, ProblemSays
<1>3. Said({p}) = {<<p.scope, p.field>>}
  BY DEF Said
<1>4. Each(scope, {field}) = {<<scope, field>>}
  BY DEF Each
<1> QED
  BY <1>1, <1>2, <1>3, <1>4

LEMMA SaidOfFields ==
    ASSUME NEW scope, NEW fields, NEW complaint
    PROVE  Said({Problem(scope, f, complaint) : f \in fields}) = Each(scope, fields)
<1> DEFINE Ps == {Problem(scope, f, complaint) : f \in fields}
<1>1. ASSUME NEW x \in Said(Ps)
      PROVE  x \in Each(scope, fields)
  <2>1. PICK p \in Ps : x = <<p.scope, p.field>>
    BY DEF Said
  <2>2. PICK f \in fields : p = Problem(scope, f, complaint)
    BY <2>1
  <2> QED
    BY <2>1, <2>2, ProblemSays DEF Each
<1>2. ASSUME NEW x \in Each(scope, fields)
      PROVE  x \in Said(Ps)
  <2>1. PICK f \in fields : x = <<scope, f>>
    BY DEF Each
  <2>2. Problem(scope, f, complaint) \in Ps
    OBVIOUS
  <2> HIDE DEF Ps
  <2>3. x = <<Problem(scope, f, complaint).scope, Problem(scope, f, complaint).field>>
    BY <2>1, ProblemSays
  <2> QED
    BY <2>2, <2>3 DEF Said
<1> QED
  BY <1>1, <1>2

LEMMA SaidOfOptional ==
    ASSUME NEW table, NEW scope, NEW fields
    PROVE  Said(Optional(table, scope, fields))
             = Each(scope, {g \in fields \cap DOMAIN table : Wrong(table, g)})
<1>1. {g \in fields \cap DOMAIN table : ~Converts(g, table[g])}
        = {g \in fields \cap DOMAIN table : Wrong(table, g)}
  BY DEF Wrong
<1> QED
  BY <1>1, SaidOfFields DEF Optional

LEMMA SaidOfUnknown ==
    ASSUME NEW table, NEW scope, NEW known
    PROVE  Said(Unknown(table, scope, known)) = Each(scope, DOMAIN table \ known)
BY SaidOfFields DEF Unknown

LEMMA SaidOfRequired ==
    ASSUME NEW table, NEW scope, NEW field
    PROVE  Said(Required(table, scope, field))
             = Each(scope, {g \in {field} : Useless(table, g)})
<1>1. CASE field \in DOMAIN table
  <2>1. {g \in {field} \cap DOMAIN table : Wrong(table, g)} = {g \in {field} : Useless(table, g)}
    BY <1>1 DEF Useless
  <2> QED
    BY <1>1, <2>1, SaidOfOptional DEF Required
<1>2. CASE field \notin DOMAIN table
  <2>1. {g \in {field} : Useless(table, g)} = {field}
    BY <1>2 DEF Useless
  <2> QED
    BY <1>2, <2>1, SaidOfOne DEF Required
<1> QED
  BY <1>1, <1>2

LEMMA SaidOfTable ==
    ASSUME NEW table, NEW scope, NEW field
    PROVE  Said(TableFault(table, scope, field))
             = Each(scope, {g \in {field} \cap DOMAIN table : table[g].is # "table"})
<1>1. CASE field \in DOMAIN table /\ table[field].is # "table"
  <2>1. {g \in {field} \cap DOMAIN table : table[g].is # "table"} = {field}
    BY <1>1
  <2> QED
    BY <1>1, <2>1, SaidOfOne DEF TableFault
<1>2. CASE ~(field \in DOMAIN table /\ table[field].is # "table")
  <2>1. {g \in {field} \cap DOMAIN table : table[g].is # "table"} = {}
    BY <1>2
  <2>2. Each(scope, {}) = {}
    BY DEF Each
  <2> QED
    BY <1>2, <2>1, <2>2, SaidOfNone DEF TableFault
<1> QED
  BY <1>1, <1>2

(* Whether what a table holds for its flags is at fault. *)
FlagsWrong(table) ==
    /\ "flags" \in DOMAIN table
    /\ \/ table["flags"].is # "table"
       \/ \E k \in DOMAIN table["flags"].of : table["flags"].of[k].is # "text"

LEMMA SaidOfFlags ==
    ASSUME NEW table, NEW scope
    PROVE  Said(FlagFaults(table, scope)) = Each(scope, {g \in {"flags"} : FlagsWrong(table)})
<1> DEFINE inner == TableAt(table, "flags")
           faults == {Problem(scope, "flags", f) : f \in DOMAIN inner \ Texts(inner)}
<1>1. Said(FlagFaults(table, scope))
        = Said(TableFault(table, scope, "flags")) \cup Said(faults)
  BY SaidTogether DEF FlagFaults
<1>2. Said(faults) = Each(scope, {g \in {"flags"} : DOMAIN inner \ Texts(inner) # {}})
  <2> HIDE DEF inner
  <2>1. ASSUME NEW x \in Said(faults)
        PROVE  x = <<scope, "flags">> /\ DOMAIN inner \ Texts(inner) # {}
    <3>1. PICK p \in faults : x = <<p.scope, p.field>>
      BY DEF Said
    <3>2. PICK f \in DOMAIN inner \ Texts(inner) : p = Problem(scope, "flags", f)
      BY <3>1
    <3> QED
      BY <3>1, <3>2, ProblemSays
  <2>2. ASSUME NEW f \in DOMAIN inner \ Texts(inner)
        PROVE  <<scope, "flags">> \in Said(faults)
    <3>1. Problem(scope, "flags", f) \in faults
      OBVIOUS
    <3>2. <<scope, "flags">> = <<Problem(scope, "flags", f).scope,
                                 Problem(scope, "flags", f).field>>
      BY ProblemSays
    <3> HIDE DEF faults
    <3> QED
      BY <3>1, <3>2 DEF Said
  <2> HIDE DEF faults
  <2> QED
    BY <2>1, <2>2 DEF Each
<1>3. DOMAIN inner \ Texts(inner) # {}
        <=> /\ "flags" \in DOMAIN table /\ table["flags"].is = "table"
            /\ \E k \in DOMAIN table["flags"].of : table["flags"].of[k].is # "text"
  BY DEF TableAt, NoTable, Texts
<1>4. {g \in {"flags"} \cap DOMAIN table : table[g].is # "table"}
        \cup {g \in {"flags"} : DOMAIN inner \ Texts(inner) # {}}
        = {g \in {"flags"} : FlagsWrong(table)}
  <2> HIDE DEF inner
  <2> QED
    BY <1>3 DEF FlagsWrong
<1>5. Said(TableFault(table, scope, "flags"))
        = Each(scope, {g \in {"flags"} \cap DOMAIN table : table[g].is # "table"})
  BY SaidOfTable
<1> HIDE DEF inner, faults
<1> DEFINE Outside == {g \in {"flags"} \cap DOMAIN table : table[g].is # "table"}
           Inside  == {g \in {"flags"} : DOMAIN inner \ Texts(inner) # {}}
           Faulted == {g \in {"flags"} : FlagsWrong(table)}
<1>6. /\ Outside \cup Inside = Faulted
      /\ Said(FlagFaults(table, scope)) = Each(scope, Outside) \cup Each(scope, Inside)
  BY <1>1, <1>2, <1>4, <1>5, Zenon
<1> HIDE DEF Outside, Inside
<1> QED
  BY <1>6, EachTogether

-----------------------------------------------------------------------------
LEMMA FaultsAreEach ==
    ASSUME NEW table, NEW scope, NEW fields
    PROVE  FaultsOf(table, scope, fields)
             = Each(scope, {g \in DOMAIN table :
                              \/ g \notin fields
                              \/ g # "flags" /\ Wrong(table, g)
                              \/ g = "flags" /\ FlagsWrong(table)})
<1> DEFINE AtFault == {g \in DOMAIN table :
                     \/ g \notin fields
                     \/ g # "flags" /\ Wrong(table, g)
                     \/ g = "flags" /\ FlagsWrong(table)}
           Ours == {g \in DOMAIN table :
                      \/ g \notin fields
                      \/ g # "flags" /\ Wrong(table, g)
                      \/ g = "flags" /\ (table[g].is # "table"
                                          \/ \E k \in DOMAIN table[g].of :
                                                table[g].of[k].is # "text")}
<1>1. Ours = AtFault
  <2>1. \A g \in DOMAIN table : g = "flags" =>
            (FlagsWrong(table) <=> (table[g].is # "table"
                                      \/ \E k \in DOMAIN table[g].of :
                                            table[g].of[k].is # "text"))
    BY DEF FlagsWrong
  <2> QED
    BY <2>1
<1>2. FaultsOf(table, scope, fields) = Each(scope, Ours)
  BY Zenon DEF FaultsOf, Each
<1> HIDE DEF Ours
<1> QED
  BY <1>1, <1>2

LEMMA SaidOfDefaults ==
    ASSUME NEW text
    PROVE  Said(DefaultsFaults(text))
             = Each(Text, {g \in {"defaults"} \cap DOMAIN text : text[g].is # "table"})
               \cup FaultsOf(TableAt(text, "defaults"), Shared, DefaultFields)
<1>1. PICK inner : inner = TableAt(text, "defaults")
  OBVIOUS
<1> DEFINE Strange == DOMAIN inner \ DefaultFields
           Unheld  == {g \in Inherited \cap DOMAIN inner : Wrong(inner, g)}
           Flagged == {g \in {"flags"} : FlagsWrong(inner)}
           AtFault     == {g \in DOMAIN inner :
                         \/ g \notin DefaultFields
                         \/ g # "flags" /\ Wrong(inner, g)
                         \/ g = "flags" /\ FlagsWrong(inner)}
<1>2. Said(DefaultsFaults(text))
        = Each(Text, {g \in {"defaults"} \cap DOMAIN text : text[g].is # "table"})
          \cup Each(Shared, Strange) \cup Each(Shared, Unheld) \cup Each(Shared, Flagged)
  <2>1. DefaultsFaults(text) = ((TableFault(text, Text, "defaults")
            \cup Unknown(inner, Shared, DefaultFields))
            \cup Optional(inner, Shared, Inherited)) \cup FlagFaults(inner, Shared)
    BY <1>1 DEF DefaultsFaults, DefaultsTable
  <2>2. Said(TableFault(text, Text, "defaults"))
          = Each(Text, {g \in {"defaults"} \cap DOMAIN text : text[g].is # "table"})
    BY SaidOfTable
  <2>3. Said(Unknown(inner, Shared, DefaultFields)) = Each(Shared, Strange)
    BY SaidOfUnknown
  <2>4. Said(Optional(inner, Shared, Inherited)) = Each(Shared, Unheld)
    BY SaidOfOptional
  <2>5. Said(FlagFaults(inner, Shared)) = Each(Shared, Flagged)
    BY SaidOfFlags
  <2> HIDE DEF Strange, Unheld, Flagged
  <2>6. Said(DefaultsFaults(text))
          = ((Said(TableFault(text, Text, "defaults"))
              \cup Said(Unknown(inner, Shared, DefaultFields)))
              \cup Said(Optional(inner, Shared, Inherited)))
            \cup Said(FlagFaults(inner, Shared))
    BY <2>1, SaidOfFour
  <2> QED
    BY <2>2, <2>3, <2>4, <2>5, <2>6
<1>3. Strange \cup Unheld \cup Flagged = AtFault
  <2>1. "flags" \notin Inherited /\ DefaultFields = Inherited \cup {"flags"}
    BY DEF Inherited, DefaultFields
  <2>2. FlagsWrong(inner) => "flags" \in DOMAIN inner
    BY DEF FlagsWrong
  <2> QED
    BY <2>1, <2>2
<1>4. FaultsOf(inner, Shared, DefaultFields) = Each(Shared, AtFault)
  BY FaultsAreEach, Zenon
<1> HIDE DEF Strange, Unheld, Flagged, AtFault
<1>5. Each(Shared, AtFault)
        = (Each(Shared, Strange) \cup Each(Shared, Unheld)) \cup Each(Shared, Flagged)
  BY <1>3, EachOfThree
<1> QED
  BY <1>1, <1>2, <1>4, <1>5

(* What is held for a field is nothing where the field is of no use.       *)
LEMMA HeldIfUseful ==
    ASSUME NEW table, NEW field
    PROVE  Held(table, field) = {} <=> Useless(table, field)
BY DEF Held, Useless, Wrong

LEMMA InheritsIfUseful ==
    ASSUME NEW table, NEW defaults, NEW field
    PROVE  Inherits(table, defaults, field) = {}
             <=> Useless(table, field) /\ Useless(defaults, field)
BY HeldIfUseful DEF Inherits, Or

(* An entry's own faults, and with them its want of an estimate, which is  *)
(* said apart.                                                             *)
NoEstimate(table, defaults) ==
    {g \in {"memory_estimate_mib"} : Inherits(table, defaults, g) = {}}

Unsupplied(table, defaults) ==
    {g \in {"context_size", "memory_estimate_mib"} : Useless(table, g) /\ Useless(defaults, g)}

LEMMA SaidOfEntry ==
    ASSUME NEW table, NEW scope, NEW defaults
    PROVE  Said(EntryFaults(scope, table, defaults))
             \cup Each(scope, NoEstimate(table, defaults))
             = FaultsOf(table, scope, EntryFields)
               \cup Each(scope, {"path"} \ DOMAIN table)
               \cup Each(scope, Unsupplied(table, defaults))
<1> DEFINE Settable  == (Locations \ {"path"}) \cup Inherited
           Strange == DOMAIN table \ EntryFields
           Flagged == {g \in {"flags"} : FlagsWrong(table)}
           Unnamed == {g \in {"path"} : Useless(table, g)}
           Unheld  == {g \in Settable \cap DOMAIN table : Wrong(table, g)}
           Context == IF Inherits(table, defaults, "context_size") = {}
                           /\ "context_size" \notin DOMAIN table
                      THEN {"context_size"} ELSE {}
           Uncosted == {g \in {"memory_estimate_mib"} : Inherits(table, defaults, g) = {}}
           AtFault      == {g \in DOMAIN table :
                          \/ g \notin EntryFields
                          \/ g # "flags" /\ Wrong(table, g)
                          \/ g = "flags" /\ FlagsWrong(table)}
           Pathless == {"path"} \ DOMAIN table
           Needed   == {g \in {"context_size", "memory_estimate_mib"} :
                          Useless(table, g) /\ Useless(defaults, g)}
<1>1. Said(Settled(table, scope, "context_size", Inherits(table, defaults, "context_size")))
        = Each(scope, Context)
  <2>1. Each(scope, {}) = {}
    BY DEF Each
  <2> QED
    BY <2>1, SaidOfNone, SaidOfOne DEF Settled
<1>2. Said(EntryFaults(scope, table, defaults))
        = (((Each(scope, Strange) \cup Each(scope, Flagged)) \cup Each(scope, Unnamed))
          \cup Each(scope, Unheld)) \cup Each(scope, Context)
  <2>1. EntryFaults(scope, table, defaults)
          = (((Unknown(table, scope, EntryFields) \cup FlagFaults(table, scope))
              \cup Required(table, scope, "path"))
              \cup Optional(table, scope, Settable))
            \cup Settled(table, scope, "context_size", Inherits(table, defaults, "context_size"))
    BY DEF EntryFaults
  <2>2. Said(Unknown(table, scope, EntryFields)) = Each(scope, Strange)
    BY SaidOfUnknown
  <2>3. Said(FlagFaults(table, scope)) = Each(scope, Flagged)
    BY SaidOfFlags
  <2>4. Said(Required(table, scope, "path")) = Each(scope, Unnamed)
    BY SaidOfRequired
  <2>5. Said(Optional(table, scope, Settable)) = Each(scope, Unheld)
    BY SaidOfOptional
  <2> HIDE DEF Settable, Strange, Flagged, Unnamed, Unheld, Context
  <2>6. PICK v, w, x, y, z :
            /\ v = Unknown(table, scope, EntryFields) /\ w = FlagFaults(table, scope)
            /\ x = Required(table, scope, "path") /\ y = Optional(table, scope, Settable)
            /\ z = Settled(table, scope, "context_size", Inherits(table, defaults, "context_size"))
    OBVIOUS
  <2>7. EntryFaults(scope, table, defaults) = (((v \cup w) \cup x) \cup y) \cup z
    BY <2>1, <2>6, Zenon
  <2>8. Said((((v \cup w) \cup x) \cup y) \cup z)
          = (((Said(v) \cup Said(w)) \cup Said(x)) \cup Said(y)) \cup Said(z)
    BY ONLY TRUE DEF Said
  <2> QED
    BY <1>1, <2>2, <2>3, <2>4, <2>5, <2>6, <2>7, <2>8, Zenon
<1>3. ((((Strange \cup Flagged) \cup Unnamed) \cup Unheld) \cup Context) \cup Uncosted
        = (AtFault \cup Pathless) \cup Needed
  <2>1. /\ "flags" \notin Settable /\ "path" \notin Settable /\ "path" # "flags"
        /\ {"context_size", "memory_estimate_mib"} \subseteq Settable
        /\ EntryFields = (Settable \cup {"flags"}) \cup {"path"}
    BY DEF EntryFields, DefaultFields, Locations, Inherited
  <2>2. FlagsWrong(table) => "flags" \in DOMAIN table
    BY DEF FlagsWrong
  <2>3. \A g : Useless(table, g) <=> g \notin DOMAIN table \/ Wrong(table, g)
    BY DEF Useless
  <2>4. \A g : Wrong(table, g) => g \in DOMAIN table
    BY DEF Wrong
  <2>5. \A g : Inherits(table, defaults, g) = {} <=> Useless(table, g) /\ Useless(defaults, g)
    BY InheritsIfUseful
  <2> HIDE DEF Settable
  <2> QED
    BY <2>1, <2>2, <2>3, <2>4, <2>5
<1>4. FaultsOf(table, scope, EntryFields) = Each(scope, AtFault)
  BY FaultsAreEach, Zenon
<1> HIDE DEF Strange, Flagged, Unnamed, Unheld, Context, Uncosted, AtFault, Pathless, Needed
<1>5. Each(scope, ((((Strange \cup Flagged) \cup Unnamed) \cup Unheld) \cup Context) \cup Uncosted)
        = ((((Each(scope, Strange) \cup Each(scope, Flagged)) \cup Each(scope, Unnamed))
            \cup Each(scope, Unheld)) \cup Each(scope, Context)) \cup Each(scope, Uncosted)
  BY DEF Each
<1>6. Each(scope, (AtFault \cup Pathless) \cup Needed)
        = (Each(scope, AtFault) \cup Each(scope, Pathless)) \cup Each(scope, Needed)
  BY EachOfThree
<1>7. /\ NoEstimate(table, defaults) = Uncosted
      /\ Unsupplied(table, defaults) = Needed
      /\ {"path"} \ DOMAIN table = Pathless
  BY DEF Uncosted, Needed, Pathless, NoEstimate, Unsupplied
<1> QED
  BY <1>2, <1>3, <1>4, <1>5, <1>6, <1>7, Zenon

-----------------------------------------------------------------------------
Costless(text, id) ==
    IF /\ Models(text)[id].is = "table"
       /\ Inherits(Models(text)[id].of, DefaultsTable(text), "memory_estimate_mib") = {}
    THEN {"memory_estimate_mib"} ELSE {}

LEMMA SaidOfModel ==
    ASSUME NEW text, NEW id
    PROVE  Said(ModelFaults(text, id)) \cup Each(Entry(id), Costless(text, id))
             = EntryFaultsOf(id, Models(text)[id], DefaultsTable(text))
<1>1. PICK value : value = Models(text)[id]
  OBVIOUS
<1>2. PICK defaults : defaults = DefaultsTable(text)
  OBVIOUS
<1>3. CASE value.is # "table"
  <2>1. Said({Problem(Entry(id), "", "must be a table")}) = Each(Entry(id), {""})
    BY SaidOfOne
  <2>2. Each(Entry(id), {""}) = {<<Entry(id), "">>} /\ Each(Entry(id), {}) = {}
    BY DEF Each
  <2>3. Said(ModelFaults(text, id)) = {<<Entry(id), "">>}
    BY <1>1, <1>3, <2>1, <2>2 DEF ModelFaults
  <2>4. Costless(text, id) = {}
    BY <1>1, <1>3 DEF Costless
  <2>5. EntryFaultsOf(id, value, defaults) = {<<Entry(id), "">>}
    BY <1>3 DEF EntryFaultsOf
  <2> QED
    BY <1>1, <1>2, <2>2, <2>3, <2>4, <2>5
<1>4. CASE value.is = "table"
  <2>1. ModelFaults(text, id) = EntryFaults(Entry(id), value.of, defaults)
    BY <1>1, <1>2, <1>4 DEF ModelFaults
  <2>2. Costless(text, id) = NoEstimate(value.of, defaults)
    BY <1>1, <1>2, <1>4 DEF Costless, NoEstimate
  <2>3. EntryFaultsOf(id, value, defaults)
          = FaultsOf(value.of, Entry(id), EntryFields)
            \cup Each(Entry(id), {"path"} \ DOMAIN value.of)
            \cup Each(Entry(id), Unsupplied(value.of, defaults))
    BY <1>4, Zenon DEF EntryFaultsOf, Each, Unsupplied
  <2>4. Said(EntryFaults(Entry(id), value.of, defaults))
          \cup Each(Entry(id), NoEstimate(value.of, defaults))
          = EntryFaultsOf(id, value, defaults)
    BY <2>3, SaidOfEntry
  <2> QED
    BY <1>1, <1>2, <2>1, <2>2, <2>4
<1> QED
  BY <1>3, <1>4

LEMMA SaidOfModels ==
    ASSUME NEW text, NEW ids
    PROVE  Said(UNION {ModelFaults(text, id) : id \in ids})
             \cup UNION {Each(Entry(id), Costless(text, id)) : id \in ids}
             = UNION {EntryFaultsOf(id, Models(text)[id], DefaultsTable(text)) : id \in ids}
<1>1. \A id \in ids : Said(ModelFaults(text, id)) \cup Each(Entry(id), Costless(text, id))
             = EntryFaultsOf(id, Models(text)[id], DefaultsTable(text))
  BY SaidOfModel
<1>2. ASSUME NEW x
      PROVE  x \in Said(UNION {ModelFaults(text, id) : id \in ids})
               <=> \E id \in ids : x \in Said(ModelFaults(text, id))
  BY DEF Said
<1>3. ASSUME NEW x
      PROVE  x \in UNION {Each(Entry(id), Costless(text, id)) : id \in ids}
               <=> \E id \in ids : x \in Each(Entry(id), Costless(text, id))
  OBVIOUS
<1>4. ASSUME NEW x
      PROVE  x \in UNION {EntryFaultsOf(id, Models(text)[id], DefaultsTable(text)) : id \in ids}
               <=> \E id \in ids : x \in EntryFaultsOf(id, Models(text)[id], DefaultsTable(text))
  OBVIOUS
<1> QED
  BY <1>1, <1>2, <1>3, <1>4

(* What is wrong with the text itself, and with no table in it. *)
LEMMA SaidOfText ==
    ASSUME NEW text
    PROVE  Said(Walked(text).problems)
             = Each(Text, {"version", "models"} \ DOMAIN text)
               \cup Each(Text, {g \in {"defaults", "models"} \cap DOMAIN text :
                                  text[g].is # "table"})
               \cup Each(Text, {g \in {"version"} : Wrong(text, g)})
               \cup FaultsOf(TableAt(text, "defaults"), Shared, DefaultFields)
               \cup Said(UNION {ModelFaults(text, id) : id \in DOMAIN Models(text)})
<1> DEFINE Version == Required(text, Text, "version")
           Shareds == DefaultsFaults(text)
           Table   == IF "models" \in DOMAIN text THEN TableFault(text, Text, "models")
                      ELSE {Problem(Text, "models", "is required")}
           Entries == UNION {ModelFaults(text, id) : id \in DOMAIN Models(text)}
           Useful  == {g \in {"version"} : Useless(text, g)}
           Shaped  == {g \in {"defaults"} \cap DOMAIN text : text[g].is # "table"}
           Listed  == {g \in {"models"} : g \in DOMAIN text => text[g].is # "table"}
           Absents == {"version", "models"} \ DOMAIN text
           Unshaped == {g \in {"defaults", "models"} \cap DOMAIN text : text[g].is # "table"}
           Wronged == {g \in {"version"} : Wrong(text, g)}
<1>1. Said(Walked(text).problems)
        = ((Said(Version) \cup Said(Shareds)) \cup Said(Table)) \cup Said(Entries)
  <2>1. Walked(text).problems = ((Version \cup Shareds) \cup Table) \cup Entries
    BY DEF Walked
  <2> HIDE DEF Version, Shareds, Table, Entries
  <2> QED
    BY <2>1, SaidOfFour
<1>2. Said(Version) = Each(Text, Useful)
  BY SaidOfRequired
<1>3. Said(Shareds) = Each(Text, Shaped)
                        \cup FaultsOf(TableAt(text, "defaults"), Shared, DefaultFields)
  BY SaidOfDefaults
<1>4. Said(Table) = Each(Text, Listed)
  <2>1. CASE "models" \in DOMAIN text
    <3>1. {g \in {"models"} \cap DOMAIN text : text[g].is # "table"} = Listed
      BY <2>1
    <3>2. Said(TableFault(text, Text, "models"))
            = Each(Text, {g \in {"models"} \cap DOMAIN text : text[g].is # "table"})
      BY SaidOfTable
    <3> QED
      BY <2>1, <3>1, <3>2
  <2>2. CASE "models" \notin DOMAIN text
    <3>1. Listed = {"models"}
      BY <2>2
    <3> QED
      BY <2>2, <3>1, SaidOfOne
  <2> QED
    BY <2>1, <2>2
<1>5. (Useful \cup Shaped) \cup Listed = (Absents \cup Unshaped) \cup Wronged
  BY DEF Useless, Wrong
<1>6. /\ Each(Text, (Useful \cup Shaped) \cup Listed)
           = (Each(Text, Useful) \cup Each(Text, Shaped)) \cup Each(Text, Listed)
      /\ Each(Text, (Absents \cup Unshaped) \cup Wronged)
           = (Each(Text, Absents) \cup Each(Text, Unshaped)) \cup Each(Text, Wronged)
  <2> HIDE DEF Useful, Shaped, Listed, Absents, Unshaped, Wronged
  <2> QED
    BY EachOfThree
<1> HIDE DEF Version, Shareds, Table, Entries, Useful, Shaped, Listed, Absents, Unshaped, Wronged
<1>7. (Each(Text, Useful) \cup Each(Text, Shaped)) \cup Each(Text, Listed)
        = (Each(Text, Absents) \cup Each(Text, Unshaped)) \cup Each(Text, Wronged)
  BY <1>5, <1>6
<1>8. \A U, S, L, A, F, E : (U \cup S) \cup L = A =>
          ((U \cup (S \cup F)) \cup L) \cup E = (A \cup F) \cup E
  BY Zenon
<1>9. Said(Walked(text).problems)
        = (((Each(Text, Absents) \cup Each(Text, Unshaped)) \cup Each(Text, Wronged))
           \cup FaultsOf(TableAt(text, "defaults"), Shared, DefaultFields))
          \cup Said(Entries)
  BY <1>1, <1>2, <1>3, <1>4, <1>7, <1>8
<1> QED
  BY <1>9 DEF Entries, Absents, Unshaped, Wronged

LEMMA EveryFaultOfText ==
    ASSUME NEW text
    PROVE  Said(Parse({text}).problems) = CatalogFaults(text)
<1>1. The({text}) = text
  BY DEF The
<1>2. Drafts({text}) = Walked(text)
  BY <1>1 DEF Drafts
<1> DEFINE ids == DOMAIN Models(text)
           Lost == {Problem(Entry(id), "memory_estimate_mib", "is supplied by nothing") :
                      id \in Walked(text).undeclared}
<1>3. Said(Parse({text}).problems) = Said(Walked(text).problems) \cup Said(Lost)
  <2>1. Parse({text}).problems = Walked(text).problems \cup Lost
    BY <1>2, Zenon DEF Parse
  <2> HIDE DEF Lost
  <2> QED
    BY <2>1, SaidTogether
<1>4. Said(Lost) = UNION {Each(Entry(id), Costless(text, id)) : id \in ids}
  <2>1. Walked(text).undeclared
          = {id \in ids : /\ Models(text)[id].is = "table"
                          /\ Inherits(Models(text)[id].of, DefaultsTable(text),
                                      "memory_estimate_mib") = {}}
    BY DEF Walked
  <2>2. ASSUME NEW x \in Said(Lost)
        PROVE  \E id \in ids : x \in Each(Entry(id), Costless(text, id))
    <3>1. PICK p \in Lost : x = <<p.scope, p.field>>
      BY DEF Said
    <3>2. PICK id \in Walked(text).undeclared :
              p = Problem(Entry(id), "memory_estimate_mib", "is supplied by nothing")
      BY <3>1
    <3>3. x = <<Entry(id), "memory_estimate_mib">>
      <4>1. p.scope = Entry(id) /\ p.field = "memory_estimate_mib"
        BY <3>2 DEF Problem
      <4> QED
        BY <3>1, <4>1
    <3>4. id \in ids /\ Costless(text, id) = {"memory_estimate_mib"}
      BY <2>1 DEF Costless
    <3> QED
      BY <3>3, <3>4 DEF Each
  <2>3. ASSUME NEW id \in ids, NEW x \in Each(Entry(id), Costless(text, id))
        PROVE  x \in Said(Lost)
    <3>1. PICK f \in Costless(text, id) : x = <<Entry(id), f>>
      BY DEF Each
    <3>2. id \in Walked(text).undeclared /\ f = "memory_estimate_mib"
      BY <2>1, <3>1 DEF Costless
    <3>3. PICK p \in Lost : p = Problem(Entry(id), "memory_estimate_mib", "is supplied by nothing")
      BY <3>2
    <3>4. p.scope = Entry(id) /\ p.field = f
      BY <3>2, <3>3 DEF Problem
    <3>5. x = <<p.scope, p.field>>
      BY <3>1, <3>4
    <3> HIDE DEF Lost
    <3> QED
      BY <3>3, <3>5 DEF Said
  <2> HIDE DEF Lost
  <2> QED
    BY <2>2, <2>3
<1> HIDE DEF Lost
<1>5. Said(UNION {ModelFaults(text, id) : id \in ids})
        \cup UNION {Each(Entry(id), Costless(text, id)) : id \in ids}
        = UNION {EntryFaultsOf(id, Models(text)[id], DefaultsTable(text)) : id \in ids}
  BY SaidOfModels
<1>6. CatalogFaults(text)
        = Each(Text, {"version", "models"} \ DOMAIN text)
          \cup Each(Text, {g \in {"defaults", "models"} \cap DOMAIN text :
                             text[g].is # "table"})
          \cup Each(Text, {g \in {"version"} : Wrong(text, g)})
          \cup FaultsOf(TableAt(text, "defaults"), Shared, DefaultFields)
          \cup UNION {EntryFaultsOf(id, Models(text)[id], DefaultsTable(text)) : id \in ids}
  BY Zenon DEF CatalogFaults, Each, Models, DefaultsTable
<1> QED
  BY <1>3, <1>4, <1>5, <1>6, SaidOfText

LEMMA DraftSays ==
    ASSUME NEW id, NEW table, NEW defaults, NEW e \in Draft(id, table, defaults)
    PROVE  /\ e.id = id
           /\ e.estimate = Inherits(table, defaults, "memory_estimate_mib")
           /\ e.path \in Held(table, "path")
           /\ e.context \in Inherits(table, defaults, "context_size")
<1>1. PICK path \in Held(table, "path"),
           context \in Inherits(table, defaults, "context_size") :
        e = Drafted(id, path, context, table, defaults)
  BY DEF Draft
<1> QED
  BY <1>1 DEF Drafted

LEMMA TextAloneIsEnough ==
    ASSUME NEW text, NEW root, NEW listing, Parse({text}).problems = {}
    PROVE  /\ Read({text}, root, listing).problems = {}
           /\ Read({text}, root, listing).declared = Parse({text}).entries
<1>1. Drafts({text}) = Walked(text)
  BY DEF Drafts, The
<1>2. Walked(text).problems = {} /\ Walked(text).undeclared = {}
  <2> DEFINE Lost == {Problem(Entry(id), "memory_estimate_mib", "is supplied by nothing") :
                        id \in Walked(text).undeclared}
  <2>1. Walked(text).problems \cup Lost = {}
    BY <1>1, Zenon DEF Parse
  <2> QED
    BY <2>1
<1>3. Parse({text}).entries = Walked(text).entries
  BY <1>1 DEF Parse
<1>4. ASSUME NEW e \in Walked(text).entries
      PROVE  e.estimate # {}
  <2> DEFINE tables == {id \in DOMAIN Models(text) : Models(text)[id].is = "table"}
  <2>1. Walked(text).entries
          = UNION {Draft(id, Models(text)[id].of, DefaultsTable(text)) : id \in tables}
    BY DEF Walked
  <2>2. PICK id \in tables : e \in Draft(id, Models(text)[id].of, DefaultsTable(text))
    BY <2>1
  <2>3. Walked(text).undeclared
          = {i \in tables : Inherits(Models(text)[i].of, DefaultsTable(text),
                                     "memory_estimate_mib") = {}}
    BY DEF Walked
  <2> QED
    BY <1>2, <2>2, <2>3, DraftSays
<1>5. \A e \in Walked(text).entries : Settle(root, e) = {e}
  BY <1>4 DEF Settle
<1> DEFINE entries == Walked(text).entries
           settled == UNION {Settle(root, e) : e \in entries}
           lost    == {e.id : e \in {f \in entries : Settle(root, f) = {}}}
           unsettled == {Problem(Entry(id), "memory_estimate_mib", "could not be derived") :
                           id \in lost}
<1>6. settled = entries /\ unsettled = {}
  <2> HIDE DEF entries
  <2>1. \A e \in entries : Settle(root, e) = {e}
    BY <1>5 DEF entries
  <2>2. lost = {}
    BY <2>1
  <2> HIDE DEF lost
  <2>3. settled = entries
    BY <2>1
  <2> QED
    BY <2>2, <2>3
<1>7. /\ Read({text}, root, listing).problems = Walked(text).problems \cup unsettled
      /\ Read({text}, root, listing).declared
           = IF Walked(text).problems \cup unsettled = {} THEN settled ELSE {}
  BY <1>1, Zenon DEF Read
<1> QED
  BY <1>2, <1>3, <1>6, <1>7

(* A catalog is asked about as its text, or as none that is one. *)
LEMMA TextsAreOnes ==
    ASSUME NEW texts \in CatalogTexts
    PROVE  texts = {} \/ \E text : texts = {text}
<1>1. CASE texts \in TextsOfEntries
  BY <1>1 DEF TextsOfEntries
<1>2. CASE texts \in TextsOfTables
  BY <1>2 DEF TextsOfTables
<1> QED
  BY <1>1, <1>2 DEF CatalogTexts

-----------------------------------------------------------------------------
(* A catalog asked about is one of those asked here, and so are a models   *)
(* root and what it is read against.                                       *)
ReadAsAsked ==
    /\ Asked("catalog") =>
         question.input \in CatalogTexts /\ answer \in {<<>>, <<Readings(question.input)>>}
    /\ Asked("discovery") =>
         question.input \in Discoveries /\ answer \in {<<>>, <<ReadAgainst(question.input)>>}

LEMMA ReadAsAskedIsInvariant == Spec => []ReadAsAsked
<1>1. Init => ReadAsAsked
  <2> SUFFICES ASSUME Init
               PROVE  ReadAsAsked
    OBVIOUS
  <2>1. answer = <<>>
    BY DEF Init
  <2>2. CASE \E texts \in CatalogTexts : question = Ask("catalog", texts)
    BY <2>1, <2>2 DEF ReadAsAsked, Asked, Ask
  <2>3. CASE \E sought \in Discoveries : question = Ask("discovery", sought)
    BY <2>1, <2>3 DEF ReadAsAsked, Asked, Ask
  <2>4. CASE \E about \in {"request", "estimate", "machine", "serve"} :
               \E input : question = Ask(about, input)
    <3>1. question.about \in {"request", "estimate", "machine", "serve"}
      BY <2>4 DEF Ask
    <3> QED
      BY <3>1 DEF ReadAsAsked, Asked
  <2>5. \/ \E texts \in CatalogTexts : question = Ask("catalog", texts)
        \/ \E sought \in Discoveries : question = Ask("discovery", sought)
        \/ \E about \in {"request", "estimate", "machine", "serve"} :
             \E input : question = Ask(about, input)
    BY DEF Init, AsksForAnEstimate, Estimated, AsksForDiscovery
  <2> QED
    BY <2>2, <2>3, <2>4, <2>5
<1>2. ReadAsAsked /\ [Next]_vars => ReadAsAsked'
  <2> SUFFICES ASSUME ReadAsAsked, [Next]_vars
               PROVE  ReadAsAsked'
    OBVIOUS
  <2>1. question' = question
    BY DEF Next, AnswerRequest, ReadCatalog, EstimateEntry, Discover, Configure,
           StartServing, Given, vars
  <2>2. ASSUME Asked("catalog")
        PROVE  /\ question.input \in CatalogTexts
               /\ answer' \in {<<>>, <<Readings(question.input)>>}
    <3>1. ReadCatalog \/ answer' = answer
      BY <2>2 DEF Next, AnswerRequest, EstimateEntry, Discover, Configure,
                  StartServing, Asked, vars
    <3> QED
      BY <2>2, <3>1 DEF ReadAsAsked, ReadCatalog, Given
  <2>3. ASSUME Asked("discovery")
        PROVE  /\ question.input \in Discoveries
               /\ answer' \in {<<>>, <<ReadAgainst(question.input)>>}
    <3>1. Discover \/ answer' = answer
      BY <2>3 DEF Next, AnswerRequest, ReadCatalog, EstimateEntry, Configure,
                  StartServing, Asked, vars
    <3> QED
      BY <2>3, <3>1 DEF ReadAsAsked, Discover, Given
  <2> QED
    BY <2>1, <2>2, <2>3 DEF ReadAsAsked, Asked
<1> QED
  BY <1>1, <1>2, PTL DEF Spec

(* Every fault a catalog has is said in one reading of it, and nothing     *)
(* else is; and what the text alone is accepted for, it is accepted for    *)
(* against a models root with nothing in it, and without one               *)
(* (catalog/read.rs, resolve.rs, check.rs).                                *)
THEOREM FaultsAreSaid == Spec => []EveryFaultIsSaid
<1>1. ReadAsAsked => EveryFaultIsSaid
  <2> SUFFICES ASSUME ReadAsAsked, Answered("catalog")
               PROVE  EveryFaultIsSaid
    BY DEF EveryFaultIsSaid
  <2>1. PICK texts : texts = question.input /\ texts \in CatalogTexts
    BY DEF ReadAsAsked, Answered
  <2>2. PICK reply : reply = answer[1] /\ reply = Readings(texts)
    BY <2>1 DEF ReadAsAsked, Answered
  <2>3. PICK read : read = Read(texts, NoTable, <<>>)
    OBVIOUS
  <2>4. /\ reply.parsed = Parse(texts) /\ reply.read = read
        /\ reply.checked[TRUE] = (read.problems = {})
        /\ reply.checked[FALSE] = (Parse(texts).problems = {})
    BY <2>2, <2>3 DEF Readings, Check
  <2>5. CASE texts = {}
    <3>1. Drafts(texts).problems = {Problem(Text, "", "is not TOML")}
          /\ Drafts(texts).undeclared = {}
      BY <2>5 DEF Drafts
    <3>2. Parse(texts).problems = {Problem(Text, "", "is not TOML")}
      <4>1. Parse(texts).problems
              = Drafts(texts).problems
                \cup {Problem(Entry(id), "memory_estimate_mib", "is supplied by nothing") :
                        id \in Drafts(texts).undeclared}
        BY Zenon DEF Parse
      <4> QED
        BY <3>1, <4>1
    <3>3. Said(Parse(texts).problems) = {<<Text, "">>}
      <4>1. Each(Text, {""}) = {<<Text, "">>}
        BY DEF Each
      <4> QED
        BY <3>2, <4>1, SaidOfOne
    <3> QED
      BY <2>1, <2>2, <2>4, <2>5, <3>2, <3>3, Zenon DEF EveryFaultIsSaid
  <2>6. CASE \E text : texts = {text}
    <3>1. PICK text : texts = {text}
      BY <2>6
    <3>2. texts # {} /\ The(texts) = text
      BY <3>1 DEF The
    <3>3. Said(Parse(texts).problems) = CatalogFaults(text)
      BY <3>1, EveryFaultOfText
    <3>4. Parse(texts).problems = {} =>
              read.problems = {} /\ read.declared = Parse(texts).entries
      BY <2>3, <3>1, TextAloneIsEnough
    <3> QED
      BY <2>1, <2>2, <2>4, <3>2, <3>3, <3>4, Zenon DEF EveryFaultIsSaid
  <2> QED
    BY <2>1, <2>5, <2>6, TextsAreOnes
<1> QED
  BY <1>1, ReadAsAskedIsInvariant, PTL

-----------------------------------------------------------------------------
(* What is at most one: a value, a draft, an estimate, an entry.          *)
AtMostOne(S) == \A a, b \in S : a = b

LEMMA HeldIsOne ==
    ASSUME NEW table, NEW field
    PROVE  AtMostOne(Held(table, field))
BY DEF Held, AtMostOne

LEMMA InheritedIsOne ==
    ASSUME NEW table, NEW defaults, NEW field
    PROVE  AtMostOne(Inherits(table, defaults, field))
BY HeldIsOne DEF Inherits, Or

LEMMA DraftIsOne ==
    ASSUME NEW id, NEW table, NEW defaults
    PROVE  AtMostOne(Draft(id, table, defaults))
<1> SUFFICES ASSUME NEW a \in Draft(id, table, defaults), NEW b \in Draft(id, table, defaults)
             PROVE  a = b
  BY DEF AtMostOne
<1>1. PICK path \in Held(table, "path"),
           context \in Inherits(table, defaults, "context_size") :
        a = Drafted(id, path, context, table, defaults)
  BY DEF Draft
<1>2. PICK otherPath \in Held(table, "path"),
           otherContext \in Inherits(table, defaults, "context_size") :
        b = Drafted(id, otherPath, otherContext, table, defaults)
  BY DEF Draft
<1>3. path = otherPath
  BY HeldIsOne DEF AtMostOne
<1>4. context = otherContext
  BY InheritedIsOne DEF AtMostOne
<1> QED
  BY <1>1, <1>2, <1>3, <1>4, Zenon

LEMMA DeriveIsOne ==
    ASSUME NEW root, NEW entry
    PROVE  /\ AtMostOne(Derive(root, entry))
           /\ entry.path \in DOMAIN root => Derive(root, entry) # {}
<1> DEFINE files == FileBytes(root, entry)
           own   == ModelCache(root, entry)
           none  == KeepsNoCache(entry.flags) \/ RunsOnProcessor(entry.flags)
           cache == (IF none THEN 0 ELSE The(own))
                    + (IF RunsOnProcessor(entry.flags) THEN 0 ELSE DraftCache(root, entry))
           byMetadata == {[mib   |-> RoundedUp(files + cache + (files * 5) \div 100
                                               + OverheadBytes),
                           basis |-> "metadata"]}
           bySize == {[mib   |-> RoundedUp(files + files \div 4 + OverheadBytes),
                       basis |-> "size"]}
<1>1. Derive(root, entry) = IF entry.path \notin DOMAIN root THEN {}
                            ELSE IF own # {} THEN byMetadata ELSE bySize
  BY Zenon DEF Derive
<1>2. AtMostOne(byMetadata) /\ AtMostOne(bySize) /\ byMetadata # {} /\ bySize # {}
  <2>1. \A x : AtMostOne({x}) /\ {x} # {}
    BY DEF AtMostOne
  <2> QED
    BY <2>1, Zenon
<1>3. AtMostOne({})
  BY DEF AtMostOne
<1> HIDE DEF byMetadata, bySize, own
<1> QED
  BY <1>1, <1>2, <1>3

LEMMA SettledKeeps ==
    ASSUME NEW id, NEW table, NEW defaults, NEW root, NEW e \in Draft(id, table, defaults)
    PROVE  /\ AtMostOne(Settle(root, e))
           /\ \A s \in Settle(root, e) : s.id = id
<1>1. CASE e.estimate # {}
  BY <1>1, DraftSays DEF Settle, AtMostOne
<1>2. CASE e.estimate = {}
  <2>1. Settle(root, e) = {[e EXCEPT !.estimate = {derived.mib}] : derived \in Derive(root, e)}
    BY <1>2 DEF Settle
  <2>2. PICK path, context : e = Drafted(id, path, context, table, defaults)
    BY DEF Draft
  <2>3. \A estimate : [e EXCEPT !.estimate = estimate].id = id
    BY <2>2 DEF Drafted
  <2>4. \A a, b \in Derive(root, e) : a = b
    BY DeriveIsOne DEF AtMostOne
  <2> QED
    BY <2>1, <2>3, <2>4 DEF AtMostOne
<1> QED
  BY <1>1, <1>2

(* No two entries of a text answer to one identifier. *)
Declared(text, root) == UNION {Settle(root, e) : e \in Walked(text).entries}

LEMMA DeclaredAreApart ==
    ASSUME NEW text, NEW root, NEW a \in Declared(text, root), NEW b \in Declared(text, root),
           a.id = b.id
    PROVE  a = b
<1> DEFINE tables == {id \in DOMAIN Models(text) : Models(text)[id].is = "table"}
<1>1. Walked(text).entries
        = UNION {Draft(id, Models(text)[id].of, DefaultsTable(text)) : id \in tables}
  BY DEF Walked
<1>2. \A s \in Declared(text, root) : \E id \in tables :
          \E e \in Draft(id, Models(text)[id].of, DefaultsTable(text)) : s \in Settle(root, e)
  BY <1>1 DEF Declared
<1>3. PICK i \in tables : \E e \in Draft(i, Models(text)[i].of, DefaultsTable(text)) :
                              a \in Settle(root, e)
  BY <1>2
<1>4. PICK j \in tables : \E e \in Draft(j, Models(text)[j].of, DefaultsTable(text)) :
                              b \in Settle(root, e)
  BY <1>2
<1>5. PICK e \in Draft(i, Models(text)[i].of, DefaultsTable(text)) : a \in Settle(root, e)
  BY <1>3
<1>6. PICK f \in Draft(j, Models(text)[j].of, DefaultsTable(text)) : b \in Settle(root, f)
  BY <1>4
<1>7. a.id = i /\ b.id = j
  BY <1>5, <1>6, SettledKeeps
<1>8. e = f
  <2>1. i = j
    BY <1>7
  <2>2. AtMostOne(Draft(i, Models(text)[i].of, DefaultsTable(text)))
    BY DraftIsOne
  <2> QED
    BY <2>1, <2>2 DEF AtMostOne
<1> QED
  BY <1>5, <1>6, <1>8, SettledKeeps DEF AtMostOne

(* A file that is there becomes one entry, under the name it is given.     *)
ContextFor(defaults, trained) ==
    Smaller(The(Or(Or(Held(defaults, "context_size"), trained), {FallbackContext})),
            The(Or(trained, {MaxCount})))

IsMadeOf(e, root, path, id, defaults) ==
    /\ Discovered(root, path, id, defaults) = {e}
    /\ e.id = id /\ e.path = path
    /\ e.context = ContextFor(defaults, TrainedFor(root, path))

LEMMA DiscoveredIsOne ==
    ASSUME NEW root, NEW path \in DOMAIN root, NEW id, NEW defaults
    PROVE  \E e : IsMadeOf(e, root, path, id, defaults)
<1> DEFINE trained == TrainedFor(root, path)
           wanted  == The(Or(Or(Held(defaults, "context_size"), trained), {FallbackContext}))
<1>1. PICK context : context = Smaller(wanted, The(Or(trained, {MaxCount})))
  OBVIOUS
<1>2. PICK entry :
        entry = [id |-> id, path |-> path, draft |-> {}, projector |-> {},
                 context   |-> Smaller(wanted, The(Or(trained, {MaxCount}))),
                 estimate  |-> {}, residency |-> "on-demand", runtime |-> {},
                 timeout   |-> The(Or(Held(defaults, "startup_timeout_seconds"),
                                      {StartupTimeout})),
                 effort    |-> Held(defaults, "reasoning_effort"),
                 format    |-> Held(defaults, "reasoning_format"),
                 flags     |-> Flags(defaults)]
  OBVIOUS
<1>3. Discovered(root, path, id, defaults)
        = {[entry EXCEPT !.estimate = {derived.mib}] : derived \in Derive(root, entry)}
  BY <1>2, Zenon DEF Discovered
<1>4. \A estimate : /\ [entry EXCEPT !.estimate = estimate].id = id
                    /\ [entry EXCEPT !.estimate = estimate].path = path
                    /\ [entry EXCEPT !.estimate = estimate].context = context
  <2> HIDE DEF wanted, trained
  <2> QED
    BY <1>1, <1>2
<1>5. entry.path = path
  <2> HIDE DEF wanted, trained
  <2> QED
    BY <1>2
<1>6. PICK derived : Derive(root, entry) = {derived}
  <2>1. Derive(root, entry) # {} /\ \A a, b \in Derive(root, entry) : a = b
    BY <1>5, DeriveIsOne DEF AtMostOne
  <2> QED
    BY <2>1
<1>7. Discovered(root, path, id, defaults) = {[entry EXCEPT !.estimate = {derived.mib}]}
  BY <1>3, <1>6
<1>8. PICK e : e = [entry EXCEPT !.estimate = {derived.mib}]
  OBVIOUS
<1>9. Discovered(root, path, id, defaults) = {e}
  BY <1>7, <1>8
<1>10. e.id = id /\ e.path = path /\ e.context = context
  BY <1>4, <1>8
<1> HIDE DEF wanted, trained
<1>11. context = Smaller(wanted, The(Or(trained, {MaxCount})))
  BY <1>1
<1> USE DEF wanted, trained
<1>12. context = ContextFor(defaults, TrainedFor(root, path))
  BY <1>11, Zenon DEF ContextFor
<1> HIDE DEF wanted, trained
<1> QED
  BY <1>9, <1>10, <1>12 DEF IsMadeOf

-----------------------------------------------------------------------------
(* The files below a root, taken one at a time. *)
TakenBelow(s, start, root, entries, defaults) ==
    FoldLeft(LAMBDA found, path : TakeFile(found, path, root, entries, defaults), start, s)

(* The fold of the files, as the equation it satisfies.                    *)
FindingAll(g, s, start, root, entries, defaults) ==
    g = [t \in SUBSET DOMAIN s |->
            IF t = {} THEN start
            ELSE TakeFile(g[t \ {Max(t)}], s[Max(t)], root, entries, defaults)]

LEMMA FoundIsChosen ==
    ASSUME NEW s, NEW Start, NEW root, NEW entries, NEW defaults
    PROVE  TakenBelow(s, Start, root, entries, defaults)
             = (CHOOSE g : FindingAll(g, s, Start, root, entries, defaults))[DOMAIN s]
BY Zenon DEF TakenBelow, FoldLeft, MapThenFoldSet, FindingAll

IsTaking(r, n, s, start, root, entries, defaults) ==
    /\ r[0] = start
    /\ \A i \in 1..n : r[i] = TakeFile(r[i - 1], s[i], root, entries, defaults)
    /\ TakenBelow(s, start, root, entries, defaults) = r[n]

LEMMA FilesAreTaken ==
    ASSUME NEW n \in Nat, NEW s, DOMAIN s = 1..n, NEW D, NEW Start \in D,
           NEW root, NEW entries, NEW defaults,
           \A i \in 1..n, b \in D : TakeFile(b, s[i], root, entries, defaults) \in D
    PROVE  \E r : IsTaking(r, n, s, Start, root, entries, defaults)
<1> DEFINE Sets == SUBSET (1..n)
<1>1. \E g : FindingAll(g, s, Start, root, entries, defaults)
  <2> DEFINE Step == [iv \in (1..n) \X D |-> TakeFile(iv[2], s[iv[1]], root, entries, defaults)]
  <2>1. Step \in [(1..n) \X D -> D]
    OBVIOUS
  <2>2. Start \in D
    OBVIOUS
  <2>3. PICK g \in [Sets -> D] : Folding(g, Start, Step, n)
    <3> HIDE DEF Step
    <3> QED
      BY <2>1, <2>2, FoldingExists
  <2>4. ASSUME NEW t \in Sets, t # {}
        PROVE  Step[Max(t), g[t \ {Max(t)}]]
                 = TakeFile(g[t \ {Max(t)}], s[Max(t)], root, entries, defaults)
    <3>1. Max(t) \in 1..n
      BY <2>4, LargestIndex
    <3>2. g[t \ {Max(t)}] \in D
      BY <2>3
    <3>3. <<Max(t), g[t \ {Max(t)}]>> \in (1..n) \X D
      BY <3>1, <3>2
    <3> QED
      BY <3>3
  <2> HIDE DEF Step
  <2>5. \A t \in Sets : (IF t = {} THEN Start ELSE Step[Max(t), g[t \ {Max(t)}]])
                        = IF t = {} THEN Start
                          ELSE TakeFile(g[t \ {Max(t)}], s[Max(t)], root, entries, defaults)
    BY <2>4, Zenon
  <2>6. FindingAll(g, s, Start, root, entries, defaults)
    BY <2>3, <2>5, Zenon DEF Folding, FindingAll
  <2> QED
    BY <2>6
<1>2. PICK g : FindingAll(g, s, Start, root, entries, defaults)
             /\ TakenBelow(s, Start, root, entries, defaults) = g[1..n]
  BY <1>1, FoundIsChosen, Zenon
<1>3. g[1..0] = Start
  <2>1. 1..0 = {} /\ {} \in Sets
    OBVIOUS
  <2>2. g[{}] = Start
    BY <1>2, <2>1 DEF FindingAll
  <2> QED
    BY <2>1, <2>2
<1>4. ASSUME NEW i \in 1..n
      PROVE  g[1..i] = TakeFile(g[1..(i - 1)], s[i], root, entries, defaults)
  <2>1. g[1..i] = TakeFile(g[(1..i) \ {Max(1..i)}], s[Max(1..i)], root, entries, defaults)
    BY <1>2, WholeRanges, Zenon DEF FindingAll
  <2> QED
    BY <2>1, WholeRanges
<1> DEFINE r == [i \in 0..n |-> g[1..i]]
<1>5. r[0] = Start /\ r[n] = g[1..n]
  <2>1. 0 \in 0..n /\ n \in 0..n
    OBVIOUS
  <2> QED
    BY <1>3, <2>1, Zenon
<1>6. \A i \in 1..n : r[i] = TakeFile(r[i - 1], s[i], root, entries, defaults)
  <2> TAKE i \in 1..n
  <2>1. i \in 0..n /\ i - 1 \in 0..n
    OBVIOUS
  <2> QED
    BY <1>4, <2>1
<1> QED
  <2> HIDE DEF r
  <2> QED
    BY <1>2, <1>5, <1>6 DEF IsTaking

-----------------------------------------------------------------------------
(* The pairs of a file, read one at a time. *)
(* The fold of the pairs of a file, as the equation it satisfies.             *)
ReadingAll(g, s) ==
    g = [t \in SUBSET DOMAIN s |->
            IF t = {} THEN Blank ELSE TakePair(g[t \ {Max(t)}], s[Max(t)])]

LEMMA MetadataIsChosen ==
    ASSUME NEW s
    PROVE  FoldLeft(TakePair, Blank, s) = (CHOOSE g : ReadingAll(g, s))[DOMAIN s]
BY Zenon DEF FoldLeft, MapThenFoldSet, ReadingAll

LEMMA PairsAreRead ==
    ASSUME NEW n \in Nat, NEW s, DOMAIN s = 1..n, NEW D, Blank \in D,
           \A i \in 1..n, b \in D : TakePair(b, s[i]) \in D
    PROVE  \E r : /\ r[0] = Blank
                  /\ \A i \in 1..n : r[i] = TakePair(r[i - 1], s[i])
                  /\ FoldLeft(TakePair, Blank, s) = r[n]
<1> DEFINE Sets == SUBSET (1..n)
<1>1. \E g : ReadingAll(g, s)
  <2> DEFINE Step == [iv \in (1..n) \X D |-> TakePair(iv[2], s[iv[1]])]
  <2>1. Step \in [(1..n) \X D -> D]
    OBVIOUS
  <2>2. Blank \in D
    OBVIOUS
  <2>3. PICK g \in [Sets -> D] : Folding(g, Blank, Step, n)
    <3> HIDE DEF Step
    <3> QED
      BY <2>1, <2>2, FoldingExists
  <2>4. ASSUME NEW t \in Sets, t # {}
        PROVE  Step[Max(t), g[t \ {Max(t)}]] = TakePair(g[t \ {Max(t)}], s[Max(t)])
    <3>1. Max(t) \in 1..n
      BY <2>4, LargestIndex
    <3>2. g[t \ {Max(t)}] \in D
      BY <2>3
    <3>3. <<Max(t), g[t \ {Max(t)}]>> \in (1..n) \X D
      BY <3>1, <3>2
    <3> QED
      BY <3>3
  <2> HIDE DEF Step
  <2>5. \A t \in Sets : (IF t = {} THEN Blank ELSE Step[Max(t), g[t \ {Max(t)}]])
                        = IF t = {} THEN Blank ELSE TakePair(g[t \ {Max(t)}], s[Max(t)])
    BY <2>4, Zenon
  <2>6. ReadingAll(g, s)
    BY <2>3, <2>5, Zenon DEF Folding, ReadingAll
  <2> QED
    BY <2>6
<1>2. PICK g : ReadingAll(g, s) /\ FoldLeft(TakePair, Blank, s) = g[1..n]
  BY <1>1, MetadataIsChosen, Zenon
<1>3. g[1..0] = Blank
  <2>1. 1..0 = {} /\ {} \in Sets
    OBVIOUS
  <2>2. g[{}] = Blank
    BY <1>2, <2>1 DEF ReadingAll
  <2> QED
    BY <2>1, <2>2
<1>4. ASSUME NEW i \in 1..n
      PROVE  g[1..i] = TakePair(g[1..(i - 1)], s[i])
  <2>1. g[1..i] = TakePair(g[(1..i) \ {Max(1..i)}], s[Max(1..i)])
    BY <1>2, WholeRanges, Zenon DEF ReadingAll
  <2> QED
    BY <2>1, WholeRanges
<1> DEFINE r == [i \in 0..n |-> g[1..i]]
<1>5. r[0] = Blank /\ r[n] = g[1..n]
  <2>1. 0 \in 0..n /\ n \in 0..n
    OBVIOUS
  <2> QED
    BY <1>3, <2>1, Zenon
<1>6. \A i \in 1..n : r[i] = TakePair(r[i - 1], s[i])
  <2> TAKE i \in 1..n
  <2>1. i \in 0..n /\ i - 1 \in 0..n
    OBVIOUS
  <2> QED
    BY <1>4, <2>1
<1> QED
  BY <1>2, <1>5, <1>6

(* A file that says its architecture and the context it was made for, and  *)
(* what is made of it.                                                     *)
Key     == <<"llama", "context_length">>
Sixteen == KeptUnder(NoTable, Key, 16)
Saying  == <<Pair("general", "architecture", "text", "llama"),
             Pair("llama", "context_length", "number", 16)>>
AsRead(architecture, numbers) ==
    [readable |-> TRUE, architecture |-> architecture, numbers |-> numbers, layers |-> NoTable]

LEMMA KeptIsKept ==
    /\ DOMAIN NoTable = {}
    /\ DOMAIN Sixteen = {Key} /\ Sixteen[Key] = 16
    /\ KeptUnder(Sixteen, Key, 16) = Sixteen
<1>1. DOMAIN NoTable = {}
  BY DEF NoTable
<1>2. PICK k : k = Key
  OBVIOUS
<1>3. DOMAIN Sixteen = {k} /\ Sixteen[k] = 16 /\ Sixteen = [x \in {k} |-> 16]
  <2>1. Sixteen = [x \in {k} |-> IF x = k THEN 16 ELSE NoTable[x]]
    BY <1>1, <1>2 DEF Sixteen, KeptUnder
  <2> QED
    BY <2>1
<1>4. KeptUnder(Sixteen, k, 16) = [x \in {k} |-> 16]
  BY <1>3 DEF KeptUnder
<1> QED
  BY <1>1, <1>2, <1>3, <1>4

LEMMA OnePairOfTwo ==
    ASSUME NEW a, NEW n \in {NoTable, Sixteen}
    PROVE  /\ TakePair(AsRead(a, n), Saying[1]) = AsRead("llama", n)
           /\ TakePair(AsRead(a, n), Saying[2]) = AsRead(a, Sixteen)
<1> DEFINE b == AsRead(a, n)
<1>1. b.readable = TRUE /\ b.numbers = n
  BY DEF AsRead
<1>2. /\ Saying[1].kind = "text" /\ Saying[1].key = <<"general", "architecture">>
      /\ Saying[1].of = "llama"
      /\ Saying[2].kind = "number" /\ Saying[2].key = Key /\ Saying[2].of = 16
  BY DEF Saying, Pair, Key
<1>3. /\ [b EXCEPT !.architecture = "llama"] = AsRead("llama", n)
      /\ [b EXCEPT !.numbers = Sixteen] = AsRead(a, Sixteen)
  <2>1. PICK numbers : numbers = n
    OBVIOUS
  <2>2. PICK sixteen : sixteen = Sixteen
    OBVIOUS
  <2>3. AsRead(a, numbers)
          = [readable |-> TRUE, architecture |-> a, numbers |-> numbers, layers |-> NoTable]
    BY DEF AsRead
  <2>4. PICK none : none = NoTable
    OBVIOUS
  <2>5. ASSUME NEW yes, NEW x, NEW y
        PROVE  /\ [[readable |-> yes, architecture |-> a, numbers |-> numbers,
                    layers |-> none] EXCEPT !.architecture = x]
                    = [readable |-> yes, architecture |-> x, numbers |-> numbers,
                       layers |-> none]
               /\ [[readable |-> yes, architecture |-> a, numbers |-> numbers,
                    layers |-> none] EXCEPT !.numbers = y]
                    = [readable |-> yes, architecture |-> a, numbers |-> y,
                       layers |-> none]
    BY ONLY TRUE
  <2> QED
    BY <2>1, <2>2, <2>4, <2>5, ZenonT(60) DEF AsRead
<1>4. TakePair(b, Saying[1]) = [b EXCEPT !.architecture = "llama"]
  <2> HIDE DEF b
  <2>1. PICK pair : pair = Saying[1]
    OBVIOUS
  <2> QED
    BY <1>1, <1>2, <2>1 DEF TakePair
<1>5. TakePair(b, Saying[2]) = [b EXCEPT !.numbers = KeptUnder(@, Key, 16)]
  <2> HIDE DEF b
  <2>1. PICK pair : pair = Saying[2]
    OBVIOUS
  <2>2. pair.key[1] # "tokenizer"
    BY <1>2, <2>1 DEF Key
  <2>3. PICK kind : kind = pair.kind
    OBVIOUS
  <2>4. kind = "number"
    BY <1>2, <2>1, <2>3
  <2>5. pair.of >= 0 /\ pair.key = Key /\ pair.of = 16
    BY <1>2, <2>1
  <2> QED
    BY <1>1, <2>1, <2>2, <2>3, <2>4, <2>5 DEF TakePair
<1>6. KeptUnder(n, Key, 16) = Sixteen
  BY KeptIsKept DEF Sixteen
<1> QED
  <2> HIDE DEF b
  <2>1. TakePair(b, Saying[1]) = AsRead("llama", n)
    BY <1>3, <1>4
  <2>2. TakePair(b, Saying[2]) = AsRead(a, Sixteen)
    BY <1>1, <1>3, <1>5, <1>6
  <2> USE DEF b
  <2> QED
    BY <2>1, <2>2

LEMMA SaidIsRead == FoldLeft(TakePair, Blank, Saying) = AsRead("llama", Sixteen)
<1>1. Blank = AsRead("", NoTable)
  BY DEF Blank, AsRead
<1> DEFINE made == {AsRead("", NoTable), AsRead("llama", NoTable),
                   AsRead("", Sixteen), AsRead("llama", Sixteen)}
<1>2. /\ \A b \in made : \E a \in {"", "llama"}, n \in {NoTable, Sixteen} : b = AsRead(a, n)
      /\ \A a \in {"", "llama"}, n \in {NoTable, Sixteen} : AsRead(a, n) \in made
  BY Zenon
<1> HIDE DEF made
<1>3. \A i \in 1..2, b \in made : TakePair(b, Saying[i]) \in made
  <2> SUFFICES ASSUME NEW b \in made
               PROVE  TakePair(b, Saying[1]) \in made /\ TakePair(b, Saying[2]) \in made
    <3>1. \A i \in 1..2 : i = 1 \/ i = 2
      BY ONLY TRUE
    <3> QED
      BY <3>1, Zenon
  <2>1. PICK a \in {"", "llama"}, n \in {NoTable, Sixteen} : b = AsRead(a, n)
    BY <1>2, Zenon
  <2>2. /\ TakePair(b, Saying[1]) = AsRead("llama", n)
        /\ TakePair(b, Saying[2]) = AsRead(a, Sixteen)
    BY <2>1, OnePairOfTwo, Zenon
  <2>3. "llama" \in {"", "llama"} /\ Sixteen \in {NoTable, Sixteen}
    OBVIOUS
  <2>4. AsRead("llama", n) \in made /\ AsRead(a, Sixteen) \in made
    BY <1>2, <2>3, Zenon
  <2> QED
    BY <2>2, <2>4, Zenon
<1>4. DOMAIN Saying = 1..2
  BY DEF Saying
<1>5. PICK r : /\ r[0] = Blank
               /\ \A i \in 1..2 : r[i] = TakePair(r[i - 1], Saying[i])
               /\ FoldLeft(TakePair, Blank, Saying) = r[2]
  <2>1. Blank \in made
    <3>1. "" \in {"", "llama"} /\ NoTable \in {NoTable, Sixteen}
      OBVIOUS
    <3> QED
      BY <1>1, <1>2, <3>1, Zenon
  <2>2. 2 \in Nat
    OBVIOUS
  <2> QED
    BY <1>3, <1>4, <2>1, <2>2, PairsAreRead
<1>6. r[1] = TakePair(AsRead("", NoTable), Saying[1])
  <2>1. r[1] = TakePair(r[0], Saying[1])
    <3>1. 1 \in 1..2 /\ 1 - 1 = 0
      OBVIOUS
    <3> QED
      BY <1>5, <3>1
  <2> QED
    BY <1>1, <1>5, <2>1
<1>7. r[1] = AsRead("llama", NoTable)
  BY <1>6, OnePairOfTwo
<1>8. r[2] = TakePair(AsRead("llama", NoTable), Saying[2])
  BY <1>5, <1>7
<1> QED
  BY <1>5, <1>8, OnePairOfTwo

(* Every file of the roots asked about was made for sixteen tokens.        *)
LEMMA FilesSaySixteen ==
    ASSUME NEW listing, NEW path \in Range(listing)
    PROVE  /\ DOMAIN RootOf(listing) = Range(listing)
           /\ TrainedFor(RootOf(listing), path) = {16} \cap 1..MaxCount
<1>1. DOMAIN RootOf(listing) = Range(listing) /\ RootOf(listing)[path] = FileOf(10, Saying)
  BY DEF RootOf, Saying
<1>2. PICK file : file = FileOf(10, Saying)
  OBVIOUS
<1>3. file.magic = TRUE /\ file.version = 3 /\ file.pairs = Saying
  BY <1>2 DEF FileOf
<1>4. Len(Saying) = 2
  BY DEF Saying
<1>5. ~(Len(Saying) > MaxPairs)
  BY <1>4, FilesAssumption
<1>6. PICK root : root = RootOf(listing)
  OBVIOUS
<1>7. Metadata(root, path) = FoldLeft(TakePair, Blank, file.pairs)
  <2>1. path \in DOMAIN root /\ root[path] = file
    BY <1>1, <1>2, <1>6
  <2>2. ~(~file.magic \/ file.version \notin 2..3 \/ Len(file.pairs) > MaxPairs)
    BY <1>3, <1>5
  <2> QED
    BY <2>1, <2>2, Zenon DEF Metadata
<1>8. Metadata(root, path) = AsRead("llama", Sixteen)
  BY <1>3, <1>7, SaidIsRead
<1>9. PICK metadata : metadata = Metadata(root, path)
  OBVIOUS
<1>10. metadata.architecture = "llama" /\ metadata.numbers = Sixteen
  BY <1>8, <1>9 DEF AsRead
<1>11. OfModel(metadata, "context_length") = {16}
  BY <1>10, KeptIsKept DEF OfModel, Number, Key
<1> QED
  BY <1>1, <1>6, <1>9, <1>11 DEF TrainedFor

-----------------------------------------------------------------------------
(* One file below a root: the name it takes, and what stays so of those    *)
(* that were taken before it.                                              *)
BothNames(path) == {Sanitised(path.words), Parent(path) \o Sanitised(path.words)}

LEMMA NameIsSome ==
    ASSUME NEW S, NEW words \in Seq(S)
    PROVE  /\ Sanitised(words) = <<>> <=> words = <<>>
           /\ <<>> \o Sanitised(words) = Sanitised(words)
<1>1. PICK name : name = Sanitised(words)
  OBVIOUS
<1>2. PICK lowered : lowered = Lowered
  OBVIOUS
<1> DEFINE All == S \cup {lowered[w] : w \in DOMAIN lowered}
<1>3. name \in Seq(All) /\ Len(name) = Len(words)
  <2>1. name = [i \in 1..Len(words) |-> IF words[i] \in DOMAIN lowered
                                        THEN lowered[words[i]] ELSE words[i]]
    BY <1>1, <1>2 DEF Sanitised
  <2>2. \A i \in 1..Len(words) : words[i] \in S
    OBVIOUS
  <2> QED
    BY <2>1, <2>2
<1> HIDE DEF All
<1>4. name = <<>> <=> Len(name) = 0
  BY <1>3
<1>5. words = <<>> <=> Len(words) = 0
  OBVIOUS
<1>6. <<>> \o name = name
  BY <1>3
<1> QED
  BY <1>1, <1>3, <1>4, <1>5, <1>6

IsNamed(path, taken) ==
    \/ \E id \in BothNames(path) \ taken : Identifier(path, taken) = {id}
    \/ Identifier(path, taken) = {} /\ BothNames(path) \subseteq taken

LEMMA IdentifierIs ==
    ASSUME NEW S, NEW path, NEW taken, path.words \in Seq(S)
    PROVE  /\ path.words = <<>> => Identifier(path, taken) = {}
           /\ path.words # <<>> => IsNamed(path, taken)
<1>1. PICK wanted : wanted = Sanitised(path.words)
  OBVIOUS
<1>2. PICK parent : parent = Parent(path)
  OBVIOUS
<1>3. PICK second : second = parent \o wanted
  OBVIOUS
<1>4. BothNames(path) = {wanted, second}
  BY <1>1, <1>2, <1>3 DEF BothNames
<1>5. Identifier(path, taken)
        = IF wanted = <<>> THEN {}
          ELSE IF wanted \notin taken THEN {wanted}
          ELSE IF parent = <<>> \/ second \in taken THEN {} ELSE {second}
  BY <1>1, <1>2, <1>3, Zenon DEF Identifier
<1>6. wanted = <<>> <=> path.words = <<>>
  BY <1>1, NameIsSome
<1>7. parent = <<>> => second = wanted
  BY <1>1, <1>3, NameIsSome
<1> QED
  BY <1>4, <1>5, <1>6, <1>7 DEF IsNamed

LEMMA ContextIsBounded ==
    ASSUME NEW defaults, NEW trained, trained = {16} \cap 1..MaxCount
    PROVE  ContextFor(defaults, trained) \in 1..16
<1>1. \A c \in Held(defaults, "context_size") : c \in 1..MaxCount
  <2> SUFFICES ASSUME NEW c \in Held(defaults, "context_size")
               PROVE  c \in 1..MaxCount
    OBVIOUS
  <2>1. /\ Converts("context_size", defaults["context_size"])
        /\ c = defaults["context_size"].of
    BY DEF Held
  <2>2. \A value : Converts("context_size", value) => value.of \in 1..MaxCount
    BY DEF Converts, Counted, Locations
  <2> QED
    BY <2>1, <2>2
<1>2. PICK wanted : wanted = Or(Or(Held(defaults, "context_size"), trained), {FallbackContext})
  OBVIOUS
<1>3. wanted # {} /\ wanted \subseteq 1..MaxCount
  BY <1>1, <1>2, FilesAssumption DEF Or
<1>4. The(wanted) \in 1..MaxCount
  BY <1>3 DEF The
<1>5. PICK most : most = Or(trained, {MaxCount})
  OBVIOUS
<1>6. \/ most = {16} /\ 16 <= MaxCount
      \/ most = {MaxCount} /\ MaxCount < 16
  <2>1. CASE 16 <= MaxCount
    <3>1. trained = {16}
      BY <2>1, CountsAssumption
    <3> QED
      BY <1>5, <2>1, <3>1 DEF Or
  <2>2. CASE MaxCount < 16
    <3>1. trained = {}
      BY <2>2, CountsAssumption
    <3> QED
      BY <1>5, <2>2, <3>1 DEF Or
  <2> QED
    BY <2>1, <2>2, CountsAssumption
<1>7. The(most) \in 1..16 /\ (The(most) = 16 \/ The(most) = MaxCount)
  BY <1>6, CountsAssumption DEF The
<1> QED
  <2>1. ContextFor(defaults, trained) = Smaller(The(wanted), The(most))
    BY <1>2, <1>5, Zenon DEF ContextFor
  <2> QED
    BY <1>4, <1>7, <2>1, CountsAssumption DEF Smaller

LEMMA FileBecomes ==
    ASSUME NEW root, NEW path \in DOMAIN root, NEW id, NEW defaults,
           TrainedFor(root, path) = {16} \cap 1..MaxCount
    PROVE  \E e : IsMadeOf(e, root, path, id, defaults) /\ e.context \in 1..16
<1>1. PICK e : IsMadeOf(e, root, path, id, defaults)
  BY DiscoveredIsOne
<1>2. PICK trained : trained = TrainedFor(root, path)
  OBVIOUS
<1>3. trained = {16} \cap 1..MaxCount
  BY <1>2
<1>4. ContextFor(defaults, trained) \in 1..16
  BY <1>3, ContextIsBounded
<1> QED
  BY <1>1, <1>2, <1>4 DEF IsMadeOf

Unclaimed(path, entries) ==
    IsReached(path) /\ path \notin Referenced(entries) /\ path.anchor = "none"

(* What the loop over the files keeps true of what it has found.           *)
TakenOnce(found, files, entries, base) ==
    /\ found.taken = base \cup {e.id : e \in found.entries}
    /\ \A e \in found.entries :
          /\ e.id \notin base
          /\ e.path \in files /\ Unclaimed(e.path, entries) /\ e.path.words # <<>>
          /\ e.context \in 1..16
    /\ \A e, other \in found.entries : e.id = other.id \/ e.path = other.path => e = other
    /\ \A path \in files :
          Unclaimed(path, entries) /\ path.words # <<>> =>
             \/ \E e \in found.entries : e.path = path
             \/ BothNames(path) \subseteq found.taken

LEMMA OneFileMore ==
    ASSUME NEW root, NEW entries, NEW defaults, NEW base, NEW found, NEW files,
           NEW S, NEW path \in DOMAIN root, path \notin files, path.words \in Seq(S),
           TrainedFor(root, path) = {16} \cap 1..MaxCount,
           TakenOnce(found, files, entries, base)
    PROVE  TakenOnce(TakeFile(found, path, root, entries, defaults), files \cup {path},
                     entries, base)
<1> DEFINE next == TakeFile(found, path, root, entries, defaults)
           ids  == Identifier(path, found.taken)
<1>1. CASE ~Unclaimed(path, entries)
  <2>1. next = found
    BY <1>1 DEF TakeFile, Unclaimed
  <2> HIDE DEF next
  <2>2. TakenOnce(found, files \cup {path}, entries, base)
    BY <1>1 DEF TakenOnce
  <2> QED
    BY <2>1, <2>2 DEF next
<1>2. CASE Unclaimed(path, entries)
  <2>1. next = [taken   |-> found.taken \cup ids,
                entries |-> found.entries
                            \cup UNION {Discovered(root, path, id, defaults) : id \in ids}]
    BY <1>2, Zenon DEF TakeFile, Unclaimed
  <2>2. CASE ids = {}
    <3>1. next.taken = found.taken /\ next.entries = found.entries
      <4> HIDE DEF ids
      <4>1. UNION {Discovered(root, path, id, defaults) : id \in ids} = {}
        BY <2>2
      <4> QED
        BY <2>1, <2>2, <4>1
    <3>2. path.words # <<>> => BothNames(path) \subseteq found.taken
      <4>1. PICK taken : taken = found.taken
        OBVIOUS
      <4>2. Identifier(path, taken) = {}
        BY <2>2, <4>1
      <4> HIDE DEF next, ids
      <4>3. path.words # <<>> => BothNames(path) \subseteq taken
        <5>1. path.words # <<>> => IsNamed(path, taken)
          BY IdentifierIs
        <5> QED
          BY <4>2, <5>1 DEF IsNamed
      <4> QED
        BY <4>1, <4>3
    <3> HIDE DEF next
    <3>3. TakenOnce(next, files \cup {path}, entries, base)
      BY <3>1, <3>2 DEF TakenOnce
    <3> QED
      BY <3>3 DEF next
  <2>3. CASE ids # {}
    <3>1. path.words # <<>> /\ \E id \in BothNames(path) \ found.taken : ids = {id}
      <4>1. PICK taken : taken = found.taken
        OBVIOUS
      <4>2. Identifier(path, taken) # {}
        BY <2>3, <4>1
      <4>3. path.words # <<>> /\ IsNamed(path, taken)
        <5> HIDE DEF next, ids
        <5> QED
          BY <4>2, IdentifierIs
      <4> QED
        BY <4>1, <4>2, <4>3 DEF IsNamed
    <3>2. PICK id \in BothNames(path) \ found.taken : ids = {id}
      BY <3>1
    <3>3. PICK e : /\ Discovered(root, path, id, defaults) = {e}
                   /\ e.id = id /\ e.path = path /\ e.context \in 1..16
      <4> HIDE DEF next, ids
      <4> QED
        <5>1. PICK e : IsMadeOf(e, root, path, id, defaults) /\ e.context \in 1..16
          BY FileBecomes
        <5> QED
          BY <5>1 DEF IsMadeOf
    <3>4. next.taken = found.taken \cup {id} /\ next.entries = found.entries \cup {e}
      <4> HIDE DEF ids
      <4>1. UNION {Discovered(root, path, i, defaults) : i \in ids} = {e}
        BY <3>2, <3>3
      <4> QED
        BY <2>1, <3>2, <4>1
    <3> HIDE DEF next, ids
    <3>5. /\ found.taken = base \cup {f.id : f \in found.entries}
          /\ \A f \in found.entries :
                /\ f.id \notin base
                /\ f.path \in files /\ Unclaimed(f.path, entries) /\ f.path.words # <<>>
                /\ f.context \in 1..16
          /\ \A f, other \in found.entries : f.id = other.id \/ f.path = other.path => f = other
          /\ \A p \in files :
                Unclaimed(p, entries) /\ p.words # <<>> =>
                   \/ \E f \in found.entries : f.path = p
                   \/ BothNames(p) \subseteq found.taken
      BY DEF TakenOnce
    <3>6. next.taken = base \cup {f.id : f \in next.entries}
      BY <3>3, <3>4, <3>5
    <3>7. \A f \in next.entries :
             /\ f.id \notin base
             /\ f.path \in files \cup {path} /\ Unclaimed(f.path, entries) /\ f.path.words # <<>>
             /\ f.context \in 1..16
      <4>1. id \notin base
        BY <3>2, <3>5
      <4>2. TAKE f \in next.entries
      <4>3. CASE f = e
        BY <1>2, <3>1, <3>3, <4>1, <4>3
      <4>4. CASE f \in found.entries
        BY <3>5, <4>4
      <4> QED
        BY <3>4, <4>3, <4>4
    <3>8. \A f, other \in next.entries : f.id = other.id \/ f.path = other.path => f = other
      <4>1. \A f \in found.entries : f.id # e.id /\ f.path # e.path
        BY <3>2, <3>3, <3>5
      <4> QED
        BY <3>4, <3>5, <4>1
    <3>9. \A p \in files \cup {path} :
             Unclaimed(p, entries) /\ p.words # <<>> =>
                \/ \E f \in next.entries : f.path = p
                \/ BothNames(p) \subseteq next.taken
      BY <3>3, <3>4, <3>5
    <3>10. TakenOnce(next, files \cup {path}, entries, base)
      BY <3>6, <3>7, <3>8, <3>9 DEF TakenOnce
    <3> QED
      BY <3>10 DEF next
  <2> QED
    BY <2>2, <2>3
<1> QED
  BY <1>1, <1>2

-----------------------------------------------------------------------------
(* All the files below a root. *)
Base(entries) == {e.id : e \in entries} \cup Reserved
IsListing(listing) ==
    /\ \E n \in Nat : DOMAIN listing = 1..n
    /\ \A i, j \in DOMAIN listing : listing[i] = listing[j] => i = j
    /\ \E S : \A i \in DOMAIN listing : listing[i].words \in Seq(S)

(* The values the loop over the files may go through.                      *)
LEMMA FoundIsClosed ==
    ASSUME NEW listing, NEW S, \A i \in DOMAIN listing : listing[i].words \in Seq(S),
           NEW root, NEW entries, NEW defaults
    PROVE  \E D : /\ [taken |-> Base(entries), entries |-> {}] \in D
                  /\ \A i \in DOMAIN listing, b \in D :
                        TakeFile(b, listing[i], root, entries, defaults) \in D
<1> DEFINE Names == Base(entries) \cup UNION {BothNames(listing[i]) : i \in DOMAIN listing}
           Made  == UNION {UNION {Discovered(root, listing[i], id, defaults) : id \in Names} :
                             i \in DOMAIN listing}
           D     == [taken : SUBSET Names, entries : SUBSET Made]
<1>1. [taken |-> Base(entries), entries |-> {}] \in D
  <2>1. Base(entries) \in SUBSET Names /\ {} \in SUBSET Made
    OBVIOUS
  <2> HIDE DEF Names, Made
  <2> QED
    BY <2>1
<1>2. ASSUME NEW i \in DOMAIN listing, NEW b \in D
      PROVE  TakeFile(b, listing[i], root, entries, defaults) \in D
  <2>1. PICK path : path = listing[i]
    OBVIOUS
  <2>2. PICK ids : ids = Identifier(path, b.taken)
    OBVIOUS
  <2>3. PICK made : made = UNION {Discovered(root, path, id, defaults) : id \in ids}
    OBVIOUS
  <2>4. \/ TakeFile(b, path, root, entries, defaults) = b
        \/ TakeFile(b, path, root, entries, defaults)
             = [taken |-> b.taken \cup ids, entries |-> b.entries \cup made]
    <3> HIDE DEF D
    <3> QED
      BY <2>2, <2>3, Zenon DEF TakeFile
  <2>5. ids \subseteq BothNames(path)
    <3>1. PICK taken : taken = b.taken
      OBVIOUS
    <3>2. path.words \in Seq(S)
      BY <2>1
    <3> HIDE DEF D
    <3>3. path.words = <<>> => Identifier(path, taken) = {}
      BY <3>2, IdentifierIs
    <3>4. path.words # <<>> => IsNamed(path, taken)
      BY <3>2, IdentifierIs
    <3>5. Identifier(path, taken) \subseteq BothNames(path)
      BY <3>3, <3>4 DEF IsNamed
    <3> QED
      BY <2>2, <3>1, <3>5
  <2>6. ids \subseteq Names
    BY <2>1, <2>5
  <2>7. made \subseteq Made
    <3> HIDE DEF Names, D
    <3>1. \A id \in Names : Discovered(root, path, id, defaults) \subseteq Made
      BY <2>1
    <3> HIDE DEF Made
    <3> QED
      BY <2>3, <2>6, <3>1
  <2> HIDE DEF Names, Made
  <2>8. b.taken \in SUBSET Names /\ b.entries \in SUBSET Made
    OBVIOUS
  <2>9. [taken |-> b.taken \cup ids, entries |-> b.entries \cup made] \in D
    BY <2>6, <2>7, <2>8
  <2> HIDE DEF D
  <2> QED
    BY <2>1, <2>4, <2>9
<1> HIDE DEF D
<1> QED
  BY <1>1, <1>2

(* Every file that no entry names is taken once, or both its names are. *)
LEMMA FilesAreTakenOnce ==
    ASSUME NEW listing, IsListing(listing), NEW entries, NEW defaults
    PROVE  \E found : /\ Under(RootOf(listing), listing, entries, defaults) = found.entries
                      /\ TakenOnce(found, Range(listing), entries, Base(entries))
<1>1. PICK n \in Nat : DOMAIN listing = 1..n
  BY DEF IsListing
<1>2. PICK S : \A i \in DOMAIN listing : listing[i].words \in Seq(S)
  BY DEF IsListing
<1>3. PICK root : root = RootOf(listing)
  OBVIOUS
<1>4. PICK base : base = Base(entries)
  OBVIOUS
<1>5. PICK Start : Start = [taken |-> base, entries |-> {}]
  OBVIOUS
<1>6. PICK r : IsTaking(r, n, listing, Start, root, entries, defaults)
  <2>1. PICK D : /\ Start \in D
                 /\ \A i \in DOMAIN listing, b \in D :
                       TakeFile(b, listing[i], root, entries, defaults) \in D
    BY <1>2, <1>4, <1>5, FoundIsClosed
  <2>2. \A i \in 1..n, b \in D : TakeFile(b, listing[i], root, entries, defaults) \in D
    BY <1>1, <2>1
  <2> QED
    BY <1>1, <2>1, <2>2, FilesAreTaken
<1> DEFINE Before(i) == {listing[j] : j \in 1..i}
           Good == {i \in 0..n : TakenOnce(r[i], Before(i), entries, base)}
<1>7. 0 \in Good
  <2>1. Before(0) = {}
    OBVIOUS
  <2>2. r[0].taken = base /\ r[0].entries = {}
    BY <1>5, <1>6 DEF IsTaking
  <2>3. TakenOnce(r[0], {}, entries, base)
    BY <2>2 DEF TakenOnce
  <2> HIDE DEF Before
  <2> QED
    BY <2>1, <2>3
<1>8. ASSUME NEW i \in 1..n, i - 1 \in Good
      PROVE  i \in Good
  <2>1. PICK path : path = listing[i]
    OBVIOUS
  <2>2. PICK files : files = Before(i - 1)
    OBVIOUS
  <2>3. PICK found : found = r[i - 1]
    OBVIOUS
  <2>4. TakenOnce(found, files, entries, base)
    BY <1>8, <2>2, <2>3
  <2>5. Before(i) = files \cup {path}
    <3>1. 1..i = 1..(i - 1) \cup {i}
      OBVIOUS
    <3> QED
      BY <2>1, <2>2, <3>1
  <2>6. path \notin files
    <3>1. \A j \in 1..(i - 1) : j \in DOMAIN listing /\ i \in DOMAIN listing /\ j # i
      BY <1>1
    <3> QED
      BY <2>1, <2>2, <3>1 DEF IsListing
  <2>7. path.words \in Seq(S) /\ path \in Range(listing)
    BY <1>1, <1>2, <2>1 DEF Range
  <2>8. path \in DOMAIN root /\ TrainedFor(root, path) = {16} \cap 1..MaxCount
    BY <1>3, <2>7, FilesSaySixteen
  <2> HIDE DEF Before, Good
  <2>9. TakenOnce(TakeFile(found, path, root, entries, defaults), files \cup {path},
                  entries, base)
    BY <2>4, <2>6, <2>7, <2>8, OneFileMore
  <2>10. TakenOnce(r[i], Before(i), entries, base)
    BY <1>6, <2>1, <2>3, <2>5, <2>9 DEF IsTaking
  <2> USE DEF Good
  <2> QED
    BY <2>10
<1>9. n \in Good
  <2> HIDE DEF Good
  <2>1. \A i \in 0..n : i \in Good
    BY <1>7, <1>8, IndexInduction
  <2> QED
    BY <2>1
<1>10. Before(n) = Range(listing)
  BY <1>1 DEF Range
<1>11. TakenOnce(r[n], Range(listing), entries, base)
  <2> HIDE DEF Before
  <2> QED
    BY <1>9, <1>10
<1>12. Under(root, listing, entries, defaults) = r[n].entries
  <2>1. Under(root, listing, entries, defaults)
          = TakenBelow(listing, [taken |-> {e.id : e \in entries} \cup Reserved,
                                 entries |-> {}], root, entries, defaults).entries
    BY Zenon DEF Under, TakenBelow
  <2>2. Start = [taken |-> {e.id : e \in entries} \cup Reserved, entries |-> {}]
    BY <1>4, <1>5, Zenon DEF Base
  <2> QED
    BY <1>6, <2>1, <2>2, Zenon DEF IsTaking
<1> QED
  BY <1>3, <1>4, <1>11, <1>12

-----------------------------------------------------------------------------
(* The models roots asked about. *)
Vocabulary == {"qwen", "Qwen", "deep", "a", "load", "x", "mmproj", "FastMTP"}

LEMMA WordsOfFiles ==
    ASSUME NEW path \in OnDisk
    PROVE  path.words \in Seq(Vocabulary)
<1>1. ASSUME NEW S, NEW a \in S, NEW b \in S, NEW dirs, NEW shard
      PROVE  /\ At(dirs, <<a>>, shard).words \in Seq(S)
             /\ At(dirs, <<a, b>>, shard).words \in Seq(S)
             /\ At(dirs, <<>>, shard).words \in Seq(S)
  BY DEF At
<1>2. /\ [Qwen(<<>>) EXCEPT !.anchor = "not text"].words = Qwen(<<>>).words
      /\ [Qwen(<<>>) EXCEPT !.gguf = FALSE].words = Qwen(<<>>).words
  <2>1. ASSUME NEW a, NEW b
        PROVE  /\ [Qwen(<<>>) EXCEPT !.anchor = a].words = Qwen(<<>>).words
               /\ [Qwen(<<>>) EXCEPT !.gguf = b].words = Qwen(<<>>).words
    BY DEF At, Qwen
  <2> QED
    BY <2>1, Zenon
<1>3. /\ "qwen" \in Vocabulary /\ "Qwen" \in Vocabulary /\ "deep" \in Vocabulary
      /\ "a" \in Vocabulary /\ "load" \in Vocabulary /\ "x" \in Vocabulary
      /\ "mmproj" \in Vocabulary /\ "FastMTP" \in Vocabulary
  BY DEF Vocabulary
<1>4. \A dirs : Qwen(dirs).words \in Seq(Vocabulary)
  BY <1>1, <1>3, Zenon DEF Qwen
<1>5. \A p \in Meeting : p.words \in Seq(Vocabulary)
  <2>1. /\ InA.words \in Seq(Vocabulary)
        /\ At(<<>>, <<"a", "qwen">>, 0).words \in Seq(Vocabulary)
        /\ At(<<>>, <<"qwen">>, 1).words \in Seq(Vocabulary)
    BY <1>1, <1>3, Zenon DEF InA
  <2> QED
    BY <1>4, <2>1, Zenon DEF Meeting
<1>6. /\ At(<<>>, <<"load">>, 0).words \in Seq(Vocabulary)
      /\ At(<<>>, <<"qwen">>, 2).words \in Seq(Vocabulary)
      /\ At(<<>>, <<"x", "mmproj">>, 0).words \in Seq(Vocabulary)
      /\ At(<<>>, <<"FastMTP", "x">>, 0).words \in Seq(Vocabulary)
      /\ \A depth : DeepAt(depth).words \in Seq(Vocabulary)
      /\ At(<<>>, <<>>, 0).words \in Seq(Vocabulary)
  BY <1>1, <1>3, Zenon DEF DeepAt
<1>7. /\ [Qwen(<<>>) EXCEPT !.anchor = "not text"].words \in Seq(Vocabulary)
      /\ [Qwen(<<>>) EXCEPT !.gguf = FALSE].words \in Seq(Vocabulary)
  BY <1>2, <1>4
<1> QED
  BY <1>5, <1>6, <1>7, Zenon DEF OnDisk

LEMMA ListingsAreListings ==
    ASSUME NEW listing \in Listings
    PROVE  IsListing(listing)
<1>1. PICK k \in Nat : listing \in [1..k -> OnDisk]
  <2>1. \A S, n : Distinct(S, n) \subseteq UpTo(S, n)
    BY DEF Distinct
  <2>2. ASSUME NEW S, NEW n \in Nat, S \subseteq OnDisk, listing \in UpTo(S, n)
        PROVE  \E k \in Nat : listing \in [1..k -> OnDisk]
    BY <2>2 DEF UpTo
  <2>3. Meeting \subseteq OnDisk
    BY DEF OnDisk
  <2> QED
    BY <2>1, <2>2, <2>3 DEF Listings
<1>2. \A i, j \in DOMAIN listing : listing[i] = listing[j] => i = j
  BY DEF Listings, Distinct
<1>3. DOMAIN listing = 1..k /\ \A i \in 1..k : listing[i] \in OnDisk
  BY <1>1
<1>4. \A i \in DOMAIN listing : listing[i].words
          \in Seq(Vocabulary)
  BY <1>3, WordsOfFiles
<1> QED
  BY <1>2, <1>3, <1>4 DEF IsListing

LEMMA ListingIsSought ==
    ASSUME NEW sought \in Discoveries
    PROVE  sought.listing \in Listings
<1>1. PICK listing \in Listings, models \in NamedModels : sought = Sought(listing, models)
  BY DEF Discoveries
<1> QED
  BY <1>1 DEF Sought

(* What a text and a models root come to, where nothing is wrong with them. *)
LEMMA ReadAgainstRoot ==
    ASSUME NEW text, NEW root, NEW listing, Read({text}, root, listing).problems = {}
    PROVE  /\ Read({text}, root, listing).declared = Declared(text, root)
           /\ Read({text}, root, listing).found
                = Under(root, listing, Declared(text, root), DefaultsTable(text))
<1>1. The({text}) = text /\ {text} # {}
  BY DEF The
<1>2. PICK texts : texts = {text}
  OBVIOUS
<1>3. Drafts(texts) = Walked(text)
  BY <1>1, <1>2 DEF Drafts
<1>4. PICK drafts : drafts = Drafts(texts)
  OBVIOUS
<1>5. UNION {Settle(root, entry) : entry \in drafts.entries} = Declared(text, root)
  BY <1>3, <1>4 DEF Declared
<1> DEFINE lost     == {e.id : e \in {f \in drafts.entries : Settle(root, f) = {}}}
           problems == drafts.problems
                    \cup {Problem(Entry(id), "memory_estimate_mib", "could not be derived") :
                              id \in lost}
<1>6. Read(texts, root, listing)
        = [problems |-> problems,
           notes    |-> Understated(root, drafts.entries),
           declared |-> IF problems = {} THEN UNION {Settle(root, entry) : entry \in drafts.entries}
                                         ELSE {},
           found    |-> IF problems # {} THEN {}
                        ELSE Under(root, listing, UNION {Settle(root, entry) :
                                                           entry \in drafts.entries},
                                   DefaultsTable(The(texts)))]
  BY <1>4, Zenon DEF Read
<1> HIDE DEF problems
<1>7. problems = {}
  BY <1>2, <1>6
<1>8. /\ Read(texts, root, listing).declared = Declared(text, root)
      /\ Read(texts, root, listing).found
           = Under(root, listing, Declared(text, root), DefaultsTable(The(texts)))
  BY <1>5, <1>6, <1>7
<1> QED
  BY <1>1, <1>2, <1>8, Zenon

LEMMA TakenIsOneEach ==
    ASSUME NEW listing, NEW declared, NEW all,
           TakenOnce(all, Range(listing), declared, Base(declared)),
           \A e, other \in declared : e.id = other.id => e = other
    PROVE  OneEntryEach(listing, declared, all.entries)
<1>1. PICK found : found = all.entries
  OBVIOUS
<1>2. /\ all.taken = Base(declared) \cup {e.id : e \in found}
      /\ \A e \in found :
            /\ e.id \notin Base(declared)
            /\ e.path \in Range(listing) /\ Unclaimed(e.path, declared) /\ e.path.words # <<>>
            /\ e.context \in 1..16
      /\ \A e, other \in found : e.id = other.id \/ e.path = other.path => e = other
      /\ \A path \in Range(listing) :
            Unclaimed(path, declared) /\ path.words # <<>> =>
               \/ \E e \in found : e.path = path
               \/ BothNames(path) \subseteq all.taken
  BY <1>1 DEF TakenOnce
<1> DEFINE ids      == {e.id : e \in declared \cup found}
           named    == UNION {{e.path} \cup e.draft \cup e.projector : e \in declared}
           eligible == {path \in Range(listing) :
                          /\ path.gguf /\ path.anchor = "none"
                          /\ Len(path.dirs) <= MaxDepth /\ path.words # <<>>
                          /\ path.shard \in {0, 1}
                          /\ Range(path.words) \cap {"mmproj", "mtp", "fastmtp", "FastMTP"}
                               = {}}
<1>3. \A path \in Range(listing) :
         path \in eligible \ named <=> Unclaimed(path, declared) /\ path.words # <<>>
  <2>1. Referenced(declared) = named
    BY Zenon DEF Referenced
  <2>2. Heads \cup Projectors = {"mmproj", "mtp", "fastmtp", "FastMTP"}
    BY DEF Heads, Projectors
  <2> HIDE DEF named
  <2> QED
    BY <2>1, <2>2 DEF Unclaimed, IsReached, IsModel
<1>4. all.taken = ids \cup Reserved
  BY <1>2 DEF Base
<1>5. \A e, other \in declared \cup found : e.id = other.id => e = other
  <2>1. \A e \in declared, other \in found : e.id # other.id
    BY <1>2 DEF Base
  <2> QED
    BY <1>2, <2>1
<1>6. \A e \in found :
          /\ e.id \notin Reserved
          /\ e.path \in eligible \ named
          /\ e.context \in 1..16
          /\ \A other \in found : e.path = other.path => e = other
  <2> HIDE DEF eligible, named
  <2> QED
    BY <1>2, <1>3 DEF Base
<1>7. \A path \in (eligible \ named) \ {e.path : e \in found} :
          LET name == Sanitised(path.words)
          IN  {name, Parent(path) \o name} \subseteq ids \cup Reserved
  <2>1. \A path \in eligible : path \in Range(listing)
    OBVIOUS
  <2> HIDE DEF eligible, named, ids
  <2>2. \A path \in (eligible \ named) \ {e.path : e \in found} :
           BothNames(path) \subseteq ids \cup Reserved
    BY <1>2, <1>3, <1>4, <2>1
  <2> QED
    BY <2>2, Zenon DEF BothNames
<1>8. OneEntryEach(listing, declared, found)
  BY <1>5, <1>6, <1>7, Zenon DEF OneEntryEach
<1> QED
  BY <1>1, <1>8

(* Every model file below the root that no entry names becomes one entry,  *)
(* or both its names are taken; no two entries answer to one identifier    *)
(* (catalog/discover).                                                     *)
THEOREM FilesAreOneEntryEach == Spec => []EveryFileIsOneEntry
<1>1. ReadAsAsked => EveryFileIsOneEntry
  <2> SUFFICES ASSUME ReadAsAsked, Answered("discovery"), answer[1].problems = {}
               PROVE  EveryFileIsOneEntry
    BY DEF EveryFileIsOneEntry
  <2>1. PICK sought : sought = question.input /\ sought \in Discoveries
    BY DEF ReadAsAsked, Answered
  <2>2. answer[1] = ReadAgainst(sought)
    BY <2>1 DEF ReadAsAsked, Answered
  <2>3. PICK listing, text, root :
            listing = sought.listing /\ text = sought.text /\ root = RootOf(listing)
    OBVIOUS
  <2>4. answer[1] = Read({text}, root, listing)
    BY <2>2, <2>3 DEF ReadAgainst
  <2>5. PICK declared, found, defaults :
            /\ declared = Declared(text, root) /\ defaults = DefaultsTable(text)
            /\ found = Under(root, listing, declared, defaults)
    OBVIOUS
  <2>6. answer[1].declared = declared /\ answer[1].found = found
    BY <2>4, <2>5, ReadAgainstRoot
  <2>7. PICK all : found = all.entries /\ TakenOnce(all, Range(listing), declared, Base(declared))
    <3>1. IsListing(listing)
      BY <2>1, <2>3, ListingIsSought, ListingsAreListings
    <3> QED
      BY <2>3, <2>5, <3>1, FilesAreTakenOnce
  <2>8. OneEntryEach(listing, declared, found)
    <3>1. \A e, other \in declared : e.id = other.id => e = other
      BY <2>5, DeclaredAreApart
    <3> QED
      BY <2>7, <3>1, TakenIsOneEach
  <2> QED
    BY <2>1, <2>3, <2>6, <2>8 DEF EveryFileIsOneEntry
<1> QED
  BY <1>1, ReadAsAskedIsInvariant, PTL
=============================================================================
