------------------------- MODULE MCAdmissionProofs -------------------------
(***************************************************************************)
(* What the runs of the admission decision find of three models, for any   *)
(* number of them, any costs and any budget.                               *)
(***************************************************************************)
EXTENDS MCAdmission, AdmissionProofs

(* A question, and the answer Decide gives it. *)
AnswerIsDecided ==
    /\ IsHeld(held) /\ DOMAIN held \subseteq Loaded
    /\ IsWanted(wanted) /\ wanted.id = Wanted
    /\ IsReading(limit) /\ IsReading(deviceFree)
    /\ decision \in {Unanswered, Decide(limit, deviceFree, held, Used, wanted)}

(* It is asked well-formed and answered once.                              *)
LEMMA DecidedInvariant == Spec => []AnswerIsDecided
<1>1. Init => AnswerIsDecided
  <2> SUFFICES ASSUME Init
               PROVE  AnswerIsDecided
    OBVIOUS
  <2>1. PICK S \in SUBSET Loaded : held \in [S -> Models]
    BY DEF Init
  <2>2. \A model \in Models : model \in HeldModel
    <3>1. \A c \in Costs : c \in Nat
      BY ReadingsAssumption
    <3> QED
      BY <3>1 DEF Models, Model, HeldModel
  <2>3. IsHeld(held) /\ DOMAIN held \subseteq Loaded
    BY <2>1, <2>2, LoadedAssumption, FS_Subset DEF IsHeld
  <2>4. IsWanted(wanted) /\ wanted.id = Wanted
    <3>1. PICK c \in Costs \cup {3}, d \in BOOLEAN : wanted = Ask(c, d)
      BY DEF Init
    <3>2. c \in Nat
      BY ReadingsAssumption
    <3> QED
      BY <3>1, <3>2 DEF Ask, IsWanted
  <2> QED
    BY <2>3, <2>4, ReadingsAssumption DEF Init, AnswerIsDecided, IsReading
<1>2. AnswerIsDecided /\ [Next]_vars => AnswerIsDecided'
  BY DEF AnswerIsDecided, Next, Answer, vars
<1> QED
  BY <1>1, <1>2, PTL DEF Spec

(* What admit says fits does: once what it named is unloaded, the wanted   *)
(* model and what is left are inside the budget and the device has room.   *)
THEOREM AdmittedModelsFit == Spec => []AdmittedFitsBothQuestions
<1>1. AnswerIsDecided => AdmittedFitsBothQuestions
  <2> SUFFICES ASSUME AnswerIsDecided, Answered({"fits", "unload"})
               PROVE  LET left  == Without(decision.unload)
                          given == DeviceOf(held, decision.unload)
                      IN  /\ limit # None => CostOf(left, DOMAIN left) + wanted.cost <= limit
                          /\ deviceFree # None => wanted.device <= deviceFree + given
    BY DEF AdmittedFitsBothQuestions
  <2>1. decision = Decide(limit, deviceFree, held, Used, wanted)
    BY DEF AnswerIsDecided, Answered, Unanswered, Decision
  <2>2. wanted.id \notin DOMAIN held
    BY LoadedAssumption DEF AnswerIsDecided
  <2> DEFINE gone == decision.unload
  <2>3. /\ gone \in SUBSET Candidates(held, wanted)
        /\ limit # None => CostOf(held, DOMAIN held \ gone) + wanted.cost <= limit
        /\ deviceFree # None => wanted.device <= deviceFree + DeviceOf(held, gone)
    <3> DEFINE decided == Decide(limit, deviceFree, held, Used, wanted)
    <3>1. /\ decided.unload \in SUBSET Candidates(held, wanted)
          /\ decided.kind \in {"fits", "unload"} =>
               /\ limit # None =>
                    CostOf(held, DOMAIN held \ decided.unload) + wanted.cost <= limit
               /\ deviceFree # None =>
                    wanted.device <= deviceFree + DeviceOf(held, decided.unload)
      BY <2>2, AdmittedFits DEF AnswerIsDecided
    <3>2. decision = decided
      BY <2>1
    <3> HIDE DEF decided
    <3> QED
      BY <3>1, <3>2 DEF Answered
  <2>4. gone \in SUBSET DOMAIN held
    BY <2>3 DEF Candidates
  <2> HIDE DEF gone
  <2>5. /\ Without(gone) = Left(held, gone)
        /\ DOMAIN Without(gone) = DOMAIN held \ gone
    BY DEF Without, Left
  <2>6. CostOf(Without(gone), DOMAIN Without(gone)) = CostOf(held, DOMAIN held \ gone)
    BY <2>4, <2>5, LeftCosts DEF AnswerIsDecided
  <2> QED
    BY <2>3, <2>6 DEF gone
<1> QED
  BY <1>1, DecidedInvariant, PTL

(* A refusal is permanent: no unloading and no waiting changes it.         *)
THEOREM RefusalsArePermanent == Spec => []RefusalIsPermanent
<1>1. AnswerIsDecided => RefusalIsPermanent
  <2> SUFFICES ASSUME AnswerIsDecided, Answered({"refuse"})
               PROVE  LET onDemand == {m \in DOMAIN held : ~held[m].resident}
                          free     == IF deviceFree = None THEN None
                                      ELSE deviceFree + DeviceOf(held, onDemand)
                      IN  Decide(limit, free, Without(onDemand), Used, wanted).kind = "refuse"
    BY DEF RefusalIsPermanent
  <2>1. Decide(limit, deviceFree, held, Used, wanted).kind = "refuse"
    BY DEF AnswerIsDecided, Answered, Unanswered, Decision
  <2>2. wanted.id \notin DOMAIN held /\ \A m \in DOMAIN held : Used[m] \in Nat
    BY LoadedAssumption DEF AnswerIsDecided, Used
  <2> DEFINE onDemand == {m \in DOMAIN held : ~held[m].resident}
             free == IF deviceFree = None THEN None ELSE deviceFree + DeviceOf(held, onDemand)
  <2>3. Decide(limit, free, Left(held, onDemand), Used, wanted).kind = "refuse"
    BY <2>1, <2>2, RefusedStaysRefused DEF AnswerIsDecided
  <2>4. Without(onDemand) = Left(held, onDemand)
    BY DEF Without, Left
  <2> QED
    BY <2>3, <2>4
<1> QED
  BY <1>1, DecidedInvariant, PTL

(* The set the decision names, given without a loop, is the one the code's *)
(* loop comes to, guests first and coldest first, and taking nothing more  *)
(* once there is room (decision.rs:113-132).                               *)
THEOREM VictimsAreThoseOfTheLoop == Spec => []VictimsAreTheLoops
<1>1. AnswerIsDecided => VictimsAreTheLoops
  <2> SUFFICES ASSUME AnswerIsDecided, Answered({"unload"})
               PROVE  decision.unload = LoopVictims
    BY DEF VictimsAreTheLoops
  <2> DEFINE C == Candidates(held, wanted)
             n == Cardinality(C)
             Sorted(s) == \A i, j \in 1..n : i < j => GoesBefore(held, Used, s[i], s[j])
             order == CHOOSE s \in [1..n -> C] : Sorted(s)
             Enough == MakesRoom(limit, deviceFree, held, wanted)
             Loop(g) == [i \in 0..n |->
                            IF i = 0 THEN {}
                            ELSE IF Short(limit, deviceFree, held, wanted, g[i - 1]) = "none"
                            THEN g[i - 1]
                            ELSE g[i - 1] \cup {order[i]}]
             taken == CHOOSE g : g = Loop(g)
  <2>1. decision.unload = Victims(limit, deviceFree, held, Used, wanted)
    BY DEF AnswerIsDecided, Answered, Unanswered, Decide, Decision
  <2>2. LoopVictims = taken[n]
    BY Zenon DEF LoopVictims
  <2>3. /\ \A m \in DOMAIN held : Used[m] \in Nat
        /\ \A a, b \in DOMAIN held : Used[a] = Used[b] => a = b
    BY LoadedAssumption DEF AnswerIsDecided, Used
  <2>4. IsHeld(held) /\ IsWanted(wanted) /\ IsReading(limit) /\ IsReading(deviceFree)
    BY DEF AnswerIsDecided
  <2>5. C \in SUBSET DOMAIN held /\ IsFiniteSet(C) /\ n \in Nat
    BY <2>4, FS_Subset, FS_CardinalityType DEF IsHeld, Candidates
  <2>6. IsOrder(Ordering(held, Used, C), C)
    BY <2>3, <2>4, <2>5, CandidatesAreOrdered
  <2>7. ASSUME NEW s \in [1..n -> C]
        PROVE  IsSorted(s, Ordering(held, Used, C)) <=> Sorted(s)
    BY DEF IsSorted, Ordering
  <2>8. order \in [1..n -> C] /\ IsSorted(order, Ordering(held, Used, C))
    <3>1. \E s \in [1..n -> C] : IsSorted(s, Ordering(held, Used, C))
      BY <2>5, <2>6, SortedListExists
    <3>2. \E s \in [1..n -> C] : Sorted(s)
      BY <2>7, <3>1
    <3> HIDE DEF C, n, Sorted
    <3>3. order \in [1..n -> C] /\ Sorted(order)
      BY <3>2
    <3> HIDE DEF order
    <3> QED
      BY <2>7, <3>3
  <2>9. IsUpward(Enough, C)
    <3> SUFFICES ASSUME NEW S \in SUBSET C, NEW T \in SUBSET C, S \subseteq T, S \in Enough
                 PROVE  T \in Enough
      BY DEF IsUpward
    <3>1. T \in SUBSET DOMAIN held /\ S \in SUBSET T
      BY <2>5
    <3>2. Short(limit, deviceFree, held, wanted, S) = "none"
      BY DEF MakesRoom
    <3>3. Short(limit, deviceFree, held, wanted, T) = "none"
      BY <2>4, <3>1, <3>2, RoomGrows
    <3> QED
      BY <3>3 DEF MakesRoom
  <2>10. \A S \in SUBSET C : S \in Enough
                <=> Short(limit, deviceFree, held, wanted, S) = "none"
    BY DEF MakesRoom
  <2>11. Victims(limit, deviceFree, held, Used, wanted) = Walked(order, Enough, n)
    <3> HIDE DEF order
    <3> QED
      BY <2>3, <2>4, <2>8, VictimsAreWalked
  <2> HIDE DEF C, n, order, Enough
  <2>12. \A i \in 1..n : Walked(order, Enough, i) =
                            Taking(Walked(order, Enough, i - 1), Enough, order[i])
    BY <2>5, <2>8, <2>9, WalkStep
  <2>13. \A i \in 0..n : Walked(order, Enough, i) \in SUBSET C
    BY <2>5, <2>8 DEF Walked
  <2>14. \E g : g = Loop(g)
    <3> DEFINE w == [i \in 0..n |-> Walked(order, Enough, i)]
    <3>1. Walked(order, Enough, 0) = {}
      BY DEF Walked
    <3>2. \A i \in 1..n : i - 1 \in 0..n
      BY <2>5
    <3>3. ASSUME NEW i \in 0..n
          PROVE  w[i] = Loop(w)[i]
      <4>1. CASE i = 0
        BY <3>1, <4>1
      <4>2. CASE i # 0
        <5>1. i \in 1..n /\ i - 1 \in 0..n
          BY <4>2, <2>5
        <5>2. w[i - 1] = Walked(order, Enough, i - 1) /\ w[i] = Walked(order, Enough, i)
          BY <5>1
        <5>3. w[i - 1] \in Enough
                <=> Short(limit, deviceFree, held, wanted, w[i - 1]) = "none"
          BY <2>10, <2>13, <5>1, <5>2
        <5>4. w[i] = IF w[i - 1] \in Enough THEN w[i - 1] ELSE w[i - 1] \cup {order[i]}
          BY <2>12, <5>1, <5>2 DEF Taking
        <5> HIDE DEF w
        <5> QED
          BY <4>2, <5>3, <5>4
      <4> QED
        BY <4>1, <4>2
    <3>4. w = Loop(w)
      BY <3>3
    <3> QED
      BY <3>4
  <2>15. taken = Loop(taken)
    <3> HIDE DEF Loop
    <3> QED
      BY <2>14
  <2> HIDE DEF taken
  <2>16. taken[0] = {}
    BY <2>5, <2>15
  <2>17. \A i \in 1..n : taken[i - 1] \in SUBSET C =>
            taken[i] = Taking(taken[i - 1], Enough, order[i])
    <3> SUFFICES ASSUME NEW i \in 1..n, taken[i - 1] \in SUBSET C
                 PROVE  taken[i] = Taking(taken[i - 1], Enough, order[i])
      OBVIOUS
    <3>1. i \in 0..n /\ i # 0
      BY <2>5
    <3>2. taken[i] = IF Short(limit, deviceFree, held, wanted, taken[i - 1]) = "none"
                     THEN taken[i - 1] ELSE taken[i - 1] \cup {order[i]}
      BY <2>15, <3>1
    <3> QED
      BY <2>10, <3>2 DEF Taking
  <2> HIDE DEF Loop
  <2>18. \A i \in 0..n : taken[i] = Walked(order, Enough, i)
    <3>1. Obeys(taken, order, Enough, C, n)
      BY <2>16, <2>17 DEF Obeys
    <3> QED
      BY <2>5, <2>8, <2>9, <3>1, LoopWalks
  <2> QED
    BY <2>1, <2>2, <2>5, <2>11, <2>18
<1> QED
  BY <1>1, DecidedInvariant, PTL

=============================================================================
