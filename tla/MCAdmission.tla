---------------------------- MODULE MCAdmission ----------------------------
(***************************************************************************)
(* Every question three loaded models can raise, put to Admission!Decide:  *)
(* one initial state per question, and one step that answers it.           *)
(***************************************************************************)
EXTENDS Admission

CONSTANTS
    Loaded,       \* identifiers that may be loaded; the number is the recency
    Wanted,       \* the identifier asked for
    Limits,       \* the budgets tried
    DeviceFrees,  \* the device readings tried
    Costs         \* the costs tried, of a loaded model and of the wanted one

(* Admission is asked only of what is not loaded: its caller looks the     *)
(* slot up first (room.rs:86-88).                                          *)
ASSUME LoadedAssumption ==
    Loaded \subseteq Nat /\ IsFiniteSet(Loaded) /\ Wanted \notin Loaded

ASSUME ReadingsAssumption ==
    /\ Limits \subseteq Nat \cup {None}
    /\ DeviceFrees \subseteq Nat \cup {None}
    /\ Costs \subseteq Nat

VARIABLES held, limit, deviceFree, wanted, decision

vars == <<held, limit, deviceFree, wanted, decision>>

Unanswered == Decision("unanswered", {})

(* A model on the device holds all of its cost there, or none of it. *)
Model(cost, onDevice, resident, busy, guest) ==
    [cost |-> cost, device |-> IF onDevice THEN cost ELSE 0,
     resident |-> resident, busy |-> busy, guest |-> guest]

(* A guest among the residents changes nothing: only candidates are sorted. *)
Models == {Model(c, d, r, b, g) : c \in Costs, d \in BOOLEAN, r \in BOOLEAN,
                                  b \in BOOLEAN, g \in BOOLEAN}
              \ {Model(c, d, TRUE, b, TRUE) : c \in Costs, d \in BOOLEAN,
                                              b \in BOOLEAN}

Used == [m \in Loaded |-> m]

Ask(c, d) == [id |-> Wanted, cost |-> c, device |-> IF d THEN c ELSE 0]

Init ==
    /\ \E S \in SUBSET Loaded : held \in [S -> Models]
    /\ limit \in Limits
    /\ deviceFree \in DeviceFrees
    /\ wanted \in {Ask(c, d) : c \in Costs \cup {3}, d \in BOOLEAN}
    /\ decision = Unanswered

Answer ==
    /\ decision = Unanswered
    /\ decision' = Decide(limit, deviceFree, held, Used, wanted)
    /\ UNCHANGED <<held, limit, deviceFree, wanted>>

Next == Answer

Spec == Init /\ [][Next]_vars

-----------------------------------------------------------------------------

Answered(kinds) == decision.kind \in kinds

Without(S) == [m \in DOMAIN held \ S |-> held[m]]

(* What admit promises its caller (decision.rs:14-21): once what it named  *)
(* is unloaded, the wanted model and all that is left are inside the       *)
(* budget, and the device as read, with what the unloaded models had on it *)
(* given back, has room for the wanted model.                              *)
AdmittedFitsBothQuestions ==
    Answered({"fits", "unload"}) =>
        LET left  == Without(decision.unload)
            given == DeviceOf(held, decision.unload)
        IN  /\ limit # None => CostOf(left, DOMAIN left) + wanted.cost <= limit
            /\ deviceFree # None => wanted.device <= deviceFree + given

(* The loop of admit_with_guests (decision.rs:122-132) as it is written: a *)
(* sorted list, walked until there is room.                                *)
LoopVictims ==
    LET C     == Candidates(held, wanted)
        n     == Cardinality(C)
        order == CHOOSE s \in [1..n -> C] :
                    \A i, j \in 1..n : i < j => GoesBefore(held, Used, s[i], s[j])
        taken[i \in 0..n] ==
            IF i = 0 THEN {}
            ELSE IF Short(limit, deviceFree, held, wanted, taken[i - 1]) = "none"
            THEN taken[i - 1]
            ELSE taken[i - 1] \cup {order[i]}
    IN  taken[n]

(* The models named are those the code's loop walks to, guests first and   *)
(* coldest first, and none once there is room (decision.rs:113-132).       *)
VictimsAreTheLoops ==
    Answered({"unload"}) => decision.unload = LoopVictims

(* Refuse is permanent (decision.rs:29-34): with every on-demand model     *)
(* gone and its share of the device given back, the same question is still *)
(* refused.                                                                *)
RefusalIsPermanent ==
    Answered({"refuse"}) =>
        LET onDemand == {m \in DOMAIN held : ~held[m].resident}
            free     == IF deviceFree = None THEN None
                        ELSE deviceFree + DeviceOf(held, onDemand)
        IN  Decide(limit, free, Without(onDemand), Used, wanted).kind = "refuse"

(* Blocked means "Every candidate is busy, so the room frees itself"       *)
(* (decision.rs:22-28): once every on-demand model has finished answering, *)
(* the same question is admitted.                                          *)
BlockedRoomFreesItself ==
    Answered({"blocked"}) =>
        LET idle == [m \in DOMAIN held |->
                        [held[m] EXCEPT !.busy = held[m].busy /\ held[m].resident]]
        IN  Decide(limit, deviceFree, idle, Used, wanted).kind \in {"fits", "unload"}

=============================================================================
