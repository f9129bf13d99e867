------------------------------ MODULE MCSlots ------------------------------
(***************************************************************************)
(* Small instances of Slots.                                               *)
(***************************************************************************)
EXTENDS SlotsPool, TLC

Listed(cost, resident) == [cost |-> cost, offDevice |-> FALSE, resident |-> resident]
Plain(cost)            == Listed(cost, FALSE)

(* Two small models and one that takes the room of both. *)
ThreeIds     == 1..3
ThreeModels  == {[id \in ThreeIds |-> IF id = 3 THEN Plain(2) ELSE Plain(1)]}

(* Three small ones. *)
ThreeAlike   == {[id \in ThreeIds |-> Plain(1)]}

TwoIds       == 1..2
TwoModels    == {[id \in TwoIds |-> Plain(1)]}

(* The file loses a model, or has another estimate for one. *)
EditedFile   == {[id \in TwoIds |-> Plain(1)], [id \in {2} |-> Plain(1)],
                 [id \in TwoIds |-> IF id = 1 THEN Plain(2) ELSE Plain(1)]}
(* The file loses a model. *)
ShorterFile  == {[id \in TwoIds |-> Plain(1)], [id \in {2} |-> Plain(1)]}

AsksAny      == [id : Ids, room : {"any"}]
AsksBoth     == [id : Ids, room : {"any", "free"}]
Unmeasured   == {Unread}
(* A model turns out to hold no more than estimated, or twice the least. *)
Measured     == {Unread, [memory |-> 2, device |-> None]}

-----------------------------------------------------------------------------
(* Requests alone, with nobody sweeping, unloading or dying: the instance  *)
(* in which a model takes the room of several.                             *)

NextCalm == \E r \in Requests : Arrive(r) \/ Serve(r) \/ Expire(r)

CalmSpec == Init /\ [][NextCalm]_vars

(* Requests and a catalog that is edited. *)

NextReloads == NextCalm \/ Resync \/ Swap

ReloadSpec == Init /\ [][NextReloads]_vars

-----------------------------------------------------------------------------
(* Fairness.  A thread that can run does, and one that wants the admission *)
(* lock gets it if the lock is free again and again; a child becomes ready *)
(* or fails, a killed process goes.  Nobody has to ask for anything.  That *)
(* an answer ends or a deadline passes is assumed only where it is named.  *)

Fairness(r) ==
    /\ WF_vars(Serve(r) /\ pc[r] # "reading")
    /\ SF_vars(Admit(r) \/ Wake(r))

CalmLiveSpec == CalmSpec /\ \A r \in Requests : Fairness(r)

(* Every request is answered: it reads from a child or is told why not     *)
(* (room.rs:66-124), even if whoever reads from what it waits for never    *)
(* lets go.  That takes its deadline.                                      *)
EveryRequestIsAnswered ==
    (\A r \in Requests : WF_vars(Expire(r))) =>
        \A r \in Requests : pc[r] = "asking" ~> pc[r] \in {"idle", "reading"}

(* The line drains by the bell alone (lease.rs:91-99, room.rs:117-121):    *)
(* once nobody new asks, and if answers end, everyone in it is served or   *)
(* refused, each reader letting go and each request leaving the line       *)
(* waking the next.                                                        *)
LineDrains ==
    /\ <>[][\A r \in Requests : ~Arrive(r)]_vars
    /\ \A r \in Requests : WF_vars(Touch(r) \/ Drop(r))
    => \A r \in Requests : pc[r] = "waiting" ~> pc[r] # "waiting"

-----------------------------------------------------------------------------
(* Interchangeable requests, where only safety is checked. *)

RequestsAlike == Permutations(Requests)

=============================================================================
