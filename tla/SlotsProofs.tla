---------------------------- MODULE SlotsProofs ----------------------------
(***************************************************************************)
(* What holds of the slot table for any catalogs, any number of requests   *)
(* and any budget.                                                         *)
(***************************************************************************)
EXTENDS Slots, FiniteSetTheorems, TLAPS

-----------------------------------------------------------------------------
(* The operators the actions are built from return what they should. *)

(* Admission charges and measures in naturals. *)
LEMMA HeldOfType ==
    ASSUME NEW entry \in Entry, NEW m \in Measurement,
           NEW busy \in BOOLEAN, NEW guest \in BOOLEAN
    PROVE  HeldOf(entry, m, busy, guest) \in HeldModel
<1>1. Charge(entry, m) \in Nat
  BY NoneAssumption DEF Charge, Largest, Entry, Measurement
<1>2. DeviceNeed(entry) \in Nat
  BY DEF DeviceNeed, Entry
<1>3. m.device # None => m.device \in Nat
  BY DEF Measurement
<1> QED
  BY <1>1, <1>2, <1>3 DEF HeldOf, HeldModel, Entry

(* What a decision unloads was among what it was shown, and was neither    *)
(* resident nor answering.                                                 *)
LEMMA DecisionUnloadsCandidates ==
    ASSUME NEW deviceFree, NEW held, NEW u, NEW wanted
    PROVE  LET decision == Decide(Limit, deviceFree, held, u, wanted)
           IN  decision.unload \subseteq Candidates(held, wanted)
  BY DEF Decide, Decision, Victims

(* Ranks stay ranks when some slots are emptied.                           *)
LEMMA ForgottenType ==
    ASSUME NEW u \in [Ids -> Nat], NEW S
    PROVE  Forgotten(u, S) \in [Ids -> Nat]
<1> SUFFICES ASSUME NEW m \in Ids
             PROVE  Cardinality({n \in Ids \ S : 0 < u[n] /\ u[n] <= u[m]}) \in Nat
  BY DEF Forgotten
<1>1. IsFiniteSet({n \in Ids \ S : 0 < u[n] /\ u[n] <= u[m]})
  BY IdsAssumption, FS_Subset
<1> QED
  BY <1>1, FS_CardinalityType

(* And when one is stamped: the set counted is finite.                     *)
LEMMA StampedType ==
    ASSUME NEW u \in [Ids -> Nat], NEW id \in Ids
    PROVE  Stamped(u, id) \in [Ids -> Nat]
<1>1. IsFiniteSet({n \in Ids : 0 < u[n]} \cup {id})
  BY IdsAssumption, FS_Subset
<1>2. Cardinality({n \in Ids : 0 < u[n]} \cup {id}) \in Nat
  BY <1>1, FS_CardinalityType
<1>3. Forgotten(u, {id}) \in [Ids -> Nat]
  BY ForgottenType
<1> QED
  BY <1>2, <1>3 DEF Stamped

-----------------------------------------------------------------------------
(* What the pieces of the actions do to the types. *)

(* A stamp, whatever else the step does to the slots themselves.           *)
LEMMA StampKeepsTypes ==
    ASSUME SlotType, LookType, SweepType, UNCHANGED <<table, plan, dying>>,
           NEW id \in Ids, Stamp(id),
           slot' \in [Ids -> [full : BOOLEAN, dead : BOOLEAN, guest : BOOLEAN,
                             measured : Measurement]]
    PROVE  SlotType' /\ LookType' /\ SweepType'
<1>1. used' \in [Ids -> Nat] /\ Stamped(look.used, id) \in [Ids -> Nat]
  BY StampedType DEF Stamp, SlotType, LookType
<1>2. LookType'
  BY <1>1 DEF Stamp, LookType
<1> QED
  BY <1>1, <1>2 DEF Stamp, SlotType, SweepType

(* Emptying slots, with or without a process to kill afterwards.           *)
LEMMA VacateKeepsTypes ==
    ASSUME SlotType, SweepType, UNCHANGED table,
           NEW S, Vacate(S), dying' \in [Threads -> Ids \cup {None}]
    PROVE  SlotType' /\ SweepType'
<1>1. used' \in [Ids -> Nat]
  BY ForgottenType DEF Vacate, SlotType
<1>2. NoChild \in [full : BOOLEAN, dead : BOOLEAN, guest : BOOLEAN, measured : Measurement]
  BY DEF NoChild, Unread, Measurement
<1> QED
  BY <1>1, <1>2 DEF Vacate, SlotType, SweepType

(* Leaving the line.                                                       *)
LEMMA LeaveKeepsTypes ==
    ASSUME LineType, NEW r \in Requests, Leave(r)
    PROVE  LineType'
  BY DEF LineType, Leave, Listening

(* Joining it.                                                             *)
LEMMA JoinKeepsTypes ==
    ASSUME LineType, NEW r \in Requests, Join(r)
    PROVE  LineType'
  BY DEF LineType, Join

(* A look that is over.                                                    *)
LEMMA NoLookType ==
    ASSUME look' = NoLook, plan' = {}
    PROVE  LookType'
  BY DEF NoLook, LookType

(* A request that moves on keeps what it asked for, until it is answered.  *)
LEMMA MoveKeepsTypes ==
    ASSUME RequestType, NEW r \in Requests, Asking(r),
           NEW place \in Places \ {"idle", "ringing"}, GoTo(r, place),
           UNCHANGED ask, admission' \in Requests \cup {Operator, Nobody}
    PROVE  RequestType'
  BY DEF RequestType, GoTo, Asking

(* A request that is answered, by whoever holds the lock then.             *)
LEMMA AnsweredKeepsTypes ==
    ASSUME RequestType, NEW r \in Requests, Answered(r),
           admission' \in Requests \cup {Operator, Nobody}
    PROVE  RequestType'
  BY DEF RequestType, Answered, GoTo, Asking, NoAsk, Places

(* A request that goes away with the lock.                                 *)
LEMMA DismissKeepsTypes ==
    ASSUME TypeOK, NEW r \in Requests, Dismiss(r)
    PROVE  RequestType' /\ LineType' /\ LookType'
  BY LeaveKeepsTypes, AnsweredKeepsTypes, NoLookType DEF Dismiss, TypeOK, Nobody

(* A request whose room is made.                                           *)
LEMMA MadeKeepsTypes ==
    ASSUME TypeOK, NEW r \in Requests, Asking(r), Made(r)
    PROVE  RequestType' /\ LineType' /\ LookType'
<1>1. RequestType'
  BY MoveKeepsTypes DEF Made, TypeOK, RequestType, Places
<1> QED
  BY <1>1, LeaveKeepsTypes, NoLookType DEF Made, TypeOK

(* A request whose room is held: it goes away or waits.                    *)
LEMMA HeldKeepsTypes ==
    ASSUME TypeOK, NEW r \in Requests, Asking(r), Held(r)
    PROVE  RequestType' /\ LineType' /\ LookType'
<1>1. CASE Dismiss(r)
  BY <1>1, DismissKeepsTypes
<1>2. CASE ~Dismiss(r)
  <2>1. RequestType'
    BY <1>2, MoveKeepsTypes DEF Held, TypeOK, Places, InRoom, Nobody
  <2> QED
    BY <1>2, <2>1, JoinKeepsTypes, NoLookType DEF Held, TypeOK
<1> QED
  BY <1>1, <1>2

-----------------------------------------------------------------------------
(* Type correctness. *)

(* The router starts with well-formed state.                               *)
LEMMA InitType == Init => TypeOK
<1> SUFFICES ASSUME Init
             PROVE  TypeOK
  OBVIOUS
<1>1. CatalogType /\ LineType /\ SweepType
  BY InputsAssumption DEF Init, CatalogType, LineType, SweepType
<1>2. SlotType
  BY CatalogsAssumption DEF Init, SlotType, NoChild, Unread, Measurement
<1>3. RequestType
  BY DEF Init, RequestType, Places, Asking, NoAsk, Nobody
<1>4. LookType
  BY DEF Init, LookType, NoLook
<1> QED
  BY <1>1, <1>2, <1>3, <1>4 DEF TypeOK

(* Every step of a request's own keeps the types.                          *)
LEMMA ServeType ==
    ASSUME TypeOK, LookReadsItsCatalog,
           NEW r \in Requests, Arrive(r) \/ Serve(r) \/ Expire(r)
    PROVE  TypeOK'
<1> USE DEF TypeOK
<1>1. CASE Arrive(r)
  <2>1. RequestType'
    BY <1>1, CatalogsAssumption, InputsAssumption
    DEF Arrive, RequestType, CatalogType, GoTo, Asking, AskRecord, Places
  <2> QED
    BY <1>1, <2>1 DEF Arrive, catalogVars, slotVars, lineVars, lookVars,
       CatalogType, SlotType, LineType, LookType, SweepType
<1>2. CASE Call(r)
  <2>1. RequestType' /\ ask[r].id \in Ids
    BY <1>2 DEF Call, RequestType, CatalogType, GoTo, Asking, AskRecord, Places, InRoom
  <2>2. SlotType' /\ LookType' /\ SweepType'
    <3>1. CASE Running(ask[r].id)
      BY <1>2, <2>1, <3>1, StampKeepsTypes DEF Call, SlotType
    <3>2. CASE ~Running(ask[r].id)
      BY <1>2, <2>1, <3>2, VacateKeepsTypes
      DEF Call, DropExited, SlotType, LookType, SweepType
    <3> QED
      BY <3>1, <3>2
  <2> QED
    BY <1>2, <2>1, <2>2 DEF Call, catalogVars, lineVars, CatalogType, LineType
<1>3. CASE Admit(r)
  <2>1. RequestType'
    BY <1>3, AnsweredKeepsTypes, MoveKeepsTypes
    DEF Admit, RequestType, Asking, Places, InRoom
  <2> QED
    BY <1>3, <2>1 DEF Admit, catalogVars, slotVars, lookVars,
       CatalogType, SlotType, LineType, LookType, SweepType
<1>4. CASE Wake(r)
  <2>1. RequestType' /\ LineType'
    BY <1>4, AnsweredKeepsTypes, MoveKeepsTypes, LeaveKeepsTypes
    DEF Wake, RequestType, LineType, Asking, Places, InRoom
  <2> QED
    BY <1>4, <2>1 DEF Wake, catalogVars, slotVars, lookVars,
       CatalogType, SlotType, LookType, SweepType
<1>5. CASE FoundRunning(r)
  <2>1. RequestType' /\ LineType' /\ ask[r].id \in Ids
    BY <1>5, MoveKeepsTypes, LeaveKeepsTypes
    DEF FoundRunning, RequestType, Asking, Places, AskRecord, Nobody
  <2>2. SlotType' /\ LookType' /\ SweepType'
    BY <1>5, <2>1, StampKeepsTypes DEF FoundRunning, SlotType
  <2> QED
    BY <1>5, <2>1, <2>2 DEF FoundRunning, catalogVars, CatalogType
<1>6. CASE FileMissing(r)
  <2>1. RequestType' /\ LineType'
    BY <1>6, AnsweredKeepsTypes, LeaveKeepsTypes DEF FileMissing, RequestType, Nobody
  <2>2. SlotType' /\ SweepType'
    BY <1>6, VacateKeepsTypes DEF FileMissing, DropExited, SlotType, SweepType
  <2> QED
    BY <1>6, <2>1, <2>2 DEF FileMissing, catalogVars, lookVars, CatalogType, LookType
<1>7. CASE BeginLook(r)
  <2>1. RequestType' /\ DOMAIN ask[r].catalog \subseteq Ids
    BY <1>7, MoveKeepsTypes, CatalogsAssumption
    DEF BeginLook, RequestType, Asking, Places, InRoom, AskRecord
  <2>2. SlotType' /\ SweepType'
    BY <1>7, VacateKeepsTypes DEF BeginLook, SweepType
  <2>3. LookType'
    BY <1>7, <2>1, <2>2 DEF BeginLook, Begun, NoLook, LookType, SlotType
  <2> QED
    BY <1>7, <2>1, <2>2, <2>3
    DEF BeginLook, catalogVars, lineVars, CatalogType, LineType
<1>8. CASE LookAt(r)
  <2>1. PICK id \in look.unread :
           LET entry == ask[r].catalog[id]
               seen  == HeldOf(entry, slot[id].measured, Busy(id), slot[id].guest)
           IN  look' = [look EXCEPT
                  !.unread = @ \ {id},
                  !.held = IF id \in table /\ slot[id].full
                           THEN [m \in DOMAIN @ \cup {id} |-> IF m = id THEN seen ELSE @[m]]
                           ELSE @]
    BY <1>8 DEF LookAt
  <2> DEFINE seen == HeldOf(ask[r].catalog[id], slot[id].measured, Busy(id), slot[id].guest)
  <2>2. id \in DOMAIN ask[r].catalog /\ id \in Ids
    BY <1>8 DEF LookAt, LookReadsItsCatalog, LookType
  <2>3. ask[r].catalog[id] \in Entry
    BY <1>8, <2>2, CatalogsAssumption DEF LookAt, RequestType, Asking, AskRecord
  <2>4. seen \in HeldModel
    BY <2>2, <2>3, HeldOfType DEF SlotType, Busy
  <2>5. LookType'
    <3> HIDE DEF seen
    <3>1. look' = [look EXCEPT
                  !.unread = @ \ {id},
                  !.held = IF id \in table /\ slot[id].full
                           THEN [m \in DOMAIN @ \cup {id} |-> IF m = id THEN seen ELSE @[m]]
                           ELSE @]
      BY <2>1 DEF seen
    <3>2. UNCHANGED plan
      BY <1>8 DEF LookAt
    <3> QED
      BY <2>2, <2>4, <3>1, <3>2 DEF LookType
  <2> QED
    BY <1>8, <2>5 DEF LookAt, catalogVars, slotVars, lineVars,
       CatalogType, SlotType, RequestType, Asking, LineType, SweepType
<1>9. CASE Look(r)
  <2>1. PICK deviceFree \in DeviceReadings :
           LET decision == Asked(r, deviceFree)
           IN  \/ Dismiss(r)
               \/ Made(r)
               \/ /\ plan' = decision.unload
                  /\ GoTo(r, "unloading")
                  /\ UNCHANGED <<ask, admission, lineVars, look>>
               \/ Held(r)
    BY <1>9 DEF Look
  <2>2. Asking(r)
    BY <1>9 DEF Look, Asking
  <2>3. ASSUME plan' = Asked(r, deviceFree).unload,
               GoTo(r, "unloading"),
               UNCHANGED <<ask, admission, lineVars, look>>
        PROVE  RequestType' /\ LineType' /\ LookType'
    <3>1. Asked(r, deviceFree).unload \subseteq DOMAIN look.held
      BY DecisionUnloadsCandidates DEF Asked, Candidates
    <3>2. RequestType'
      BY <2>2, <2>3, MoveKeepsTypes DEF RequestType, Places, InRoom
    <3>3. plan' \subseteq Ids
      BY <2>3, <3>1 DEF LookType
    <3>4. LookType'
      BY <2>3, <3>3 DEF LookType
    <3>5. LineType'
      BY <2>3 DEF LineType, lineVars
    <3> QED
      BY <3>2, <3>4, <3>5
  <2>4. RequestType' /\ LineType' /\ LookType'
    BY <2>1, <2>2, <2>3, DismissKeepsTypes, MadeKeepsTypes, HeldKeepsTypes
  <2> QED
    BY <1>9, <2>4 DEF Look, catalogVars, slotVars, CatalogType, SlotType, SweepType
<1>10. CASE Unload(r)
  <2>1. Asking(r) /\ UNCHANGED <<catalogVars, table>>
    BY <1>10 DEF Unload, Asking
  <2>2. CASE Held(r) /\ UNCHANGED <<slot, used, expired, dying>>
    BY <2>1, <2>2, HeldKeepsTypes DEF catalogVars, CatalogType, SlotType, SweepType
  <2>3. CASE Made(r) /\ UNCHANGED <<slot, used, expired, dying>>
    BY <2>1, <2>3, MadeKeepsTypes DEF catalogVars, CatalogType, SlotType, SweepType
  <2>4. ASSUME NEW v \in plan,
               plan' = plan \ {v},
               UNCHANGED <<slot, used, expired, dying, pc, ask, admission,
                           lineVars, look>>
        PROVE  TypeOK'
    BY <2>1, <2>4 DEF catalogVars, lineVars, CatalogType, SlotType, RequestType,
       Asking, LineType, LookType, SweepType
  <2>5. ASSUME NEW v \in plan,
               Vacate({v}),
               plan' = plan \ {v},
               dying' = [dying EXCEPT ![r] = v],
               GoTo(r, "killing"),
               UNCHANGED <<ask, admission, lineVars, look>>
        PROVE  TypeOK'
    <3>1. SlotType' /\ SweepType'
      BY <2>1, <2>5, VacateKeepsTypes DEF SweepType, LookType
    <3>2. RequestType'
      BY <2>1, <2>5, MoveKeepsTypes DEF RequestType, Places, InRoom
    <3> QED
      BY <2>1, <2>5, <3>1, <3>2
      DEF catalogVars, lineVars, CatalogType, LineType, LookType
  <2> QED
    BY <1>10, <2>1, <2>2, <2>3, <2>4, <2>5 DEF Unload
<1>11. CASE Killed(r)
  <2>1. RequestType'
    BY <1>11, MoveKeepsTypes DEF Killed, RequestType, Asking, Places, InRoom
  <2> QED
    BY <1>11, <2>1 DEF Killed, catalogVars, slotVars, lineVars, lookVars,
       CatalogType, SlotType, LineType, LookType, SweepType, Threads
<1>12. CASE Start(r)
  <2>1. RequestType' /\ ask[r].id \in Ids
    BY <1>12, MoveKeepsTypes DEF Start, RequestType, Asking, Places, AskRecord, Nobody
  <2>2. slot' \in [Ids -> [full : BOOLEAN, dead : BOOLEAN, guest : BOOLEAN,
                          measured : Measurement]]
    <3>1. PICK m \in Measurements :
             slot' = [slot EXCEPT ![ask[r].id] = Child(ask[r].room = "free", m)]
      BY <1>12 DEF Start
    <3>2. m \in Measurement
      BY InputsAssumption
    <3>3. CASE ask[r].room = "free"
      BY <3>1, <3>2, <3>3 DEF SlotType, Child
    <3>4. CASE ask[r].room # "free"
      BY <3>1, <3>2, <3>4 DEF SlotType, Child
    <3> QED
      BY <3>3, <3>4
  <2>3. SlotType' /\ LookType' /\ SweepType'
    BY <1>12, <2>1, <2>2, StampKeepsTypes DEF Start
  <2> QED
    BY <1>12, <2>1, <2>3 DEF Start, catalogVars, lineVars, CatalogType, LineType
<1>13. CASE StartFails(r)
  <2>1. RequestType'
    BY <1>13, AnsweredKeepsTypes DEF StartFails, Nobody
  <2> QED
    BY <1>13, <2>1 DEF StartFails, catalogVars, slotVars, lineVars, lookVars,
       CatalogType, SlotType, LineType, LookType, SweepType
<1>14. CASE Touch(r)
  <2>1. RequestType' /\ ask[r].id \in Ids
    BY <1>14, MoveKeepsTypes DEF Touch, RequestType, Asking, Places, AskRecord
  <2>2. SlotType' /\ LookType' /\ SweepType'
    <3>1. CASE ask[r].id \in table /\ slot[ask[r].id].full
      BY <1>14, <2>1, <3>1, StampKeepsTypes DEF Touch, SlotType
    <3>2. CASE ~(ask[r].id \in table /\ slot[ask[r].id].full)
      BY <1>14, <3>2 DEF Touch, SlotType, LookType, SweepType
    <3> QED
      BY <3>1, <3>2
  <2> QED
    BY <1>14, <2>1, <2>2 DEF Touch, catalogVars, lineVars, CatalogType, LineType
<1>15. CASE Drop(r)
  <2>1. RequestType'
    BY <1>15 DEF Drop, RequestType, GoTo, Asking, Places, Holding, NoAsk
  <2> QED
    BY <1>15, <2>1 DEF Drop, catalogVars, slotVars, lineVars, lookVars,
       CatalogType, SlotType, LineType, LookType, SweepType
<1>16. CASE Ring(r)
  <2>1. RequestType'
    BY <1>16 DEF Ring, RequestType, GoTo, Asking, Places
  <2> QED
    BY <1>16, <2>1 DEF Ring, Listening, catalogVars, slotVars, lookVars,
       CatalogType, SlotType, LineType, LookType, SweepType
<1>17. CASE Expire(r)
  BY <1>17 DEF Expire, catalogVars, slotVars, lookVars,
     CatalogType, SlotType, RequestType, Asking, LineType, LookType, SweepType
<1> QED
  BY <1>1, <1>2, <1>3, <1>4, <1>5, <1>6, <1>7, <1>8, <1>9, <1>10, <1>11,
     <1>12, <1>13, <1>14, <1>15, <1>16, <1>17 DEF Serve

(* So does every step of the reaper, the operator and a dying child.       *)
LEMMA OthersType ==
    ASSUME TypeOK, LockIsHeld,
           Reaping \/ Operating \/ \E id \in Ids : ChildDies(id)
    PROVE  TypeOK'
<1> USE DEF TypeOK
<1>1. CASE \E id \in Ids : ChildDies(id)
  <2>1. PICK id \in Ids : ChildDies(id)
    BY <1>1
  <2>2. SlotType'
    BY <2>1 DEF ChildDies, SlotType
  <2> QED
    BY <2>1, <2>2 DEF ChildDies, catalogVars, lineVars, lookVars,
       CatalogType, RequestType, Asking, LineType, LookType, SweepType
<1>2. CASE SweepExited
  <2>1. SlotType' /\ SweepType'
    BY <1>2, VacateKeepsTypes DEF SweepExited, SweepType
  <2> QED
    BY <1>2, <2>1 DEF SweepExited, catalogVars, lineVars, lookVars,
       CatalogType, RequestType, Asking, LineType, LookType
<1>3. CASE SweepIdle
  <2>1. SweepType'
    BY <1>3, CatalogsAssumption DEF SweepIdle, SweepType, CatalogType
  <2> QED
    BY <1>3, <2>1 DEF SweepIdle, catalogVars, slotVars, lineVars, lookVars,
       CatalogType, SlotType, RequestType, Asking, LineType, LookType
<1>4. CASE Reap
  <2>1. PICK id \in expired :
           \/ /\ expired' = expired \ {id}
              /\ UNCHANGED <<slot, used, dying>>
           \/ /\ Vacate({id})
              /\ dying' = [dying EXCEPT ![Reaper] = id]
    BY <1>4 DEF Reap
  <2>2. SlotType' /\ SweepType'
    <3>1. CASE UNCHANGED <<slot, used, dying>> /\ expired' = expired \ {id}
      BY <1>4, <3>1 DEF Reap, SlotType, SweepType
    <3>2. CASE Vacate({id}) /\ dying' = [dying EXCEPT ![Reaper] = id]
      BY <1>4, <3>2, VacateKeepsTypes DEF Reap, SweepType
    <3> QED
      BY <2>1, <3>1, <3>2
  <2> QED
    BY <1>4, <2>2 DEF Reap, catalogVars, lineVars, lookVars,
       CatalogType, RequestType, Asking, LineType, LookType
<1>5. CASE \E id \in Ids : LetGo(id)
  <2>1. PICK id \in Ids : LetGo(id)
    BY <1>5
  <2>2. SlotType' /\ SweepType'
    BY <2>1, VacateKeepsTypes DEF LetGo, SweepType
  <2> QED
    BY <2>1, <2>2 DEF LetGo, catalogVars, lineVars, lookVars,
       CatalogType, RequestType, Asking, LineType, LookType
<1>6. CASE Gone(Reaper) \/ Gone(Operator)
  BY <1>6 DEF Gone, catalogVars, slotVars, lineVars, lookVars,
     CatalogType, SlotType, RequestType, Asking, LineType, LookType, SweepType
<1>7. CASE Resync
  <2>1. CatalogType'
    BY <1>7, InputsAssumption DEF Resync, CatalogType
  <2>2. SlotType'
    BY <1>7, CatalogsAssumption DEF Resync, Kept, SlotType
  <2>3. LineType'
    BY <1>7 DEF Resync, Listening, LineType
  <2> QED
    BY <1>7, <2>1, <2>2, <2>3 DEF Resync, lookVars,
       RequestType, Asking, LookType, SweepType
<1>8. CASE Swap
  <2>1. CatalogType'
    BY <1>8 DEF Swap, CatalogType, LockIsHeld
  <2> QED
    BY <1>8, <2>1 DEF Swap, slotVars, lineVars, lookVars,
       SlotType, RequestType, Asking, LineType, LookType, SweepType, Nobody
<1> QED
  BY <1>1, <1>2, <1>3, <1>4, <1>5, <1>6, <1>7, <1>8 DEF Reaping, Operating

-----------------------------------------------------------------------------
(* The admission lock, and what its holder reads. *)

(* A step takes the admission lock only when it is free, and lets it go    *)
(* only from the place where its holder stands.                            *)
LEMMA LockStep ==
    ASSUME TypeOK, LockIsHeld, [Next]_vars
    PROVE  LockIsHeld'
<1> USE ThreadsAssumption DEF TypeOK, RequestType, LockIsHeld, Locked, Nobody, GoTo
<1>1. CASE UNCHANGED vars
  BY <1>1 DEF vars, catalogVars
<1>2. ASSUME NEW r \in Requests, Arrive(r) \/ Serve(r) \/ Expire(r)
      PROVE  LockIsHeld'
  <2>1. CASE Arrive(r) \/ Call(r) \/ Touch(r) \/ Drop(r) \/ Ring(r) \/ Expire(r)
    BY <2>1 DEF Arrive, Call, Touch, Drop, Ring, Expire, Holding, catalogVars, Places
  <2>2. CASE Admit(r) \/ Wake(r)
    BY <2>2 DEF Admit, Wake, LockFree, Answered, catalogVars
  <2>3. CASE FoundRunning(r) \/ FileMissing(r) \/ Start(r) \/ StartFails(r)
    BY <2>3 DEF FoundRunning, FileMissing, Start, StartFails, Answered, catalogVars
  <2>4. CASE BeginLook(r) \/ LookAt(r) \/ Killed(r)
    BY <2>4 DEF BeginLook, LookAt, Killed, catalogVars
  <2>5. CASE Look(r)
    BY <2>5 DEF Look, Dismiss, Made, Held, Answered, catalogVars
  <2>6. CASE Unload(r)
    BY <2>6 DEF Unload, Dismiss, Made, Held, Answered, catalogVars
  <2> QED
    BY <1>2, <2>1, <2>2, <2>3, <2>4, <2>5, <2>6 DEF Serve
<1>3. CASE \E id \in Ids : ChildDies(id)
  BY <1>3 DEF ChildDies, catalogVars
<1>4. CASE Reaping
  BY <1>4 DEF Reaping, SweepExited, SweepIdle, Reap, Gone, catalogVars
<1>5. CASE Operating
  BY <1>5, CatalogsAssumption
  DEF Operating, LetGo, Gone, Resync, Swap, LockFree, catalogVars
<1> QED
  BY <1>1, <1>2, <1>3, <1>4, <1>5 DEF Next

(* A look starts with the catalog its request acts on, and no step changes *)
(* the one without ending the other.                                       *)
LEMMA LookStep ==
    ASSUME TypeOK, LockIsHeld, LookReadsItsCatalog, [Next]_vars
    PROVE  LookReadsItsCatalog'
<1> USE DEF TypeOK, LookReadsItsCatalog
<1>1. CASE UNCHANGED <<look, pc, ask>>
  BY <1>1
<1>2. ASSUME NEW r \in Requests, Arrive(r) \/ Serve(r) \/ Expire(r)
      PROVE  LookReadsItsCatalog'
  <2>1. CASE BeginLook(r)
    BY <1>2, <2>1, CatalogsAssumption
    DEF BeginLook, Begun, LockIsHeld, Locked, RequestType, GoTo
  <2>2. CASE LookAt(r)
    BY <1>2, <2>2 DEF LookAt, LookType
  <2>3. CASE Look(r) \/ Unload(r)
    <3>1. \/ look' = NoLook
          \/ /\ UNCHANGED <<look, ask>>
             /\ \/ UNCHANGED pc
                \/ GoTo(r, "unloading")
                \/ GoTo(r, "killing")
      BY <2>3 DEF Look, Unload, Dismiss, Made, Held
    <3>2. CASE look' = NoLook
      BY <3>2 DEF NoLook
    <3>3. CASE UNCHANGED <<look, ask>>
      BY <3>1, <3>2, <3>3 DEF RequestType, GoTo
    <3> QED
      BY <3>1, <3>2, <3>3
  <2>4. CASE Arrive(r) \/ Admit(r) \/ Wake(r) \/ FileMissing(r) \/ Killed(r)
             \/ StartFails(r) \/ Drop(r) \/ Ring(r) \/ Expire(r)
    BY <1>2, <2>4
    DEF Arrive, Admit, Wake, FileMissing, Killed, StartFails, Drop, Ring, Expire,
        lookVars, Answered, RequestType, GoTo
  <2>5. CASE Call(r) \/ FoundRunning(r) \/ Start(r) \/ Touch(r)
    <3>1. look'.unread = look.unread
      BY <2>5 DEF Call, FoundRunning, Start, Touch, Stamp, LookType
    <3> QED
      BY <1>2, <2>5, <3>1
      DEF Call, FoundRunning, Start, Touch, RequestType, GoTo
  <2> QED
    BY <1>2, <2>1, <2>2, <2>3, <2>4, <2>5 DEF Serve
<1>3. CASE (\E id \in Ids : ChildDies(id)) \/ Reaping \/ Operating
  BY <1>1, <1>3 DEF ChildDies, Reaping, SweepExited, SweepIdle, Reap, Gone,
     Operating, LetGo, Resync, Swap, lookVars
<1> QED
  BY <1>1, <1>2, <1>3 DEF Next, vars, lookVars

LockInv == TypeOK /\ LockIsHeld /\ LookReadsItsCatalog

(* The first layer, from its three facts.                                  *)
LEMMA LockInvInvariant == Spec => []LockInv
<1>1. Init => LockInv
  BY InitType, ThreadsAssumption
  DEF Init, LockInv, LockIsHeld, Locked, LookReadsItsCatalog, Nobody
<1>2. LockInv /\ [Next]_vars => LockInv'
  <2> SUFFICES ASSUME LockInv, [Next]_vars
               PROVE  LockInv'
    OBVIOUS
  <2>1. TypeOK'
    <3>1. CASE Next
      BY <3>1, ServeType, OthersType DEF Next, LockInv
    <3>2. CASE UNCHANGED vars
      BY <3>2 DEF LockInv, TypeOK, vars, catalogVars, slotVars, lineVars, lookVars,
         CatalogType, SlotType, RequestType, Asking, LineType, LookType, SweepType
    <3> QED
      BY <3>1, <3>2
  <2> QED
    BY <2>1, LockStep, LookStep DEF LockInv
<1> QED
  BY <1>1, <1>2, PTL DEF Spec

(* Every variable keeps its type. *)
THEOREM TypeCorrect == Spec => []TypeOK
  BY LockInvInvariant, PTL DEF LockInv

(* The admission lock excludes: one thread at a time decides, unloads to   *)
(* make room and starts a child, or reads the catalog again.               *)
THEOREM AdmissionsAreSerialised == Spec => []LockIsHeld
  BY LockInvInvariant, PTL DEF LockInv

-----------------------------------------------------------------------------
(* A reload and the requests it goes past.  Whoever holds the lock has     *)
(* been past no reload since it looked its slot up, so its slot is still   *)
(* the table's; whoever waited through one is on its way out.              *)

SlotIsKept ==
    \A r \in Requests :
        pc[r] \in Locked \cup {"waiting"} /\ r \notin outdated => ask[r].id \in table

OccupiedIsKept == \A id \in Ids : slot[id].full => id \in table

(* A request becomes outdated asleep, with a ring on its way; it stays so  *)
(* until it is sent away.                                                  *)
LEMMA OutdatedStep ==
    ASSUME LockInv, OutdatedDecidesNothing, [Next]_vars
    PROVE  OutdatedDecidesNothing'
<1> USE DEF LockInv, TypeOK, RequestType, LineType, OutdatedDecidesNothing, GoTo
<1>1. CASE UNCHANGED vars
  BY <1>1 DEF vars, lineVars
<1>2. ASSUME NEW r \in Requests, Arrive(r) \/ Serve(r) \/ Expire(r)
      PROVE  OutdatedDecidesNothing'
  <2>1. CASE Arrive(r) \/ Call(r) \/ Touch(r) \/ Drop(r) \/ StartFails(r) \/ Start(r)
             \/ BeginLook(r) \/ LookAt(r) \/ Killed(r)
    BY <2>1 DEF Arrive, Call, Touch, Drop, StartFails, Start, BeginLook, LookAt,
       Killed, Holding, Answered, lineVars
  <2>2. CASE Ring(r) \/ Expire(r) \/ Admit(r)
    BY <2>2 DEF Ring, Expire, Admit, Answered
  <2>3. CASE Wake(r)
    BY <2>3 DEF Wake, SentAway, Leave, Listening, InRoom, Answered
  <2>4. CASE FoundRunning(r) \/ FileMissing(r)
    BY <2>4 DEF FoundRunning, FileMissing, Leave, Listening, InRoom, Answered
  <2>5. ASSUME Dismiss(r) \/ Made(r) \/ Held(r), pc[r] # "waiting"
        PROVE  OutdatedDecidesNothing'
    BY <2>5 DEF Dismiss, Made, Held, Leave, Join, Listening, InRoom, Answered
  <2>6. CASE Look(r)
    BY <2>5, <2>6 DEF Look, lineVars
  <2>7. CASE Unload(r)
    BY <2>5, <2>7 DEF Unload, lineVars
  <2> QED
    BY <1>2, <2>1, <2>2, <2>3, <2>4, <2>6, <2>7 DEF Serve
<1>3. CASE (\E id \in Ids : ChildDies(id)) \/ Reaping
  BY <1>3 DEF ChildDies, Reaping, SweepExited, SweepIdle, Reap, Gone, lineVars
<1>4. CASE Operating
  <2>1. CASE Resync
    BY <2>1, ThreadsAssumption
    DEF Resync, LockFree, LockIsHeld, Locked, Listening, InRoom, Nobody
  <2> QED
    BY <1>4, <2>1 DEF Operating, LetGo, Gone, Swap, lineVars
<1> QED
  BY <1>1, <1>2, <1>3, <1>4 DEF Next

(* A reload that takes the slot of a request outdates it, so one that is   *)
(* past its wait has its slot still.                                       *)
LEMMA SlotKeptStep ==
    ASSUME LockInv, OutdatedDecidesNothing, SlotIsKept, [Next]_vars
    PROVE  SlotIsKept'
<1> USE DEF LockInv, TypeOK, RequestType, LineType, SlotIsKept, GoTo, Locked
<1>1. CASE UNCHANGED vars
  BY <1>1 DEF vars, slotVars, lineVars
<1>2. ASSUME NEW r \in Requests, Arrive(r) \/ Serve(r) \/ Expire(r)
      PROVE  SlotIsKept'
  <2>1. CASE Arrive(r) \/ Call(r) \/ Touch(r) \/ Drop(r) \/ StartFails(r) \/ Start(r)
             \/ BeginLook(r) \/ LookAt(r) \/ Killed(r)
    BY <2>1 DEF Arrive, Call, Touch, Drop, StartFails, Start, BeginLook, LookAt,
       Killed, Holding, Answered, slotVars, lineVars
  <2>2. CASE Ring(r) \/ Expire(r) \/ Admit(r)
    BY <2>2 DEF Ring, Expire, Admit, DroppedMeanwhile, Answered, slotVars
  <2>3. CASE Wake(r)
    BY <2>3 DEF Wake, SentAway, Leave, Answered, slotVars
  <2>4. CASE FoundRunning(r) \/ FileMissing(r)
    BY <2>4 DEF FoundRunning, FileMissing, Leave, Answered
  <2>5. ASSUME Dismiss(r) \/ Made(r) \/ Held(r), pc[r] \in Locked, UNCHANGED table
        PROVE  SlotIsKept'
    BY <2>5 DEF Dismiss, Made, Held, Leave, Join, Answered, OutdatedDecidesNothing
  <2>6. CASE Look(r)
    BY <2>5, <2>6 DEF Look, lineVars, slotVars
  <2>7. CASE Unload(r)
    BY <2>5, <2>7 DEF Unload, lineVars
  <2> QED
    BY <1>2, <2>1, <2>2, <2>3, <2>4, <2>6, <2>7 DEF Serve
<1>3. CASE (\E id \in Ids : ChildDies(id)) \/ Reaping
  BY <1>3 DEF ChildDies, Reaping, SweepExited, SweepIdle, Reap, Gone, slotVars, lineVars
<1>4. CASE Operating
  <2>1. CASE Resync
    BY <2>1, ThreadsAssumption
    DEF Resync, LockFree, LockIsHeld, Listening, InRoom, Nobody
  <2> QED
    BY <1>4, <2>1 DEF Operating, LetGo, Gone, Swap, slotVars, lineVars
<1> QED
  BY <1>1, <1>2, <1>3, <1>4 DEF Next

-----------------------------------------------------------------------------
(* A child that is read from stays in its slot. *)

(* Emptying slots nobody reads from. *)
LEMMA VacateKeepsReaders ==
    ASSUME SlotType, NoReaderLosesItsChild, OccupiedIsKept, UNCHANGED table,
           NEW S, Vacate(S), \A id \in S : ~Busy(id),
           \A q \in Requests : Holding(q)' => Holding(q) /\ ask'[q] = ask[q],
           \A q \in Requests : Holding(q) => ask[q].id \in Ids
    PROVE  NoReaderLosesItsChild' /\ OccupiedIsKept'
<1>1. \A id \in Ids \ S : slot'[id] = slot[id]
  BY DEF Vacate
<1>2. \A id \in S \cap Ids : ~slot'[id].full
  BY DEF Vacate, NoChild
<1>3. OccupiedIsKept'
  BY <1>1, <1>2 DEF OccupiedIsKept
<1>4. ASSUME NEW q \in Requests, Holding(q)'
      PROVE  ask'[q].id \in table' /\ slot'[ask'[q].id].full
  BY <1>1, <1>4 DEF NoReaderLosesItsChild, Busy, Readers
<1> QED
  BY <1>3, <1>4 DEF NoReaderLosesItsChild

(* Slots are emptied only of what nobody reads from, and dropped only when *)
(* empty; a child is handed out only from its slot.                        *)
LEMMA ReaderStep ==
    ASSUME LockInv, OutdatedDecidesNothing, SlotIsKept,
           NoReaderLosesItsChild, OccupiedIsKept, [Next]_vars
    PROVE  NoReaderLosesItsChild' /\ OccupiedIsKept'
<1> DEFINE Goal == NoReaderLosesItsChild' /\ OccupiedIsKept'
<1> USE DEF LockInv, TypeOK, RequestType, SlotType, GoTo
<1>0. \A q \in Requests : Asking(q) => ask[q].id \in Ids
  BY DEF AskRecord
<1>a. \A q \in Requests : Holding(q) => ask[q].id \in Ids
  BY <1>0 DEF Holding, Asking
<1>1. ASSUME UNCHANGED <<table, slot>>,
             \A q \in Requests : Holding(q)' => Holding(q) /\ ask'[q].id = ask[q].id
      PROVE  Goal
  BY <1>1 DEF NoReaderLosesItsChild, OccupiedIsKept
<1>2. CASE UNCHANGED vars
  BY <1>1, <1>2 DEF vars, slotVars, Holding
<1>3. ASSUME NEW r \in Requests, Arrive(r) \/ Serve(r) \/ Expire(r)
      PROVE  Goal
  <2>1. CASE Arrive(r) \/ Touch(r) \/ Drop(r) \/ StartFails(r) \/ Ring(r) \/ Expire(r)
             \/ Admit(r) \/ Wake(r) \/ LookAt(r) \/ Killed(r)
    <3>1. UNCHANGED <<table, slot>>
      BY <2>1 DEF Arrive, Touch, Drop, StartFails, Ring, Expire, Admit, Wake,
         LookAt, Killed, slotVars
    <3>2. \A q \in Requests : Holding(q)' => Holding(q) /\ ask'[q].id = ask[q].id
      BY <2>1 DEF Arrive, Touch, Drop, StartFails, Ring, Expire, Admit, Wake,
         LookAt, Killed, Answered, Holding
    <3> QED
      BY <1>1, <3>1, <3>2
  <2>2. CASE Call(r) \/ FoundRunning(r)
    <3>1. CASE Running(ask[r].id)
      <4>1. \A q \in Requests : ask'[q].id = ask[q].id
        BY <2>2 DEF Call, FoundRunning, AskRecord, Asking
      <4>2. UNCHANGED <<table, slot>>
        BY <2>2, <3>1 DEF Call, FoundRunning
      <4>3. \A q \in Requests : Holding(q)' => Holding(q) \/ q = r
        BY <2>2 DEF Call, FoundRunning, Holding
      <4> QED
        BY <3>1, <4>1, <4>2, <4>3 DEF Running, NoReaderLosesItsChild, OccupiedIsKept
    <3>2. CASE ~Running(ask[r].id)
      BY <1>1, <1>a, <2>2, <3>2, VacateKeepsReaders
      DEF Call, FoundRunning, DropExited, Exited, Holding
    <3> QED
      BY <3>1, <3>2
  <2>3. CASE FileMissing(r)
    BY <1>1, <1>a, <2>3, VacateKeepsReaders
    DEF FileMissing, DropExited, Exited, Holding, Answered
  <2>4. CASE BeginLook(r)
    <3>1. PICK S : Vacate(S) /\ \A id \in S : ~Busy(id)
      BY <2>4 DEF BeginLook, Swept, Exited
    <3> QED
      BY <1>a, <2>4, <3>1, VacateKeepsReaders DEF BeginLook, Holding
  <2>5. ASSUME Dismiss(r) \/ Made(r) \/ Held(r), pc[r] \in Locked
        PROVE  \A q \in Requests : Holding(q)' => Holding(q) /\ ask'[q] = ask[q]
    BY <2>5 DEF Dismiss, Made, Held, Holding, Answered, Locked
  <2>6. CASE Look(r)
    <3>1. \A q \in Requests : Holding(q)' => Holding(q) /\ ask'[q] = ask[q]
      BY <2>5, <2>6 DEF Look, Holding, Locked
    <3> QED
      BY <1>1, <2>6, <3>1 DEF Look, slotVars
  <2>7. CASE Unload(r)
    <3>1. \A q \in Requests : Holding(q)' => Holding(q) /\ ask'[q] = ask[q]
      BY <2>5, <2>7 DEF Unload, Holding, Locked
    <3>2. \/ UNCHANGED slot
          \/ \E v \in plan : Vacate({v}) /\ ~Busy(v)
      BY <2>7 DEF Unload, GainedReader
    <3> QED
      BY <1>1, <1>a, <2>7, <3>1, <3>2, VacateKeepsReaders DEF Unload
  <2>8. CASE Start(r)
    <3>1. ask[r].id \in table /\ ask[r].id \in Ids
      BY <1>0, <2>8 DEF Start, SlotIsKept, Locked, OutdatedDecidesNothing, Asking
    <3>2. slot'[ask[r].id].full /\ \A id \in Ids \ {ask[r].id} : slot'[id] = slot[id]
      BY <2>8, <3>1 DEF Start, Child
    <3> QED
      BY <1>a, <2>8, <3>1, <3>2
      DEF Start, Holding, NoReaderLosesItsChild, OccupiedIsKept
  <2> QED
    BY <1>3, <2>1, <2>2, <2>3, <2>4, <2>6, <2>7, <2>8 DEF Serve
<1>4. CASE \E id \in Ids : ChildDies(id)
  <2>1. \A id \in Ids : slot'[id].full = slot[id].full
    BY <1>4 DEF ChildDies
  <2> QED
    BY <1>4, <1>a, <2>1
    DEF ChildDies, Holding, NoReaderLosesItsChild, OccupiedIsKept
<1>5. CASE Reaping
  <2>1. CASE SweepExited
    BY <1>a, <2>1, VacateKeepsReaders DEF SweepExited, Swept, Exited, Holding
  <2>2. CASE Reap
    <3>1. UNCHANGED slot \/ \E id \in expired : Vacate({id}) /\ ~Busy(id)
      BY <2>2 DEF Reap
    <3> QED
      BY <1>1, <1>a, <2>2, <3>1, VacateKeepsReaders DEF Reap, Holding
  <2> QED
    BY <1>1, <1>5, <2>1, <2>2 DEF Reaping, SweepIdle, Gone, slotVars, Holding
<1>6. CASE Operating
  <2>1. CASE \E id \in Ids : LetGo(id)
    BY <1>a, <2>1, VacateKeepsReaders DEF LetGo, Holding
  <2>2. CASE Resync
    BY <1>a, <2>2 DEF Resync, Kept, Holding, NoReaderLosesItsChild, OccupiedIsKept
  <2> QED
    BY <1>1, <1>6, <2>1, <2>2 DEF Operating, Gone, Swap, slotVars, Holding
<1> QED
  BY <1>2, <1>3, <1>4, <1>5, <1>6 DEF Next

KeptInv == OutdatedDecidesNothing /\ SlotIsKept /\ NoReaderLosesItsChild /\ OccupiedIsKept

(* The second layer, over the first.                                       *)
LEMMA KeptInvInvariant == Spec => []KeptInv
<1>1. Init => KeptInv
  BY DEF Init, KeptInv, OutdatedDecidesNothing, SlotIsKept, Locked,
     NoReaderLosesItsChild, Holding, OccupiedIsKept, NoChild
<1>2. LockInv /\ KeptInv /\ [Next]_vars => KeptInv'
  BY OutdatedStep, SlotKeptStep, ReaderStep DEF KeptInv
<1> QED
  BY <1>1, <1>2, LockInvInvariant, PTL DEF Spec

(* A model that is being read from is never unloaded, whatever admission,  *)
(* the reaper, the operator, a reload and a dying child do meanwhile: the  *)
(* reader finds its child in its slot until it lets go.                    *)
THEOREM ReadersKeepTheirChildren == Spec => []NoReaderLosesItsChild
  BY KeptInvInvariant, PTL DEF KeptInv

(* A request that waited through a reload decides nothing more. *)
THEOREM OutdatedAreSentAway == Spec => []OutdatedDecidesNothing
  BY KeptInvInvariant, PTL DEF KeptInv

(* No reload forgets a child that runs, or one that is being started. *)
THEOREM ChildrenAreNotForgotten == Spec => []NoChildIsForgotten
<1>1. KeptInv => NoChildIsForgotten
  BY DEF KeptInv, OutdatedDecidesNothing, SlotIsKept, OccupiedIsKept,
     NoChildIsForgotten, Locked
<1> QED
  BY <1>1, KeptInvInvariant, PTL

-----------------------------------------------------------------------------
(* The line. *)

(* The order in line, apart from who is where. *)
LineIsOrdered ==
    /\ \A r, q \in inLine : r # q => (q \in ahead[r] <=> r \notin ahead[q])
    /\ \A r \in Requests : ahead[r] \subseteq inLine \ {r}
    /\ \A r, q \in inLine : q \in ahead[r] => ahead[q] \subseteq ahead[r]

(* Taking one out of an order leaves an order of the rest.                 *)
LEMMA LeaveKeepsOrder ==
    ASSUME LineType, LineIsOrdered, NEW r \in Requests, Leave(r)
    PROVE  LineIsOrdered'
  BY DEF LineType, LineIsOrdered, Leave

(* Putting one at its end leaves an order.                                 *)
LEMMA JoinKeepsOrder ==
    ASSUME LineType, LineIsOrdered, NEW r \in Requests, Join(r)
    PROVE  LineIsOrdered'
<1>1. CASE r \in inLine
  BY <1>1 DEF LineType, LineIsOrdered, Join
<1>2. CASE r \notin inLine
  <2>1. ahead' = [ahead EXCEPT ![r] = inLine] /\ inLine' = inLine \cup {r}
    BY <1>2 DEF Join
  <2>2. \A q \in Requests : r \notin ahead[q]
    BY <1>2 DEF LineIsOrdered
  <2> QED
    BY <1>2, <2>1, <2>2 DEF LineType, LineIsOrdered
<1> QED
  BY <1>1, <1>2

(* Only the holder of the lock joins, as it goes to sleep, and whoever     *)
(* ends its wait leaves.                                                   *)
LEMMA LineStep ==
    ASSUME LockInv, LineIsTheWaiters, [Next]_vars
    PROVE  LineIsTheWaiters'
<1> USE DEF LockInv, TypeOK, RequestType, LineType, GoTo
<1> DEFINE Placed == /\ \A r \in Requests : pc[r] = "waiting" => r \in inLine
                     /\ \A r \in inLine : pc[r] \in InRoom
<1>0. LineIsTheWaiters <=> Placed /\ LineIsOrdered
  BY DEF LineIsTheWaiters, LineIsOrdered
<1>0a. LineIsTheWaiters' <=> Placed' /\ LineIsOrdered'
  BY DEF LineIsTheWaiters, LineIsOrdered
<1> HIDE DEF Placed
<1>1. ASSUME UNCHANGED <<inLine, ahead>>
      PROVE  LineIsOrdered'
  BY <1>0, <1>1 DEF LineIsOrdered
<1>2. ASSUME UNCHANGED <<inLine, pc>>
      PROVE  Placed'
  BY <1>0, <1>2 DEF Placed
<1>3. ASSUME NEW r \in Requests, Arrive(r) \/ Serve(r) \/ Expire(r)
      PROVE  LineIsTheWaiters'
  <2>1. CASE Arrive(r) \/ Call(r) \/ Admit(r) \/ Touch(r) \/ Drop(r) \/ Ring(r)
             \/ StartFails(r) \/ Start(r) \/ BeginLook(r) \/ LookAt(r) \/ Killed(r)
             \/ Expire(r)
    <3>1. UNCHANGED <<inLine, ahead>>
      BY <2>1 DEF Arrive, Call, Admit, Touch, Drop, Ring, StartFails, Start,
         BeginLook, LookAt, Killed, Expire, lineVars
    <3>2. \/ UNCHANGED pc
          \/ \E place \in Places \ {"waiting"} :
                /\ GoTo(r, place)
                /\ pc[r] \in InRoom \ {"waiting"} => place \in InRoom
      BY <2>1 DEF Arrive, Call, Admit, Touch, Drop, Ring, StartFails, Start,
         BeginLook, LookAt, Killed, Expire, Answered, Holding, InRoom, Places
    <3>3. pc[r] = "waiting" => UNCHANGED pc
      BY <2>1 DEF Arrive, Call, Admit, Touch, Drop, Ring, StartFails, Start,
         BeginLook, LookAt, Killed, Expire, Answered, Holding
    <3>4. Placed'
      BY <1>0, <1>2, <3>1, <3>2, <3>3 DEF Placed
    <3> QED
      BY <1>0a, <1>1, <3>1, <3>4
  <2>2. CASE Wake(r) /\ UNCHANGED <<inLine, ahead>>
    BY <1>0, <1>0a, <1>1, <2>2 DEF Wake, Placed, InRoom, Answered, Leave
  <2>3. ASSUME Leave(r), NEW place \in Places \ {"waiting"}, GoTo(r, place)
        PROVE  LineIsTheWaiters'
    <3>1. LineIsOrdered'
      BY <1>0, <2>3, LeaveKeepsOrder
    <3>2. Placed'
      BY <1>0, <2>3 DEF Placed, Leave
    <3> QED
      BY <1>0a, <3>1, <3>2
  <2>4. CASE Wake(r) /\ ~UNCHANGED <<inLine, ahead>>
    BY <2>3, <2>4 DEF Wake, Answered, Places
  <2>5. CASE FoundRunning(r) \/ FileMissing(r) \/ Dismiss(r) \/ Made(r)
    BY <2>3, <2>5 DEF FoundRunning, FileMissing, Dismiss, Made, Answered, Places
  <2>6. CASE Join(r) /\ GoTo(r, "waiting")
    <3>1. LineIsOrdered'
      BY <1>0, <2>6, JoinKeepsOrder
    <3>2. Placed'
      BY <1>0, <2>6 DEF Placed, Join, InRoom
    <3> QED
      BY <1>0a, <3>1, <3>2
  <2>7. CASE Held(r)
    BY <2>5, <2>6, <2>7 DEF Held
  <2>8. ASSUME UNCHANGED lineVars,
               \/ UNCHANGED pc
               \/ GoTo(r, "unloading") /\ pc[r] = "looking"
               \/ GoTo(r, "killing") /\ pc[r] = "unloading"
        PROVE  LineIsTheWaiters'
    BY <1>0, <1>0a, <1>1, <2>8 DEF Placed, InRoom, lineVars
  <2>9. CASE Look(r)
    BY <2>5, <2>7, <2>8, <2>9 DEF Look
  <2>10. CASE Unload(r)
    BY <2>5, <2>7, <2>8, <2>10 DEF Unload
  <2> QED
    BY <1>3, <2>1, <2>2, <2>4, <2>5, <2>9, <2>10 DEF Serve
<1>4. CASE (\E id \in Ids : ChildDies(id)) \/ Reaping \/ Operating \/ UNCHANGED vars
  <2>1. UNCHANGED <<inLine, ahead, pc>>
    BY <1>4 DEF ChildDies, Reaping, SweepExited, SweepIdle, Reap, Gone,
       Operating, LetGo, Resync, Swap, vars, lineVars
  <2> QED
    BY <1>0a, <1>1, <1>2, <2>1
<1> QED
  BY <1>3, <1>4 DEF Next

(* A request allowed free room alone is refused where any other would wait *)
(* or unload.                                                              *)
LEMMA FreeRoomStep ==
    ASSUME LockInv, LineIsTheWaiters, FreeRoomTakesNothing, [Next]_vars
    PROVE  FreeRoomTakesNothing'
<1> USE DEF LockInv, TypeOK, RequestType, LineType, GoTo
<1>1. CASE UNCHANGED <<pc, ask, inLine>>
  BY <1>1 DEF FreeRoomTakesNothing, Asking
<1>2. ASSUME NEW r \in Requests, Arrive(r) \/ Serve(r) \/ Expire(r)
      PROVE  FreeRoomTakesNothing'
  <2> DEFINE Elsewhere == \A q \in Requests \ {r} : pc'[q] = pc[q] /\ ask'[q] = ask[q]
  <2>1. CASE Arrive(r) \/ Call(r) \/ Admit(r) \/ Touch(r) \/ Drop(r) \/ Ring(r)
             \/ StartFails(r) \/ Start(r) \/ BeginLook(r) \/ LookAt(r) \/ Killed(r)
             \/ Expire(r)
    <3>1. UNCHANGED inLine /\ Elsewhere
      BY <2>1 DEF Arrive, Call, Admit, Touch, Drop, Ring, StartFails, Start,
         BeginLook, LookAt, Killed, Expire, Answered, lineVars
    <3>2. CASE Arrive(r)
      BY <3>1, <3>2 DEF Arrive, FreeRoomTakesNothing, Asking, LineIsTheWaiters, InRoom
    <3>3. CASE ~Arrive(r)
      <4>1. \/ ~Asking(r)'
            \/ /\ Asking(r)
               /\ ask'[r].room = ask[r].room
               /\ \/ pc'[r] = pc[r]
                  \/ pc'[r] \notin {"unloading", "killing", "waiting"}
                  \/ pc[r] = "killing"
        BY <2>1, <3>3 DEF Call, Admit, Touch, Drop, Ring, StartFails, Start, BeginLook,
           LookAt, Killed, Expire, Answered, Asking, AskRecord, Holding
      <4> QED
        BY <3>1, <4>1 DEF FreeRoomTakesNothing, Asking
    <3> QED
      BY <3>2, <3>3
  <2>2. ASSUME Leave(r), NEW place \in Places \ {"unloading", "killing", "waiting"},
               GoTo(r, place), ask'[r] = ask[r] \/ place = "idle", Elsewhere,
               Asking(r)
        PROVE  FreeRoomTakesNothing'
    BY <2>2 DEF FreeRoomTakesNothing, Leave, Asking
  <2>3. CASE Wake(r) \/ FoundRunning(r) \/ FileMissing(r)
    <3>1. CASE Leave(r)
      BY <2>2, <2>3, <3>1
      DEF Wake, FoundRunning, FileMissing, Answered, Places, InRoom, Asking
    <3>2. CASE ~Leave(r)
      BY <2>3, <3>2 DEF Wake, FoundRunning, FileMissing, FreeRoomTakesNothing, Asking
    <3> QED
      BY <3>1, <3>2
  <2>4. CASE (Dismiss(r) \/ Made(r)) /\ Asking(r)
    BY <2>2, <2>4 DEF Dismiss, Made, Answered, Places
  <2>5. CASE Held(r) /\ Asking(r) /\ ask[r].room # "free"
    <3>1. CASE Dismiss(r)
      BY <2>4, <2>5, <3>1
    <3>2. CASE ~Dismiss(r)
      BY <2>5, <3>2 DEF Held, Join, FreeRoomTakesNothing, Asking
    <3> QED
      BY <3>1, <3>2
  <2>6. CASE Look(r)
    <3>1. Asking(r)
      BY <2>6 DEF Look, Asking
    <3>2. CASE ask[r].room = "free"
      BY <2>4, <2>6, <3>1, <3>2 DEF Look, MayNotUnload
    <3>3. CASE ask[r].room # "free"
      <4>1. CASE GoTo(r, "unloading") /\ UNCHANGED <<ask, lineVars>>
        BY <3>1, <3>3, <4>1 DEF FreeRoomTakesNothing, Asking, lineVars
      <4> QED
        BY <2>4, <2>5, <2>6, <3>1, <3>3, <4>1 DEF Look
    <3> QED
      BY <3>2, <3>3
  <2>7. CASE Unload(r)
    <3>1. Asking(r) /\ ask[r].room # "free"
      BY <2>7 DEF Unload, Asking, FreeRoomTakesNothing
    <3>2. CASE UNCHANGED <<ask, lineVars>> /\ (UNCHANGED pc \/ GoTo(r, "killing"))
      BY <3>1, <3>2 DEF FreeRoomTakesNothing, Asking, lineVars
    <3> QED
      BY <2>4, <2>5, <2>7, <3>1, <3>2 DEF Unload
  <2> QED
    BY <1>2, <2>1, <2>3, <2>6, <2>7 DEF Serve
<1>3. CASE (\E id \in Ids : ChildDies(id)) \/ Reaping \/ Operating \/ UNCHANGED vars
  <2>1. UNCHANGED <<pc, ask, inLine>>
    BY <1>3 DEF ChildDies, Reaping, SweepExited, SweepIdle, Reap, Gone,
       Operating, LetGo, Resync, Swap, vars, lineVars
  <2> QED
    BY <1>1, <2>1
<1> QED
  BY <1>2, <1>3 DEF Next

LineInv == LineIsTheWaiters /\ FreeRoomTakesNothing

(* The third layer, over the first.                                        *)
LEMMA LineInvInvariant == Spec => []LineInv
<1>1. Init => LineInv
  BY DEF Init, LineInv, LineIsTheWaiters, FreeRoomTakesNothing, Asking
<1>2. LockInv /\ LineInv /\ [Next]_vars => LineInv'
  BY LineStep, FreeRoomStep DEF LineInv
<1> QED
  BY <1>1, <1>2, LockInvInvariant, PTL DEF Spec

(* The line holds every request asleep and nobody who is not inside        *)
(* room_for, in one order: so exactly one of them may take room.           *)
THEOREM TheLineIsALine == Spec => []LineIsTheWaiters
  BY LineInvInvariant, PTL DEF LineInv

(* A request allowed free room alone never unloads and never queues. *)
THEOREM FreeRoomRequestsTakeNothing == Spec => []FreeRoomTakesNothing
  BY LineInvInvariant, PTL DEF LineInv

-----------------------------------------------------------------------------
(* While a request holds the admission lock, whatever the others do empties *)
(* slots and fills none.                                                   *)

Undisturbed(r) ==
    /\ pc'[r] = pc[r] /\ ask'[r] = ask[r]
    /\ UNCHANGED <<table, plan>>
    /\ look'.held = look.held /\ look'.unread = look.unread
    /\ \A id \in Ids : slot'[id].full =>
          slot[id].full /\ slot'[id].measured = slot[id].measured

(* Slots are vacated, and keep what they have otherwise.                   *)
LEMMA VacateOnlyEmpties ==
    ASSUME SlotType, NEW S, Vacate(S)
    PROVE  \A id \in Ids : slot'[id].full =>
              slot[id].full /\ slot'[id].measured = slot[id].measured
  BY DEF SlotType, Vacate, NoChild

(* A stamp is of no account to what was read of the slots.                 *)
LEMMA StampKeepsLook ==
    ASSUME LookType, NEW id, Stamp(id)
    PROVE  look'.held = look.held /\ look'.unread = look.unread
  BY DEF LookType, Stamp

(* Another request, which is not where the lock's holder alone can be.     *)
LEMMA RequestsOnlyEmpty ==
    ASSUME LockInv, NEW r \in Requests, pc[r] \in Locked,
           NEW q \in Requests \ {r}, Arrive(q) \/ Serve(q) \/ Expire(q)
    PROVE  Undisturbed(r)
<1> USE DEF LockInv, TypeOK, RequestType, GoTo
<1>0. admission = r /\ pc[q] \notin Locked
  BY DEF LockIsHeld
<1>1. CASE Arrive(q) \/ Drop(q) \/ Ring(q) \/ Expire(q)
  BY <1>1 DEF Arrive, Drop, Ring, Expire, Undisturbed, slotVars, lookVars
<1>2. CASE Call(q)
  <2>1. CASE Running(ask[q].id)
    BY <1>2, <2>1, StampKeepsLook DEF Call, Undisturbed
  <2>2. CASE ~Running(ask[q].id)
    BY <1>2, <2>2, VacateOnlyEmpties DEF Call, DropExited, Undisturbed
  <2> QED
    BY <2>1, <2>2
<1>3. CASE Touch(q)
  BY <1>3, StampKeepsLook DEF Touch, Undisturbed
<1>4. ~(Admit(q) \/ Wake(q))
  BY <1>0, ThreadsAssumption DEF Admit, Wake, LockFree, Nobody
<1>5. ~(FoundRunning(q) \/ FileMissing(q) \/ BeginLook(q) \/ LookAt(q) \/ Look(q)
        \/ Unload(q) \/ Killed(q) \/ Start(q) \/ StartFails(q))
  BY <1>0 DEF FoundRunning, FileMissing, BeginLook, LookAt, Look, Unload, Killed,
     Start, StartFails, Locked
<1> QED
  BY <1>1, <1>2, <1>3, <1>4, <1>5 DEF Serve

(* The reaper, the operator, a dying child, and the holder's own deadline. *)
LEMMA OthersOnlyEmpty ==
    ASSUME LockInv, NEW r \in Requests, pc[r] \in Locked,
           \/ \E id \in Ids : ChildDies(id)
           \/ Reaping \/ Operating \/ Expire(r) \/ UNCHANGED vars
    PROVE  Undisturbed(r)
<1> USE DEF LockInv, TypeOK, RequestType
<1>0. admission = r
  BY DEF LockIsHeld
<1>1. CASE \E id \in Ids : ChildDies(id)
  BY <1>1 DEF ChildDies, Undisturbed, lookVars, SlotType
<1>2. CASE Reaping
  BY <1>2, VacateOnlyEmpties
  DEF Reaping, SweepExited, SweepIdle, Reap, Gone, Undisturbed, slotVars, lookVars
<1>3. CASE Operating
  <2>1. ~Resync /\ ~Swap
    BY <1>0, ThreadsAssumption DEF Resync, Swap, LockFree, Nobody
  <2> QED
    BY <1>3, <2>1, VacateOnlyEmpties
    DEF Operating, LetGo, Gone, Undisturbed, slotVars, lookVars
<1>4. CASE Expire(r) \/ UNCHANGED vars
  BY <1>4 DEF Expire, vars, Undisturbed, slotVars, lookVars
<1> QED
  BY <1>1, <1>2, <1>3, <1>4

(* A step in which somebody is, or comes to be, past the start of a look   *)
(* is its own step under the lock or leaves it undisturbed.                *)
LEMMA HolderActs ==
    ASSUME LockInv, [Next]_vars, NEW r \in Requests,
           pc'[r] \in Locked \ {"rechecking"}
    PROVE  /\ pc[r] \in Locked
           /\ \/ Undisturbed(r)
              \/ BeginLook(r) \/ LookAt(r) \/ Look(r) \/ Unload(r) \/ Killed(r)
<1> USE DEF LockInv, TypeOK, RequestType, GoTo
<1>1. CASE pc[r] \in Locked
  <2>1. CASE FoundRunning(r) \/ FileMissing(r) \/ Start(r) \/ StartFails(r)
             \/ Arrive(r) \/ Call(r) \/ Admit(r) \/ Wake(r) \/ Touch(r) \/ Drop(r)
             \/ Ring(r)
    BY <1>1, <2>1 DEF FoundRunning, FileMissing, Start, StartFails, Answered, Arrive,
       Call, Admit, Wake, Touch, Drop, Ring, Holding, Locked
  <2> QED
    BY <1>1, <2>1, RequestsOnlyEmpty, OthersOnlyEmpty DEF Next, Serve
<1>2. CASE pc[r] \notin Locked
  <2>1. pc'[r] # pc[r]
    BY <1>2
  <2>2. Arrive(r) \/ Call(r) \/ Admit(r) \/ Wake(r) \/ Touch(r) \/ Drop(r) \/ Ring(r)
    <3>1. CASE \E q \in Requests : Arrive(q) \/ Serve(q) \/ Expire(q)
      <4>1. PICK q \in Requests : Arrive(q) \/ Serve(q) \/ Expire(q)
        BY <3>1
      <4>2. \A p \in Requests : p # q => pc'[p] = pc[p]
        BY <4>1 DEF Arrive, Serve, Call, Admit, Wake, FoundRunning, FileMissing,
           BeginLook, LookAt, Look, Unload, Killed, Start, StartFails, Touch, Drop,
           Ring, Expire, Dismiss, Made, Held, Answered
      <4>3. q = r
        BY <2>1, <4>2
      <4> QED
        BY <1>2, <2>1, <4>1, <4>3 DEF Serve, FoundRunning, FileMissing, BeginLook,
           LookAt, Look, Unload, Killed, Start, StartFails, Expire, Locked
    <3>2. CASE ~\E q \in Requests : Arrive(q) \/ Serve(q) \/ Expire(q)
      BY <2>1, <3>2 DEF Next, vars, ChildDies, Reaping, SweepExited, SweepIdle, Reap,
         Gone, Operating, LetGo, Resync, Swap
    <3> QED
      BY <3>1, <3>2
  <2> QED
    BY <2>2 DEF Arrive, Call, Admit, Wake, Touch, Drop, Ring, Answered, Locked, Holding
<1> QED
  BY <1>1, <1>2

-----------------------------------------------------------------------------
(* The bell. *)

(* Whoever holds the room a request is about to wait for is reading from   *)
(* it still, or the bell has rung since the request last heard it.         *)
RingIsDue(r, m) == RingComes(r) \/ Busy(m)

SightIsTrue ==
    \A r \in Requests :
        /\ pc[r] \in {"looking", "unloading", "killing"} =>
            \A m \in DOMAIN look.held :
                /\ m \in DOMAIN ask[r].catalog
                /\ look.held[m].resident = ask[r].catalog[m].resident
        /\ pc[r] = "looking" =>
            \A m \in DOMAIN look.held : look.held[m].busy => RingIsDue(r, m)
        /\ pc[r] \in {"unloading", "killing"} =>
            \A m \in plan : CouldBeUnloadedFor(r, m)

(* A ring that is due to a request that listens stays so until it comes: a *)
(* reader rings as it goes, and only a request that wakes or leaves has    *)
(* heard the bell.                                                         *)
LEMMA RingStaysDue ==
    ASSUME LockInv, [Next]_vars, NEW r \in Requests,
           pc[r] \in {"looking", "waiting"}, pc'[r] \in {"looking", "waiting"}
    PROVE  /\ RingComes(r) => RingComes(r)'
           /\ \A m : Busy(m) => RingIsDue(r, m)'
<1> USE DEF LockInv, TypeOK, RequestType, LineType, GoTo
<1> DEFINE Stays == /\ RingComes(r) => RingComes(r)'
                    /\ \A m : Busy(m) => RingIsDue(r, m)'
<1>1. ASSUME \A q \in Requests : pc[q] = "ringing" => pc'[q] = "ringing",
             \A q \in Requests : Holding(q) => Holding(q)' /\ ask'[q] = ask[q],
             r \in rung => r \in rung'
      PROVE  Stays
  BY <1>1 DEF RingComes, RingIsDue, Busy, Readers
<1>2. ASSUME NEW q \in Requests, Arrive(q) \/ Serve(q) \/ Expire(q)
      PROVE  Stays
  <2>1. CASE Drop(q)
    BY <2>1 DEF Drop, RingComes, RingIsDue
  <2>2. CASE Ring(q)
    BY <2>2 DEF Ring, Listening, InRoom, RingComes, RingIsDue
  <2>3. CASE Arrive(q) \/ Call(q) \/ Admit(q) \/ Touch(q) \/ StartFails(q) \/ Start(q)
             \/ BeginLook(q) \/ LookAt(q) \/ Killed(q) \/ Expire(q)
    BY <1>1, <2>3 DEF Arrive, Call, Admit, Touch, StartFails, Start, BeginLook, LookAt,
       Killed, Expire, Holding, Answered, lineVars
  <2>4. CASE Wake(q) \/ FoundRunning(q) \/ FileMissing(q)
    BY <1>1, <2>4 DEF Wake, FoundRunning, FileMissing, Leave, Listening, InRoom,
       Holding, Answered
  <2>5. ASSUME Dismiss(q) \/ Made(q) \/ Held(q), pc[q] \in {"looking", "unloading"}
        PROVE  Stays
    <3>1. r \in rung => r \in rung'
      BY <2>5 DEF Dismiss, Made, Held, Leave, Join, Listening, InRoom, Answered
    <3> QED
      BY <1>1, <2>5, <3>1 DEF Dismiss, Made, Held, Holding, Answered
  <2>6. CASE Look(q)
    BY <1>1, <2>5, <2>6 DEF Look, Holding, lineVars
  <2>7. CASE Unload(q)
    BY <1>1, <2>5, <2>7 DEF Unload, Holding, lineVars
  <2> QED
    BY <1>2, <2>1, <2>2, <2>3, <2>4, <2>6, <2>7 DEF Serve
<1>3. CASE Operating
  BY <1>1, <1>3 DEF Operating, LetGo, Gone, Resync, Swap, lineVars, Holding
<1>4. CASE (\E id \in Ids : ChildDies(id)) \/ Reaping \/ UNCHANGED vars
  BY <1>1, <1>4 DEF ChildDies, Reaping, SweepExited, SweepIdle, Reap, Gone, vars,
     lineVars, Holding
<1> QED
  BY <1>2, <1>3, <1>4 DEF Next

(* What a look saw answering, and what it decided to unload, is worth      *)
(* waiting for.                                                            *)
LEMMA SightStep ==
    ASSUME LockInv, SightIsTrue, [Next]_vars
    PROVE  SightIsTrue'
<1> USE DEF LockInv, TypeOK, RequestType, GoTo, Locked
<1> DEFINE Places3 == {"looking", "unloading", "killing"}
           Sound(r) == \A m \in DOMAIN look.held :
                          /\ m \in DOMAIN ask[r].catalog
                          /\ look.held[m].resident = ask[r].catalog[m].resident
           Due(r) == \A m \in DOMAIN look.held : look.held[m].busy => RingIsDue(r, m)
           Planned(r) == \A m \in plan : CouldBeUnloadedFor(r, m)
<1> SUFFICES ASSUME NEW r \in Requests, pc'[r] \in Places3
             PROVE  /\ Sound(r)'
                    /\ pc'[r] = "looking" => Due(r)'
                    /\ pc'[r] # "looking" => Planned(r)'
  BY DEF SightIsTrue
<1>0. /\ pc[r] \in Places3 => Sound(r)
      /\ pc[r] = "looking" => Due(r)
      /\ pc[r] \in {"unloading", "killing"} => Planned(r)
  BY DEF SightIsTrue
<1>1. CASE Undisturbed(r)
  <2>1. pc[r] = pc'[r] /\ ask'[r] = ask[r] /\ look'.held = look.held /\ plan' = plan
    BY <1>1 DEF Undisturbed
  <2>2. Sound(r)'
    BY <1>0, <2>1
  <2>3. ASSUME pc'[r] = "looking"
        PROVE  Due(r)'
    <3>1. \A m : RingIsDue(r, m) => RingIsDue(r, m)'
      BY <2>1, <2>3, RingStaysDue DEF RingIsDue
    <3> QED
      BY <1>0, <2>1, <2>3, <3>1
  <2>4. ASSUME pc'[r] # "looking"
        PROVE  Planned(r)'
    BY <1>0, <2>1, <2>4 DEF CouldBeUnloadedFor
  <2> QED
    BY <2>2, <2>3, <2>4
<1>2. CASE BeginLook(r)
  BY <1>2 DEF BeginLook, Begun, NoLook
<1>3. CASE LookAt(r)
  <2>1. PICK id \in look.unread :
           LET entry == ask[r].catalog[id]
               seen  == HeldOf(entry, slot[id].measured, Busy(id), slot[id].guest)
           IN  look' = [look EXCEPT
                  !.unread = @ \ {id},
                  !.held = IF id \in table /\ slot[id].full
                           THEN [m \in DOMAIN @ \cup {id} |-> IF m = id THEN seen ELSE @[m]]
                           ELSE @]
    BY <1>3 DEF LookAt
  <2> DEFINE seen == HeldOf(ask[r].catalog[id], slot[id].measured, Busy(id), slot[id].guest)
  <2>2. id \in DOMAIN ask[r].catalog
    BY <1>3 DEF LookAt, LookReadsItsCatalog
  <2>3. seen.resident = ask[r].catalog[id].resident /\ (seen.busy => Busy(id))
    BY DEF HeldOf
  <2>4. UNCHANGED <<pc, ask, rung>> /\ pc[r] = "looking"
    BY <1>3 DEF LookAt, lineVars
  <2>5. \A m : RingIsDue(r, m)' <=> RingIsDue(r, m)
    BY <2>4 DEF RingIsDue, RingComes, Busy, Readers, Holding
  <2>6. look'.held = look.held
        \/ look'.held = [m \in DOMAIN look.held \cup {id} |-> IF m = id THEN seen ELSE look.held[m]]
    BY <2>1 DEF LookType
  <2> HIDE DEF seen
  <2>7. Sound(r)'
    BY <1>0, <2>2, <2>3, <2>4, <2>6
  <2>8. RingIsDue(r, id) \/ ~seen.busy
    BY <2>3 DEF RingIsDue
  <2>9. Due(r)'
    BY <1>0, <2>4, <2>5, <2>6, <2>8
  <2> QED
    BY <2>4, <2>7, <2>9
<1>4. CASE Look(r)
  <2>1. PICK deviceFree \in DeviceReadings :
           /\ plan' = Asked(r, deviceFree).unload
           /\ pc'[r] = "unloading"
           /\ UNCHANGED <<ask, look>>
    BY <1>4 DEF Look, Dismiss, Made, Held, Answered
  <2>2. pc[r] = "looking"
    BY <1>4 DEF Look
  <2>3. plan' \subseteq Candidates(look.held, WantedOf(ask[r].id, ask[r].entry))
    BY <2>1, DecisionUnloadsCandidates DEF Asked
  <2>4. Planned(r)'
    BY <1>0, <2>1, <2>2, <2>3 DEF Candidates, WantedOf, CouldBeUnloadedFor
  <2> QED
    BY <1>0, <2>1, <2>2, <2>4
<1>5. CASE Unload(r)
  <2>1. /\ pc[r] = "unloading" /\ pc'[r] # "looking"
        /\ UNCHANGED <<ask, look>> /\ plan' \subseteq plan
    BY <1>5 DEF Unload, Dismiss, Made, Held, Answered
  <2> QED
    BY <1>0, <2>1 DEF CouldBeUnloadedFor
<1>6. CASE Killed(r)
  BY <1>0, <1>6 DEF Killed, lookVars, CouldBeUnloadedFor
<1> QED
  BY <1>1, <1>2, <1>3, <1>4, <1>5, <1>6, HolderActs

(* A request goes to sleep knowing whom it waits for.                      *)
LEMMA SleepsForSomebody ==
    ASSUME LockInv, LineInv, SightIsTrue, NEW r \in Requests, Look(r) \/ Unload(r),
           pc'[r] = "waiting"
    PROVE  \/ RingComes(r)'
           \/ ahead'[r] # {}
           \/ \E m \in Ids : CouldBeUnloadedFor(r, m)' /\ Busy(m)'
<1> USE DEF LockInv, TypeOK, RequestType, LineType, GoTo
<1>1. Join(r) /\ UNCHANGED ask /\ GoTo(r, "waiting") /\ pc[r] \in {"looking", "unloading"}
  BY DEF Look, Unload, Dismiss, Made, Held, Answered
<1>2. \A m : /\ CouldBeUnloadedFor(r, m)' <=> CouldBeUnloadedFor(r, m)
             /\ RingIsDue(r, m) => RingComes(r)' \/ Busy(m)'
  BY <1>1 DEF Join, CouldBeUnloadedFor, RingIsDue, RingComes, Busy, Readers, Holding
<1>3. CASE Look(r)
  <2>1. PICK deviceFree \in DeviceReadings :
           LET decision == Asked(r, deviceFree)
           IN  decision.kind = "blocked" \/ (decision.kind = "unload" /\ ~MayTake(r))
    BY <1>1, <1>3 DEF Look, Dismiss, Made, Answered
  <2>2. CASE Asked(r, deviceFree).kind = "blocked"
    <3>1. FreesItself(look.held, WantedOf(ask[r].id, ask[r].entry))
      BY <2>2 DEF Asked, Decide, Decision
    <3>2. PICK m \in DOMAIN look.held :
             ~look.held[m].resident /\ look.held[m].busy /\ m # ask[r].id
      BY <3>1 DEF FreesItself, WantedOf
    <3>3. RingIsDue(r, m) /\ CouldBeUnloadedFor(r, m) /\ m \in Ids
      BY <1>3, <3>2 DEF Look, SightIsTrue, CouldBeUnloadedFor, LookType
    <3> QED
      BY <1>2, <3>3
  <2>3. CASE ~MayTake(r)
    BY <1>1, <2>3 DEF MayTake, Join
  <2> QED
    BY <2>1, <2>2, <2>3
<1>4. CASE Unload(r)
  <2>1. PICK v \in plan : Busy(v)
    BY <1>1, <1>4 DEF Unload, Made, GainedReader
  <2>2. RingIsDue(r, v) /\ CouldBeUnloadedFor(r, v) /\ v \in Ids
    BY <1>4, <2>1 DEF Unload, SightIsTrue, RingIsDue, LookType
  <2> QED
    BY <1>2, <2>2
<1> QED
  BY <1>3, <1>4

(* And while it sleeps, the ones before it in line ring as they leave it.  *)
LEMMA SleeperStep ==
    ASSUME LockInv, LineInv, [Next]_vars, NEW r \in Requests,
           pc[r] = "waiting", pc'[r] = "waiting"
    PROVE  ask'[r] = ask[r] /\ (ahead'[r] = ahead[r] \/ r \in rung')
<1> USE DEF LockInv, TypeOK, RequestType, LineType, GoTo
<1>1. ASSUME NEW q \in Requests, Leave(q), q # r
      PROVE  ahead'[r] = ahead[r] \/ r \in rung'
  <2>1. CASE q \in inLine
    BY <1>1, <2>1 DEF Leave, Listening, InRoom
  <2>2. CASE q \notin inLine
    BY <1>1, <2>2 DEF Leave, LineInv, LineIsTheWaiters
  <2> QED
    BY <2>1, <2>2
<1>2. ASSUME NEW q \in Requests, Arrive(q) \/ Serve(q) \/ Expire(q)
      PROVE  ask'[r] = ask[r] /\ (ahead'[r] = ahead[r] \/ r \in rung')
  <2>1. CASE Arrive(q) \/ Call(q) \/ Admit(q) \/ Touch(q) \/ StartFails(q) \/ Start(q)
             \/ BeginLook(q) \/ LookAt(q) \/ Killed(q) \/ Expire(q) \/ Drop(q) \/ Ring(q)
    BY <2>1 DEF Arrive, Call, Admit, Touch, StartFails, Start, BeginLook, LookAt,
       Killed, Expire, Drop, Ring, Holding, Answered, lineVars
  <2>2. CASE Wake(q) \/ FoundRunning(q) \/ FileMissing(q)
    <3>1. q # r
      BY <2>2 DEF Wake, FoundRunning, FileMissing, Answered
    <3> QED
      BY <1>1, <2>2, <3>1 DEF Wake, FoundRunning, FileMissing, Answered
  <2>3. CASE Look(q) \/ Unload(q)
    <3>1. q # r
      BY <2>3 DEF Look, Unload
    <3>2. Leave(q) \/ Join(q) \/ UNCHANGED ahead
      BY <2>3 DEF Look, Unload, Dismiss, Made, Held, lineVars
    <3>3. ask'[r] = ask[r]
      BY <2>3, <3>1 DEF Look, Unload, Dismiss, Made, Held, Answered
    <3>4. CASE Join(q)
      BY <3>1, <3>3, <3>4 DEF Join
    <3> QED
      BY <1>1, <3>1, <3>2, <3>3, <3>4
  <2> QED
    BY <1>2, <2>1, <2>2, <2>3 DEF Serve
<1>3. CASE (\E id \in Ids : ChildDies(id)) \/ Reaping \/ Operating \/ UNCHANGED vars
  BY <1>3 DEF ChildDies, Reaping, SweepExited, SweepIdle, Reap, Gone,
     Operating, LetGo, Resync, Swap, vars, lineVars
<1> QED
  BY <1>2, <1>3 DEF Next

(* Nobody sleeps without a waker.                                          *)
LEMMA WakerStep ==
    ASSUME LockInv, LineInv, SightIsTrue, SleepersHaveWakers, [Next]_vars
    PROVE  SleepersHaveWakers'
<1> SUFFICES ASSUME NEW r \in Requests, pc'[r] = "waiting"
             PROVE  \/ RingComes(r)'
                    \/ ahead'[r] # {}
                    \/ \E m \in Ids : CouldBeUnloadedFor(r, m)' /\ Busy(m)'
  BY DEF SleepersHaveWakers
<1>1. CASE pc[r] = "waiting"
  <2>1. ask'[r] = ask[r] /\ (ahead'[r] = ahead[r] \/ r \in rung')
    BY <1>1, SleeperStep
  <2>2. CASE RingComes(r) \/ r \in rung'
    BY <1>1, <2>2, RingStaysDue DEF RingComes
  <2>3. CASE ahead[r] # {} /\ ahead'[r] = ahead[r]
    BY <2>3
  <2>4. ASSUME NEW m \in Ids, CouldBeUnloadedFor(r, m), Busy(m)
        PROVE  RingComes(r)' \/ (CouldBeUnloadedFor(r, m)' /\ Busy(m)')
    BY <1>1, <2>1, <2>4, RingStaysDue DEF RingIsDue, CouldBeUnloadedFor
  <2> QED
    BY <1>1, <2>1, <2>2, <2>3, <2>4 DEF SleepersHaveWakers
<1>2. CASE pc[r] # "waiting"
  <2>1. Look(r) \/ Unload(r)
    <3>1. PICK q \in Requests : Arrive(q) \/ Serve(q) \/ Expire(q)
      BY <1>2 DEF Next, vars, ChildDies, Reaping, SweepExited, SweepIdle, Reap, Gone,
         Operating, LetGo, Resync, Swap
    <3> QED
      BY <1>2, <3>1
      DEF LockInv, TypeOK, RequestType, GoTo, Serve, Arrive, Call, Admit, Wake,
          FoundRunning, FileMissing, BeginLook, LookAt, Look, Unload, Killed, Start,
          StartFails, Touch, Drop, Ring, Expire, Dismiss, Made, Held, Answered
  <2> QED
    BY <2>1, SleepsForSomebody
<1> QED
  BY <1>1, <1>2

(* The fourth layer, over the first and the third.                         *)
LEMMA BellInvInvariant == Spec => [](SightIsTrue /\ SleepersHaveWakers)
<1>1. Init => SightIsTrue /\ SleepersHaveWakers
  BY DEF Init, SightIsTrue, SleepersHaveWakers
<1>2. LockInv /\ LineInv /\ SightIsTrue /\ SleepersHaveWakers /\ [Next]_vars
        => SightIsTrue' /\ SleepersHaveWakers'
  BY SightStep, WakerStep
<1> QED
  BY <1>1, <1>2, LockInvInvariant, LineInvInvariant, PTL DEF Spec

(* No wakeup is lost: whoever sleeps for room is in line behind somebody,  *)
(* has a ring on its way, or waits for a reader that will ring.            *)
THEOREM NobodySleepsUnwoken == Spec => []SleepersHaveWakers
  BY BellInvInvariant, PTL

=============================================================================
