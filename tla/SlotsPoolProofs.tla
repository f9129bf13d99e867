-------------------------- MODULE SlotsPoolProofs --------------------------
(***************************************************************************)
(* What the router loads fits: the memory budget holds for whatever is     *)
(* started, and the slot table is the pool of models it is meant to be,    *)
(* for any catalog, any number of requests and any budget.                 *)
(***************************************************************************)
EXTENDS SlotsPool, SlotsProofs, AdmissionProofs

-----------------------------------------------------------------------------
(* What the holder of the lock has read. *)

(* Every child in a slot of the catalog, once its slot has been read, was  *)
(* seen there and counted at what it is charged now: a look misses nothing *)
(* that was loaded, and what it saw can only have gone since.              *)
LookIsComplete ==
    \A r \in Requests : pc[r] \in {"looking", "unloading", "killing"} =>
        LET c == ask[r].catalog
        IN  /\ DOMAIN look.held \subseteq DOMAIN c
            /\ \A m \in DOMAIN c \cap table : slot[m].full =>
                  \/ m \in look.unread
                  \/ /\ m \in DOMAIN look.held
                     /\ look.held[m].cost = Charge(c[m], slot[m].measured)
            /\ pc[r] # "looking" => look.unread = {}
            /\ ask[r].id \notin DOMAIN look.held

(* What is about to be started is not loaded already.                      *)
WantedIsAbsent ==
    \A r \in Requests :
        pc[r] \in Locked \ {"rechecking"} => ~slot[ask[r].id].full

(* Both survive a step.                                                    *)
LEMMA LookCompleteStep ==
    ASSUME LockInv, KeptInv, LookIsComplete, WantedIsAbsent, [Next]_vars
    PROVE  LookIsComplete' /\ WantedIsAbsent'
<1> USE DEF LockInv, TypeOK, RequestType, GoTo, Locked
<1> DEFINE Complete(r) ==
              pc[r] \in {"looking", "unloading", "killing"} =>
                LET c == ask[r].catalog
                IN  /\ DOMAIN look.held \subseteq DOMAIN c
                    /\ \A m \in DOMAIN c \cap table : slot[m].full =>
                          \/ m \in look.unread
                          \/ /\ m \in DOMAIN look.held
                             /\ look.held[m].cost = Charge(c[m], slot[m].measured)
                    /\ pc[r] # "looking" => look.unread = {}
                    /\ ask[r].id \notin DOMAIN look.held
<1> SUFFICES ASSUME NEW r \in Requests, pc'[r] \in Locked \ {"rechecking"}
             PROVE  Complete(r)' /\ ~slot'[ask'[r].id].full
  BY DEF LookIsComplete, WantedIsAbsent
<1>1. pc[r] \in Locked /\ Asking(r)
  BY HolderActs DEF Asking
<1>2. /\ ask[r].id \in Ids /\ DOMAIN ask[r].catalog \subseteq Ids
      /\ pc[r] # "rechecking" => ~slot[ask[r].id].full
      /\ Complete(r)
  BY <1>1, CatalogsAssumption DEF AskRecord, LookIsComplete, WantedIsAbsent
<1>3. CASE Undisturbed(r)
  BY <1>2, <1>3 DEF Undisturbed, SlotType
<1>4. CASE BeginLook(r)
  <2>1. ask'[r] = ask[r] /\ look'.unread = DOMAIN ask[r].catalog /\ DOMAIN look'.held = {}
        /\ pc'[r] = "looking"
    BY <1>4 DEF BeginLook, Begun, NoLook
  <2>2. ask[r].id \in table
    BY <1>1, <1>4 DEF BeginLook, KeptInv, SlotIsKept, OutdatedDecidesNothing
  <2>3. ~slot'[ask[r].id].full
    <3>1. PICK ids : Vacate(Swept(ids)) /\ ask[r].id \in ids
      BY <1>4 DEF BeginLook
    <3>2. slot[ask[r].id].full => ask[r].id \in Swept(ids)
      BY <1>4, <2>2, <3>1 DEF BeginLook, Running, Swept
    <3> QED
      BY <1>2, <3>1, <3>2 DEF Vacate, NoChild, SlotType
  <2> QED
    BY <2>1, <2>3
<1>5. CASE LookAt(r)
  <2>1. PICK id \in look.unread :
           look' = [look EXCEPT
                  !.unread = @ \ {id},
                  !.held = IF id \in table /\ slot[id].full
                           THEN [m \in DOMAIN @ \cup {id} |->
                                    IF m = id
                                    THEN HeldOf(ask[r].catalog[id], slot[id].measured,
                                                Busy(id), slot[id].guest)
                                    ELSE @[m]]
                           ELSE @]
    BY <1>5 DEF LookAt
  <2>2. id \in DOMAIN ask[r].catalog
    BY <1>5 DEF LookAt, LookReadsItsCatalog
  <2>3. look'.unread = look.unread \ {id}
    BY <2>1 DEF LookType
  <2>4. UNCHANGED <<pc, ask, table, slot>> /\ pc[r] = "looking"
    BY <1>5 DEF LookAt, slotVars
  <2>5. CASE id \in table /\ slot[id].full
    <3>1. /\ DOMAIN look'.held = DOMAIN look.held \cup {id}
          /\ look'.held[id].cost = Charge(ask[r].catalog[id], slot[id].measured)
          /\ \A m \in DOMAIN look.held \ {id} : look'.held[m] = look.held[m]
      BY <2>1, <2>5 DEF LookType, HeldOf
    <3>2. ask[r].id # id
      BY <1>2, <2>4, <2>5
    <3> QED
      BY <1>2, <2>2, <2>3, <2>4, <3>1, <3>2
  <2>6. CASE ~(id \in table /\ slot[id].full)
    <3>1. look'.held = look.held
      BY <2>1, <2>6 DEF LookType
    <3> QED
      BY <1>2, <2>3, <2>4, <2>6, <3>1
  <2> QED
    BY <2>5, <2>6
<1>6. CASE Look(r)
  <2>1. UNCHANGED <<table, slot>> /\ pc[r] = "looking" /\ look.unread = {}
    BY <1>6 DEF Look, slotVars
  <2>2. \/ pc'[r] = "starting" /\ ask' = ask
        \/ pc'[r] = "unloading" /\ UNCHANGED <<ask, look>>
    BY <1>6 DEF Look, Dismiss, Made, Held, Answered
  <2> QED
    BY <1>2, <2>1, <2>2
<1>7. CASE Unload(r)
  <2>1. UNCHANGED table /\ pc[r] = "unloading"
    BY <1>7 DEF Unload
  <2>2. \/ pc'[r] = "starting" /\ ask' = ask
        \/ pc'[r] \in {"unloading", "killing"} /\ UNCHANGED <<ask, look>>
    BY <1>7 DEF Unload, Dismiss, Made, Held, Answered
  <2>3. UNCHANGED slot \/ \E v : Vacate({v})
    BY <1>7 DEF Unload
  <2>4. \A id \in Ids : slot'[id].full =>
              slot[id].full /\ slot'[id].measured = slot[id].measured
    BY <2>3, VacateOnlyEmpties
  <2> QED
    BY <1>2, <2>1, <2>2, <2>4
<1>8. CASE Killed(r)
  BY <1>2, <1>8 DEF Killed, slotVars, lookVars
<1> QED
  BY <1>3, <1>4, <1>5, <1>6, <1>7, <1>8, HolderActs

-----------------------------------------------------------------------------
(* The memory budget. *)

(* What is loaded is what a decision about it would count.                 *)
LEMMA LoadedIsHeld ==
    ASSUME TypeOK, NEW c \in Catalogs
    PROVE  /\ IsHeld(LoadedNow(c))
           /\ DOMAIN LoadedNow(c) = {m \in DOMAIN c \cap table : slot[m].full}
           /\ \A m \in DOMAIN LoadedNow(c) :
                 LoadedNow(c)[m].cost = Charge(c[m], slot[m].measured)
<1> DEFINE D == {m \in DOMAIN c \cap table : slot[m].full}
<1>1. IsFiniteSet(D) /\ D \subseteq Ids
  BY IdsAssumption, CatalogsAssumption, FS_Subset
<1>2. \A m \in D : HeldOf(c[m], slot[m].measured, Busy(m), slot[m].guest) \in HeldModel
  BY <1>1, CatalogsAssumption, HeldOfType DEF TypeOK, SlotType, Busy
<1> QED
  BY <1>1, <1>2 DEF LoadedNow, IsHeld, HeldOf

(* And after a step.                                                       *)
LEMMA LoadedNextIsHeld ==
    ASSUME TypeOK', NEW c \in Catalogs
    PROVE  /\ IsHeld(LoadedNow(c)')
           /\ DOMAIN LoadedNow(c)' = {m \in DOMAIN c \cap table' : slot'[m].full}
           /\ \A m \in DOMAIN LoadedNow(c)' :
                 LoadedNow(c)'[m].cost = Charge(c[m], slot'[m].measured)
<1> DEFINE D == {m \in DOMAIN c \cap table' : slot'[m].full}
<1>1. IsFiniteSet(D) /\ D \subseteq Ids
  BY IdsAssumption, CatalogsAssumption, FS_Subset
<1>2. \A m \in D : HeldOf(c[m], slot'[m].measured, Busy(m)', slot'[m].guest) \in HeldModel
  BY <1>1, CatalogsAssumption, HeldOfType DEF TypeOK, SlotType, Busy
<1> QED
  BY <1>1, <1>2 DEF LoadedNow, IsHeld, HeldOf

(* From a decision to unload until the child is started: what is loaded    *)
(* and not yet to go leaves room.                                          *)
RoomIsMade ==
    /\ \A r \in Requests : pc[r] = "starting" => plan = {}
    /\ \A r \in Requests :
        pc[r] \in {"unloading", "killing", "starting"} /\ Limit # None =>
            LET now == LoadedNow(ask[r].catalog)
            IN  CostOf(now, DOMAIN now \ plan) + ask[r].entry.cost <= Limit

(* What is loaded changes only by going, so what fitted beside it fits.    *)
LEMMA RoomStays ==
    ASSUME TypeOK, TypeOK', NEW c \in Catalogs, table' = table,
           \A id \in Ids : slot'[id].full =>
               slot[id].full /\ slot'[id].measured = slot[id].measured,
           NEW before, NEW after,
           \A m \in Ids : slot'[m].full /\ m \in before => m \in after
    PROVE  LET now == LoadedNow(c)
               nxt == LoadedNow(c)'
           IN  /\ CostOf(nxt, DOMAIN nxt \ after) \in Nat
               /\ CostOf(now, DOMAIN now \ before) \in Nat
               /\ CostOf(nxt, DOMAIN nxt \ after) <= CostOf(now, DOMAIN now \ before)
<1> DEFINE now == LoadedNow(c)
           nxt == LoadedNow(c)'
           S == DOMAIN now \ before
           T == DOMAIN nxt \ after
<1>1. DOMAIN c \subseteq Ids
  BY CatalogsAssumption
<1>2. IsHeld(now) /\ IsHeld(nxt)
  BY LoadedIsHeld, LoadedNextIsHeld
<1>3. T \subseteq S /\ T \subseteq DOMAIN nxt /\ \A m \in T : nxt[m].cost = now[m].cost
  <2> HIDE DEF now, nxt
  <2>1. /\ DOMAIN now = {m \in DOMAIN c \cap table : slot[m].full}
        /\ \A m \in DOMAIN now : now[m].cost = Charge(c[m], slot[m].measured)
    BY LoadedIsHeld DEF now
  <2>2. /\ DOMAIN nxt = {m \in DOMAIN c \cap table' : slot'[m].full}
        /\ \A m \in DOMAIN nxt : nxt[m].cost = Charge(c[m], slot'[m].measured)
    BY LoadedNextIsHeld DEF nxt
  <2> QED
    BY <1>1, <2>1, <2>2
<1> HIDE DEF now, nxt
<1>4. /\ CostOf(nxt, T) \in Nat /\ CostOf(now, S) \in Nat
      /\ CostOf(nxt, T) <= CostOf(now, S)
  BY <1>2, <1>3, FewerCostNoMore
<1> QED
  BY <1>4 DEF now, nxt

(* A decision that admits, made on a finished look, leaves room now.       *)
LEMMA DecidedRoom ==
    ASSUME LockInv, LookIsComplete, NEW r \in Requests, pc[r] = "looking",
           look.unread = {}, NEW deviceFree \in DeviceReadings,
           Asked(r, deviceFree).kind \in {"fits", "unload"}, Limit # None
    PROVE  LET now == LoadedNow(ask[r].catalog)
           IN  CostOf(now, DOMAIN now \ Asked(r, deviceFree).unload)
                  + ask[r].entry.cost <= Limit
<1> USE DEF LockInv, TypeOK
<1> DEFINE c == ask[r].catalog
           now == LoadedNow(c)
           wanted == WantedOf(ask[r].id, ask[r].entry)
           gone == Asked(r, deviceFree).unload
<1>1. c \in Catalogs /\ ask[r].entry \in Entry
  BY DEF RequestType, Asking, AskRecord
<1>2. /\ DOMAIN look.held \subseteq DOMAIN c
      /\ \A m \in DOMAIN c \cap table : slot[m].full =>
            /\ m \in DOMAIN look.held
            /\ look.held[m].cost = Charge(c[m], slot[m].measured)
      /\ wanted.id \notin DOMAIN look.held
  BY DEF LookIsComplete, WantedOf
<1>3. IsWanted(wanted) /\ wanted.cost = ask[r].entry.cost
  BY <1>1 DEF WantedOf, IsWanted, Entry, DeviceNeed
<1>4. IsReading(Limit) /\ IsReading(deviceFree)
  BY InputsAssumption DEF IsReading
<1>5. IsHeld(look.held)
  BY IdsAssumption, FS_Subset DEF LookType, IsHeld
<1> HIDE DEF c, wanted
<1>6. /\ gone \in SUBSET Candidates(look.held, wanted)
      /\ CostOf(look.held, DOMAIN look.held \ gone) + wanted.cost <= Limit
  <2> DEFINE held == look.held
             lastUsed == look.used
             decided == Decide(Limit, deviceFree, held, lastUsed, wanted)
  <2>1. IsHeld(held) /\ wanted.id \notin DOMAIN held
    BY <1>2, <1>5
  <2>2. decided = Asked(r, deviceFree)
    BY DEF Asked, wanted
  <2> HIDE DEF held, lastUsed
  <2>3. /\ decided.unload \in SUBSET Candidates(held, wanted)
        /\ decided.kind \in {"fits", "unload"} =>
             /\ Limit # None =>
                  CostOf(held, DOMAIN held \ decided.unload) + wanted.cost <= Limit
             /\ deviceFree # None =>
                  wanted.device <= deviceFree + DeviceOf(held, decided.unload)
    BY <1>3, <1>4, <2>1, AdmittedFits
  <2> HIDE DEF decided
  <2>4. /\ gone \in SUBSET Candidates(held, wanted)
        /\ CostOf(held, DOMAIN held \ gone) + wanted.cost <= Limit
    BY <2>2, <2>3
  <2> QED
    BY <2>4 DEF held
<1> HIDE DEF gone
<1>7. /\ IsHeld(now)
      /\ DOMAIN now = {m \in DOMAIN c \cap table : slot[m].full}
      /\ \A m \in DOMAIN now : now[m].cost = Charge(c[m], slot[m].measured)
  BY <1>1, LoadedIsHeld
<1> HIDE DEF now
<1> DEFINE S == DOMAIN look.held \ gone
           T == DOMAIN now \ gone
<1>8. /\ S \in SUBSET DOMAIN look.held /\ T \in SUBSET S /\ T \subseteq DOMAIN now
      /\ \A m \in T : now[m].cost = look.held[m].cost
  BY <1>2, <1>7
<1>9. /\ CostOf(now, T) \in Nat /\ CostOf(look.held, S) \in Nat
      /\ CostOf(now, T) <= CostOf(look.held, S)
  BY <1>5, <1>7, <1>8, FewerCostNoMore
<1>10. wanted.cost \in Nat /\ Limit \in Nat
  BY <1>3, <1>4 DEF IsWanted, IsReading
<1> QED
  BY <1>3, <1>6, <1>9, <1>10 DEF c, now, gone

(* So the room stays made until it is taken.                               *)
LEMMA RoomStep ==
    ASSUME LockInv, LockInv', LookIsComplete, RoomIsMade, [Next]_vars
    PROVE  RoomIsMade'
<1> USE DEF LockInv, GoTo
<1> DEFINE Roomy(r) ==
              /\ pc[r] = "starting" => plan = {}
              /\ pc[r] \in {"unloading", "killing", "starting"} /\ Limit # None =>
                    LET now == LoadedNow(ask[r].catalog)
                    IN  CostOf(now, DOMAIN now \ plan) + ask[r].entry.cost <= Limit
<1> SUFFICES ASSUME NEW r \in Requests, pc'[r] \in {"unloading", "killing", "starting"}
             PROVE  Roomy(r)'
  BY DEF RoomIsMade
<1> DEFINE c == ask[r].catalog
<1>1. pc[r] \in Locked /\ c \in Catalogs /\ ask[r].entry.cost \in Nat
  <2>1. pc[r] \in Locked
    BY HolderActs DEF Locked
  <2> QED
    BY <2>1 DEF Locked, TypeOK, RequestType, Asking, AskRecord, Entry
<1>2. Roomy(r) /\ (Limit # None => Limit \in Nat)
  BY InputsAssumption DEF RoomIsMade
<1>3. ASSUME pc[r] \in {"unloading", "killing", "starting"}, ask'[r] = ask[r],
             table' = table,
             \A id \in Ids : slot'[id].full =>
                 slot[id].full /\ slot'[id].measured = slot[id].measured,
             \A m \in Ids : slot'[m].full /\ m \in plan => m \in plan',
             pc'[r] = "starting" => plan' = {}
      PROVE  Roomy(r)'
  <2>1. LET now == LoadedNow(c)
            nxt == LoadedNow(c)'
        IN  /\ CostOf(nxt, DOMAIN nxt \ plan') \in Nat
            /\ CostOf(now, DOMAIN now \ plan) \in Nat
            /\ CostOf(nxt, DOMAIN nxt \ plan') <= CostOf(now, DOMAIN now \ plan)
    <3> DEFINE before == plan
               after == plan'
    <3>1. \A m \in Ids : slot'[m].full /\ m \in before => m \in after
      BY <1>3
    <3> HIDE DEF before, after
    <3>2. LET now == LoadedNow(c)
              nxt == LoadedNow(c)'
          IN  /\ CostOf(nxt, DOMAIN nxt \ after) \in Nat
              /\ CostOf(now, DOMAIN now \ before) \in Nat
              /\ CostOf(nxt, DOMAIN nxt \ after) <= CostOf(now, DOMAIN now \ before)
      BY <1>1, <1>3, <3>1, RoomStays
    <3> QED
      BY <3>2 DEF before, after
  <2>2. LoadedNow(ask[r].catalog)' = LoadedNow(c)'
    BY <1>3 DEF LoadedNow
  <2> QED
    BY <1>1, <1>2, <1>3, <2>1, <2>2
<1>4. CASE Undisturbed(r)
  BY <1>2, <1>3, <1>4 DEF Undisturbed
<1>5. CASE BeginLook(r) \/ LookAt(r)
  BY <1>5 DEF BeginLook, LookAt, TypeOK, RequestType
<1>6. CASE Look(r)
  <2>1. UNCHANGED <<table, slot>> /\ pc[r] = "looking" /\ look.unread = {}
    BY <1>6 DEF Look, slotVars
  <2>2. PICK deviceFree \in DeviceReadings :
           /\ ask' = ask
           /\ Asked(r, deviceFree).kind \in {"fits", "unload"}
           /\ plan' = Asked(r, deviceFree).unload
           /\ pc'[r] = "starting" => plan' = {}
    <3>1. PICK deviceFree \in DeviceReadings :
             LET decision == Asked(r, deviceFree)
             IN  \/ Dismiss(r)
                 \/ Held(r)
                 \/ decision.kind = "fits" /\ Made(r)
                 \/ /\ decision.kind = "unload"
                    /\ plan' = decision.unload
                    /\ GoTo(r, "unloading")
                    /\ UNCHANGED ask
      BY <1>6 DEF Look
    <3>2. Asked(r, deviceFree).kind = "fits" => Asked(r, deviceFree).unload = {}
      BY DEF Asked, Decide, Decision
    <3>3. ~Dismiss(r) /\ ~Held(r)
      BY DEF Dismiss, Held, Answered, TypeOK, RequestType
    <3> QED
      BY <3>1, <3>2, <3>3 DEF Made, TypeOK, RequestType
  <2>3. CASE Limit = None
    BY <2>2, <2>3
  <2>4. CASE Limit # None
    <3> DEFINE gone == Asked(r, deviceFree).unload
    <3>1. LET now == LoadedNow(c)
          IN  CostOf(now, DOMAIN now \ gone) + ask[r].entry.cost <= Limit
      BY <2>1, <2>2, <2>4, DecidedRoom
    <3> HIDE DEF gone
    <3>2. \A id \in Ids : slot'[id].full =>
              slot[id].full /\ slot'[id].measured = slot[id].measured
      BY <2>1
    <3>3. LET now == LoadedNow(c)
              nxt == LoadedNow(c)'
          IN  /\ CostOf(nxt, DOMAIN nxt \ plan') \in Nat
              /\ CostOf(now, DOMAIN now \ gone) \in Nat
              /\ CostOf(nxt, DOMAIN nxt \ plan') <= CostOf(now, DOMAIN now \ gone)
      <4> DEFINE left == plan'
      <4>1. table' = table /\ \A m \in Ids : slot'[m].full /\ m \in gone => m \in left
        BY <2>1, <2>2 DEF gone
      <4> HIDE DEF left
      <4>2. LET now == LoadedNow(c)
                nxt == LoadedNow(c)'
            IN  /\ CostOf(nxt, DOMAIN nxt \ left) \in Nat
                /\ CostOf(now, DOMAIN now \ gone) \in Nat
                /\ CostOf(nxt, DOMAIN nxt \ left) <= CostOf(now, DOMAIN now \ gone)
        BY <1>1, <2>2, <3>2, <4>1, RoomStays
      <4> QED
        BY <4>2 DEF left
    <3>4. LoadedNow(ask[r].catalog)' = LoadedNow(c)'
      BY <2>2 DEF LoadedNow
    <3> QED
      BY <1>1, <1>2, <2>2, <2>4, <3>1, <3>3, <3>4
  <2> QED
    BY <2>3, <2>4
<1>7. CASE Unload(r)
  <2>1. UNCHANGED table /\ pc[r] = "unloading" /\ ask' = ask
    BY <1>7 DEF Unload, Dismiss, Made, Held, Answered, TypeOK, RequestType
  <2>2. \A id \in Ids : slot'[id].full =>
              slot[id].full /\ slot'[id].measured = slot[id].measured
    BY <1>7, VacateOnlyEmpties DEF Unload, TypeOK
  <2>3. /\ \A m \in Ids : slot'[m].full /\ m \in plan => m \in plan'
        /\ pc'[r] = "starting" => plan' = {}
    <3>1. CASE plan = {}
      BY <1>7, <3>1 DEF Unload, Made
    <3>2. CASE plan # {}
      <4>1. PICK v \in plan :
               /\ plan' = plan \ {v}
               /\ \/ Vacant(v) /\ UNCHANGED <<slot, pc>>
                  \/ Vacate({v}) /\ GoTo(r, "killing")
        BY <1>7, <3>2 DEF Unload, Dismiss, Held, Answered, TypeOK, RequestType
      <4>2. v \in Ids => ~slot'[v].full
        BY <4>1 DEF Vacant, Vacate, NoChild
      <4> QED
        BY <2>1, <4>1, <4>2 DEF TypeOK, RequestType
    <3> QED
      BY <3>1, <3>2
  <2> QED
    BY <1>3, <2>1, <2>2, <2>3
<1>8. CASE Killed(r)
  BY <1>3, <1>8 DEF Killed, slotVars, lookVars, TypeOK, RequestType
<1> QED
  BY <1>4, <1>5, <1>6, <1>7, <1>8, HolderActs DEF Locked

BudgetInv == LookIsComplete /\ WantedIsAbsent /\ RoomIsMade

(* The fourth layer, over the first two.                                   *)
LEMMA BudgetInvInvariant == Spec => []BudgetInv
<1>1. Init => BudgetInv
  BY DEF Init, BudgetInv, LookIsComplete, WantedIsAbsent, RoomIsMade, Locked
<1>2. LockInv /\ LockInv' /\ KeptInv /\ BudgetInv /\ [Next]_vars => BudgetInv'
  BY LookCompleteStep, RoomStep DEF BudgetInv
<1> QED
  BY <1>1, <1>2, LockInvInvariant, KeptInvInvariant, PTL DEF Spec

(* Whatever is started fits beside everything loaded at that moment: no    *)
(* child loaded after the slots were read, and none measured since, spends *)
(* the same room twice.                                                    *)
THEOREM StartsAreWithinBudget == Spec => []StartsWithinBudget
<1>1. RoomIsMade => StartsWithinBudget
  <2> SUFFICES ASSUME RoomIsMade, NEW r \in Requests, pc[r] = "starting", Limit # None
               PROVE  LET now == LoadedNow(ask[r].catalog)
                      IN  CostOf(now, DOMAIN now) + ask[r].entry.cost <= Limit
    BY DEF StartsWithinBudget
  <2> DEFINE now == LoadedNow(ask[r].catalog)
  <2>1. plan = {} /\ CostOf(now, DOMAIN now \ plan) + ask[r].entry.cost <= Limit
    BY DEF RoomIsMade
  <2>2. DOMAIN now \ plan = DOMAIN now
    BY <2>1
  <2> QED
    BY <2>1, <2>2
<1> QED
  BY <1>1, BudgetInvInvariant, PTL DEF BudgetInv

-----------------------------------------------------------------------------
(* The slot table is a model pool.  Its file holds one catalog, so no      *)
(* reload changes what a loaded model is charged.                          *)

(* What is asked for is listed, with the estimate it is listed with.       *)
AsksAreListed ==
    \A r \in Requests : Asking(r) =>
        /\ ask[r].id \in DOMAIN ask[r].catalog
        /\ ask[r].entry = ask[r].catalog[ask[r].id]

LEMMA ListedStep ==
    ASSUME NEW c, Catalogs = {c}, LockInv, AsksAreListed, [Next]_vars
    PROVE  AsksAreListed'
<1> USE DEF LockInv, TypeOK, RequestType, CatalogType, GoTo
<1> SUFFICES ASSUME NEW r \in Requests, Asking(r)'
             PROVE  /\ ask'[r].id \in DOMAIN ask'[r].catalog
                    /\ ask'[r].entry = ask'[r].catalog[ask'[r].id]
  BY DEF AsksAreListed
<1>0. catalog = c /\ (Asking(r) => ask[r].catalog = c)
  BY DEF AskRecord
<1>1. ASSUME Asking(r), ask'[r] = ask[r]
      PROVE  /\ ask'[r].id \in DOMAIN ask'[r].catalog
             /\ ask'[r].entry = ask'[r].catalog[ask'[r].id]
  BY <1>1 DEF AsksAreListed
<1>2. CASE Arrive(r)
  BY <1>2 DEF Arrive
<1>3. CASE Call(r)
  <2>1. Asking(r) /\ ask'[r] = ask[r]
    <3>1. Asking(r) /\ ask' = [ask EXCEPT ![r].catalog = catalog]
      BY <1>3 DEF Call, Asking
    <3>2. ask[r] = [ask[r] EXCEPT !.catalog = catalog]
      BY <1>0, <3>1 DEF AskRecord
    <3> QED
      BY <3>1, <3>2
  <2> QED
    BY <1>1, <2>1
<1>4. CASE Admit(r) \/ Wake(r) \/ FoundRunning(r) \/ FileMissing(r) \/ BeginLook(r)
           \/ LookAt(r) \/ Look(r) \/ Unload(r) \/ Killed(r) \/ Start(r)
           \/ StartFails(r) \/ Touch(r) \/ Drop(r) \/ Ring(r) \/ Expire(r)
  <2>1. Asking(r)
    BY <1>4 DEF Admit, Wake, FoundRunning, FileMissing, BeginLook, LookAt, Look,
       Unload, Killed, Start, StartFails, Touch, Drop, Ring, Expire, Answered,
       Asking, Holding, InRoom
  <2>2. ask'[r] = ask[r]
    BY <1>4 DEF Admit, Wake, FoundRunning, FileMissing, BeginLook, LookAt, Look,
       Unload, Killed, Start, StartFails, Touch, Drop, Ring, Expire, Answered,
       Asking, Holding, InRoom, Dismiss, Made, Held
  <2> QED
    BY <1>1, <2>1, <2>2
<1>5. ASSUME NEW q \in Requests \ {r}, Arrive(q) \/ Serve(q) \/ Expire(q)
      PROVE  Asking(r) /\ ask'[r] = ask[r]
  BY <1>5 DEF Arrive, Serve, Call, Admit, Wake, FoundRunning, FileMissing, BeginLook,
     LookAt, Look, Unload, Killed, Start, StartFails, Touch, Drop, Ring, Expire,
     Answered, Asking, Dismiss, Made, Held
<1>6. CASE (\E id \in Ids : ChildDies(id)) \/ Reaping \/ Operating \/ UNCHANGED vars
  BY <1>1, <1>6 DEF ChildDies, Reaping, SweepExited, SweepIdle, Reap, Gone, Operating,
     LetGo, Resync, Swap, vars, Asking
<1> QED
  BY <1>1, <1>2, <1>3, <1>4, <1>5, <1>6 DEF Next, Serve

(* While the file holds one catalog, what is charged is what is in the     *)
(* slots, and what is loaded costs what the decision counts.               *)
LEMMA PoolIsTheTable ==
    ASSUME NEW c, Catalogs = {c}, LockInv, KeptInv
    PROVE  /\ OnlyCatalog = c
           /\ Pool!Loaded = {id \in DOMAIN c : slot[id].full}
           /\ Pool!Loaded = DOMAIN LoadedNow(c)
           /\ Pool!Total = CostOf(LoadedNow(c), DOMAIN LoadedNow(c))
<1> USE DEF LockInv, TypeOK
<1> DEFINE now == LoadedNow(c)
           D == Pool!Loaded
<1>1. OnlyCatalog = c
  BY DEF OnlyCatalog
<1>2. DOMAIN c \subseteq Ids /\ \A id \in DOMAIN c : Charge(c[id], slot[id].measured) \in Nat
  <2>1. DOMAIN c \subseteq Ids /\ \A id \in DOMAIN c : c[id] \in Entry
    BY CatalogsAssumption
  <2>2. \A id \in DOMAIN c :
           HeldOf(c[id], slot[id].measured, TRUE, TRUE) \in HeldModel
    BY <2>1, HeldOfType DEF SlotType
  <2> QED
    BY <2>1, <2>2 DEF HeldOf, HeldModel
<1>3. D = {id \in DOMAIN c : slot[id].full}
  BY <1>1, <1>2, NoneAssumption DEF Pool!Loaded, chargeOf
<1>4. /\ IsHeld(now)
      /\ DOMAIN now = {m \in DOMAIN c \cap table : slot[m].full}
      /\ \A m \in DOMAIN now : now[m].cost = Charge(c[m], slot[m].measured)
  BY LoadedIsHeld
<1>5. D = DOMAIN now
  BY <1>2, <1>3, <1>4 DEF KeptInv, OccupiedIsKept
<1> HIDE DEF now
<1>6. Pool!Total = SumOf(chargeOf, D)
  BY Zenon DEF Pool!Total, Pool!MapThenSumSet, Pool!MapThenFoldSet,
     SumOf, MapThenSumSet, MapThenFoldSet
<1> HIDE DEF D
<1>7. /\ IsFiniteSet(D)
      /\ \A m \in D : CostsIn(now)[m] \in Nat /\ chargeOf[m] = CostsIn(now)[m]
  BY <1>1, <1>2, <1>3, <1>4, <1>5 DEF IsHeld, CostsIn, chargeOf, HeldModel
<1>8. SumOf(chargeOf, D) = SumOf(CostsIn(now), D)
  BY <1>7, SumSeesItsSet
<1>9. CostOf(now, D) = SumOf(CostsIn(now), D)
  BY <1>4, <1>5, CostIsSum
<1> QED
  BY <1>1, <1>3, <1>5, <1>6, <1>8, <1>9 DEF D, now

(* A step that hands nothing out and lets go of nothing: what it empties   *)
(* nobody reads from.                                                      *)
LEMMA QuietStep ==
    ASSUME NEW c, Catalogs = {c}, LockInv,
           \A q \in Requests : Holding(q)' <=> Holding(q),
           \A q \in Requests : Holding(q) => ask'[q].id = ask[q].id,
           \A id \in Ids :
              \/ slot'[id].full = slot[id].full /\ slot'[id].measured = slot[id].measured
              \/ ~slot'[id].full /\ ~Busy(id)
    PROVE  Pool!Unload
<1>1. OnlyCatalog = c
  BY DEF OnlyCatalog
<1>2. readingOf' = readingOf
  BY DEF readingOf
<1>3. ASSUME NEW id \in Ids
      PROVE  \/ chargeOf'[id] = chargeOf[id]
             \/ chargeOf'[id] = None /\ \A q \in Requests : readingOf[q] # id
  <2>1. CASE slot'[id].full = slot[id].full /\ slot'[id].measured = slot[id].measured
    BY <2>1 DEF chargeOf
  <2>2. CASE ~slot'[id].full /\ ~Busy(id)
    <3>1. chargeOf'[id] = None
      BY <2>2 DEF chargeOf
    <3>2. id # None
      BY IdsAssumption, NoneAssumption
    <3>3. \A q \in Requests : readingOf[q] # id
      BY <2>2, <3>2 DEF readingOf, Busy, Readers
    <3> QED
      BY <3>1, <3>3
  <2> QED
    BY <2>1, <2>2
<1> QED
  BY <1>2, <1>3 DEF Pool!Unload

(* Being handed the child of a loaded model is attaching to it.            *)
LEMMA HandOutAttaches ==
    ASSUME NEW c, Catalogs = {c}, LockInv, KeptInv, AsksAreListed,
           NEW r \in Requests, Call(r) \/ FoundRunning(r), Running(ask[r].id)
    PROVE  Pool!Attach(r, ask[r].id)
<1> USE DEF LockInv, TypeOK, RequestType, GoTo
<1> DEFINE m == ask[r].id
<1>1. /\ ~Holding(r) /\ Asking(r) /\ Holding(r)' /\ ask'[r].id = m
      /\ UNCHANGED slot
      /\ \A q \in Requests \ {r} : (Holding(q)' <=> Holding(q)) /\ ask'[q] = ask[q]
  BY DEF Call, FoundRunning, Holding, Asking, AskRecord
<1>2. m \in DOMAIN c /\ slot[m].full
  BY <1>1 DEF AsksAreListed, Running, AskRecord
<1>3. readingOf[r] = None /\ m \in Pool!Loaded
  BY <1>1, <1>2, PoolIsTheTable DEF readingOf
<1>4. UNCHANGED chargeOf
  BY <1>1 DEF chargeOf
<1>5. readingOf' = [readingOf EXCEPT ![r] = m]
  BY <1>1 DEF readingOf
<1> QED
  BY <1>3, <1>4, <1>5 DEF Pool!Attach

(* Starting a child is loading its model, which fits.                      *)
LEMMA StartLoads ==
    ASSUME NEW c, Catalogs = {c}, LockInv, KeptInv, BudgetInv, StartsWithinBudget,
           AsksAreListed, NEW r \in Requests, Start(r)
    PROVE  Pool!Load(r, ask[r].id)
<1> USE DEF LockInv, TypeOK, RequestType, GoTo
<1> DEFINE m == ask[r].id
<1>1. PICK seen \in Measurements :
         slot' = [slot EXCEPT ![m] = Child(ask[r].room = "free", seen)]
  BY DEF Start
<1>2. /\ pc[r] = "starting" /\ ~Holding(r) /\ Asking(r) /\ Holding(r)' /\ ask' = ask
      /\ \A q \in Requests \ {r} : Holding(q)' <=> Holding(q)
  BY DEF Start, Holding, Asking
<1>3. /\ m \in DOMAIN c /\ m \in Ids /\ ask[r].entry = c[m] /\ ask[r].catalog = c
      /\ c[m] \in Entry /\ ~slot[m].full
  BY <1>2, CatalogsAssumption
  DEF AsksAreListed, AskRecord, BudgetInv, WantedIsAbsent, Locked
<1>4. OnlyCatalog = c /\ m \notin Pool!Loaded
  BY <1>3, PoolIsTheTable
<1>5. Limit # None => Pool!Total + [id \in DOMAIN OnlyCatalog |-> OnlyCatalog[id].cost][m]
                         <= Limit
  <2>1. CASE Limit # None
    <3>1. CostOf(LoadedNow(c), DOMAIN LoadedNow(c)) + c[m].cost <= Limit
      BY <1>2, <1>3, <2>1 DEF StartsWithinBudget
    <3> QED
      BY <1>3, <1>4, <3>1, PoolIsTheTable
  <2> QED
    BY <2>1
<1>6. chargeOf'[m] = Charge(c[m], seen)
  <2>1. slot'[m].full /\ slot'[m].measured = seen
    BY <1>1, <1>3 DEF SlotType, Child
  <2> QED
    BY <1>3, <1>4, <2>1 DEF chargeOf
<1>7. Charge(c[m], seen) \in Nat /\ Charge(c[m], seen) >= c[m].cost
  <2>1. seen \in Measurement
    BY InputsAssumption
  <2> QED
    BY <1>3, <2>1, NoneAssumption DEF Charge, Largest, Entry, Measurement
<1>8. chargeOf' = [chargeOf EXCEPT ![m] = chargeOf'[m]]
  <2>1. \A id \in Ids \ {m} : slot'[id] = slot[id]
    BY <1>1, <1>3 DEF SlotType
  <2>2. \A id \in Ids \ {m} : chargeOf'[id] = chargeOf[id]
    BY <2>1 DEF chargeOf
  <2>3. chargeOf \in [Ids -> {chargeOf[id] : id \in Ids}]
    BY DEF chargeOf
  <2>4. chargeOf' = [id \in Ids |-> chargeOf'[id]]
    BY DEF chargeOf
  <2> QED
    BY <2>2, <2>3, <2>4
<1>9. readingOf[r] = None /\ readingOf' = [readingOf EXCEPT ![r] = m]
  BY <1>2 DEF readingOf
<1>10. chargeOf'[m] # None
  BY <1>6, <1>7, NoneAssumption
<1>11. chargeOf'[m] >= [id \in DOMAIN OnlyCatalog |-> OnlyCatalog[id].cost][m]
  BY <1>3, <1>4, <1>6, <1>7
<1> QED
  BY <1>4, <1>5, <1>8, <1>9, <1>10, <1>11 DEF Pool!Load

(* Letting go is detaching.                                                *)
LEMMA DropDetaches ==
    ASSUME LockInv, NEW r \in Requests, Drop(r)
    PROVE  Pool!Detach(r)
<1> USE DEF LockInv, TypeOK, RequestType, GoTo
<1>1. /\ Holding(r) /\ Asking(r) /\ ~Holding(r)' /\ UNCHANGED slot
      /\ \A q \in Requests \ {r} : (Holding(q)' <=> Holding(q)) /\ ask'[q] = ask[q]
  BY DEF Drop, Holding, Asking, slotVars
<1>2. readingOf[r] # None
  BY <1>1, IdsAssumption, NoneAssumption DEF readingOf, AskRecord
<1>3. readingOf' = [readingOf EXCEPT ![r] = None]
  BY <1>1 DEF readingOf
<1>4. UNCHANGED chargeOf
  BY <1>1 DEF chargeOf
<1> QED
  BY <1>2, <1>3, <1>4 DEF Pool!Detach

(* What is vacated without a reader is quiet.                              *)
LEMMA VacateIsQuiet ==
    ASSUME SlotType, NEW S, Vacate(S), \A id \in S : ~Busy(id)
    PROVE  \A id \in Ids :
              \/ slot'[id].full = slot[id].full /\ slot'[id].measured = slot[id].measured
              \/ ~slot'[id].full /\ ~Busy(id)
  BY DEF SlotType, Vacate, NoChild

(* Every step of the router is a step of the pool.                         *)
LEMMA PoolStep ==
    ASSUME NEW c, Catalogs = {c}, LockInv, KeptInv, BudgetInv, StartsWithinBudget,
           AsksAreListed, [Next]_vars
    PROVE  Pool!Next
<1> USE DEF LockInv, TypeOK, RequestType, GoTo
<1> DEFINE SlotsQuiet ==
              \A id \in Ids :
                 \/ slot'[id].full = slot[id].full /\ slot'[id].measured = slot[id].measured
                 \/ ~slot'[id].full /\ ~Busy(id)
           Untouched == /\ \A q \in Requests : Holding(q)' <=> Holding(q)
                        /\ \A q \in Requests : Holding(q) => ask'[q].id = ask[q].id
<1>1. ASSUME SlotsQuiet, Untouched
      PROVE  Pool!Next
  <2>1. Pool!Unload
    BY <1>1, QuietStep
  <2> QED
    BY <2>1 DEF Pool!Next
<1>2. ASSUME NEW r \in Requests, Arrive(r) \/ Serve(r) \/ Expire(r)
      PROVE  Pool!Next
  <2>0. Asking(r) => ask[r].id \in Ids
    BY DEF AskRecord
  <2>1. CASE (Call(r) \/ FoundRunning(r)) /\ Running(ask[r].id)
    <3>1. ask[r].id \in Ids
      BY <2>0, <2>1 DEF Call, FoundRunning, Asking
    <3> QED
      BY <2>1, <3>1, HandOutAttaches DEF Pool!Next
  <2>2. CASE Start(r)
    <3>1. ask[r].id \in Ids
      BY <2>0, <2>2 DEF Start, Asking
    <3> QED
      BY <2>2, <3>1, StartLoads DEF Pool!Next
  <2>3. CASE Drop(r)
    BY <2>3, DropDetaches DEF Pool!Next
  <2>4. CASE Arrive(r) \/ Admit(r) \/ Wake(r) \/ LookAt(r) \/ Killed(r) \/ StartFails(r)
             \/ Touch(r) \/ Ring(r) \/ Expire(r)
    <3>1. SlotsQuiet
      BY <2>4 DEF Arrive, Admit, Wake, LookAt, Killed, StartFails, Touch, Ring, Expire,
         slotVars
    <3>2. Untouched
      BY <2>4 DEF Arrive, Admit, Wake, LookAt, Killed, StartFails, Touch, Ring, Expire,
         Answered, Holding
    <3> QED
      BY <1>1, <3>1, <3>2
  <2>5. CASE Call(r) /\ ~Running(ask[r].id)
    <3>1. SlotsQuiet
      BY <2>5, VacateIsQuiet DEF Call, DropExited, Exited
    <3>2. Untouched
      BY <2>5 DEF Call, Holding
    <3> QED
      BY <1>1, <3>1, <3>2
  <2>6. CASE FileMissing(r) \/ BeginLook(r)
    <3>1. SlotsQuiet
      BY <2>6, VacateIsQuiet DEF FileMissing, BeginLook, DropExited, Exited, Swept
    <3>2. Untouched
      BY <2>6 DEF FileMissing, BeginLook, Answered, Holding
    <3> QED
      BY <1>1, <3>1, <3>2
  <2>7. CASE Look(r)
    <3>1. SlotsQuiet
      BY <2>7 DEF Look, slotVars
    <3>2. Untouched
      BY <2>7 DEF Look, Dismiss, Made, Held, Answered, Holding
    <3> QED
      BY <1>1, <3>1, <3>2
  <2>8. CASE Unload(r)
    <3>1. SlotsQuiet
      BY <2>8, VacateIsQuiet DEF Unload, GainedReader
    <3>2. Untouched
      BY <2>8 DEF Unload, Dismiss, Made, Held, Answered, Holding
    <3> QED
      BY <1>1, <3>1, <3>2
  <2>9. FoundRunning(r) => Running(ask[r].id)
    BY DEF FoundRunning
  <2> QED
    BY <1>2, <2>1, <2>2, <2>3, <2>4, <2>5, <2>6, <2>7, <2>8, <2>9 DEF Serve
<1>3. CASE \E id \in Ids : ChildDies(id)
  <2>1. SlotsQuiet /\ Untouched
    BY <1>3 DEF ChildDies, SlotType, Holding
  <2> QED
    BY <1>1, <2>1
<1>4. CASE Reaping
  <2>1. SlotsQuiet
    BY <1>4, VacateIsQuiet
    DEF Reaping, SweepExited, SweepIdle, Reap, Gone, Swept, Exited, slotVars
  <2>2. Untouched
    BY <1>4 DEF Reaping, SweepExited, SweepIdle, Reap, Gone, Holding
  <2> QED
    BY <1>1, <2>1, <2>2
<1>5. CASE Operating
  <2>1. SlotsQuiet
    BY <1>5, VacateIsQuiet DEF Operating, LetGo, Gone, Resync, Swap, slotVars
  <2>2. Untouched
    BY <1>5 DEF Operating, LetGo, Gone, Resync, Swap, Holding
  <2> QED
    BY <1>1, <2>1, <2>2
<1>6. CASE UNCHANGED vars
  <2>1. SlotsQuiet /\ Untouched
    BY <1>6 DEF vars, slotVars, Holding
  <2> QED
    BY <1>1, <2>1
<1> QED
  BY <1>2, <1>3, <1>4, <1>5, <1>6 DEF Next

(* The router implements the pool, step by step: a model is loaded only    *)
(* beside what it fits with, read from only while it is loaded, and        *)
(* unloaded only while nobody reads from it.                               *)
THEOREM TheTableIsAPool ==
    ASSUME NEW c, Catalogs = {c}
    PROVE  Spec => ImplementsModelPool
<1>1. Init => AsksAreListed
  BY DEF Init, AsksAreListed, Asking
<1>2. LockInv /\ AsksAreListed /\ [Next]_vars => AsksAreListed'
  BY ListedStep
<1>3. Init => Pool!Init
  <2> SUFFICES ASSUME Init
               PROVE  chargeOf = [m \in Ids |-> None] /\ readingOf = [r \in Requests |-> None]
    BY DEF Pool!Init
  <2> QED
    BY DEF Init, chargeOf, readingOf, NoChild, Holding
<1>4. LockInv /\ KeptInv /\ BudgetInv /\ StartsWithinBudget /\ AsksAreListed /\ [Next]_vars
        => [Pool!Next]_<<chargeOf, readingOf>>
  BY PoolStep
<1>5. Spec => []AsksAreListed
  BY <1>1, <1>2, LockInvInvariant, PTL DEF Spec
<1> QED
  BY <1>3, <1>4, <1>5, LockInvInvariant, KeptInvInvariant, BudgetInvInvariant,
     StartsAreWithinBudget, PTL DEF Spec, ImplementsModelPool, Pool!Spec, Pool!poolVars

=============================================================================
