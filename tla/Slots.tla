------------------------------- MODULE Slots -------------------------------
(***************************************************************************)
(* The slot table of the router (src/proxy/slots): which models are        *)
(* loaded, who is reading from them, and how a request is handed a child.  *)
(*                                                                         *)
(* Threads: one per request, the reaper, and an operator who unloads       *)
(* models and reloads the catalog.  They share one mutex per slot, the     *)
(* admission lock with the line of waiting requests under it, and the      *)
(* bell that wakes that line.  A step is what a thread does under one      *)
(* hold of a slot's mutex, or between two such holds: everything else can  *)
(* happen in between, which is what the code guards against.               *)
(***************************************************************************)
EXTENDS Admission

CONSTANTS
    Ids,             \* identifiers, numbers in catalog order
    Requests,        \* threads that ask for a model and read from it
    Reaper,          \* the thread that sweeps
    Operator,        \* whoever asks for an unload or a reload
    Catalogs,        \* the catalogs the file may hold, each from ids to Entry
    Limit,           \* the memory budget, or None
    DeviceReadings,  \* what the device may say is free, None when it cannot say
    Measurements,    \* what a child may be measured holding
    Asks,            \* what may be asked for: an id and the room allowed
    Waits,           \* whether a request may wait for room at all
    MaxReloads       \* bound on the reloads of a behaviour

ASSUME IdsAssumption == Ids \subseteq Nat /\ IsFiniteSet(Ids)

ASSUME ThreadsAssumption ==
    /\ Reaper \notin Requests /\ Operator \notin Requests /\ Reaper # Operator
    /\ None \notin Requests \cup {Reaper, Operator}

ASSUME CatalogsAssumption ==
    /\ None \notin Catalogs
    /\ \A c \in Catalogs :
        DOMAIN c \subseteq Ids /\ \A id \in DOMAIN c : c[id] \in Entry

ASSUME InputsAssumption ==
    /\ Limit \in Nat \cup {None}
    /\ DeviceReadings \subseteq Nat \cup {None}
    /\ Measurements \subseteq Measurement
    /\ Asks \subseteq [id : Ids, room : {"any", "free"}]
    /\ Waits \in BOOLEAN
    /\ MaxReloads \in Nat

VARIABLES
    catalog,    \* the catalog being served
    reloads,    \* how often it was read again
    incoming,   \* the catalog a reload is about to serve, while it has the lock
    table,      \* the ids that have a slot
    slot,       \* per id, the child in its slot
    used,       \* per id, its rank by last use; 0 when its slot is empty
    pc,         \* per request, where it is
    ask,        \* per request, what it asked for and the catalog it acts on
    admission,  \* who holds the admission lock, None when it is free
    inLine,     \* the requests waiting for room
    ahead,      \* per request in line, the ones that joined before it
    rung,       \* the requests the bell rang for since they last heard it
    late,       \* the requests whose wait is over
    outdated,   \* the requests a reload went past while they waited
    look,       \* what the lock's holder has read of the slots
    plan,       \* what it has yet to unload
    dying,      \* per thread, the child it took out of a slot and is killing
    expired     \* what the reaper found stale and has yet to take

catalogVars == <<catalog, reloads, incoming>>
slotVars    == <<table, slot, used>>
lineVars    == <<inLine, ahead, rung, late, outdated>>
lookVars    == <<look, plan>>
vars == <<catalogVars, slotVars, pc, ask, admission, lineVars, lookVars,
          dying, expired>>

-----------------------------------------------------------------------------

Threads == Requests \cup {Reaper, Operator}

Nobody   == None
NoAsk    == None
Unread   == [memory |-> None, device |-> None]
NoChild  == [full |-> FALSE, dead |-> FALSE, guest |-> FALSE, measured |-> Unread]
Child(guest, m) == [full |-> TRUE, dead |-> FALSE, guest |-> guest, measured |-> m]
NoLook   == [unread |-> {}, held |-> [m \in {} |-> NoChild], used |-> [m \in Ids |-> 0]]

(* A request is inside room_for in these, and holds the admission lock in  *)
(* all of them but the wait.                                               *)
InRoom == {"rechecking", "looking", "unloading", "killing", "waiting"}
Locked == {"rechecking", "looking", "unloading", "killing", "starting"}

(* Whoever reads from a child holds one more reference to it than its slot *)
(* does, from the moment it is handed out until the relay lets go.         *)
Holding(r) == pc[r] \in {"reading", "touched"}
Readers(id) == {r \in Requests : Holding(r) /\ ask[r].id = id}
Busy(id) == Readers(id) # {}

Asking(r) == pc[r] \notin {"idle", "ringing"}

Listening == {r \in Requests : pc[r] \in InRoom}

(* last_used as a rank among what is loaded: an emptied slot has none, and *)
(* a stamp moves a model to the top.                                       *)
Forgotten(u, S) ==
    [m \in Ids |->
        IF m \in S THEN 0
        ELSE Cardinality({n \in Ids \ S : 0 < u[n] /\ u[n] <= u[m]})]

Stamped(u, id) ==
    [Forgotten(u, {id}) EXCEPT ![id] = Cardinality({n \in Ids : 0 < u[n]} \cup {id})]

(* A stamp is seen by a look that has not yet reached the slot, and by the *)
(* reaper, which asks again whether a model is stale before it takes it.   *)
Stamp(id) ==
    /\ used' = Stamped(used, id)
    /\ look' = [look EXCEPT !.used = IF id \in look.unread THEN Stamped(@, id) ELSE @]
    /\ expired' = expired \ {id}

(* Takes the children out of these slots. *)
Vacate(S) ==
    /\ slot' = [id \in Ids |-> IF id \in S THEN NoChild ELSE slot[id]]
    /\ used' = Forgotten(used, S)
    /\ expired' = expired \ S

Vacant(id) == ~slot[id].full

(* exited: only a child nothing else holds a reference to is ever checked. *)
Exited(id) == slot[id].full /\ slot[id].dead /\ ~Busy(id)

(* A bug the checks must catch: admissions are not serialised. *)
LockFree_Always == TRUE

LockFree == admission = Nobody

MayTake(r) == IF r \in inLine THEN ahead[r] = {} ELSE inLine = {}

(* Bugs the checks must catch: a request joins again at each look; the     *)
(* bell is heard as the wait begins, after the look it should precede.     *)
Join_Again(r) ==
    /\ inLine' = inLine \cup {r}
    /\ ahead' = [ahead EXCEPT ![r] = inLine]
    /\ UNCHANGED <<rung, late, outdated>>

Join_HearsLate(r) ==
    /\ inLine' = inLine \cup {r}
    /\ ahead' = IF r \in inLine THEN ahead ELSE [ahead EXCEPT ![r] = inLine]
    /\ rung' = rung \ {r}
    /\ UNCHANGED <<late, outdated>>

Join(r) ==
    /\ inLine' = inLine \cup {r}
    /\ ahead' = IF r \in inLine THEN ahead ELSE [ahead EXCEPT ![r] = inLine]
    /\ UNCHANGED <<rung, late, outdated>>

(* A bug the checks must catch: nobody is told that the line moved on. *)
Leave_Silent(r) ==
    /\ inLine' = inLine \ {r}
    /\ ahead' = [q \in Requests |-> IF q = r THEN {} ELSE ahead[q] \ {r}]
    /\ rung' = rung \ {r}
    /\ late' = late \ {r}
    /\ outdated' = outdated \ {r}

(* Leaving the line rings for the next in it; what a request's wait left   *)
(* behind goes with it.                                                    *)
Leave(r) ==
    /\ inLine' = inLine \ {r}
    /\ ahead' = [q \in Requests |-> IF q = r THEN {} ELSE ahead[q] \ {r}]
    /\ rung' = (IF r \in inLine THEN Listening ELSE rung) \ {r}
    /\ late' = late \ {r}
    /\ outdated' = outdated \ {r}

GoTo(r, place) == pc' = [pc EXCEPT ![r] = place]

(* A bug the checks must catch: a request keeps what it asked for.         *)
Answered_KeepsAsk(r) ==
    /\ GoTo(r, "idle")
    /\ UNCHANGED ask

(* A request is answered with a refusal: it forgets all it asked for.      *)
Answered(r) ==
    /\ GoTo(r, "idle")
    /\ ask' = [ask EXCEPT ![r] = NoAsk]

-----------------------------------------------------------------------------
(* A request. *)

(* to_model: the entry is looked up in the catalog serving now. *)
Arrive(r) ==
    /\ pc[r] = "idle"
    /\ \E a \in Asks :
        /\ a.id \in DOMAIN catalog
        /\ ask' = [ask EXCEPT ![r] =
                      [id |-> a.id, room |-> a.room, entry |-> catalog[a.id],
                       catalog |-> catalog]]
    /\ GoTo(r, "asking")
    /\ UNCHANGED <<catalogVars, slotVars, admission, lineVars, lookVars, dying, expired>>

(* The child running for an entry: handed out and stamped when its slot    *)
(* has one that lives or that somebody else is reading from; one found     *)
(* exited is dropped instead.                                              *)
Running(id) == id \in table /\ slot[id].full /\ ~Exited(id)

DropExited(id) ==
    IF Exited(id) THEN Vacate({id}) ELSE UNCHANGED <<slot, used, expired>>

(* Shared::child and the fast path: the catalog is read once more, and no  *)
(* admission lock is taken.                                                *)
Call(r) ==
    /\ pc[r] = "asking"
    /\ ask' = [ask EXCEPT ![r].catalog = catalog]
    /\ LET id == ask[r].id
       IN  \/ /\ Running(id)
              /\ Stamp(id)
              /\ GoTo(r, "reading")
              /\ UNCHANGED slot
           \/ /\ ~Running(id)
              /\ DropExited(id)
              /\ GoTo(r, "admitting")
              /\ UNCHANGED look
    /\ UNCHANGED <<catalogVars, table, admission, lineVars, plan, dying>>

(* A bug the checks must catch: the slot is not looked up again under the  *)
(* lock.                                                                   *)
DroppedMeanwhile_NotAsked(r) == FALSE

DroppedMeanwhile(r) == ask[r].id \notin table

(* admit: under the admission lock, an entry a reload has dropped is       *)
(* refused, and any other begins its wait.                                 *)
Admit(r) ==
    /\ pc[r] = "admitting"
    /\ LockFree
    /\ \/ /\ DroppedMeanwhile(r)
          /\ Answered(r)
          /\ UNCHANGED <<admission, late>>
       \/ /\ ~DroppedMeanwhile(r)
          /\ admission' = r
          /\ late' = IF Waits THEN late ELSE late \cup {r}
          /\ GoTo(r, "rechecking")
          /\ UNCHANGED ask
    /\ UNCHANGED <<catalogVars, slotVars, inLine, ahead, rung, outdated,
                   lookVars, dying, expired>>

(* Bugs the checks must catch: a wait without a deadline, and one that     *)
(* does not notice a reload.                                               *)
Woken_ByBellOnly(r) == r \in rung

SentAway_Never(r) == FALSE

Woken(r) == r \in rung \cup late

SentAway(r) == r \in outdated

(* The wait ends when the bell has rung or the deadline is past, and takes *)
(* the lock back: a reload meanwhile sends the request away.               *)
Wake(r) ==
    /\ pc[r] = "waiting"
    /\ Woken(r)
    /\ LockFree
    /\ \/ /\ SentAway(r)
          /\ Leave(r)
          /\ Answered(r)
          /\ UNCHANGED admission
       \/ /\ ~SentAway(r)
          /\ admission' = r
          /\ rung' = rung \ {r}
          /\ GoTo(r, "rechecking")
          /\ UNCHANGED <<ask, inLine, ahead, late, outdated>>
    /\ UNCHANGED <<catalogVars, slotVars, lookVars, dying, expired>>

(* room_for, the lock held: another request may have started this very     *)
(* entry.                                                                  *)
FoundRunning(r) ==
    /\ pc[r] = "rechecking"
    /\ Running(ask[r].id)
    /\ Stamp(ask[r].id)
    /\ Leave(r)
    /\ GoTo(r, "reading")
    /\ admission' = Nobody
    /\ UNCHANGED <<catalogVars, table, slot, ask, plan, dying>>

(* A model file that is not there is found before anything is unloaded. *)
FileMissing(r) ==
    /\ pc[r] = "rechecking"
    /\ ~Running(ask[r].id)
    /\ DropExited(ask[r].id)
    /\ Leave(r)
    /\ Answered(r)
    /\ admission' = Nobody
    /\ UNCHANGED <<catalogVars, table, lookVars, dying>>

Begun(c, u) == [unread |-> DOMAIN c, held |-> NoLook.held, used |-> u]

(* What has exited by itself, of the ids swept.  Each is found under its   *)
(* own slot's mutex in the code; that they go in one step hides nothing,   *)
(* since a child is as dead later as it was.                               *)
Swept(ids) == {id \in ids \cap table : Exited(id)}

(* A look begins.  A request that may not unload sweeps the dead first: in *)
(* their slots they would refuse it for room nobody holds.                 *)
BeginLook(r) ==
    /\ pc[r] = "rechecking"
    /\ ~Running(ask[r].id)
    /\ Vacate(Swept({ask[r].id} \cup
                       IF ask[r].room = "free" THEN DOMAIN ask[r].catalog ELSE {}))
    /\ look' = Begun(ask[r].catalog, used')
    /\ GoTo(r, "looking")
    /\ UNCHANGED <<catalogVars, table, ask, admission, lineVars, plan, dying>>

(* One slot of the snapshot, in catalog order and under that slot's mutex  *)
(* alone: the ones read before and after it do not stand still.            *)
LookAt(r) ==
    /\ pc[r] = "looking"
    /\ \E id \in look.unread :
        /\ \A m \in look.unread : id <= m
        /\ LET entry == ask[r].catalog[id]
               seen  == HeldOf(entry, slot[id].measured, Busy(id), slot[id].guest)
           IN  look' = [look EXCEPT
                  !.unread = @ \ {id},
                  !.held = IF id \in table /\ slot[id].full
                           THEN [m \in DOMAIN @ \cup {id} |-> IF m = id THEN seen ELSE @[m]]
                           ELSE @]
    /\ UNCHANGED <<catalogVars, slotVars, pc, ask, admission, lineVars, plan,
                   dying, expired>>

(* The request goes away with the lock, out of line. *)
Dismiss(r) ==
    /\ Leave(r)
    /\ Answered(r)
    /\ admission' = Nobody
    /\ look' = NoLook
    /\ plan' = {}

(* The room is made: the request leaves the line and starts its child, the *)
(* lock still held.                                                        *)
Made(r) ==
    /\ Leave(r)
    /\ GoTo(r, "starting")
    /\ look' = NoLook
    /\ plan' = {}
    /\ UNCHANGED <<ask, admission>>

(* The room is held: the request is told so when its wait is over, and     *)
(* otherwise waits in line with the lock let go.                           *)
Held(r) ==
    \/ /\ r \in late
       /\ Dismiss(r)
    \/ /\ r \notin late
       /\ Join(r)
       /\ GoTo(r, "waiting")
       /\ admission' = Nobody
       /\ look' = NoLook
       /\ plan' = {}
       /\ UNCHANGED ask

Asked(r, deviceFree) ==
    Decide(Limit, deviceFree, look.held, look.used, WantedOf(ask[r].id, ask[r].entry))

(* A bug the checks must catch: a request allowed free room alone waits.   *)
MayNotUnload_UnlessBlocked(r, decision) ==
    ask[r].room = "free" /\ decision.kind = "unload"

(* Asked::refusal: a request allowed free room alone is refused rather     *)
(* than made to wait or allowed to unload.                                 *)
MayNotUnload(r, decision) ==
    ask[r].room = "free" /\ decision.kind \in {"unload", "blocked"}

(* The decision, on what was read and on what the device said.             *)
Look(r) ==
    /\ pc[r] = "looking"
    /\ look.unread = {}
    /\ \E deviceFree \in DeviceReadings :
        LET decision == Asked(r, deviceFree)
        IN  \/ /\ MayNotUnload(r, decision) \/ decision.kind = "refuse"
               /\ Dismiss(r)
            \/ /\ decision.kind = "fits"
               /\ Made(r)
            \/ /\ ~MayNotUnload(r, decision)
               /\ decision.kind = "unload"
               /\ MayTake(r)
               /\ plan' = decision.unload
               /\ GoTo(r, "unloading")
               /\ UNCHANGED <<ask, admission, lineVars, look>>
            \/ /\ ~MayNotUnload(r, decision)
               /\ decision.kind = "blocked" \/ (decision.kind = "unload" /\ ~MayTake(r))
               /\ Held(r)
    /\ UNCHANGED <<catalogVars, slotVars, dying, expired>>

(* What is unloaded next: guests first, then by the last use the look saw. *)
Turn(v) == \A m \in plan \ {v} : GoesBefore(look.held, look.used, v, m)

(* A bug the checks must catch: the busy signal is the one the look saw. *)
GainedReader_AsLooked(v) == look.held[v].busy

GainedReader(v) == Busy(v)

(* The busy signal is read again under the slot's mutex as the child is    *)
(* taken; one that gained a reader stops the unloading where it is.        *)
Unload(r) ==
    /\ pc[r] = "unloading"
    /\ \/ \E v \in plan :
            /\ Turn(v)
            /\ \/ /\ GainedReader(v)
                  /\ Held(r)
                  /\ UNCHANGED <<slot, used, expired, dying>>
               \/ /\ Vacant(v)
                  /\ plan' = plan \ {v}
                  /\ UNCHANGED <<slot, used, expired, dying, pc, ask, admission,
                                 lineVars, look>>
               \/ /\ ~Vacant(v)
                  /\ ~GainedReader(v)
                  /\ Vacate({v})
                  /\ plan' = plan \ {v}
                  /\ dying' = [dying EXCEPT ![r] = v]
                  /\ GoTo(r, "killing")
                  /\ UNCHANGED <<ask, admission, lineVars, look>>
       \/ /\ plan = {}
          /\ Made(r)
          /\ UNCHANGED <<slot, used, expired, dying>>
    /\ UNCHANGED <<catalogVars, table>>

(* The process is gone, and its memory with it. *)
Killed(r) ==
    /\ pc[r] = "killing"
    /\ dying' = [dying EXCEPT ![r] = None]
    /\ GoTo(r, "unloading")
    /\ UNCHANGED <<catalogVars, slotVars, ask, admission, lineVars, lookVars, expired>>

(* start and the end of admit: the child is ready, measured, put in its    *)
(* slot and handed out under that slot's mutex, and the lock let go.       *)
Start(r) ==
    /\ pc[r] = "starting"
    /\ \E m \in Measurements :
        slot' = [slot EXCEPT ![ask[r].id] = Child(ask[r].room = "free", m)]
    /\ Stamp(ask[r].id)
    /\ GoTo(r, "reading")
    /\ admission' = Nobody
    /\ UNCHANGED <<catalogVars, table, ask, lineVars, plan, dying>>

StartFails(r) ==
    /\ pc[r] = "starting"
    /\ Answered(r)
    /\ admission' = Nobody
    /\ UNCHANGED <<catalogVars, slotVars, lineVars, lookVars, dying, expired>>

(* The relay has ended, and the model is marked used while it is held. *)
Touch(r) ==
    /\ pc[r] = "reading"
    /\ IF ask[r].id \in table /\ slot[ask[r].id].full
       THEN Stamp(ask[r].id)
       ELSE UNCHANGED <<used, look, expired>>
    /\ GoTo(r, "touched")
    /\ UNCHANGED <<catalogVars, table, slot, ask, admission, lineVars, plan, dying>>

(* The lease is dropped: the child's handle first.  A load, a resident and *)
(* a caller that went away before its relay let go without a touch.        *)
Drop(r) ==
    /\ Holding(r)
    /\ GoTo(r, "ringing")
    /\ ask' = [ask EXCEPT ![r] = NoAsk]
    /\ UNCHANGED <<catalogVars, slotVars, admission, lineVars, lookVars, dying, expired>>

(* And then the bell. *)
Ring(r) ==
    /\ pc[r] = "ringing"
    /\ rung' = rung \cup Listening
    /\ GoTo(r, "idle")
    /\ UNCHANGED <<catalogVars, slotVars, ask, admission, inLine, ahead, late,
                   outdated, lookVars, dying, expired>>

(* The deadline passes. *)
Expire(r) ==
    /\ pc[r] \in InRoom
    /\ r \notin late
    /\ late' = late \cup {r}
    /\ UNCHANGED <<catalogVars, slotVars, pc, ask, admission, inLine, ahead,
                   rung, outdated, lookVars, dying, expired>>

-----------------------------------------------------------------------------
(* The others. *)

(* A process exits by itself. *)
ChildDies(id) ==
    /\ slot[id].full
    /\ ~slot[id].dead
    /\ slot' = [slot EXCEPT ![id].dead = TRUE]
    /\ UNCHANGED <<catalogVars, table, used, pc, ask, admission, lineVars,
                   lookVars, dying, expired>>

(* A tick of the reaper: the exited go, and what is on-demand, idle and    *)
(* not used since the window began is named.  The window is a rank: all    *)
(* that is no more recent than `cutoff` is stale.  The children it finds   *)
(* busy or stamped on its way are left out when it comes to take them.     *)
SweepExited ==
    /\ dying[Reaper] = None
    /\ expired = {}
    /\ Vacate(Swept(DOMAIN catalog))
    /\ UNCHANGED <<catalogVars, table, pc, ask, admission, lineVars, lookVars, dying>>

SweepIdle ==
    /\ dying[Reaper] = None
    /\ expired = {}
    /\ \E cutoff \in 1..Cardinality(Ids) :
        expired' = {id \in DOMAIN catalog \cap table :
                       /\ slot[id].full
                       /\ ~catalog[id].resident
                       /\ ~Busy(id)
                       /\ used[id] <= cutoff}
    /\ UNCHANGED <<catalogVars, slotVars, pc, ask, admission, lineVars, lookVars, dying>>

(* One of them, coldest first, if it is idle still: out of its slot under  *)
(* the slot's mutex, and killed once that is released.  No admission lock. *)
Reap ==
    /\ dying[Reaper] = None
    /\ \E id \in expired :
        /\ \A m \in expired : used[id] <= used[m]
        /\ \/ /\ Busy(id)
              /\ expired' = expired \ {id}
              /\ UNCHANGED <<slot, used, dying>>
           \/ /\ ~Busy(id)
              /\ Vacate({id})
              /\ dying' = [dying EXCEPT ![Reaper] = id]
    /\ UNCHANGED <<catalogVars, table, pc, ask, admission, lineVars, lookVars>>

(* let_go: an operator unloads one entry unless somebody reads from it. No *)
(* admission lock here either.                                             *)
LetGo(id) ==
    /\ dying[Operator] = None
    /\ admission # Operator
    /\ id \in DOMAIN catalog \cap table
    /\ slot[id].full
    /\ ~Busy(id)
    /\ Vacate({id})
    /\ dying' = [dying EXCEPT ![Operator] = id]
    /\ UNCHANGED <<catalogVars, table, pc, ask, admission, lineVars, lookVars>>

Gone(t) ==
    /\ t \in {Reaper, Operator}
    /\ dying[t] # None
    /\ dying' = [dying EXCEPT ![t] = None]
    /\ UNCHANGED <<catalogVars, slotVars, pc, ask, admission, lineVars, lookVars, expired>>

(* A bug the checks must catch: a slot goes with its entry, occupied or    *)
(* not.                                                                    *)
Kept_WhatIsListed(c) == DOMAIN c

Kept(c) == DOMAIN c \cup {id \in table : slot[id].full}

(* reload: under the admission lock, slots appear for what the file gained *)
(* and go for what it lost, unless a child is in them; waiting requests    *)
(* are woken to be sent away.  A file that says what it said is a reload   *)
(* like any other.                                                         *)
Resync ==
    /\ LockFree
    /\ dying[Operator] = None
    /\ reloads < MaxReloads
    /\ reloads' = reloads + 1
    /\ admission' = Operator
    /\ \E c \in Catalogs :
        /\ incoming' = c
        /\ table' = Kept(c)
    /\ rung' = rung \cup Listening
    /\ outdated' = outdated \cup Listening
    /\ UNCHANGED <<catalog, slot, used, pc, ask, inLine, ahead, late, lookVars,
                   dying, expired>>

(* And the catalog is swapped, and the lock let go. *)
Swap ==
    /\ admission = Operator
    /\ catalog' = incoming
    /\ incoming' = None
    /\ admission' = Nobody
    /\ UNCHANGED <<reloads, slotVars, pc, ask, lineVars, lookVars, dying, expired>>

-----------------------------------------------------------------------------

Init ==
    /\ catalog \in Catalogs
    /\ reloads = 0
    /\ incoming = None
    /\ table = DOMAIN catalog
    /\ slot = [id \in Ids |-> NoChild]
    /\ used = [id \in Ids |-> 0]
    /\ pc = [r \in Requests |-> "idle"]
    /\ ask = [r \in Requests |-> NoAsk]
    /\ admission = Nobody
    /\ inLine = {}
    /\ ahead = [r \in Requests |-> {}]
    /\ rung = {}
    /\ late = {}
    /\ outdated = {}
    /\ look = NoLook
    /\ plan = {}
    /\ dying = [t \in Threads |-> None]
    /\ expired = {}

(* What a request does of itself, once it has asked and until it is        *)
(* answered, and once it has let go.                                       *)
Serve(r) ==
    \/ Call(r)         \/ Admit(r)     \/ Wake(r)
    \/ FoundRunning(r) \/ FileMissing(r)
    \/ BeginLook(r)    \/ LookAt(r)    \/ Look(r)
    \/ Unload(r)       \/ Killed(r)
    \/ Start(r)        \/ StartFails(r)
    \/ Touch(r)        \/ Drop(r)      \/ Ring(r)

Reaping == SweepExited \/ SweepIdle \/ Reap \/ Gone(Reaper)

Operating == (\E id \in Ids : LetGo(id)) \/ Gone(Operator) \/ Resync \/ Swap

Next ==
    \/ \E r \in Requests : Arrive(r) \/ Serve(r) \/ Expire(r)
    \/ \E id \in Ids : ChildDies(id)
    \/ Reaping
    \/ Operating

Spec == Init /\ [][Next]_vars

-----------------------------------------------------------------------------

Places == {"idle", "asking", "admitting", "starting", "reading", "touched",
           "ringing"} \cup InRoom

AskRecord == [id : Ids, room : {"any", "free"}, entry : Entry, catalog : Catalogs]

CatalogType ==
    /\ catalog \in Catalogs
    /\ reloads \in 0..MaxReloads
    /\ incoming \in Catalogs \cup {None}

SlotType ==
    /\ table \subseteq Ids
    /\ slot \in [Ids -> [full : BOOLEAN, dead : BOOLEAN, guest : BOOLEAN,
                        measured : Measurement]]
    /\ used \in [Ids -> Nat]

RequestType ==
    /\ pc \in [Requests -> Places]
    /\ DOMAIN ask = Requests
    /\ \A r \in Requests : IF Asking(r) THEN ask[r] \in AskRecord ELSE ask[r] = NoAsk
    /\ admission \in Requests \cup {Operator, Nobody}

LineType ==
    /\ inLine \subseteq Requests
    /\ ahead \in [Requests -> SUBSET Requests]
    /\ rung \subseteq Requests
    /\ late \subseteq Requests
    /\ outdated \subseteq Requests

LookType ==
    /\ look = [unread |-> look.unread, held |-> look.held, used |-> look.used]
    /\ look.unread \subseteq Ids
    /\ DOMAIN look.held \subseteq Ids
    /\ look.held \in [DOMAIN look.held -> HeldModel]
    /\ look.used \in [Ids -> Nat]
    /\ plan \subseteq Ids

SweepType ==
    /\ dying \in [Threads -> Ids \cup {None}]
    /\ expired \subseteq Ids

TypeOK ==
    CatalogType /\ SlotType /\ RequestType /\ LineType /\ LookType /\ SweepType

(* What is loaded now, as a decision under catalog c would count it. *)
LoadedNow(c) ==
    [id \in {m \in DOMAIN c \cap table : slot[m].full} |->
        HeldOf(c[id], slot[id].measured, Busy(id), slot[id].guest)]

(* Nobody but the holder of the admission lock is where only its holder    *)
(* can be, and the holder is.                                              *)
LockIsHeld ==
    /\ \A r \in Requests : pc[r] \in Locked <=> admission = r
    /\ admission = Operator <=> incoming # None

(* What a look has yet to read is of the catalog it was begun under. *)
LookReadsItsCatalog ==
    \A r \in Requests :
        pc[r] = "looking" => look.unread \subseteq DOMAIN ask[r].catalog

(* "a model that is answering is never unloaded": whoever holds a child    *)
(* finds it in its slot, whatever admission, the reaper, the operator and  *)
(* a reload did since it was handed out (loaded.rs:171-198).               *)
NoReaderLosesItsChild ==
    \A r \in Requests : Holding(r) => ask[r].id \in table /\ slot[ask[r].id].full

(* Whatever is started fits beside everything loaded at that moment, each  *)
(* counted at the larger of its estimate and its measurement               *)
(* (decision.rs:14-21, view.rs:74-83): nothing loaded after the snapshot   *)
(* was taken, nothing measured since, spends the room twice.               *)
StartsWithinBudget ==
    \A r \in Requests :
        pc[r] = "starting" /\ Limit # None =>
            LET now == LoadedNow(ask[r].catalog)
            IN  CostOf(now, DOMAIN now) + ask[r].entry.cost <= Limit

(* The line is exactly the requests asleep and the one of them that was    *)
(* woken and is looking again, in one order (queue.rs:10-47).              *)
LineIsTheWaiters ==
    /\ \A r \in Requests : pc[r] = "waiting" => r \in inLine
    /\ \A r \in inLine : pc[r] \in InRoom
    /\ \A r, q \in inLine : r # q => (q \in ahead[r] <=> r \notin ahead[q])
    /\ \A r \in Requests : ahead[r] \subseteq inLine \ {r}
    /\ \A r, q \in inLine : q \in ahead[r] => ahead[q] \subseteq ahead[r]

CouldBeUnloadedFor(r, m) ==
    m \in DOMAIN ask[r].catalog /\ ~ask[r].catalog[m].resident /\ m # ask[r].id

RingComes(r) ==
    \/ r \in rung
    \/ \E q \in Requests : pc[q] = "ringing"

(* No wakeup is lost: a request asleep that the bell has not rung for has  *)
(* one coming, from whoever is in line before it, from a lease already     *)
(* dropped, or from a reader whose model could be unloaded for it once     *)
(* read from no more (lease.rs:34-42, room.rs:74-76).                      *)
SleepersHaveWakers ==
    \A r \in Requests : pc[r] = "waiting" =>
        \/ RingComes(r)
        \/ ahead[r] # {}
        \/ \E m \in Ids : CouldBeUnloadedFor(r, m) /\ Busy(m)

(* "When the only room a model could take is held by a model something is  *)
(* still reading from, the request waits" (README.md:223-224): while the   *)
(* first in line sleeps and no ring comes, it would still decide that the  *)
(* room is held.  It sleeps also when one of those it was unloading gained *)
(* a reader, and asks for no other (room.rs:158-166).                      *)
HeadIsWoken ==
    \A r \in inLine :
        pc[r] = "waiting" /\ MayTake(r) /\ r \notin late /\ ~RingComes(r) =>
            LET now == LoadedNow(ask[r].catalog)
            IN  Decide(Limit, None, now, used, WantedOf(ask[r].id, ask[r].entry)).kind
                  \notin {"fits", "unload"}

(* A request allowed free room alone takes no place in line and unloads    *)
(* nothing (admit.rs:37-41).                                               *)
FreeRoomTakesNothing ==
    \A r \in Requests :
        Asking(r) /\ ask[r].room = "free" =>
            /\ r \notin inLine
            /\ pc[r] \notin {"unloading", "killing", "waiting"}

(* A slot with a child in it is never forgotten, and neither is the one    *)
(* that a child being started will be put in: it would answer until the    *)
(* router itself ended (table.rs:116-121, admit.rs:130-131).               *)
NoChildIsForgotten ==
    /\ \A id \in Ids : slot[id].full => id \in table
    /\ \A r \in Requests : pc[r] = "starting" => ask[r].id \in table

(* "it is decided under the catalog now serving": a request that waited    *)
(* through a reload is woken to be told so and decides nothing more        *)
(* (room.rs:77-83).                                                        *)
OutdatedDecidesNothing ==
    \A r \in outdated : pc[r] = "waiting" /\ r \in rung


=============================================================================
