----------------------------- MODULE ModelPool -----------------------------
(***************************************************************************)
(* What the router promises of its models, with nothing said of how: a     *)
(* model is loaded only beside what it fits with, is read from only while  *)
(* it is loaded, and is unloaded only while nobody reads from it.          *)
(***************************************************************************)
EXTENDS Integers, FiniteSets, FiniteSetsExt

CONSTANTS
    Models,    \* what may be loaded
    Clients,   \* who may read
    Nothing,   \* what an absent model is charged, and what an idle reader reads
    Budget,    \* the memory budget, Nothing when there is none
    Estimate   \* per model, what it is expected to hold

VARIABLES
    charge,    \* per model, what it is counted at, Nothing while it is absent
    reading    \* per reader, the model it reads from, or Nothing

poolVars == <<charge, reading>>

Loaded == {m \in Models : charge[m] # Nothing}

Total == MapThenSumSet(LAMBDA m : charge[m], Loaded)

Init ==
    /\ charge = [m \in Models |-> Nothing]
    /\ reading = [r \in Clients |-> Nothing]

(* A model is loaded for a reader, and counted at its estimate or more. *)
Load(r, m) ==
    /\ reading[r] = Nothing
    /\ m \notin Loaded
    /\ Budget # Nothing => Total + Estimate[m] <= Budget
    /\ charge'[m] # Nothing
    /\ charge'[m] >= Estimate[m]
    /\ charge' = [charge EXCEPT ![m] = charge'[m]]
    /\ reading' = [reading EXCEPT ![r] = m]

Attach(r, m) ==
    /\ reading[r] = Nothing
    /\ m \in Loaded
    /\ reading' = [reading EXCEPT ![r] = m]
    /\ UNCHANGED charge

Detach(r) ==
    /\ reading[r] # Nothing
    /\ reading' = [reading EXCEPT ![r] = Nothing]
    /\ UNCHANGED charge

(* Whatever goes, one model or several, nobody reads from it. *)
Unload ==
    /\ UNCHANGED reading
    /\ \A m \in Models :
        \/ charge'[m] = charge[m]
        \/ charge'[m] = Nothing /\ \A r \in Clients : reading[r] # m

Next ==
    \/ \E r \in Clients, m \in Models : Load(r, m) \/ Attach(r, m)
    \/ \E r \in Clients : Detach(r)
    \/ Unload

Spec == Init /\ [][Next]_poolVars

=============================================================================
