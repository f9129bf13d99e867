----------------------------- MODULE SlotsPool -----------------------------
(***************************************************************************)
(* The slot table as a model pool: a model is charged while its slot holds *)
(* a child, and read from while a request holds that child.  The file      *)
(* holds one catalog here: a reload may change what is charged for a model *)
(* that is loaded, which no step of the pool does.                         *)
(***************************************************************************)
EXTENDS Slots

OnlyCatalog == CHOOSE c \in Catalogs : TRUE

chargeOf == [id \in Ids |->
                IF id \in DOMAIN OnlyCatalog /\ slot[id].full
                THEN Charge(OnlyCatalog[id], slot[id].measured)
                ELSE None]

readingOf == [r \in Requests |-> IF Holding(r) THEN ask[r].id ELSE None]

Pool == INSTANCE ModelPool WITH
            Models   <- Ids,
            Clients  <- Requests,
            Nothing  <- None,
            Budget   <- Limit,
            Estimate <- [id \in DOMAIN OnlyCatalog |-> OnlyCatalog[id].cost],
            charge   <- chargeOf,
            reading  <- readingOf

(* The router implements the pool: however requests, the reaper, the       *)
(* operator and dying children interleave, each step of theirs is one of   *)
(* the pool's or none.                                                     *)
ImplementsModelPool == Pool!Spec

=============================================================================
