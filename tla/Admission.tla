----------------------------- MODULE Admission -----------------------------
(***************************************************************************)
(* The admission decision: whether a wanted entry may be started beside    *)
(* what is loaded, and what has to be unloaded first.  A pure function in  *)
(* the code (src/admission), and constant operators here.                  *)
(*                                                                         *)
(* What is loaded is a function `held` from identifiers to HeldModel, and  *)
(* `used` says when each last answered: a larger number is more recent.    *)
(* The code's Option is a natural number or None.                          *)
(***************************************************************************)
EXTENDS Integers, FiniteSets, FiniteSetsExt

CONSTANT None   \* an Option with nothing in it

ASSUME NoneAssumption == None \notin Nat

(* What the admission reads of a catalog entry: its estimate, whether its  *)
(* flags keep every layer off the device, and its residency.               *)
Entry == [cost : Nat, offDevice : BOOLEAN, resident : BOOLEAN]

(* What the machine saw a child holding once it had loaded: its resident   *)
(* set and its share of the device, each if it could be read.              *)
Measurement == [memory : Nat \cup {None}, device : Nat \cup {None}]

(* A loaded model as a decision sees it. *)
HeldModel == [cost : Nat, device : Nat, resident : BOOLEAN,
              busy : BOOLEAN, guest : BOOLEAN]

-----------------------------------------------------------------------------

(* What an entry puts on the device: nothing when its layers stay off it.  *)
DeviceNeed(entry) == IF entry.offDevice THEN 0 ELSE entry.cost

Largest(m) ==
    IF m.memory = None THEN m.device
    ELSE IF m.device = None \/ m.device < m.memory THEN m.memory
    ELSE m.device

(* What a loaded entry is charged: its estimate, or what it was measured   *)
(* holding when that is more.  One kept off the device is measured on the  *)
(* device alone.                                                           *)
Charge(entry, m) ==
    LET seen == IF entry.offDevice THEN m.device ELSE Largest(m)
    IN  IF seen = None \/ seen < entry.cost THEN entry.cost ELSE seen

HeldOf(entry, m, busy, guest) ==
    [cost     |-> Charge(entry, m),
     device   |-> IF m.device = None THEN DeviceNeed(entry) ELSE m.device,
     resident |-> entry.resident,
     busy     |-> busy,
     guest    |-> guest]

WantedOf(id, entry) ==
    [id |-> id, cost |-> entry.cost, device |-> DeviceNeed(entry)]

-----------------------------------------------------------------------------

CostOf(held, S)   == MapThenSumSet(LAMBDA m : held[m].cost, S)
DeviceOf(held, S) == MapThenSumSet(LAMBDA m : held[m].device, S)

SaturatingSub(a, b) == IF a < b THEN 0 ELSE a - b

(* A bug the checks must catch: the device's question never asked. *)
Short_NoDevice(limit, deviceFree, held, wanted, freed) ==
    IF /\ limit # None
       /\ SaturatingSub(CostOf(held, DOMAIN held), CostOf(held, freed))
            + wanted.cost > limit
    THEN "ledger"
    ELSE "none"

(* Which question still says no once `freed` has gone: the ledger's, asked *)
(* first, the device's, or neither.                                        *)
Short(limit, deviceFree, held, wanted, freed) ==
    IF /\ limit # None
       /\ SaturatingSub(CostOf(held, DOMAIN held), CostOf(held, freed))
            + wanted.cost > limit
    THEN "ledger"
    ELSE IF /\ deviceFree # None
            /\ deviceFree + DeviceOf(held, freed) < wanted.device
    THEN "device"
    ELSE "none"

Candidates(held, wanted) ==
    {m \in DOMAIN held : ~held[m].resident /\ ~held[m].busy /\ m # wanted.id}

(* Guests before anything that is not one, and then the coldest. *)
GoesBefore(held, used, a, b) ==
    \/ held[a].guest /\ ~held[b].guest
    \/ held[a].guest = held[b].guest /\ used[a] < used[b]

(* A bug the checks must catch: the loop asks after taking a candidate and *)
(* not before, so it takes one more than it needs.                         *)
Victims_OneTooMany(limit, deviceFree, held, used, wanted) ==
    LET C == Candidates(held, wanted)
    IN  {m \in C : \A n \in C :
            GoesBefore(held, used, n, m) =>
                Short(limit, deviceFree, held, wanted,
                      {c \in C : GoesBefore(held, used, c, n)}) # "none"}

(* The candidates the loop takes: each one reached while the ones that go  *)
(* before it do not yet make room.                                         *)
Victims(limit, deviceFree, held, used, wanted) ==
    LET C == Candidates(held, wanted)
    IN  {m \in C : Short(limit, deviceFree, held, wanted,
                         {c \in C : GoesBefore(held, used, c, m)}) # "none"}

(* A bug the checks must catch: waiting taken to be worth it only when     *)
(* everything loaded is answering.                                         *)
FreesItself_OnlyWhenAllBusy(held, wanted) ==
    \A m \in DOMAIN held : ~held[m].resident /\ held[m].busy /\ m # wanted.id

(* Whether anything loaded would be a candidate if it were idle, which is  *)
(* what the code takes to make waiting worth doing.                        *)
FreesItself(held, wanted) ==
    \E m \in DOMAIN held : ~held[m].resident /\ held[m].busy /\ m # wanted.id

Decision(kind, unload) == [kind |-> kind, unload |-> unload]

Decide(limit, deviceFree, held, used, wanted) ==
    LET victims == Victims(limit, deviceFree, held, used, wanted)
    IN  IF wanted.id \in DOMAIN held
        THEN Decision("fits", {})
        ELSE IF limit # None /\ wanted.cost > limit
        THEN Decision("refuse", {})
        ELSE IF Short(limit, deviceFree, held, wanted, {}) = "none"
        THEN Decision("fits", {})
        ELSE IF Short(limit, deviceFree, held, wanted, victims) = "none"
        THEN Decision("unload", victims)
        ELSE IF FreesItself(held, wanted)
        THEN Decision("blocked", {})
        ELSE Decision("refuse", {})

=============================================================================
