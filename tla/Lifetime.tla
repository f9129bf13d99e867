------------------------------ MODULE Lifetime ------------------------------
(***************************************************************************)
(* How long a child lives: loaded at startup or for a request, measured,   *)
(* unloaded by the idle reaper when its window has passed, and ended with  *)
(* the process when a signal stops the router (proxy/router.rs,            *)
(* proxy/reaper.rs, proxy/residents.rs, idle.rs, serving.rs).              *)
(*                                                                         *)
(* What Slots models in detail is taken whole here: who may load, the      *)
(* snapshot of the table, the end of an answer with its touch.  Time is a  *)
(* clock, and every thread goes when the process does.                     *)
(***************************************************************************)
EXTENDS Integers, Sequences, FiniteSets

CONSTANTS
    Models,      \* the catalog's entries
    Residents,   \* a sequence: those loaded at startup, in catalog order
    Window,      \* the idle window, and 0 for none
    MinInterval, \* the least interval between two sweeps
    MaxSweep,    \* how much time passes, at most, during one sweep
    MaxNow,      \* bound: the last tick of the clock
    MaxChildren, \* bound: processes started, in all
    MaxSignals   \* bound: signals received

ASSUME WindowAssumption == Window \in Nat /\ MinInterval \in Nat \ {0}
ASSUME ResidentsAssumption == Residents \in Seq(Models)
ASSUME BoundsAssumption ==
    /\ MaxSweep \in Nat /\ MaxNow \in Nat
    /\ MaxChildren \in Nat /\ MaxSignals \in Nat

Children == 1..MaxChildren
None     == 0

VARIABLES
    now,       \* the clock
    model,     \* the entry each child serves
    place,     \* where each child is held, from "none" to "killed"
    alive,     \* processes of the machine, this one's children
    read,      \* children an answer is being read from
    used,      \* when each child was used last
    loading,   \* the child being loaded under the admission lock, if any
    by,        \* the thread that loads each child
    before,    \* the device's free memory as its load began
    others,    \* children during whose load another one went
    fell,      \* how far the free memory fell while each child loaded
    residents, \* those the startup thread has yet to load
    reaper,    \* where the reaper is
    due,       \* when its next sweep is due
    began,     \* when its sweep began
    expired,   \* what that sweep has yet to take
    killing,   \* the child it waits for, or none
    stop,      \* the flag that ends the reaper
    stopper,   \* where the thread that stops the router is
    passed,    \* entries whose slot it has emptied
    taken,     \* children it took out of their slots and still holds
    inbox,     \* what the main thread has yet to hear
    signals,   \* signals received so far
    main       \* the main thread: serving, asked to end, or returned

clock    == <<now>>
process  == <<model, place, alive, read, used>>
load     == <<loading, by, before, others, fell, residents>>
sweep    == <<reaper, due, began, expired, killing>>
shutdown == <<stop, stopper, passed, taken, inbox, signals, main>>
vars     == <<clock, process, load, sweep, shutdown>>

TypeOK ==
    /\ now \in 0..MaxNow
    /\ model \in [Children -> Models \cup {None}]
    /\ place \in [Children -> {"none", "starting", "slot", "swept", "out", "killed"}]
    /\ alive \in SUBSET Children /\ read \in SUBSET Children
    /\ used \in [Children -> 0..MaxNow]
    /\ loading \in SUBSET Children /\ others \in SUBSET Children
    /\ by \in [Children -> {"nobody", "request", "startup"}]
    /\ before \in [Children -> (0 - MaxChildren)..0]
    /\ fell \in [Children -> 0..MaxChildren]
    /\ residents \in Seq(Models)
    /\ reaper \in {"off", "waiting", "sweeping", "ended"}
    /\ due \in Nat /\ began \in 0..MaxNow
    /\ expired \in SUBSET Children /\ killing \in Children \cup {None}
    /\ stop \in BOOLEAN
    /\ stopper \in {"none", "taking", "dropping", "done"}
    /\ passed \in SUBSET Models /\ taken \in SUBSET Children
    /\ inbox \in Seq({"signalled", "stopped"}) /\ signals \in 0..MaxSignals
    /\ main \in {"serving", "stopping", "ended", "signalled again"}

Running == main \in {"serving", "stopping"}

InSlot(c)  == place[c] = "slot"
Loaded(m)  == \E c \in Children : InSlot(c) /\ model[c] = m

(* A bug the checks must catch: a sweep for each window. *)
Interval_Whole == IF Window < MinInterval THEN MinInterval ELSE Window

(* next_sweep: half the window, but no less than the floor. *)
Interval == IF Window \div 2 < MinInterval THEN MinInterval ELSE Window \div 2

Init ==
    /\ now = 0
    /\ model = [c \in Children |-> None] /\ place = [c \in Children |-> "none"]
    /\ alive = {} /\ read = {} /\ used = [c \in Children |-> 0]
    /\ loading = {} /\ others = {}
    /\ by = [c \in Children |-> "nobody"] /\ before = [c \in Children |-> 0]
    /\ fell = [c \in Children |-> 0]
    /\ residents = Residents
    /\ reaper = IF Window = 0 THEN "off" ELSE "waiting"
    /\ due = Interval /\ began = 0 /\ expired = {} /\ killing = None
    /\ stop = FALSE /\ stopper = "none" /\ passed = {} /\ taken = {}
    /\ inbox = <<>> /\ signals = 0 /\ main = "serving"

-----------------------------------------------------------------------------
(* Loading.  What the device has free is counted in children: each holds   *)
(* one part of it from the moment it is started until it is gone.          *)

Free == 0 - Cardinality(alive)

(* A bug the checks must catch: a load does not wait for another.          *)
MayLoad_AtOnce == TRUE

(* Loads are admitted one at a time. *)
MayLoad == loading = {}

StartLoad(m, who) ==
    /\ MayLoad
    /\ ~Loaded(m)
    /\ \E c \in Children :
        /\ place[c] = "none" /\ \A d \in 1..(c - 1) : place[d] # "none"
        /\ loading' = loading \cup {c}
        /\ by' = [by EXCEPT ![c] = who]
        /\ before' = [before EXCEPT ![c] = Free]
        /\ model' = [model EXCEPT ![c] = m]
        /\ place' = [place EXCEPT ![c] = "starting"]
        /\ alive' = alive \cup {c}
    /\ UNCHANGED <<clock, read, used, others, fell, residents, sweep, shutdown>>

Done(who) == IF who = "startup" THEN residents' = Tail(residents)
                                ELSE UNCHANGED residents

Forget(c) == /\ by' = [by EXCEPT ![c] = "nobody"]
             /\ before' = [before EXCEPT ![c] = 0]

(* A bug the checks must catch: the two readings the wrong way round.      *)
OnTheDevice_Rose(was, is) == is - was

(* Slots::start: how far the free memory fell stands for what the child    *)
(* holds, and one that cannot be told is none (0).                         *)
OnTheDevice(was, is) == IF was > is THEN was - is ELSE 0

(* The child is ready: it is put in its slot, and read from by the request *)
(* that wanted it.                                                         *)
FinishLoad(c) ==
    /\ Running /\ c \in loading
    /\ place' = [place EXCEPT ![c] = "slot"]
    /\ used' = [used EXCEPT ![c] = now]
    /\ fell' = [fell EXCEPT ![c] = OnTheDevice(before[c], Free)]
    /\ read' = IF by[c] = "request" THEN read \cup {c} ELSE read
    /\ loading' = loading \ {c}
    /\ Done(by[c])
    /\ Forget(c)
    /\ UNCHANGED <<clock, model, alive, others, sweep, shutdown>>

(* It exits while it loads, or is killed when its time is up. *)
FailLoad(c) ==
    /\ Running /\ c \in loading
    /\ place' = [place EXCEPT ![c] = "killed"]
    /\ alive' = alive \ {c}
    /\ loading' = loading \ {c}
    /\ Done(by[c])
    /\ Forget(c)
    /\ UNCHANGED <<clock, model, read, used, others, fell, sweep, shutdown>>

(* residents::load: each resident, in order, and a failure ends nothing.   *)
(* One is found running, or refused under the admission lock before a      *)
(* child is started: no room for it, or no file.                           *)
LoadResident ==
    /\ Running /\ residents # <<>> /\ \A c \in loading : by[c] # "startup"
    /\ \/ StartLoad(Head(residents), "startup")
       \/ /\ Loaded(Head(residents)) \/ MayLoad
          /\ Done("startup")
          /\ UNCHANGED <<clock, process, loading, by, before, others, fell,
                         sweep, shutdown>>

(* A request for a model that is not loaded, or one that is. *)
Request ==
    /\ Running
    /\ \E m \in Models : StartLoad(m, "request")

Read ==
    /\ Running
    /\ \E c \in Children \ read :
        /\ InSlot(c)
        /\ read' = read \cup {c}
    /\ UNCHANGED <<clock, model, place, alive, used, load, sweep, shutdown>>

(* The end of an answer: a use of what is still in its slot; what is not   *)
(* goes with its last handle.                                              *)
ReadEnds ==
    /\ Running
    /\ \E c \in read :
        /\ read' = read \ {c}
        /\ used' = IF InSlot(c) THEN [used EXCEPT ![c] = now] ELSE used
        /\ place' = IF place[c] = "out" /\ c \notin taken
                    THEN [place EXCEPT ![c] = "killed"] ELSE place
    /\ UNCHANGED <<clock, model, alive, load, sweep, shutdown>>

(* A killed process goes, also when nobody is left to wait for it. *)
Dies(c) ==
    /\ place[c] = "killed" /\ c \in alive
    /\ alive' = alive \ {c}
    /\ others' = others \cup loading
    /\ UNCHANGED <<clock, model, place, read, used, loading, by, before, fell,
                   residents, sweep, shutdown>>

-----------------------------------------------------------------------------
(* The idle reaper. *)

Stale(c, at) == at - used[c] >= Window

OnDemand(c) == \A i \in DOMAIN Residents : Residents[i] # model[c]

(* The deadline is the last one's, and not the end of its sweep, plus the  *)
(* interval.                                                               *)
BeginSweep ==
    /\ Running /\ reaper = "waiting" /\ ~stop
    /\ now >= due
    /\ reaper' = "sweeping"
    /\ due' = due + Interval
    /\ began' = now
    /\ expired' = {c \in Children : InSlot(c) /\ OnDemand(c)
                                     /\ c \notin read /\ Stale(c, now)}
    /\ UNCHANGED <<clock, process, load, killing, shutdown>>

Coldest(c) == \A d \in expired : used[c] <= used[d]

(* A bug the checks must catch: what was idle as the sweep began is taken. *)
StillIdle_AsListed(c) == InSlot(c) /\ c \notin read

(* The second look, under the guard of the slot (take_if_idle). *)
StillIdle(c) == InSlot(c) /\ c \notin read /\ Stale(c, began)

(* One is taken out of its slot, and killed once the guard is let go.      *)
TakeExpired ==
    /\ Running /\ reaper = "sweeping" /\ killing = None
    /\ \E c \in expired :
        /\ Coldest(c)
        /\ expired' = expired \ {c}
        /\ IF StillIdle(c)
           THEN /\ place' = [place EXCEPT ![c] = "swept"]
                /\ killing' = c
           ELSE UNCHANGED <<place, killing>>
    /\ UNCHANGED <<clock, model, alive, read, used, load, reaper, due, began,
                   shutdown>>

(* Slots::swept drops it; a process that ends before that leaves it. *)
KillExpired ==
    /\ Running /\ killing # None /\ place[killing] = "swept"
    /\ place' = [place EXCEPT ![killing] = "killed"]
    /\ UNCHANGED <<clock, model, alive, read, used, load, sweep, shutdown>>

(* The kill is waited for. *)
SweepGoesOn ==
    /\ Running /\ killing # None
    /\ place[killing] = "killed" /\ killing \notin alive
    /\ killing' = None
    /\ UNCHANGED <<clock, process, load, reaper, due, began, expired, shutdown>>

EndSweep ==
    /\ Running /\ reaper = "sweeping" /\ killing = None /\ expired = {}
    /\ reaper' = "waiting"
    /\ began' = 0
    /\ UNCHANGED <<clock, process, load, due, expired, killing, shutdown>>

(* Stop::wait returns as soon as the flag is up. *)
ReaperEnds ==
    /\ Running /\ reaper = "waiting" /\ stop
    /\ reaper' = "ended"
    /\ UNCHANGED <<clock, process, load, due, began, expired, killing, shutdown>>

(* Time passes, but not while a sweep is due that has not begun, nor past  *)
(* what one sweep takes.  Nothing in a stop asks for the time: a bound     *)
(* stops the clock there.                                                  *)
Tick ==
    /\ main = "serving" /\ now < MaxNow
    /\ reaper = "waiting" /\ ~stop => now < due
    /\ reaper = "sweeping" => now < began + MaxSweep
    /\ now' = now + 1
    /\ UNCHANGED <<process, load, sweep, shutdown>>

-----------------------------------------------------------------------------
(* The end of the process. *)

Signal ==
    /\ Running /\ signals < MaxSignals
    /\ signals' = signals + 1
    /\ inbox' = Append(inbox, "signalled")
    /\ UNCHANGED <<clock, process, load, sweep, stop, stopper, passed, taken,
                   main>>

(* A bug the checks must catch: the main thread stops the router itself.   *)
Hearing_AfterTheStop == inbox # <<>> /\ stopper \in {"none", "done"}

Hearing == inbox # <<>>

(* wait_for_the_end: the first signal starts a stop on a thread of its     *)
(* own, a second one ends the process without waiting for the children,    *)
(* and so does the stop when it is done.                                   *)
Hear ==
    /\ Running /\ Hearing
    /\ inbox' = Tail(inbox)
    /\ \/ /\ Head(inbox) = "signalled" /\ main = "serving"
          /\ main' = "stopping" /\ stopper' = "taking"
       \/ /\ Head(inbox) = "signalled" /\ main = "stopping"
          /\ main' = "signalled again" /\ UNCHANGED stopper
       \/ /\ Head(inbox) = "stopped"
          /\ main' = "ended" /\ UNCHANGED stopper
    /\ UNCHANGED <<clock, process, load, sweep, stop, passed, taken, signals>>

(* Slots::clear: the slots are emptied one after another, without the      *)
(* admission lock; what they held is dropped afterwards.                   *)
TakeSlot ==
    /\ Running /\ stopper = "taking"
    /\ \E m \in Models \ passed :
        LET held == {c \in Children : InSlot(c) /\ model[c] = m}
        IN  /\ passed' = passed \cup {m}
            /\ taken' = taken \cup held
            /\ place' = [c \in Children |-> IF c \in held THEN "out" ELSE place[c]]
            /\ stopper' = IF passed' = Models THEN "dropping" ELSE "taking"
    /\ UNCHANGED <<clock, model, alive, read, used, load, sweep, stop, inbox,
                   signals, main>>

(* Dropping a handle kills the child and waits for it, unless an answer    *)
(* holds another one.                                                      *)
DropTaken ==
    /\ Running /\ stopper = "dropping"
    /\ \E c \in taken :
        \/ /\ c \in read
           /\ taken' = taken \ {c}
           /\ UNCHANGED place
        \/ /\ c \notin read /\ place[c] = "out"
           /\ place' = [place EXCEPT ![c] = "killed"]
           /\ UNCHANGED taken
        \/ /\ place[c] = "killed" /\ c \notin alive
           /\ taken' = taken \ {c}
           /\ UNCHANGED place
    /\ UNCHANGED <<clock, model, alive, read, used, load, sweep, stop, stopper,
                   passed, inbox, signals, main>>

(* A bug the checks must catch: the main thread is told first.             *)
StopEnds_First ==
    /\ Running /\ stopper = "dropping"
    /\ stop' = TRUE
    /\ stopper' = "done"
    /\ inbox' = Append(inbox, "stopped")
    /\ UNCHANGED <<clock, process, load, sweep, passed, taken, signals, main>>

(* Router::stop then ends the reaper, and the main thread is told. *)
StopEnds ==
    /\ Running /\ stopper = "dropping" /\ taken = {}
    /\ stop' = TRUE
    /\ stopper' = "done"
    /\ inbox' = Append(inbox, "stopped")
    /\ UNCHANGED <<clock, process, load, sweep, passed, taken, signals, main>>

-----------------------------------------------------------------------------

Loads == LoadResident \/ Request \/ \E c \in Children : FinishLoad(c) \/ FailLoad(c)
Reads == Read \/ ReadEnds
Reaper == BeginSweep \/ TakeExpired \/ KillExpired \/ SweepGoesOn \/ EndSweep \/ ReaperEnds
Stopper == TakeSlot \/ DropTaken \/ StopEnds

Next == Loads \/ Reads \/ Reaper \/ Tick \/ Signal \/ Hear \/ Stopper
        \/ \E c \in Children : Dies(c)

Spec == Init /\ [][Next]_vars

-----------------------------------------------------------------------------
(* What a child may count on, and what is made of it.                      *)

(* "At most one and a half windows plus one sweep" after it was used last  *)
(* (README.md:209, reaper.rs:17-22): a model that is idle for that long is *)
(* out of its slot, whatever the sweeps before took, and unless the reaper *)
(* was told to end.                                                        *)
IdleAtMost(bound) ==
    Window >= 2 * MinInterval /\ ~stop =>
        \A c \in Children : InSlot(c) /\ OnDemand(c) /\ c \notin read =>
            now - used[c] < bound

OneAndAHalfWindows == IdleAtMost(Window + Window \div 2 + MaxSweep)

(* It is, where no sweep takes longer than the half of a window.  One that *)
(* does puts off the next, which then begins at once: what that one finds  *)
(* stale has waited for two sweeps (reaper.rs:40-56).                      *)
IdleIsUnloaded ==
    IdleAtMost(Window + MaxSweep
                 + IF MaxSweep < Window \div 2 THEN Window \div 2 ELSE MaxSweep)

(* No sweep takes what was used less than a window ago, or is being read   *)
(* from, also when its list was made before that (sweep.rs:60-71).         *)
SweepTakesOnlyIdle ==
    [][\A c \in Children : killing' = c /\ killing # c =>
        now - used[c] >= Window /\ c \notin read /\ OnDemand(c)]_vars

(* The fall of the free memory is what the child holds, and no other load  *)
(* moves it (start.rs:71-86), as long as none of the others goes meanwhile.*)
FallIsTheChilds ==
    \A c \in Children : InSlot(c) /\ c \notin others => fell[c] = 1

(* A stop that was waited for leaves nothing of what it took out of the    *)
(* slots but what an answer is being read from, and that is no longer its  *)
(* to end (table.rs:85-101, serving.rs:165-175).                           *)
StopEndsWhatItTook ==
    main = "ended" =>
        /\ taken = {}
        /\ \A c \in alive : place[c] = "out" => c \in read

(* On a signal the router ends every child, but for one that is mid-answer *)
(* (README.md:549-571).                                                    *)
StopEndsEveryChild ==
    main = "ended" =>
        \A c \in alive : place[c] = "killed" \/ c \in read

-----------------------------------------------------------------------------
(* Fairness: the threads of a stop run, and so does the main thread.       *)

LiveSpec == Spec /\ WF_vars(Hear) /\ WF_vars(Stopper)

(* A signal ends the process once the children die of a kill, and a second *)
(* one does whether they die or not (serving.rs:169-175, 209-213).         *)
SignalEnds ==
    /\ (signals = 2) ~> ~Running
    /\ (\A c \in Children : WF_vars(Dies(c))) => ((signals > 0) ~> ~Running)
=============================================================================
