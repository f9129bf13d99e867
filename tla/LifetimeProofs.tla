--------------------------- MODULE LifetimeProofs ---------------------------
(***************************************************************************)
(* What holds of the life of a child for any models, any window, any       *)
(* number of children and signals, and any time a sweep may take.          *)
(***************************************************************************)
EXTENDS Lifetime, FiniteSetTheorems, SequenceTheorems, TLAPS

-----------------------------------------------------------------------------
(* Counting what is free. *)

(* The children are finitely many.                                         *)
LEMMA FreeCounts ==
    ASSUME NEW S \in SUBSET Children
    PROVE  /\ IsFiniteSet(S)
           /\ Cardinality(S) \in 0..MaxChildren
<1>1. IsFiniteSet(Children) /\ Cardinality(Children) = MaxChildren
  BY BoundsAssumption, FS_Interval DEF Children
<1>2. IsFiniteSet(S) /\ Cardinality(S) <= Cardinality(Children)
  BY <1>1, FS_Subset
<1>3. Cardinality(S) \in Nat
  BY <1>2, FS_CardinalityType
<1> QED
  BY <1>1, <1>2, <1>3, BoundsAssumption

(* What a load measures is a number of children.                           *)
LEMMA OnTheDeviceType ==
    ASSUME NEW was \in (0 - MaxChildren)..0, NEW is \in (0 - MaxChildren)..0
    PROVE  OnTheDevice(was, is) \in 0..MaxChildren
  BY BoundsAssumption DEF OnTheDevice

(* What a sweep waits for is a time,                                       *)
LEMMA IntervalType == Interval \in Nat
<1>1. Window \div 2 \in Nat
  BY WindowAssumption
<1> QED
  BY <1>1, WindowAssumption DEF Interval

(* and the half of a window that is long enough.                           *)
LEMMA IntervalIsHalf ==
    ASSUME Window >= 2 * MinInterval
    PROVE  Window > 0 /\ Window \div 2 \in Nat /\ Interval = Window \div 2
<1>1. Window \div 2 \in Nat /\ Window \div 2 >= MinInterval
  BY WindowAssumption
<1> QED
  BY <1>1, WindowAssumption DEF Interval

-----------------------------------------------------------------------------
(* Who holds each child. *)

(* A child is loaded by one thread, and no two are at once; it is a        *)
(* process from its start, and the startup thread has not done with the    *)
(* resident it loads.                                                      *)
LoadsAreSingle ==
    /\ \A c, d \in loading : c = d
    /\ \A c \in Children : place[c] = "starting" <=> c \in loading
    /\ \A c \in Children : place[c] = "none" => c \notin alive
    /\ \A c \in loading : /\ c \in alive
                          /\ by[c] = "startup" => residents # <<>>

(* While a child loads and no other goes, what is free is one child less   *)
(* than it was as the load began; and so it was found.                     *)
FallIsOne ==
    /\ \A c \in loading \ others : before[c] = Free + 1
    /\ FallIsTheChilds

(* What has left its slot for a stop is held by it, or by an answer; what  *)
(* it took it has let go when it is done.                                  *)
StopHoldsWhatItTook ==
    /\ main = "serving" => stopper = "none"
    /\ main = "ended" => stopper = "done"
    /\ \A i \in DOMAIN inbox : inbox[i] = "stopped" => stopper = "done"
    /\ stopper = "done" => taken = {}
    /\ \A c \in Children : place[c] = "out" => c \in taken \cup read

(* A sweep's list is of children on demand, and a sweep began before now.  *)
SweepListsOnDemand ==
    /\ \A c \in expired : OnDemand(c) /\ place[c] # "none"
    /\ reaper = "sweeping" => began <= now

-----------------------------------------------------------------------------
(* How long an idle model has been idle. *)

Idle(c) == InSlot(c) /\ OnDemand(c) /\ c \notin read

Half   == Window \div 2
Longer == IF MaxSweep < Half THEN Half ELSE MaxSweep

(* Between two sweeps, all that was stale as the last one began has gone,  *)
(* and the next is due half a window after that beginning at the latest.   *)
(* During one, what was stale as it began is on its list.                  *)
SweptInTime ==
    ~stop /\ Window >= 2 * MinInterval =>
        /\ reaper \in {"waiting", "sweeping"}
        /\ reaper = "waiting" =>
            \E b \in 0..now :
                /\ due <= b + Half
                /\ now <= b + Longer
                /\ \A c \in Children : Idle(c) => b < used[c] + Window
        /\ reaper = "sweeping" =>
            /\ now <= began + MaxSweep
            /\ due <= began + Half
            /\ \A c \in Children : Idle(c) =>
                /\ began < used[c] + Window + Longer
                /\ c \notin expired => began < used[c] + Window

-----------------------------------------------------------------------------
(* Type correctness. *)

(* The router starts with well-formed state.                               *)
LEMMA InitTypes == Init => TypeOK /\ LoadsAreSingle
<1> SUFFICES ASSUME Init
             PROVE  TypeOK /\ LoadsAreSingle
  OBVIOUS
<1>1. LoadsAreSingle
  BY DEF Init, LoadsAreSingle
<1>2. residents \in Seq(Models) /\ inbox \in Seq({"signalled", "stopped"})
  BY ResidentsAssumption DEF Init
<1>3. before \in [Children -> (0 - MaxChildren)..0] /\ fell \in [Children -> 0..MaxChildren]
  BY BoundsAssumption DEF Init
<1>4. 0 \in 0..MaxNow /\ 0 \in 0..MaxSignals
  BY BoundsAssumption
<1>5. used \in [Children -> 0..MaxNow] /\ due \in Nat
  BY <1>4, IntervalType DEF Init
<1>6. TypeOK
  BY <1>2, <1>3, <1>4, <1>5 DEF Init, TypeOK
<1> QED
  BY <1>1, <1>6

(* What is free is as little as no child, or all of them, make it.         *)
LEMMA FreeType == TypeOK => Free \in (0 - MaxChildren)..0
<1> SUFFICES ASSUME TypeOK
             PROVE  Free \in (0 - MaxChildren)..0
  OBVIOUS
<1>1. Cardinality(alive) \in 0..MaxChildren
  BY FreeCounts DEF TypeOK
<1> QED
  BY <1>1, BoundsAssumption DEF Free

(* A load begins.                                                          *)
LEMMA StartLoadType ==
    ASSUME TypeOK, LoadsAreSingle, NEW m \in Models, NEW who \in {"request", "startup"},
           StartLoad(m, who), who = "startup" => residents # <<>>
    PROVE  TypeOK' /\ LoadsAreSingle'
<1>1. PICK c \in Children :
        /\ place[c] = "none"
        /\ loading' = loading \cup {c}
        /\ by' = [by EXCEPT ![c] = who]
        /\ before' = [before EXCEPT ![c] = Free]
        /\ model' = [model EXCEPT ![c] = m]
        /\ place' = [place EXCEPT ![c] = "starting"]
        /\ alive' = alive \cup {c}
  BY DEF StartLoad
<1>2. TypeOK'
  BY <1>1, FreeType DEF StartLoad, TypeOK, clock, sweep, shutdown
<1>3. loading = {} /\ residents' = residents
  BY DEF StartLoad, MayLoad
<1>4. LoadsAreSingle'
  BY <1>1, <1>3 DEF TypeOK, LoadsAreSingle
<1> QED
  BY <1>2, <1>4

(* A load ends.                                                            *)
LEMMA EndLoadType ==
    ASSUME TypeOK, LoadsAreSingle, NEW c \in Children, FinishLoad(c) \/ FailLoad(c)
    PROVE  TypeOK' /\ LoadsAreSingle'
<1>1. residents' \in Seq(Models)
  <2>1. residents \in Seq(Models) /\ (by[c] = "startup" => residents # <<>>)
    BY DEF TypeOK, LoadsAreSingle, FinishLoad, FailLoad
  <2>2. Done(by[c])
    BY DEF FinishLoad, FailLoad
  <2> QED
    BY <2>1, <2>2 DEF Done
<1>2. OnTheDevice(before[c], Free) \in 0..MaxChildren
  BY FreeType, OnTheDeviceType DEF TypeOK
<1>3. 0 \in (0 - MaxChildren)..0
  BY BoundsAssumption
<1>4. TypeOK'
  <2>1. CASE FinishLoad(c)
    BY <1>1, <1>2, <1>3, <2>1
    DEF FinishLoad, Forget, TypeOK, clock, sweep, shutdown
  <2>2. CASE FailLoad(c)
    BY <1>1, <1>3, <2>2
    DEF FailLoad, Forget, TypeOK, clock, sweep, shutdown
  <2> QED
    BY <2>1, <2>2
<1>5. LoadsAreSingle'
  <2>1. c \in loading /\ loading' = loading \ {c}
    BY DEF FinishLoad, FailLoad
  <2>2. loading = {c} /\ loading' = {}
    BY <2>1 DEF LoadsAreSingle
  <2> QED
    BY <2>2 DEF FinishLoad, FailLoad, TypeOK, LoadsAreSingle
<1> QED
  BY <1>4, <1>5

(* Every other step keeps the types,                                       *)
LEMMA TypeStep ==
    ASSUME TypeOK, LoadsAreSingle, [Next]_vars
    PROVE  TypeOK'
<1>0. /\ inbox \in Seq({"signalled", "stopped"})
      /\ signals \in 0..MaxSignals
      /\ due \in Nat
  BY DEF TypeOK
<1>1. CASE Loads
  <2>1. CASE LoadResident
    <3>1. residents \in Seq(Models) /\ residents # <<>>
      BY <2>1 DEF LoadResident, TypeOK
    <3>2. Head(residents) \in Models /\ Tail(residents) \in Seq(Models)
      BY <3>1
    <3>3. CASE StartLoad(Head(residents), "startup")
      BY <3>1, <3>2, <3>3, StartLoadType
    <3>4. CASE ~StartLoad(Head(residents), "startup")
      BY <2>1, <3>2, <3>4
      DEF LoadResident, Done, TypeOK, clock, process, sweep, shutdown
    <3> QED
      BY <3>3, <3>4
  <2>2. CASE Request
    BY <2>2, StartLoadType DEF Request
  <2> QED
    BY <1>1, <2>1, <2>2, EndLoadType DEF Loads
<1>2. CASE Reads
  <2>1. CASE Read
    BY <2>1 DEF Read, TypeOK, clock, load, sweep, shutdown
  <2>2. CASE ReadEnds
    BY <2>2 DEF ReadEnds, TypeOK, clock, load, sweep, shutdown
  <2> QED
    BY <1>2, <2>1, <2>2 DEF Reads
<1>3. CASE Reaper
  <2>1. CASE BeginSweep
    <3>1. due' = due + Interval
      BY <2>1 DEF BeginSweep
    <3>2. due' \in Nat
      BY <1>0, <3>1, IntervalType
    <3> QED
      BY <2>1, <3>2 DEF BeginSweep, TypeOK, clock, process, load, shutdown
  <2>2. CASE TakeExpired
    BY <2>2 DEF TakeExpired, StillIdle, InSlot, TypeOK, clock, load, shutdown
  <2>3. CASE KillExpired \/ SweepGoesOn
    BY <2>3 DEF KillExpired, SweepGoesOn, TypeOK, clock, process, load, sweep, shutdown
  <2>4. CASE EndSweep
    <3>1. 0 \in 0..MaxNow
      BY BoundsAssumption
    <3> QED
      BY <2>4, <3>1 DEF EndSweep, TypeOK, clock, process, load, shutdown
  <2>5. CASE ReaperEnds
    BY <2>5 DEF ReaperEnds, TypeOK, clock, process, load, shutdown
  <2> QED
    BY <1>3, <2>1, <2>2, <2>3, <2>4, <2>5 DEF Reaper
<1>4. CASE Tick
  BY <1>4, BoundsAssumption DEF Tick, TypeOK, process, load, sweep, shutdown
<1>5. CASE Signal \/ Hear
  <2>1. CASE Signal
    <3>1. inbox' = Append(inbox, "signalled") /\ signals < MaxSignals /\ signals' = signals + 1
      BY <2>1 DEF Signal
    <3>2. inbox' \in Seq({"signalled", "stopped"})
      BY <1>0, <3>1
    <3>3. signals' \in 0..MaxSignals
      BY <1>0, <3>1, BoundsAssumption
    <3> QED
      BY <2>1, <3>2, <3>3 DEF Signal, TypeOK, clock, process, load, sweep
  <2>2. CASE Hear
    <3>1. inbox # <<>> /\ inbox' = Tail(inbox)
      BY <2>2 DEF Hear, Hearing
    <3>2. inbox' \in Seq({"signalled", "stopped"})
      BY <1>0, <3>1
    <3> QED
      BY <2>2, <3>2 DEF Hear, TypeOK, clock, process, load, sweep
  <2> QED
    BY <1>5, <2>1, <2>2
<1>6. CASE Stopper
  <2>1. CASE TakeSlot
    BY <2>1 DEF TakeSlot, InSlot, TypeOK, clock, load, sweep
  <2>2. CASE DropTaken
    BY <2>2 DEF DropTaken, TypeOK, clock, load, sweep
  <2>3. CASE StopEnds
    <3>1. inbox' = Append(inbox, "stopped")
      BY <2>3 DEF StopEnds
    <3>2. inbox' \in Seq({"signalled", "stopped"})
      BY <1>0, <3>1
    <3> QED
      BY <2>3, <3>2 DEF StopEnds, TypeOK, clock, process, load, sweep
  <2> QED
    BY <1>6, <2>1, <2>2, <2>3 DEF Stopper
<1>7. CASE \E c \in Children : Dies(c)
  BY <1>7 DEF Dies, TypeOK, clock, sweep, shutdown
<1>8. CASE UNCHANGED vars
  BY <1>8 DEF vars, clock, process, load, sweep, shutdown, TypeOK
<1> QED
  BY <1>1, <1>2, <1>3, <1>4, <1>5, <1>6, <1>7, <1>8 DEF Next

(* and none disturbs a load.                                               *)
LEMMA SingleStep ==
    ASSUME TypeOK, LoadsAreSingle, [Next]_vars
    PROVE  LoadsAreSingle'
<1>1. CASE Loads
  <2>1. CASE LoadResident
    <3>1. residents \in Seq(Models) /\ residents # <<>>
      BY <2>1 DEF LoadResident, TypeOK
    <3>2. Head(residents) \in Models
      BY <3>1
    <3>3. CASE StartLoad(Head(residents), "startup")
      BY <3>1, <3>2, <3>3, StartLoadType
    <3>4. CASE ~StartLoad(Head(residents), "startup")
      BY <2>1, <3>4 DEF LoadResident, Done, LoadsAreSingle, process
    <3> QED
      BY <3>3, <3>4
  <2>2. CASE Request
    BY <2>2, StartLoadType DEF Request
  <2> QED
    BY <1>1, <2>1, <2>2, EndLoadType DEF Loads
<1>2. CASE Reads \/ TakeExpired \/ KillExpired \/ TakeSlot \/ DropTaken
  <2>1. UNCHANGED <<loading, alive, by, residents>>
    BY <1>2 DEF Reads, Read, ReadEnds, TakeExpired, KillExpired, TakeSlot, DropTaken, load
  <2>2. \A c \in Children :
            place'[c] = place[c] \/ (place[c] \notin {"none", "starting"}
                                     /\ place'[c] \notin {"none", "starting"})
    BY <1>2 DEF Reads, Read, ReadEnds, TakeExpired, StillIdle, KillExpired, TakeSlot,
       DropTaken, InSlot, TypeOK
  <2> QED
    BY <2>1, <2>2 DEF LoadsAreSingle
<1>3. CASE \E c \in Children : Dies(c)
  BY <1>3 DEF Dies, LoadsAreSingle
<1>4. CASE UNCHANGED <<place, alive, loading, by, residents>>
  BY <1>4 DEF LoadsAreSingle
<1>5. CASE BeginSweep \/ SweepGoesOn \/ EndSweep \/ ReaperEnds \/ Tick \/ Signal
           \/ Hear \/ StopEnds \/ UNCHANGED vars
  BY <1>4, <1>5 DEF BeginSweep, SweepGoesOn, EndSweep, ReaperEnds, Tick, Signal, Hear,
     StopEnds, vars, process, load
<1> QED
  BY <1>1, <1>2, <1>3, <1>5 DEF Next, Reaper, Stopper

LoadInv == TypeOK /\ LoadsAreSingle

(* The first layer.                                                        *)
LEMMA LoadInvInvariant == Spec => []LoadInv
<1>1. LoadInv /\ [Next]_vars => LoadInv'
  BY TypeStep, SingleStep DEF LoadInv
<1> QED
  BY <1>1, InitTypes, PTL DEF Spec, LoadInv

(* Every variable keeps its type: among the rest, what a load measures is  *)
(* a number of children and never less than none.                          *)
THEOREM LifetimeIsTyped == Spec => []TypeOK
  BY LoadInvInvariant, PTL DEF LoadInv

-----------------------------------------------------------------------------
(* Measuring by the fall. *)

(* A load reads the free memory, starts one child and reads it again.      *)
LEMMA FallStep ==
    ASSUME LoadInv, FallIsOne, [Next]_vars
    PROVE  FallIsOne'
<1>0. LoadsAreSingle /\ alive \in SUBSET Children /\ loading \in SUBSET Children
      /\ place \in [Children -> {"none", "starting", "slot", "swept", "out", "killed"}]
      /\ before \in [Children -> (0 - MaxChildren)..0]
      /\ fell \in [Children -> 0..MaxChildren]
  BY DEF LoadInv, TypeOK
<1>1. \A c \in Children : InSlot(c) /\ c \notin others => fell[c] = 1
  BY DEF FallIsOne, FallIsTheChilds
<1>2. ASSUME NEW m, NEW who, StartLoad(m, who)
      PROVE  FallIsOne'
  <2>1. PICK c \in Children :
          /\ place[c] = "none"
          /\ loading' = loading \cup {c}
          /\ before' = [before EXCEPT ![c] = Free]
          /\ place' = [place EXCEPT ![c] = "starting"]
          /\ alive' = alive \cup {c}
    BY <1>2 DEF StartLoad
  <2>2. loading' = {c} /\ UNCHANGED <<others, fell>>
    BY <1>2, <2>1 DEF StartLoad, MayLoad
  <2>3. Cardinality(alive) \in Int /\ Cardinality(alive') = Cardinality(alive) + 1
    <3>1. c \notin alive
      BY <1>0, <2>1 DEF LoadsAreSingle
    <3>2. IsFiniteSet(alive) /\ Cardinality(alive) \in 0..MaxChildren
      BY <1>0, FreeCounts
    <3>3. Cardinality(alive \cup {c}) = Cardinality(alive) + 1
      BY <3>1, <3>2, FS_AddElement
    <3> QED
      BY <2>1, <3>2, <3>3
  <2>4. before'[c] = Free' + 1
    BY <1>0, <2>1, <2>3 DEF Free
  <2>5. FallIsTheChilds'
    BY <1>0, <1>1, <2>1, <2>2 DEF FallIsTheChilds, InSlot
  <2> QED
    BY <2>2, <2>4, <2>5 DEF FallIsOne
<1>3. ASSUME NEW c \in Children, FinishLoad(c)
      PROVE  FallIsOne'
  <2>1. c \in loading /\ loading' = {} /\ UNCHANGED others
    BY <1>0, <1>3 DEF FinishLoad, LoadsAreSingle
  <2>2. /\ place' = [place EXCEPT ![c] = "slot"]
        /\ fell' = [fell EXCEPT ![c] = OnTheDevice(before[c], Free)]
    BY <1>3 DEF FinishLoad
  <2>3. c \notin others => OnTheDevice(before[c], Free) = 1
    <3>1. Free \in Int
      BY <1>0, FreeCounts DEF Free
    <3> QED
      BY <2>1, <3>1 DEF FallIsOne, OnTheDevice
  <2>4. FallIsTheChilds'
    BY <1>0, <1>1, <2>1, <2>2, <2>3 DEF FallIsTheChilds, InSlot
  <2> QED
    BY <2>1, <2>4 DEF FallIsOne
<1>4. ASSUME NEW c \in Children, FailLoad(c)
      PROVE  FallIsOne'
  <2>1. loading' = {} /\ UNCHANGED <<others, fell>> /\ place' = [place EXCEPT ![c] = "killed"]
    BY <1>0, <1>4 DEF FailLoad, LoadsAreSingle
  <2> QED
    BY <1>0, <1>1, <2>1 DEF FallIsOne, FallIsTheChilds, InSlot
<1>5. ASSUME NEW c \in Children, Dies(c)
      PROVE  FallIsOne'
  BY <1>1, <1>5 DEF Dies, FallIsOne, FallIsTheChilds, InSlot
<1>6. ASSUME UNCHANGED <<loading, before, others, fell, alive>>,
             \A c \in Children : InSlot(c)' => InSlot(c)
      PROVE  FallIsOne'
  BY <1>6 DEF FallIsOne, FallIsTheChilds, Free
<1>7. CASE LoadResident \/ Request
  <2>1. CASE UNCHANGED <<process, loading, by, before, others, fell>>
    BY <1>6, <2>1 DEF process, InSlot
  <2> QED
    BY <1>2, <1>7, <2>1 DEF LoadResident, Request
<1>8. CASE Reads \/ TakeExpired \/ KillExpired \/ TakeSlot \/ DropTaken
  <2>1. UNCHANGED <<loading, before, others, fell, alive>>
    BY <1>8 DEF Reads, Read, ReadEnds, TakeExpired, KillExpired, TakeSlot, DropTaken, load
  <2>2. \A c \in Children : InSlot(c)' => InSlot(c)
    BY <1>0, <1>8 DEF Reads, Read, ReadEnds, TakeExpired, KillExpired, TakeSlot, DropTaken,
       InSlot
  <2> QED
    BY <1>6, <2>1, <2>2
<1>9. CASE BeginSweep \/ SweepGoesOn \/ EndSweep \/ ReaperEnds \/ Tick \/ Signal
           \/ Hear \/ StopEnds \/ UNCHANGED vars
  BY <1>6, <1>9 DEF BeginSweep, SweepGoesOn, EndSweep, ReaperEnds, Tick, Signal, Hear,
     StopEnds, vars, process, load, InSlot
<1> QED
  BY <1>3, <1>4, <1>5, <1>7, <1>8, <1>9 DEF Next, Loads, Reaper, Stopper

(* What a load takes for the child's share of the device is that, whatever *)
(* is loaded, read, swept and stopped meanwhile, unless another child has  *)
(* gone while it loaded.                                                   *)
THEOREM FallsAreTheChilds == Spec => []FallIsTheChilds
<1>1. Init => FallIsOne
  BY DEF Init, FallIsOne, FallIsTheChilds, InSlot
<1>2. LoadInv /\ FallIsOne /\ [Next]_vars => FallIsOne'
  BY FallStep
<1>3. FallIsOne => FallIsTheChilds
  BY DEF FallIsOne
<1> QED
  BY <1>1, <1>2, <1>3, LoadInvInvariant, PTL DEF Spec

-----------------------------------------------------------------------------
(* A stop. *)

(* A queue is what is heard next and what is left to hear.                 *)
LEMMA HeadAndRest ==
    ASSUME NEW S, NEW s \in Seq(S), s # <<>>
    PROVE  /\ 1 \in DOMAIN s /\ Head(s) = s[1]
           /\ \A i \in DOMAIN Tail(s) : i + 1 \in DOMAIN s /\ Tail(s)[i] = s[i + 1]
<1>1. Len(s) \in Nat /\ DOMAIN s = 1..Len(s) /\ Len(s) # 0
  BY EmptySeq
<1>2. /\ Tail(s) \in Seq(S)
      /\ Len(Tail(s)) = Len(s) - 1
      /\ \A i \in 1..Len(Tail(s)) : Tail(s)[i] = s[i + 1]
  BY HeadTailProperties
<1>3. DOMAIN Tail(s) = 1..(Len(s) - 1)
  BY <1>2
<1>4. Head(s) = s[1]
  BY DEF Head
<1> QED
  BY <1>1, <1>2, <1>3, <1>4

(* What leaves a slot for a stop is in its hands or an answer's, and it    *)
(* is done when it has nothing left.                                       *)
LEMMA StopStep ==
    ASSUME LoadInv, StopHoldsWhatItTook, [Next]_vars
    PROVE  StopHoldsWhatItTook'
<1> DEFINE Held == \A c \in Children : place[c] = "out" => c \in taken \cup read
           Told == /\ main = "serving" => stopper = "none"
                   /\ main = "ended" => stopper = "done"
                   /\ \A i \in DOMAIN inbox : inbox[i] = "stopped" => stopper = "done"
                   /\ stopper = "done" => taken = {}
<1>0. /\ place \in [Children -> {"none", "starting", "slot", "swept", "out", "killed"}]
      /\ inbox \in Seq({"signalled", "stopped"})
      /\ loading \in SUBSET Children
      /\ \A c \in Children : place[c] = "starting" <=> c \in loading
  BY DEF LoadInv, TypeOK, LoadsAreSingle
<1>a. StopHoldsWhatItTook <=> Told /\ Held
  BY DEF StopHoldsWhatItTook
<1>b. StopHoldsWhatItTook' <=> Told' /\ Held'
  BY DEF StopHoldsWhatItTook
<1> HIDE DEF Told, Held
<1>1. ASSUME UNCHANGED <<main, stopper, inbox, taken>>
      PROVE  Told'
  BY <1>a, <1>1 DEF Told
<1>2. ASSUME UNCHANGED <<place, taken, read>>
      PROVE  Held'
  BY <1>a, <1>2 DEF Held
<1>3. CASE Loads
  <2>1. UNCHANGED <<main, stopper, inbox, taken>>
    BY <1>3 DEF Loads, LoadResident, Request, StartLoad, FinishLoad, FailLoad, shutdown
  <2>2. read \subseteq read'
    BY <1>3 DEF Loads, LoadResident, Request, StartLoad, FinishLoad, FailLoad, process
  <2>3. \A c \in Children : place'[c] = "out" => place[c] = "out"
    BY <1>0, <1>3 DEF Loads, LoadResident, Request, StartLoad, FinishLoad, FailLoad, process
  <2>4. Held'
    BY <1>a, <2>1, <2>2, <2>3 DEF Held
  <2> QED
    BY <1>1, <1>b, <2>1, <2>4
<1>4. CASE Reads
  <2>1. Told'
    BY <1>1, <1>4 DEF Reads, Read, ReadEnds, shutdown
  <2>2. CASE Read
    BY <1>a, <1>b, <2>1, <2>2 DEF Read, Held, shutdown
  <2>3. CASE ReadEnds
    BY <1>0, <1>a, <1>b, <2>1, <2>3 DEF ReadEnds, Held, shutdown
  <2> QED
    BY <1>4, <2>2, <2>3 DEF Reads
<1>5. CASE TakeExpired \/ KillExpired
  <2>1. Told'
    BY <1>1, <1>5 DEF TakeExpired, KillExpired, shutdown
  <2>2. Held'
    BY <1>0, <1>5, <1>a DEF TakeExpired, KillExpired, Held, shutdown
  <2> QED
    BY <1>b, <2>1, <2>2
<1>6. CASE BeginSweep \/ SweepGoesOn \/ EndSweep \/ ReaperEnds \/ Tick \/ UNCHANGED vars
           \/ \E c \in Children : Dies(c)
  <2>1. UNCHANGED <<main, stopper, inbox, taken>> /\ UNCHANGED <<place, taken, read>>
    BY <1>6 DEF BeginSweep, SweepGoesOn, EndSweep, ReaperEnds, Tick, vars, Dies,
       process, shutdown
  <2> QED
    BY <1>1, <1>2, <1>b, <2>1
<1>7. CASE Signal
  <2>1. /\ inbox' = Append(inbox, "signalled")
        /\ UNCHANGED <<main, stopper, place, taken, read>>
    BY <1>7 DEF Signal, process
  <2>2. \A i \in DOMAIN inbox' : inbox'[i] = "stopped" =>
            i \in DOMAIN inbox /\ inbox[i] = "stopped"
    BY <1>0, <2>1
  <2>3. Told'
    BY <1>a, <2>1, <2>2 DEF Told
  <2> QED
    BY <1>2, <1>b, <2>1, <2>3
<1>8. CASE Hear
  <2>1. /\ inbox # <<>> /\ inbox' = Tail(inbox)
        /\ UNCHANGED <<place, taken, read>>
        /\ \/ main = "serving" /\ main' = "stopping" /\ stopper' = "taking"
           \/ main = "stopping" /\ main' = "signalled again" /\ UNCHANGED stopper
           \/ Head(inbox) = "stopped" /\ main' = "ended" /\ UNCHANGED stopper
    BY <1>8 DEF Hear, Hearing, process
  <2>2. \A i \in DOMAIN inbox' : i + 1 \in DOMAIN inbox /\ inbox'[i] = inbox[i + 1]
    BY <1>0, <2>1, HeadAndRest
  <2>3. 1 \in DOMAIN inbox /\ Head(inbox) = inbox[1]
    BY <1>0, <2>1, HeadAndRest
  <2>4. Told'
    BY <1>a, <2>1, <2>2, <2>3 DEF Told
  <2> QED
    BY <1>2, <1>b, <2>1, <2>4
<1>9. CASE TakeSlot
  <2>1. PICK held \in SUBSET Children :
           /\ taken' = taken \cup held
           /\ place' = [c \in Children |-> IF c \in held THEN "out" ELSE place[c]]
    BY <1>9 DEF TakeSlot
  <2>2. stopper = "taking" /\ stopper' \in {"dropping", "taking"}
        /\ UNCHANGED <<main, inbox, read>>
    BY <1>9 DEF TakeSlot
  <2>3. Told'
    BY <1>a, <2>2 DEF Told
  <2>4. Held'
    BY <1>a, <2>1, <2>2 DEF Held
  <2> QED
    BY <1>b, <2>3, <2>4
<1>10. CASE DropTaken
  <2>1. stopper = "dropping" /\ UNCHANGED <<main, stopper, inbox, read>>
    BY <1>10 DEF DropTaken
  <2>2. Told'
    BY <1>a, <2>1 DEF Told
  <2>3. Held'
    BY <1>0, <1>10, <1>a DEF DropTaken, Held
  <2> QED
    BY <1>b, <2>2, <2>3
<1>11. CASE StopEnds
  <2>1. /\ stopper = "dropping" /\ stopper' = "done" /\ taken = {}
        /\ inbox' = Append(inbox, "stopped")
        /\ UNCHANGED <<main, taken, place, read>>
    BY <1>11 DEF StopEnds, process
  <2>2. Told'
    BY <1>a, <2>1 DEF Told
  <2> QED
    BY <1>2, <1>b, <2>1, <2>2
<1> QED
  BY <1>3, <1>4, <1>5, <1>6, <1>7, <1>8, <1>9, <1>10, <1>11 DEF Next, Reaper, Stopper

(* A stop that was waited for holds no child, and of those it took only    *)
(* what an answer is being read from has not been killed.                  *)
THEOREM StopsEndWhatTheyTook == Spec => []StopEndsWhatItTook
<1>1. Init => StopHoldsWhatItTook
  BY DEF Init, StopHoldsWhatItTook
<1>2. LoadInv /\ StopHoldsWhatItTook /\ [Next]_vars => StopHoldsWhatItTook'
  BY StopStep
<1>3. LoadInv /\ StopHoldsWhatItTook => StopEndsWhatItTook
  BY DEF LoadInv, TypeOK, StopHoldsWhatItTook, StopEndsWhatItTook
<1> QED
  BY <1>1, <1>2, <1>3, LoadInvInvariant, PTL DEF Spec

-----------------------------------------------------------------------------
(* The reaper. *)

(* Times are natural numbers.                                              *)
LEMMA TimesType ==
    ASSUME TypeOK
    PROVE  now \in Nat /\ began \in Nat /\ due \in Nat /\ \A c \in Children : used[c] \in Nat
<1>1. now \in 0..MaxNow /\ began \in 0..MaxNow /\ due \in Nat /\ used \in [Children -> 0..MaxNow]
  BY DEF TypeOK
<1>2. 0..MaxNow \subseteq Nat
  BY BoundsAssumption
<1> QED
  BY <1>1, <1>2

(* A child serves one entry for as long as it has a place.                 *)
LEMMA ModelsStay ==
    ASSUME LoadInv, [Next]_vars, NEW c \in Children, place[c] # "none"
    PROVE  model'[c] = model[c] /\ place'[c] # "none"
<1>0. /\ place \in [Children -> {"none", "starting", "slot", "swept", "out", "killed"}]
      /\ model \in [Children -> Models \cup {None}]
  BY DEF LoadInv, TypeOK
<1>1. CASE Loads
  BY <1>0, <1>1 DEF Loads, LoadResident, Request, StartLoad, FinishLoad, FailLoad, process
<1>2. CASE Reads \/ TakeExpired \/ KillExpired \/ TakeSlot \/ DropTaken
  BY <1>0, <1>2 DEF Reads, Read, ReadEnds, TakeExpired, KillExpired, TakeSlot, DropTaken
<1>3. CASE BeginSweep \/ SweepGoesOn \/ EndSweep \/ ReaperEnds \/ Tick \/ Signal
           \/ Hear \/ StopEnds \/ UNCHANGED vars \/ \E d \in Children : Dies(d)
  BY <1>3 DEF BeginSweep, SweepGoesOn, EndSweep, ReaperEnds, Tick, Signal, Hear,
     StopEnds, vars, Dies, process
<1> QED
  BY <1>1, <1>2, <1>3 DEF Next, Reaper, Stopper

(* What changes the reaper's list, and what does not.                      *)
LEMMA SweepMoves ==
    ASSUME [Next]_vars
    PROVE  \/ BeginSweep \/ TakeExpired \/ EndSweep \/ Tick
           \/ SweepGoesOn \/ ReaperEnds
           \/ UNCHANGED <<now, reaper, began, due, expired, killing>>
  BY DEF Next, Loads, LoadResident, Request, StartLoad, FinishLoad, FailLoad, Reads,
     Read, ReadEnds, Reaper, KillExpired, Signal, Hear, Stopper, TakeSlot, DropTaken,
     StopEnds, Dies, vars, clock, sweep

(* A list is made of what is on demand, after its sweep began.             *)
LEMMA ListStep ==
    ASSUME LoadInv, SweepListsOnDemand, [Next]_vars
    PROVE  SweepListsOnDemand'
<1>0. expired \in SUBSET Children /\ now \in Nat /\ began \in Nat
  BY TimesType DEF LoadInv, TypeOK
<1>1. ASSUME NEW c \in Children, OnDemand(c), place[c] # "none"
      PROVE  OnDemand(c)' /\ place'[c] # "none"
  BY <1>1, ModelsStay DEF OnDemand
<1>2. CASE BeginSweep
  <2>1. \A c \in expired' : c \in Children /\ OnDemand(c) /\ place[c] # "none"
    BY <1>2 DEF BeginSweep, InSlot
  <2>2. began' = now /\ now' = now
    BY <1>2 DEF BeginSweep, clock
  <2> QED
    BY <1>0, <1>1, <2>1, <2>2 DEF SweepListsOnDemand
<1>3. CASE ~BeginSweep
  <2>1. expired' \subseteq expired
    BY <1>3, SweepMoves DEF TakeExpired, EndSweep, Tick, SweepGoesOn, ReaperEnds, sweep
  <2>2. reaper' = "sweeping" => reaper = "sweeping" /\ began' = began
    BY <1>3, SweepMoves DEF TakeExpired, EndSweep, Tick, SweepGoesOn, ReaperEnds, sweep
  <2>3. now' = now \/ now' = now + 1
    BY <1>3, SweepMoves DEF TakeExpired, EndSweep, Tick, SweepGoesOn, ReaperEnds, clock
  <2> QED
    BY <1>0, <1>1, <2>1, <2>2, <2>3 DEF SweepListsOnDemand
<1> QED
  BY <1>2, <1>3

(* Whatever a sweep kills is on demand, has not been used for a window and *)
(* is not being read from, at the moment it is taken and not only as the   *)
(* sweep's list was made.                                                  *)
THEOREM SweepsTakeOnlyIdle == Spec => SweepTakesOnlyIdle
<1>1. Init => SweepListsOnDemand
  BY DEF Init, SweepListsOnDemand
<1>2. LoadInv /\ SweepListsOnDemand /\ [Next]_vars => SweepListsOnDemand'
  BY ListStep
<1>3. ASSUME LoadInv, SweepListsOnDemand, [Next]_vars,
             NEW c \in Children, killing' = c, killing # c
      PROVE  now - used[c] >= Window /\ c \notin read /\ OnDemand(c)
  <2>1. TakeExpired
    <3>1. c # None
      BY DEF Children, None
    <3> QED
      BY <1>3, <3>1, SweepMoves
      DEF BeginSweep, EndSweep, Tick, SweepGoesOn, ReaperEnds, sweep
  <2>2. c \in expired /\ StillIdle(c) /\ reaper = "sweeping"
    BY <1>3, <2>1 DEF TakeExpired
  <2>3. began <= now /\ OnDemand(c)
    BY <1>3, <2>2 DEF SweepListsOnDemand
  <2>4. now \in Nat /\ began \in Nat /\ used[c] \in Nat
    BY <1>3, TimesType DEF LoadInv
  <2> QED
    BY <2>2, <2>3, <2>4, WindowAssumption DEF StillIdle, Stale
<1>4. LoadInv /\ SweepListsOnDemand /\ [Next]_vars
        => [\A c \in Children : killing' = c /\ killing # c =>
              now - used[c] >= Window /\ c \notin read /\ OnDemand(c)]_vars
  BY <1>3
<1> QED
  BY <1>1, <1>2, <1>4, LoadInvInvariant, PTL DEF Spec, SweepTakesOnlyIdle

-----------------------------------------------------------------------------
(* How long a model is kept. *)

(* Who is idle was idle before, and has not been used since, or has just   *)
(* been put in its slot or let go by its last reader.                      *)
LEMMA IdleStep ==
    ASSUME LoadInv, [Next]_vars, NEW c \in Children, Idle(c)'
    PROVE  (Idle(c) /\ used'[c] = used[c]) \/ (used'[c] = now /\ now' = now)
<1>0. /\ place \in [Children -> {"none", "starting", "slot", "swept", "out", "killed"}]
      /\ used \in [Children -> 0..MaxNow]
      /\ loading \in SUBSET Children
  BY DEF LoadInv, TypeOK
<1>a. InSlot(c) => (OnDemand(c)' <=> OnDemand(c))
  BY ModelsStay DEF InSlot, OnDemand
<1>1. CASE \E d \in Children : FinishLoad(d) \/ FailLoad(d)
  BY <1>0, <1>1, <1>a DEF FinishLoad, FailLoad, Idle, InSlot, clock
<1>2. CASE LoadResident \/ Request
  BY <1>0, <1>2, <1>a DEF LoadResident, Request, StartLoad, Idle, InSlot, process
<1>3. CASE Reads
  BY <1>0, <1>3, <1>a DEF Reads, Read, ReadEnds, Idle, InSlot, clock
<1>4. CASE TakeExpired \/ KillExpired \/ TakeSlot \/ DropTaken
  BY <1>0, <1>4, <1>a DEF TakeExpired, KillExpired, TakeSlot, DropTaken, Idle, InSlot
<1>5. CASE BeginSweep \/ SweepGoesOn \/ EndSweep \/ ReaperEnds \/ Tick \/ Signal
           \/ Hear \/ StopEnds \/ UNCHANGED vars \/ \E d \in Children : Dies(d)
  BY <1>5, <1>a DEF BeginSweep, SweepGoesOn, EndSweep, ReaperEnds, Tick, Signal, Hear,
     StopEnds, vars, Dies, process, Idle, InSlot
<1> QED
  BY <1>1, <1>2, <1>3, <1>4, <1>5 DEF Next, Loads, Reaper, Stopper

(* A sweep finds all that is stale as it begins, and takes it unless it    *)
(* was used since; the next begins when it is due, or this one has ended.  *)
LEMMA SweptStep ==
    ASSUME LoadInv, SweepListsOnDemand, SweptInTime, [Next]_vars
    PROVE  SweptInTime'
<1> SUFFICES ASSUME ~stop', Window >= 2 * MinInterval
             PROVE  SweptInTime'
  BY DEF SweptInTime
<1> DEFINE W == Window
<1>0. /\ now \in Nat /\ began \in Nat /\ due \in Nat
      /\ \A c \in Children : used[c] \in Nat
      /\ expired \in SUBSET Children
  BY TimesType DEF LoadInv, TypeOK
<1>1. /\ W \in Nat /\ W > 0 /\ Half \in Nat /\ Interval = Half
      /\ MaxSweep \in Nat /\ Longer \in Nat /\ Longer >= Half /\ Longer >= MaxSweep
  BY IntervalIsHalf, WindowAssumption, BoundsAssumption DEF Half, Longer
<1>2. ~stop
  BY DEF Next, Loads, LoadResident, Request, StartLoad, FinishLoad, FailLoad, Reads,
     Read, ReadEnds, Reaper, BeginSweep, TakeExpired, KillExpired, SweepGoesOn, EndSweep,
     ReaperEnds, Tick, Signal, Hear, Stopper, TakeSlot, DropTaken, StopEnds, Dies, vars, shutdown
<1>3. reaper \in {"waiting", "sweeping"}
  BY <1>2 DEF SweptInTime
<1>4. ASSUME reaper = "waiting"
      PROVE  \E b \in 0..now :
                /\ due <= b + Half
                /\ now <= b + Longer
                /\ \A c \in Children : Idle(c) => b < used[c] + W
  BY <1>2, <1>4 DEF SweptInTime
<1>5. ASSUME reaper = "sweeping"
      PROVE  /\ began <= now
             /\ now <= began + MaxSweep
             /\ due <= began + Half
             /\ \A c \in Children : Idle(c) =>
                /\ began < used[c] + W + Longer
                /\ c \notin expired => began < used[c] + W
  BY <1>2, <1>5 DEF SweptInTime, SweepListsOnDemand
<1> HIDE DEF W
<1>6. CASE UNCHANGED <<now, reaper, began, due, expired, killing>>
  <2>1. CASE reaper = "waiting"
    <3>1. PICK b \in 0..now :
            /\ due <= b + Half
            /\ now <= b + Longer
            /\ \A c \in Children : Idle(c) => b < used[c] + W
      BY <1>4, <2>1
    <3>2. \A c \in Children : Idle(c)' => b < used'[c] + W
      BY <1>0, <1>1, <3>1, IdleStep
    <3> QED
      BY <1>6, <2>1, <3>1, <3>2 DEF SweptInTime, W
  <2>2. CASE reaper = "sweeping"
    <3>1. \A c \in Children : Idle(c)' =>
                /\ began < used'[c] + W + Longer
                /\ c \notin expired => began < used'[c] + W
      BY <1>0, <1>1, <1>5, <2>2, IdleStep
    <3> QED
      BY <1>5, <1>6, <2>2, <3>1 DEF SweptInTime, W
  <2> QED
    BY <1>3, <2>1, <2>2
<1>7. CASE Tick
  <2>1. /\ now' = now + 1
        /\ UNCHANGED <<reaper, began, due, expired>>
        /\ reaper = "waiting" => now < due
        /\ reaper = "sweeping" => now < began + MaxSweep
    BY <1>2, <1>7 DEF Tick, sweep
  <2>2. \A c \in Children : Idle(c)' => Idle(c) /\ used'[c] = used[c]
    BY <1>0, <2>1, IdleStep
  <2>3. CASE reaper = "waiting"
    <3>1. PICK b \in 0..now :
            /\ due <= b + Half
            /\ now <= b + Longer
            /\ \A c \in Children : Idle(c) => b < used[c] + W
      BY <1>4, <2>3
    <3>2. b \in 0..now' /\ now' <= b + Longer
      BY <1>0, <1>1, <2>1, <2>3, <3>1
    <3> QED
      BY <2>1, <2>2, <2>3, <3>1, <3>2 DEF SweptInTime, W
  <2>4. CASE reaper = "sweeping"
    <3>1. now' <= began + MaxSweep
      BY <1>0, <1>1, <2>1, <2>4
    <3> QED
      BY <1>5, <2>1, <2>2, <2>4, <3>1 DEF SweptInTime, W
  <2> QED
    BY <1>3, <2>3, <2>4
<1>8. CASE BeginSweep
  <2>1. /\ reaper = "waiting" /\ reaper' = "sweeping"
        /\ now >= due /\ due' = due + Half /\ began' = now
        /\ UNCHANGED <<now, place, model, read, used>>
        /\ expired' = {c \in Children : Idle(c) /\ Stale(c, now)}
    BY <1>1, <1>8 DEF BeginSweep, clock, process, Idle
  <2>2. PICK b \in 0..now :
            /\ due <= b + Half
            /\ now <= b + Longer
            /\ \A c \in Children : Idle(c) => b < used[c] + W
    BY <1>4, <2>1
  <2>3. \A c \in Children : Idle(c)' <=> Idle(c)
    BY <2>1 DEF Idle, InSlot, OnDemand
  <2>4. ASSUME NEW c \in Children, Idle(c)
        PROVE  /\ now < used[c] + W + Longer
               /\ c \notin expired' => now < used[c] + W
    BY <1>0, <1>1, <2>1, <2>2, <2>4 DEF Stale, W
  <2>5. now <= now + MaxSweep /\ due' <= now + Half
    BY <1>0, <1>1, <2>1
  <2> QED
    BY <2>1, <2>3, <2>4, <2>5 DEF SweptInTime, W
<1>9. CASE TakeExpired
  <2>1. PICK c \in expired :
          /\ expired' = expired \ {c}
          /\ IF StillIdle(c)
             THEN place' = [place EXCEPT ![c] = "swept"]
             ELSE UNCHANGED place
    BY <1>9 DEF TakeExpired
  <2>2. /\ reaper = "sweeping" /\ UNCHANGED <<now, model, read, used, reaper, due, began>>
    BY <1>9 DEF TakeExpired, clock
  <2>3. ASSUME NEW d \in Children, Idle(d)', d \notin expired'
        PROVE  Idle(d) /\ began < used[d] + W
    <3>1. Idle(d)
      <4>1. place'[d] = "slot" => place[d] = "slot"
        BY <2>1 DEF LoadInv, TypeOK
      <4> QED
        BY <2>2, <2>3, <4>1 DEF Idle, InSlot, OnDemand
    <3>2. CASE d # c
      BY <1>5, <2>1, <2>2, <2>3, <3>1, <3>2
    <3>3. CASE d = c
      <4>1. ~StillIdle(c)
        BY <2>1, <2>3, <3>3 DEF Idle, InSlot, LoadInv, TypeOK
      <4>2. ~Stale(c, began)
        BY <3>1, <3>3, <4>1 DEF StillIdle, Idle
      <4> QED
        BY <1>0, <1>1, <3>1, <3>3, <4>2 DEF Stale, W
    <3> QED
      BY <3>2, <3>3
  <2>4. ASSUME NEW d \in Children, Idle(d)'
        PROVE  began < used[d] + W + Longer
    <3>1. CASE d \in expired'
      <4>1. place'[d] = "slot" => place[d] = "slot"
        BY <2>1 DEF LoadInv, TypeOK
      <4>2. Idle(d)
        BY <2>2, <2>4, <4>1 DEF Idle, InSlot, OnDemand
      <4> QED
        BY <1>5, <2>2, <4>2
    <3>2. CASE d \notin expired'
      BY <1>0, <1>1, <2>3, <2>4, <3>2
    <3> QED
      BY <3>1, <3>2
  <2> QED
    BY <1>5, <2>2, <2>3, <2>4 DEF SweptInTime, W
<1>10. CASE EndSweep
  <2>1. /\ reaper = "sweeping" /\ reaper' = "waiting" /\ expired = {}
        /\ UNCHANGED <<now, place, model, read, used, due>>
    BY <1>10 DEF EndSweep, clock, process
  <2>2. \A c \in Children : Idle(c)' <=> Idle(c)
    BY <2>1 DEF Idle, InSlot, OnDemand
  <2>3. began \in 0..now' /\ now' <= began + Longer
    BY <1>0, <1>1, <1>5, <2>1
  <2>4. /\ due' <= began + Half
        /\ \A c \in Children : Idle(c)' => began < used'[c] + W
    BY <1>5, <2>1, <2>2
  <2> QED
    BY <2>1, <2>3, <2>4 DEF SweptInTime, W
<1>11. CASE SweepGoesOn \/ ReaperEnds
  <2>1. CASE ReaperEnds
    BY <1>2, <2>1 DEF ReaperEnds
  <2>2. CASE SweepGoesOn
    <3>1. UNCHANGED <<now, reaper, due, began, expired, place, model, read, used, stop>>
      BY <2>2 DEF SweepGoesOn, clock, process, shutdown
    <3> QED
      BY <3>1 DEF SweptInTime, Idle, InSlot, OnDemand
  <2> QED
    BY <1>11, <2>1, <2>2
<1> QED
  BY <1>6, <1>7, <1>8, <1>9, <1>10, <1>11, SweepMoves

(* What was swept in time has not been idle for long.                      *)
LEMMA SweptIsUnloaded ==
    ASSUME LoadInv, SweepListsOnDemand, SweptInTime
    PROVE  IdleIsUnloaded
<1> SUFFICES ASSUME Window >= 2 * MinInterval, ~stop, NEW c \in Children, Idle(c)
             PROVE  now - used[c] < Window + MaxSweep + Longer
  BY DEF IdleIsUnloaded, IdleAtMost, Idle, Longer, Half
<1>1. now \in Nat /\ began \in Nat /\ used[c] \in Nat
  BY TimesType DEF LoadInv
<1>2. Window \in Nat /\ MaxSweep \in Nat /\ Longer \in Nat
  BY IntervalIsHalf, WindowAssumption, BoundsAssumption DEF Half, Longer
<1>3. CASE reaper = "waiting"
  <2>1. PICK b \in 0..now : now <= b + Longer /\ b < used[c] + Window
    BY <1>3 DEF SweptInTime
  <2> QED
    BY <1>1, <1>2, <2>1
<1>4. CASE reaper = "sweeping"
  <2>1. now <= began + MaxSweep /\ began < used[c] + Window + Longer
    BY <1>4 DEF SweptInTime
  <2> QED
    BY <1>1, <1>2, <2>1
<1> QED
  BY <1>3, <1>4 DEF SweptInTime

(* An idle model is out of its slot within a window, the half of one or a  *)
(* sweep, whichever is longer, and the sweep that takes it: for as long as *)
(* the router runs, whatever the sweeps before took and however late they  *)
(* began.                                                                  *)
THEOREM IdleModelsAreUnloaded == Spec => []IdleIsUnloaded
<1>1. Init => SweepListsOnDemand
  BY DEF Init, SweepListsOnDemand
<1>2. Init => SweptInTime
  <2> SUFFICES ASSUME Init, Window >= 2 * MinInterval
               PROVE  SweptInTime
    BY DEF SweptInTime
  <2>1. Half \in Nat /\ Interval = Half /\ Window > 0 /\ Longer \in Nat
    BY IntervalIsHalf, BoundsAssumption DEF Half, Longer
  <2>2. reaper = "waiting" /\ now = 0 /\ due = Half
    BY <2>1 DEF Init
  <2>3. \A c \in Children : ~Idle(c)
    BY DEF Init, Idle, InSlot
  <2>4. 0 \in 0..now /\ due <= 0 + Half /\ now <= 0 + Longer
    BY <2>1, <2>2
  <2> QED
    BY <2>2, <2>3, <2>4 DEF SweptInTime
<1>3. LoadInv /\ SweepListsOnDemand /\ SweptInTime /\ [Next]_vars
        => SweepListsOnDemand' /\ SweptInTime'
  BY ListStep, SweptStep
<1>4. LoadInv /\ SweepListsOnDemand /\ SweptInTime => IdleIsUnloaded
  BY SweptIsUnloaded
<1> QED
  BY <1>1, <1>2, <1>3, <1>4, LoadInvInvariant, PTL DEF Spec

=============================================================================
