---------------------------- MODULE LaunchProofs ----------------------------
(***************************************************************************)
(* What holds of a start for any child, any number of streams and any      *)
(* pipes: that it is the start StartPromise promises, and that a failure   *)
(* quotes the last of what the child said.                                 *)
(***************************************************************************)
EXTENDS Launch, FiniteSetTheorems, SequenceTheorems, TLAPS

(* No process lives where none may: before the first spawn, between two    *)
(* attempts, and once a failure is being reported.  A start is over when   *)
(* its caller has an outcome, and not before.                              *)
StartInv ==
    /\ at \in {"idle", "spawning", "exited", "overdue"} => ~Alive
    /\ outcome = "none" <=> at # "done"

LaunchInv == TypeOK /\ StartInv

-----------------------------------------------------------------------------
(* The types. *)

(* What is kept of the output is never more than Kept lines. *)
LEMMA PassOnType ==
    ASSUME NEW line \in 1..MaxLines,
           lines \in Seq(1..MaxLines), Len(lines) <= Kept
    PROVE  PassOn(line) \in Seq(1..MaxLines) /\ Len(PassOn(line)) <= Kept
<1> DEFINE all == Append(lines, line)
<1>1. all \in Seq(1..MaxLines) /\ Len(all) = Len(lines) + 1 /\ Len(lines) \in Nat
  OBVIOUS
<1>2. CASE Len(all) > Kept
  <2>1. all # <<>>
    BY <1>1
  <2>2. Tail(all) \in Seq(1..MaxLines) /\ Len(Tail(all)) = Len(all) - 1
    BY <1>1, <2>1
  <2> QED
    BY <1>1, <1>2, <2>2, KeptAssumption DEF PassOn
<1>3. CASE ~(Len(all) > Kept)
  BY <1>1, <1>3, KeptAssumption DEF PassOn
<1> QED
  BY <1>2, <1>3

(* The types in parts, for the steps that leave some of them alone.        *)
StarterType ==
    /\ at \in {"idle", "spawning", "checking", "probing", "judging",
               "exited", "overdue", "done"}
    /\ tries \in 0..2
    /\ outcome \in {"none", "ready", "no child", "unavailable", "not ready"}
    /\ proc \in {"none", "starting", "loading", "serving", "gone"}
    /\ port \in {"free", "child", "other"}
    /\ thief \in Statuses

FlagsType == connected \in BOOLEAN /\ late \in BOOLEAN /\ settled \in BOOLEAN

PipeType ==
    /\ wrote \in 0..MaxLines
    /\ pipe \in [Streams -> Seq(1..MaxLines)]
    /\ \A s \in Streams : Len(pipe[s]) <= PipeRoom
    /\ open \in SUBSET Streams

LinesType ==
    /\ lines \in Seq(1..MaxLines) /\ Len(lines) <= Kept
    /\ quoted \in Seq(1..MaxLines)

LEMMA TypeParts == TypeOK <=> StarterType /\ FlagsType /\ PipeType /\ LinesType
BY DEF TypeOK, StarterType, FlagsType, PipeType, LinesType

LEMMA TypePartsNext == TypeOK' <=> StarterType' /\ FlagsType' /\ PipeType' /\ LinesType'
BY DEF TypeOK, StarterType, FlagsType, PipeType, LinesType

(* Nothing is written or kept yet: at the first, and of each new child.    *)
LEMMA NothingWritten ==
    /\ [s \in Streams |-> <<>>] \in [Streams -> Seq(1..MaxLines)]
    /\ \A s \in Streams : Len([t \in Streams |-> <<>>][s]) <= PipeRoom
    /\ <<>> \in Seq(1..MaxLines) /\ Len(<<>>) <= Kept
    /\ 0 \in 0..MaxLines
<1>1. <<>> \in Seq(1..MaxLines) /\ Len(<<>>) = 0
  OBVIOUS
<1>2. Len(<<>>) <= Kept /\ Len(<<>>) <= PipeRoom /\ 0 \in 0..MaxLines
  BY <1>1, PipeRoomAssumption, KeptAssumption, MaxLinesAssumption
<1> QED
  BY <1>1, <1>2

LEMMA TypesAtFirst == Init => TypeOK
<1> SUFFICES ASSUME Init PROVE TypeOK
  OBVIOUS
<1>1. StarterType
  BY DEF Init, StarterType
<1>4. FlagsType
  BY Zenon DEF Init, FlagsType
<1>2. PipeType
  BY NothingWritten DEF Init, PipeType
<1>3. LinesType
  BY NothingWritten DEF Init, LinesType
<1> QED
  BY <1>1, <1>2, <1>3, <1>4, TypeParts

(* The thread that starts the child. *)
LEMMA StartingTypes ==
    ASSUME TypeOK, Starting
    PROVE  TypeOK'
<1>0. StarterType /\ FlagsType /\ PipeType /\ LinesType
  BY TypeParts
<1>1. StarterType'
  <2> USE <1>0 DEF StarterType
  <2>1. CASE Start
    <3>3. tries' = 1
      BY <2>1 DEF Start
    <3>1. tries' \in 0..2
      BY ONLY <3>3
    <3>2. /\ at' = "spawning"
          /\ UNCHANGED <<outcome, proc, port, thief>>
      BY <2>1 DEF Start
    <3> QED
      BY <3>1, <3>2
  <2>7. CASE CannotSpawn
    BY <2>7 DEF CannotSpawn, Finish
  <2>2. CASE Spawn
    BY <2>2 DEF Spawn
  <2>3. CASE Check
    BY <2>3 DEF Check
  <2>4. CASE Probe
    BY <2>4 DEF Probe, Finish, NoAnswer
  <2>5. CASE Judge
    BY <2>5 DEF Judge
  <2>6. CASE Exited
    <3>3. tries' = tries \/ tries' = 2
      BY <2>6 DEF Exited
    <3>4. tries \in 0..2
      OBVIOUS
    <3>1. tries' \in 0..2
      BY ONLY <3>3, <3>4
    <3>2. /\ at' = "spawning" \/ at' = "done"
          /\ outcome' = outcome \/ outcome' = "unavailable"
          /\ UNCHANGED <<proc, port, thief>>
      BY <2>6 DEF Exited, Finish
    <3> QED
      BY <3>1, <3>2
  <2>8. CASE Overdue
    BY <2>8 DEF Overdue, Finish
  <2> QED
    BY <2>1, <2>2, <2>3, <2>4, <2>5, <2>6, <2>7, <2>8 DEF Starting
<1>2. PipeType' /\ LinesType'
  <2>1. CASE Spawn
    <3>1. PipeType'
      BY <2>1, NothingWritten DEF Spawn, PipeType
    <3>2. LinesType'
      BY <2>1, <1>0, NothingWritten DEF Spawn, LinesType
    <3> QED
      BY <3>1, <3>2
  <2>2. CASE Start \/ CannotSpawn \/ Check \/ Probe \/ Judge
    BY <2>2, <1>0 DEF Start, CannotSpawn, Check, Probe, Judge, output,
                      PipeType, LinesType
  <2>3. CASE Exited \/ Overdue
    <3>1. UNCHANGED output /\ quoted' \in {quoted, lines}
      BY <2>3 DEF Exited, Overdue
    <3> QED
      BY <3>1, <1>0 DEF output, PipeType, LinesType
  <2> QED
    BY <2>1, <2>2, <2>3 DEF Starting
<1>3. FlagsType'
  <2> USE <1>0 DEF FlagsType
  <2>1. CASE Start \/ CannotSpawn \/ Check \/ Judge
    BY <2>1, Zenon DEF Start, CannotSpawn, Check, Judge, starter
  <2>2. CASE Spawn
    BY <2>2, Zenon DEF Spawn
  <2>3. CASE Probe
    <3>1. /\ UNCHANGED <<late, settled>>
          /\ \E status \in Answers :
                connected' = (connected \/ status \notin {NoAnswer, 200})
      BY <2>3, Zenon DEF Probe
    <3> QED
      BY <3>1, Zenon
  <2>4. CASE Exited \/ Overdue
    BY <2>4, Zenon DEF Exited, Overdue
  <2> QED
    BY <2>1, <2>2, <2>3, <2>4 DEF Starting
<1> QED
  BY <1>1, <1>2, <1>3, TypePartsNext

(* What it writes, and what is drained. *)
LEMMA PipeTypes ==
    ASSUME TypeOK, NEW s \in Streams, Writes(s) \/ Drain(s) \/ DrainEnds(s)
    PROVE  TypeOK'
<1>0. StarterType /\ FlagsType /\ PipeType /\ LinesType
  BY TypeParts
<1>4. StarterType'
  BY <1>0 DEF Writes, Drain, DrainEnds, StarterType, starter
<1>5. FlagsType'
  BY <1>0, Zenon DEF Writes, Drain, DrainEnds, FlagsType, starter
<1>1. CASE Writes(s)
  <2>1. wrote + 1 \in 1..MaxLines /\ pipe[s] \in Seq(1..MaxLines)
    BY <1>0, <1>1, MaxLinesAssumption DEF Writes, PipeType
  <2>2. /\ Append(pipe[s], wrote + 1) \in Seq(1..MaxLines)
        /\ Len(Append(pipe[s], wrote + 1)) = Len(pipe[s]) + 1
        /\ Len(pipe[s]) \in Nat
    BY <2>1
  <2>3. /\ pipe' \in [Streams -> Seq(1..MaxLines)]
        /\ \A t \in Streams : Len(pipe'[t]) <= PipeRoom
    BY <1>0, <1>1, <2>2, PipeRoomAssumption DEF Writes, PipeType
  <2>4. wrote' \in 0..MaxLines
    BY <1>1, <2>1, MaxLinesAssumption DEF Writes
  <2> QED
    BY <1>0, <1>1, <1>4, <1>5, <2>3, <2>4, TypePartsNext DEF Writes, PipeType, LinesType, starter
<1>2. CASE Drain(s)
  <2>1. pipe[s] \in Seq(1..MaxLines) /\ pipe[s] # <<>> /\ Len(pipe[s]) <= PipeRoom
    BY <1>0, <1>2 DEF Drain, Draining, PipeType
  <2>2. /\ Head(pipe[s]) \in 1..MaxLines /\ Tail(pipe[s]) \in Seq(1..MaxLines)
        /\ Len(Tail(pipe[s])) = Len(pipe[s]) - 1 /\ Len(pipe[s]) \in Nat
    <3> DEFINE L == 1..MaxLines
    <3>1. pipe[s] \in Seq(L) /\ pipe[s] # <<>>
      BY <2>1
    <3> HIDE DEF L
    <3>2. /\ Head(pipe[s]) \in L /\ Tail(pipe[s]) \in Seq(L)
          /\ Len(Tail(pipe[s])) = Len(pipe[s]) - 1 /\ Len(pipe[s]) \in Nat
      BY <3>1, HeadTailProperties
    <3> QED
      BY <3>2 DEF L
  <2>3. /\ pipe' \in [Streams -> Seq(1..MaxLines)]
        /\ \A t \in Streams : Len(pipe'[t]) <= PipeRoom
    BY <1>0, <1>2, <2>1, <2>2, PipeRoomAssumption DEF Drain, PipeType
  <2>4. lines' \in Seq(1..MaxLines) /\ Len(lines') <= Kept
    BY <1>0, <1>2, <2>2, PassOnType DEF Drain, LinesType
  <2> QED
    BY <1>0, <1>2, <1>4, <1>5, <2>3, <2>4, TypePartsNext DEF Drain, PipeType, LinesType, starter
<1>3. CASE DrainEnds(s)
  BY <1>0, <1>3, <1>4, <1>5, TypePartsNext DEF DrainEnds, PipeType, LinesType, starter
<1> QED
  BY <1>1, <1>2, <1>3

LEMMA RestTypes ==
    ASSUME TypeOK, Steal \/ Bind \/ Loads \/ Dies \/ Time
    PROVE  TypeOK'
<1>0. StarterType /\ FlagsType /\ PipeType /\ LinesType
  BY TypeParts
<1>1. StarterType'
  BY <1>0 DEF Steal, Bind, Loads, Dies, Time, BudgetPasses, SettlePasses,
              StarterType, starter
<1>2. UNCHANGED <<output, quoted>>
  BY DEF Steal, Bind, Loads, Dies, Time, BudgetPasses, SettlePasses, starter
<1>3. FlagsType'
  BY <1>0, Zenon DEF Steal, Bind, Loads, Dies, Time, BudgetPasses, SettlePasses,
                     FlagsType, starter
<1> QED
  BY <1>0, <1>1, <1>2, <1>3, TypePartsNext DEF PipeType, LinesType, output

-----------------------------------------------------------------------------
(* Where the process may live. *)

LEMMA StartInvKept ==
    ASSUME TypeOK, StartInv, [Next]_vars
    PROVE  StartInv'
<1>0. StarterType
  BY TypeParts
<1> USE <1>0 DEF StartInv, Alive, StarterType
<1>1. CASE Start \/ CannotSpawn \/ Spawn \/ Check
  BY <1>1 DEF Start, CannotSpawn, Spawn, Check, Finish
<1>2. CASE Probe
  BY <1>2 DEF Probe, Finish
<1>3. CASE Judge
  BY <1>3 DEF Judge
<1>4. CASE Exited \/ Overdue
  BY <1>4 DEF Exited, Overdue, Finish
<1>5. CASE Steal \/ Bind \/ Loads \/ Dies
  BY <1>5 DEF Steal, Bind, Loads, Dies, starter
<1>6. CASE Time
  BY <1>6 DEF Time, BudgetPasses, SettlePasses, starter
<1>7. ASSUME NEW s \in Streams, Writes(s) \/ Drain(s) \/ DrainEnds(s)
      PROVE  StartInv'
  BY <1>7 DEF Writes, Drain, DrainEnds, starter
<1>8. CASE UNCHANGED vars
  BY <1>8 DEF vars, starter
<1> QED
  BY <1>1, <1>2, <1>3, <1>4, <1>5, <1>6, <1>7, <1>8
  DEF Next, Starting, World, Drains

LEMMA LaunchInvariance == Spec => []LaunchInv
<1>1. Init => LaunchInv
  BY TypesAtFirst DEF Init, LaunchInv, StartInv, Alive
<1>2. LaunchInv /\ [Next]_vars => LaunchInv'
  <2> SUFFICES ASSUME LaunchInv, [Next]_vars PROVE LaunchInv'
    OBVIOUS
  <2>1. TypeOK'
    <3>1. CASE UNCHANGED vars
      <4>1. StarterType /\ FlagsType /\ PipeType /\ LinesType
        BY TypeParts DEF LaunchInv
      <4> QED
        BY <3>1, <4>1, TypePartsNext
        DEF StarterType, FlagsType, PipeType, LinesType, vars, starter, output
    <3>2. CASE Next
      BY <3>2, StartingTypes, PipeTypes, RestTypes DEF LaunchInv, Next, World, Drains
    <3> QED
      BY <3>1, <3>2
  <2>2. StartInv'
    BY StartInvKept DEF LaunchInv
  <2> QED
    BY <2>1, <2>2 DEF LaunchInv
<1> QED
  BY <1>1, <1>2, PTL DEF Spec

(* The lines kept, the pipes and the attempts stay within their bounds:    *)
(* there is never a third attempt (server.rs:59-83, output.rs:84-115).     *)
THEOREM LaunchIsTyped == Spec => []TypeOK
<1>1. LaunchInv => TypeOK
  BY DEF LaunchInv
<1> QED
  BY <1>1, LaunchInvariance, PTL

-----------------------------------------------------------------------------
(* The refinement. *)

LEMMA AliveIsBoolean == Alive \in BOOLEAN /\ Alive' \in BOOLEAN
BY DEF Alive

(* A start is, at every step, what whoever asks is promised: one process   *)
(* at a time, handed over when it is ready, and none left behind by a      *)
(* start that failed, whichever way the race between its exit, its answer  *)
(* and its deadline goes (server.rs:59-83).                                *)
THEOREM StartIsThePromise == Spec => ImplementsStart
<1>1. Init => Promise!PInit
  BY DEF Init, Promise!PInit, Alive
<1>2. LaunchInv /\ [Next]_vars => [Promise!PNext]_(Promise!pvars)
  <2> SUFFICES ASSUME LaunchInv, [Next]_vars
               PROVE  Promise!PNext \/ UNCHANGED Promise!pvars
    OBVIOUS
  <2>0. /\ at \in {"idle", "spawning", "exited", "overdue"} => ~Alive
        /\ outcome = "none" <=> at # "done"
    BY DEF LaunchInv, StartInv
  <2> USE <2>0, AliveIsBoolean DEF Promise!pvars
  <2>1. CASE Start
    <3>1. at = "idle" /\ at' = "spawning" /\ outcome' = outcome /\ proc' = proc
      BY <2>1 DEF Start
    <3> QED
      BY <3>1 DEF Promise!PNext, Promise!Begin, Alive
  <2>2. CASE CannotSpawn
    <3>1. at = "spawning" /\ at' = "done" /\ outcome' = "no child" /\ proc' = proc
      BY <2>2 DEF CannotSpawn, Finish
    <3>2. Alive' = FALSE
      BY <3>1 DEF Alive
    <3> QED
      BY <3>1, <3>2 DEF Promise!PNext, Promise!Failed
  <2>3. CASE Spawn
    <3>1. at = "spawning" /\ at' = "checking" /\ outcome' = outcome
      BY <2>3 DEF Spawn
    <3>2. Alive' = TRUE
      BY <2>3 DEF Spawn, Alive
    <3> QED
      BY <3>1, <3>2 DEF Promise!PNext, Promise!Spawned
  <2>4. CASE Check
    <3>1. /\ at = "checking" /\ at' \in {"probing", "exited"}
          /\ outcome' = outcome /\ proc' = proc
      BY <2>4 DEF Check
    <3> QED
      BY <3>1 DEF Alive
  <2>5. CASE Probe
    <3>1. /\ at = "probing" /\ proc' = proc
          /\ \/ at' = "done" /\ outcome' = "ready"
             \/ at' = "judging" /\ outcome' = outcome
      BY <2>5 DEF Probe, Finish
    <3> QED
      BY <3>1 DEF Promise!PNext, Promise!Ready, Alive
  <2>6. CASE Judge
    <3>1. /\ at = "judging" /\ at' \in {"overdue", "checking"}
          /\ outcome' = outcome /\ proc' \in {proc, "gone"}
      BY <2>6 DEF Judge
    <3>2. Alive' = Alive \/ Alive' = FALSE
      BY <3>1 DEF Alive
    <3> QED
      BY <3>1, <3>2 DEF Promise!PNext, Promise!Died
  <2>7. CASE Exited
    <3>1. /\ at = "exited" /\ proc' = proc
          /\ \/ at' = "spawning" /\ outcome' = outcome
             \/ at' = "done" /\ outcome' = "unavailable"
      BY <2>7 DEF Exited, Finish
    <3>2. Alive' = Alive /\ Alive = FALSE
      BY <3>1 DEF Alive
    <3> QED
      BY <3>1, <3>2 DEF Promise!PNext, Promise!Failed
  <2>8. CASE Overdue
    <3>1. at = "overdue" /\ at' = "done" /\ outcome' = "not ready" /\ proc' = proc
      BY <2>8 DEF Overdue, Finish
    <3>2. Alive' = FALSE
      BY <3>1 DEF Alive
    <3> QED
      BY <3>1, <3>2 DEF Promise!PNext, Promise!Failed
  <2>9. CASE Steal \/ Bind \/ Loads \/ Dies
    <3>1. at' = at /\ outcome' = outcome
      BY <2>9 DEF Steal, Bind, Loads, Dies, starter
    <3>2. Alive' = Alive \/ (Alive = TRUE /\ Alive' = FALSE)
      BY <2>9 DEF Steal, Bind, Loads, Dies, Alive
    <3> QED
      BY <3>1, <3>2 DEF Promise!PNext, Promise!Died
  <2>10. CASE Time \/ Drains \/ (\E s \in Streams : Writes(s)) \/ UNCHANGED vars
    <3>1. at' = at /\ outcome' = outcome /\ proc' = proc
      BY <2>10 DEF Time, BudgetPasses, SettlePasses, Drains, Drain, DrainEnds,
                   Writes, vars, starter
    <3> QED
      BY <3>1 DEF Alive
  <2> QED
    BY <2>1, <2>2, <2>3, <2>4, <2>5, <2>6, <2>7, <2>8, <2>9, <2>10
    DEF Next, Starting, World
<1> QED
  BY <1>1, <1>2, LaunchInvariance, PTL DEF Spec, ImplementsStart, Promise!PSpec

-----------------------------------------------------------------------------
(* What is kept of what the child said. *)

(* The lines the drains have taken out of the pipes.                       *)
Drained ==
    {n \in 1..wrote :
        \A s \in Streams : \A i \in 1..Len(pipe[s]) : pipe[s][i] # n}

(* A line is in one place of one pipe, and was written.                    *)
LinesAreApart ==
    \A s, t \in Streams : \A i \in 1..Len(pipe[s]), j \in 1..Len(pipe[t]) :
        /\ pipe[s][i] \in 1..wrote
        /\ pipe[s][i] = pipe[t][j] => s = t /\ i = j

(* As many are kept as were drained, up to the most that are.              *)
LastAreKept ==
    Len(lines) = IF Cardinality(Drained) < Kept THEN Cardinality(Drained) ELSE Kept

(* A stream that has ended is empty, none ends while the child may write,  *)
(* and what a failure quotes was read when all had ended.                  *)
StreamsEndLast ==
    /\ \A s \in Streams \ open : pipe[s] = <<>>
    /\ Alive => open = Streams
    /\ outcome \in {"unavailable", "not ready"} /\ ~settled =>
        open = {} /\ quoted = lines

WordsInv == LinesAreApart /\ LastAreKept /\ StreamsEndLast

LEMMA WroteIsNatural == ASSUME TypeOK PROVE wrote \in Nat
<1>1. wrote \in 0..MaxLines
  BY DEF TypeOK
<1> QED
  BY ONLY <1>1, MaxLinesAssumption

LEMMA DrainedCounts == ASSUME TypeOK PROVE IsFiniteSet(Drained) /\ Cardinality(Drained) \in Nat
<1>1. IsFiniteSet(1..wrote)
  BY WroteIsNatural, FS_Interval
<1>2. Drained \in SUBSET (1..wrote)
  BY DEF Drained
<1> QED
  BY <1>1, <1>2, FS_Subset, FS_CardinalityType

(* A line more is kept, or the oldest one makes place for it.              *)
LEMMA PassOnLength ==
    ASSUME NEW line \in 1..MaxLines,
           lines \in Seq(1..MaxLines), Len(lines) <= Kept
    PROVE  Len(PassOn(line)) = IF Len(lines) < Kept THEN Len(lines) + 1 ELSE Kept
<1> DEFINE all == Append(lines, line)
<1>1. all \in Seq(1..MaxLines) /\ Len(all) = Len(lines) + 1 /\ Len(lines) \in Nat
  OBVIOUS
<1>2. CASE Len(all) > Kept
  <2>1. all # <<>>
    BY <1>1
  <2>2. Len(Tail(all)) = Len(all) - 1
    BY <1>1, <2>1
  <2> QED
    BY <1>1, <1>2, <2>2, KeptAssumption DEF PassOn
<1>3. CASE ~(Len(all) > Kept)
  BY <1>1, <1>3, KeptAssumption DEF PassOn
<1> QED
  BY <1>2, <1>3

LEMMA AllDrained ==
    ASSUME TypeOK, \A s \in Streams : pipe[s] = <<>>
    PROVE  Cardinality(Drained) = wrote
<1>1. \A s \in Streams : Len(pipe[s]) = 0
  OBVIOUS
<1>2. Drained = 1..wrote
  BY <1>1 DEF Drained
<1> QED
  BY <1>2, WroteIsNatural, FS_Interval

(* Where nothing is said or kept, what is drained and kept is as it was.   *)
LEMMA OutputRests ==
    ASSUME LinesAreApart, LastAreKept, UNCHANGED <<wrote, pipe, lines>>
    PROVE  LinesAreApart' /\ LastAreKept'
<1>1. LinesAreApart'
  BY DEF LinesAreApart
<1>2. Drained' = Drained
  BY DEF Drained
<1> QED
  BY <1>1, <1>2 DEF LastAreKept

(* A new child has said nothing. *)
LEMMA NothingDrained ==
    ASSUME wrote = 0, pipe = [s \in Streams |-> <<>>], lines = <<>>
    PROVE  LinesAreApart /\ LastAreKept
<1>1. \A s \in Streams : Len(pipe[s]) = 0
  OBVIOUS
<1>2. LinesAreApart
  BY <1>1 DEF LinesAreApart
<1>3. Drained = {}
  BY DEF Drained
<1>4. Cardinality(Drained) = 0
  BY <1>3, FS_EmptySet
<1> QED
  BY <1>2, <1>4, KeptAssumption DEF LastAreKept

(* The same of the child a step spawns. *)
LEMMA NothingDrainedNext ==
    ASSUME wrote' = 0, pipe' = [s \in Streams |-> <<>>], lines' = <<>>
    PROVE  LinesAreApart' /\ LastAreKept'
<1>1. \A s \in Streams : Len(pipe'[s]) = 0
  OBVIOUS
<1>2. LinesAreApart'
  BY <1>1 DEF LinesAreApart
<1>3. Drained' = {}
  BY DEF Drained
<1>4. Cardinality(Drained') = 0
  BY <1>3, FS_EmptySet
<1> QED
  BY <1>2, <1>4, KeptAssumption DEF LastAreKept

(* A new line is in no pipe but the one it is written to. *)
LEMMA WritingKeeps ==
    ASSUME TypeOK, LinesAreApart, LastAreKept, NEW s \in Streams, Writes(s)
    PROVE  LinesAreApart' /\ LastAreKept'
<1>0. /\ wrote \in Nat
      /\ pipe \in [Streams -> Seq(1..MaxLines)]
      /\ wrote' = wrote + 1 /\ lines' = lines
      /\ pipe' = [pipe EXCEPT ![s] = Append(pipe[s], wrote + 1)]
  <2>1. wrote \in Nat
    BY WroteIsNatural
  <2>2. pipe \in [Streams -> Seq(1..MaxLines)]
    BY DEF TypeOK
  <2>3. /\ wrote' = wrote + 1 /\ lines' = lines
        /\ pipe' = [pipe EXCEPT ![s] = Append(pipe[s], wrote + 1)]
    BY DEF Writes
  <2> QED
    BY <2>1, <2>2, <2>3
<1>1. pipe[s] \in Seq(1..MaxLines) /\ Len(pipe[s]) \in Nat
  BY <1>0
<1>2. /\ Len(pipe'[s]) = Len(pipe[s]) + 1
      /\ pipe'[s][Len(pipe[s]) + 1] = wrote + 1
      /\ \A i \in 1..Len(pipe[s]) : pipe'[s][i] = pipe[s][i]
  BY <1>0, <1>1
<1>3. \A t \in Streams : t # s => pipe'[t] = pipe[t]
  BY <1>0
<1>4. \A t \in Streams : Len(pipe[t]) \in Nat
  BY <1>0
<1>5. \A t \in Streams : \A i \in 1..Len(pipe'[t]) :
        \/ i \in 1..Len(pipe[t]) /\ pipe'[t][i] = pipe[t][i] /\ pipe[t][i] \in 1..wrote
        \/ t = s /\ i = Len(pipe[s]) + 1 /\ pipe'[t][i] = wrote + 1
  BY <1>1, <1>2, <1>3, <1>4 DEF LinesAreApart
<1>6. LinesAreApart'
  <2> SUFFICES ASSUME NEW t \in Streams, NEW u \in Streams,
                      NEW i \in 1..Len(pipe'[t]), NEW j \in 1..Len(pipe'[u])
               PROVE  /\ pipe'[t][i] \in 1..wrote'
                      /\ pipe'[t][i] = pipe'[u][j] => t = u /\ i = j
    BY DEF LinesAreApart
  <2>1. pipe'[t][i] \in 1..wrote'
    BY <1>0, <1>5
  <2>2. ASSUME pipe'[t][i] = pipe'[u][j] PROVE t = u /\ i = j
    BY <2>2, <1>0, <1>5 DEF LinesAreApart
  <2> QED
    BY <2>1, <2>2
<1>7. Drained' = Drained
  <2>1. ASSUME NEW n \in Drained PROVE n \in Drained'
    BY <2>1, <1>0, <1>5 DEF Drained
  <2>2. ASSUME NEW n \in Drained' PROVE n \in Drained
    <3>1. n # wrote + 1
      <4>1. Len(pipe[s]) + 1 \in 1..Len(pipe'[s])
        BY <1>1, <1>2
      <4> QED
        BY <4>1, <1>2, <2>2 DEF Drained
    <3>2. n \in 1..wrote
      BY <3>1, <2>2, <1>0 DEF Drained
    <3>3. ASSUME NEW t \in Streams, NEW i \in 1..Len(pipe[t]) PROVE pipe[t][i] # n
      <4>1. i \in 1..Len(pipe'[t]) /\ pipe'[t][i] = pipe[t][i]
        BY <1>1, <1>2, <1>3
      <4> QED
        BY <4>1, <2>2 DEF Drained
    <3> QED
      BY <3>2, <3>3 DEF Drained
  <2> QED
    BY <2>1, <2>2
<1> QED
  BY <1>0, <1>6, <1>7 DEF LastAreKept

(* The line at the head of a pipe goes where the drained ones are. *)
LEMMA DrainingKeeps ==
    ASSUME TypeOK, LinesAreApart, LastAreKept, NEW s \in Streams, Drain(s)
    PROVE  LinesAreApart' /\ LastAreKept'
<1> DEFINE h == Head(pipe[s])
<1>0. /\ wrote \in Nat /\ wrote' = wrote
      /\ pipe \in [Streams -> Seq(1..MaxLines)] /\ pipe[s] # <<>>
      /\ pipe' = [pipe EXCEPT ![s] = Tail(pipe[s])]
      /\ lines' = PassOn(h)
      /\ lines \in Seq(1..MaxLines) /\ Len(lines) <= Kept
  <2>1. wrote \in Nat
    BY WroteIsNatural
  <2>2. /\ pipe \in [Streams -> Seq(1..MaxLines)]
        /\ lines \in Seq(1..MaxLines) /\ Len(lines) <= Kept
    BY DEF TypeOK
  <2>3. /\ wrote' = wrote /\ pipe[s] # <<>> /\ lines' = PassOn(h)
        /\ pipe' = [pipe EXCEPT ![s] = Tail(pipe[s])]
    BY DEF Drain, Draining
  <2> QED
    BY <2>1, <2>2, <2>3
<1>1. /\ Len(pipe[s]) \in Nat \ {0} /\ h = pipe[s][1] /\ h \in 1..MaxLines
      /\ Len(pipe'[s]) = Len(pipe[s]) - 1
      /\ \A i \in 1..Len(pipe'[s]) : pipe'[s][i] = pipe[s][i + 1]
  <2> DEFINE L == 1..MaxLines
  <2>1. pipe[s] \in Seq(L) /\ pipe[s] # <<>> /\ pipe'[s] = Tail(pipe[s])
    BY <1>0
  <2> HIDE DEF L
  <2>2. /\ Len(pipe[s]) \in Nat \ {0} /\ Head(pipe[s]) = pipe[s][1]
    BY <2>1, EmptySeq
  <2>3. /\ Head(pipe[s]) \in L
        /\ Len(Tail(pipe[s])) = Len(pipe[s]) - 1
        /\ \A i \in 1..Len(Tail(pipe[s])) : Tail(pipe[s])[i] = pipe[s][i + 1]
    BY <2>1, HeadTailProperties
  <2> QED
    BY <2>1, <2>2, <2>3 DEF L
<1>2. \A t \in Streams : t # s => pipe'[t] = pipe[t]
  BY <1>0
<1> HIDE DEF h
<1>3. ASSUME NEW t \in Streams, NEW i \in 1..Len(pipe'[t])
      PROVE  \E k \in 1..Len(pipe[t]) :
                /\ pipe'[t][i] = pipe[t][k]
                /\ k = IF t = s THEN i + 1 ELSE i
  <2>1. CASE t = s
    <3>1. i + 1 \in 1..Len(pipe[s])
      BY <2>1, <1>1
    <3> QED
      BY <2>1, <3>1, <1>1
  <2>2. CASE t # s
    BY <2>2, <1>2
  <2> QED
    BY <2>1, <2>2
<1>4. 1 \in 1..Len(pipe[s]) /\ h \in 1..wrote
  BY <1>1 DEF LinesAreApart
<1>5. LinesAreApart'
  <2> SUFFICES ASSUME NEW t \in Streams, NEW u \in Streams,
                      NEW i \in 1..Len(pipe'[t]), NEW j \in 1..Len(pipe'[u])
               PROVE  /\ pipe'[t][i] \in 1..wrote'
                      /\ pipe'[t][i] = pipe'[u][j] => t = u /\ i = j
    BY DEF LinesAreApart
  <2>1. PICK k \in 1..Len(pipe[t]) :
            pipe'[t][i] = pipe[t][k] /\ k = IF t = s THEN i + 1 ELSE i
    BY <1>3
  <2>2. PICK l \in 1..Len(pipe[u]) :
            pipe'[u][j] = pipe[u][l] /\ l = IF u = s THEN j + 1 ELSE j
    BY <1>3
  <2>3. pipe[t][k] \in 1..wrote /\ (pipe[t][k] = pipe[u][l] => t = u /\ k = l)
    BY DEF LinesAreApart
  <2>4. i \in Int /\ j \in Int
    OBVIOUS
  <2> QED
    BY <2>1, <2>2, <2>3, <2>4, <1>0
<1>6. h \notin Drained
  BY <1>1, <1>4 DEF Drained
<1>7. Drained' = Drained \cup {h}
  <2>1. ASSUME NEW n \in Drained PROVE n \in Drained'
    BY <2>1, <1>0, <1>3 DEF Drained
  <2>2. h \in Drained'
    <3>1. ASSUME NEW t \in Streams, NEW i \in 1..Len(pipe'[t]) PROVE pipe'[t][i] # h
      <4>1. PICK k \in 1..Len(pipe[t]) :
                pipe'[t][i] = pipe[t][k] /\ k = IF t = s THEN i + 1 ELSE i
        BY <1>3
      <4>2. i \in Int /\ i >= 1
        OBVIOUS
      <4>3. t # s \/ k # 1
        BY <4>1, <4>2
      <4>4. pipe[t][k] = pipe[s][1] => t = s /\ k = 1
        BY <1>4 DEF LinesAreApart
      <4> QED
        BY <4>1, <4>3, <4>4, <1>1
    <3> QED
      BY <3>1, <1>0, <1>4 DEF Drained
  <2>3. ASSUME NEW n \in Drained', n # h PROVE n \in Drained
    <3>1. ASSUME NEW t \in Streams, NEW k \in 1..Len(pipe[t]), pipe[t][k] = n PROVE FALSE
      <4>1. CASE t # s
        <5>1. k \in 1..Len(pipe'[t]) /\ pipe'[t][k] = n
          BY <4>1, <3>1, <1>2
        <5> QED
          BY <5>1, <2>3 DEF Drained
      <4>2. CASE t = s
        <5>1. k # 1
          BY <4>2, <3>1, <2>3, <1>1
        <5>2. k - 1 \in 1..Len(pipe'[s]) /\ k - 1 + 1 = k
          BY <4>2, <5>1, <1>1
        <5>3. pipe'[s][k - 1] = n
          BY <5>2, <4>2, <3>1, <1>1
        <5> QED
          BY <5>2, <5>3, <2>3 DEF Drained
      <4> QED
        BY <4>1, <4>2
    <3>2. n \in 1..wrote
      BY <2>3, <1>0 DEF Drained
    <3> QED
      BY <3>1, <3>2 DEF Drained
  <2> QED
    BY <2>1, <2>2, <2>3
<1>8. Cardinality(Drained') = Cardinality(Drained) + 1 /\ Cardinality(Drained) \in Nat
  BY <1>6, <1>7, DrainedCounts, FS_AddElement
<1>9. Len(lines') = IF Len(lines) < Kept THEN Len(lines) + 1 ELSE Kept
  BY <1>0, <1>1, PassOnLength
<1>10. LastAreKept'
  BY <1>8, <1>9, KeptAssumption DEF LastAreKept
<1> QED
  BY <1>5, <1>10

LEMMA WordsStayLast ==
    ASSUME LaunchInv, StreamsEndLast, [Next]_vars
    PROVE  StreamsEndLast'
<1>0. /\ pipe \in [Streams -> Seq(1..MaxLines)] /\ open \subseteq Streams
      /\ outcome = "none" <=> at # "done"
      /\ at \in {"idle", "spawning", "exited", "overdue"} => ~Alive
  BY DEF LaunchInv, TypeOK, StartInv
<1> USE <1>0 DEF StreamsEndLast
<1>1. CASE Start \/ CannotSpawn \/ Check \/ Probe
  <2>1. /\ UNCHANGED <<pipe, open, lines, settled, quoted, proc>>
        /\ outcome' \in {outcome, "no child", "ready"}
    BY <1>1 DEF Start, CannotSpawn, Check, Probe, Finish, output
  <2> QED
    BY <2>1 DEF Alive
<1>2. CASE Spawn
  <2>1. /\ pipe' = [s \in Streams |-> <<>>] /\ open' = Streams
        /\ outcome' = outcome /\ at = "spawning"
    BY <1>2 DEF Spawn
  <2> QED
    BY <2>1
<1>3. CASE Judge
  <2>1. /\ UNCHANGED <<pipe, open, lines, settled, quoted, outcome>>
        /\ proc' \in {proc, "gone"}
    BY <1>3 DEF Judge, output
  <2> QED
    BY <2>1 DEF Alive
<1>4. CASE Exited \/ Overdue
  <2>1. /\ UNCHANGED <<pipe, open, lines, settled, proc>>
        /\ open = {} \/ settled
        /\ \/ outcome' = outcome /\ quoted' = quoted
           \/ quoted' = lines
    BY <1>4 DEF Exited, Overdue, Finish, output, SaidLast
  <2> QED
    BY <2>1 DEF Alive
<1>5. CASE Steal \/ Bind \/ Loads \/ Dies \/ BudgetPasses
  <2>1. /\ UNCHANGED <<pipe, open, lines, settled, quoted, outcome>>
        /\ Alive' => Alive
    BY <1>5 DEF Steal, Bind, Loads, Dies, BudgetPasses, output, starter, Alive
  <2> QED
    BY <2>1
<1>6. CASE SettlePasses
  <2>1. UNCHANGED <<pipe, open, lines, quoted, outcome, proc>> /\ settled'
    BY <1>6 DEF SettlePasses, output, starter
  <2> QED
    BY <2>1 DEF Alive
<1>7. ASSUME NEW s \in Streams, Writes(s) PROVE StreamsEndLast'
  <2>1. /\ UNCHANGED <<open, lines, settled, quoted, outcome, proc>> /\ Alive
    BY <1>7 DEF Writes, starter
  <2> QED
    BY <2>1 DEF Alive
<1>8. ASSUME NEW s \in Streams, Drain(s) PROVE StreamsEndLast'
  <2>1. /\ UNCHANGED <<open, settled, quoted, outcome, proc>> /\ s \in open
        /\ pipe' = [pipe EXCEPT ![s] = Tail(pipe[s])]
    BY <1>8 DEF Drain, Draining, starter
  <2> QED
    BY <2>1 DEF Alive
<1>9. ASSUME NEW s \in Streams, DrainEnds(s) PROVE StreamsEndLast'
  <2>1. /\ UNCHANGED <<pipe, lines, settled, quoted, outcome, proc>>
        /\ proc = "gone" /\ pipe[s] = <<>> /\ open' = open \ {s}
    BY <1>9 DEF DrainEnds, starter
  <2> QED
    BY <2>1 DEF Alive
<1>10. CASE UNCHANGED vars
  BY <1>10 DEF vars, starter, output, Alive
<1> QED
  BY <1>1, <1>2, <1>3, <1>4, <1>5, <1>6, <1>7, <1>8, <1>9, <1>10
  DEF Next, Starting, World, Time, Drains

LEMMA WordsInvariance == Spec => []WordsInv
<1>1. Init => WordsInv
  <2> SUFFICES ASSUME Init PROVE WordsInv
    OBVIOUS
  <2>1. LinesAreApart /\ LastAreKept
    BY NothingDrained DEF Init
  <2>2. StreamsEndLast
    BY DEF Init, StreamsEndLast, Alive
  <2> QED
    BY <2>1, <2>2 DEF WordsInv
<1>2. LaunchInv /\ WordsInv /\ [Next]_vars => WordsInv'
  <2> SUFFICES ASSUME LaunchInv, WordsInv, [Next]_vars PROVE WordsInv'
    OBVIOUS
  <2>0. TypeOK /\ LinesAreApart /\ LastAreKept /\ StreamsEndLast
    BY DEF LaunchInv, WordsInv
  <2>1. LinesAreApart' /\ LastAreKept'
    <3>1. CASE Spawn
      <4>1. wrote' = 0 /\ pipe' = [s \in Streams |-> <<>>] /\ lines' = <<>>
        BY <3>1 DEF Spawn
      <4> QED
        BY <4>1, NothingDrainedNext
    <3>2. ASSUME NEW s \in Streams, Writes(s) PROVE LinesAreApart' /\ LastAreKept'
      BY <2>0, <3>2, WritingKeeps
    <3>3. ASSUME NEW s \in Streams, Drain(s) PROVE LinesAreApart' /\ LastAreKept'
      BY <2>0, <3>3, DrainingKeeps
    <3>4. ASSUME UNCHANGED <<wrote, pipe, lines>> PROVE LinesAreApart' /\ LastAreKept'
      BY <2>0, <3>4, OutputRests
    <3>5. CASE Start \/ CannotSpawn \/ Check \/ Probe \/ Judge \/ Exited \/ Overdue
      BY <3>4, <3>5 DEF Start, CannotSpawn, Check, Probe, Judge, Exited, Overdue, output
    <3>6. CASE Steal \/ Bind \/ Loads \/ Dies \/ Time \/ UNCHANGED vars
      BY <3>4, <3>6
      DEF Steal, Bind, Loads, Dies, Time, BudgetPasses, SettlePasses, vars, output
    <3>7. ASSUME NEW s \in Streams, DrainEnds(s) PROVE LinesAreApart' /\ LastAreKept'
      BY <3>4, <3>7 DEF DrainEnds
    <3> QED
      BY <3>1, <3>2, <3>3, <3>5, <3>6, <3>7 DEF Next, Starting, World, Drains
  <2>2. StreamsEndLast'
    BY <2>0, WordsStayLast
  <2> QED
    BY <2>1, <2>2 DEF WordsInv
<1> QED
  BY <1>1, <1>2, LaunchInvariance, PTL DEF Spec

(* What a failure quotes is the end of what the child said, however its    *)
(* last lines, its exit and the ends of its streams race: unless the       *)
(* streams outlast the wait for their end, none of it is still in a pipe,  *)
(* and as many of its lines are quoted as it wrote, up to the most that    *)
(* are kept (output.rs:117-129).                                           *)
THEOREM LastWordsAreQuoted == Spec => []LastWordsAreTheLast
<1>1. LaunchInv /\ WordsInv => LastWordsAreTheLast
  <2> SUFFICES ASSUME LaunchInv, WordsInv,
                      outcome \in {"unavailable", "not ready"}, ~settled
               PROVE  /\ \A s \in Streams : pipe[s] = <<>>
                      /\ quoted = lines
                      /\ Len(quoted) = IF wrote < Kept THEN wrote ELSE Kept
    BY DEF LastWordsAreTheLast
  <2>1. open = {} /\ quoted = lines /\ \A s \in Streams : pipe[s] = <<>>
    BY DEF WordsInv, StreamsEndLast
  <2>2. Cardinality(Drained) = wrote
    BY <2>1, AllDrained DEF LaunchInv
  <2> QED
    BY <2>1, <2>2 DEF WordsInv, LastAreKept
<1> QED
  BY <1>1, LaunchInvariance, WordsInvariance, PTL

=============================================================================
