------------------------------- MODULE Launch -------------------------------
(***************************************************************************)
(* Starting one entry's child (launch/server.rs): a port found and let go, *)
(* a process spawned on it, its health asked for until it answers, exits   *)
(* or is late, and one more try when it lost its port before it was ever   *)
(* reached.  What the child writes is drained on a thread for each stream  *)
(* for as long as it lives, and its last lines are kept                    *)
(* (launch/output.rs).                                                     *)
(***************************************************************************)
EXTENDS Naturals, Sequences, FiniteSets

CONSTANTS
    Streams,   \* what the child writes to: standard output and error
    PipeRoom,  \* lines a pipe holds before whoever writes to it blocks
    Kept,      \* how many of the last lines are kept
    MaxLines   \* bound: lines each child writes

ASSUME StreamsAssumption  == IsFiniteSet(Streams)
ASSUME PipeRoomAssumption == PipeRoom \in Nat \ {0}
ASSUME KeptAssumption     == Kept \in Nat \ {0}
ASSUME MaxLinesAssumption == MaxLines \in Nat

VARIABLES
    at,         \* where the thread that starts the child is
    tries,      \* which attempt this is
    connected,  \* whether anything answered a probe of this attempt
    late,       \* whether this attempt's startup budget has passed
    outcome,    \* what the caller of Server::start got
    proc,       \* the child's process
    port,       \* who listens on the port of this attempt
    thief,      \* what another process on that port answers a probe with
    wrote,      \* lines the child has written, in all
    pipe,       \* lines in each pipe, to be drained
    open,       \* streams whose drain has not reached its end
    lines,      \* Said: the last lines, oldest first
    settled,    \* whether the wait for the streams' end has been long enough
    quoted      \* what a failure quotes

starter == <<at, tries, connected, outcome, quoted>>
output  == <<wrote, pipe, open, lines>>
vars    == <<starter, late, proc, port, thief, output, settled>>

NoAnswer == 0
Statuses == {NoAnswer, 200, 503}

Alive == proc \in {"starting", "loading", "serving"}

TypeOK ==
    /\ at \in {"idle", "spawning", "checking", "probing", "judging",
               "exited", "overdue", "done"}
    /\ tries \in 0..2
    /\ connected \in BOOLEAN /\ late \in BOOLEAN /\ settled \in BOOLEAN
    /\ outcome \in {"none", "ready", "no child", "unavailable", "not ready"}
    /\ proc \in {"none", "starting", "loading", "serving", "gone"}
    /\ port \in {"free", "child", "other"}
    /\ thief \in Statuses
    /\ wrote \in 0..MaxLines
    /\ pipe \in [Streams -> Seq(1..MaxLines)]
    /\ \A s \in Streams : Len(pipe[s]) <= PipeRoom
    /\ open \in SUBSET Streams
    /\ lines \in Seq(1..MaxLines) /\ Len(lines) <= Kept
    /\ quoted \in Seq(1..MaxLines)

Init ==
    /\ at = "idle" /\ tries = 0 /\ connected = FALSE /\ outcome = "none"
    /\ late = FALSE /\ proc = "none" /\ port = "free" /\ thief \in Statuses
    /\ wrote = 0 /\ pipe = [s \in Streams |-> <<>>] /\ open = {}
    /\ lines = <<>> /\ settled = FALSE /\ quoted = <<>>

-----------------------------------------------------------------------------
(* The thread that starts the child. *)

Start ==
    /\ at = "idle"
    /\ at' = "spawning"
    /\ tries' = 1
    /\ UNCHANGED <<connected, outcome, quoted, late, proc, port, thief,
                   output, settled>>

Finish(result) == at' = "done" /\ outcome' = result

(* No model file, no port, no binary for the entry's runtime, or a binary  *)
(* that does not start: nothing was spawned, and nothing is tried again.   *)
CannotSpawn ==
    /\ at = "spawning"
    /\ Finish("no child")
    /\ UNCHANGED <<tries, connected, quoted, late, proc, port, thief,
                   output, settled>>

(* A port the operating system says is free, let go before the child is    *)
(* there to bind it; both streams are drained from the start.              *)
Spawn ==
    /\ at = "spawning"
    /\ at' = "checking"
    /\ proc' = "starting"
    /\ port' = "free"
    /\ connected' = FALSE /\ late' = FALSE /\ settled' = FALSE
    /\ wrote' = 0 /\ pipe' = [s \in Streams |-> <<>>]
    /\ open' = Streams /\ lines' = <<>>
    /\ UNCHANGED <<tries, outcome, quoted, thief>>

(* Liveness before readiness. *)
Check ==
    /\ at = "checking"
    /\ at' = IF Alive THEN "probing" ELSE "exited"
    /\ UNCHANGED <<tries, connected, outcome, quoted, late, proc, port,
                   thief, output, settled>>

(* What the port answers, whoever listens on it; a child that is loading   *)
(* says so, and any probe may go unanswered within its bound.  The bound   *)
(* is of each read (probe.rs:26-33): a reply is taken to come in one.      *)
Answers ==
    {NoAnswer} \cup
    CASE port = "other" -> {thief}
      [] port = "child" /\ proc = "loading" -> {503}
      [] port = "child" /\ proc = "serving" -> {200}
      [] OTHER -> {}

Probe ==
    /\ at = "probing"
    /\ \E status \in Answers :
        /\ connected' = (connected \/ status \notin {NoAnswer, 200})
        /\ IF status = 200 THEN Finish("ready")
           ELSE at' = "judging" /\ UNCHANGED outcome
    /\ UNCHANGED <<tries, quoted, late, proc, port, thief, output, settled>>

(* A bug the checks must catch: an overdue child is reported and kept.     *)
Judge_Keeps ==
    /\ at = "judging"
    /\ at' = IF late THEN "overdue" ELSE "checking"
    /\ UNCHANGED <<tries, connected, outcome, quoted, late, proc, port, thief,
                   output, settled>>

(* Another poll, unless the budget has passed: then the child is killed    *)
(* and reaped before that is reported (its Drop would do so again).        *)
Judge ==
    /\ at = "judging"
    /\ at' = IF late THEN "overdue" ELSE "checking"
    /\ proc' = IF late THEN "gone" ELSE proc
    /\ port' = IF late /\ port = "child" THEN "free" ELSE port
    /\ UNCHANGED <<tries, connected, outcome, quoted, late, thief, output, settled>>

(* A bug the checks must catch: the lines are read without waiting. *)
SaidLast_AtOnce == TRUE

(* Said::last: the streams have ended, or the wait has been long enough. *)
SaidLast == open = {} \/ settled

(* A bug the checks must catch: a lost port is tried for again and again.  *)
Exited_Twice ==
    /\ at = "exited"
    /\ SaidLast
    /\ \/ /\ ~connected
          /\ at' = "spawning"
          /\ tries' = 2
          /\ UNCHANGED <<outcome, quoted>>
       \/ /\ connected
          /\ Finish("unavailable")
          /\ quoted' = lines
          /\ UNCHANGED tries
    /\ UNCHANGED <<connected, late, proc, port, thief, output, settled>>

(* The child exited while loading.  If nothing ever answered, it lost its  *)
(* port, and one more attempt is made on another.                          *)
Exited ==
    /\ at = "exited"
    /\ SaidLast
    /\ \/ /\ tries = 1 /\ ~connected
          /\ at' = "spawning"
          /\ tries' = 2
          /\ UNCHANGED <<outcome, quoted>>
       \/ /\ tries = 2 \/ connected
          /\ Finish("unavailable")
          /\ quoted' = lines
          /\ UNCHANGED tries
    /\ UNCHANGED <<connected, late, proc, port, thief, output, settled>>

Overdue ==
    /\ at = "overdue"
    /\ SaidLast
    /\ Finish("not ready")
    /\ quoted' = lines
    /\ UNCHANGED <<tries, connected, late, proc, port, thief, output, settled>>

-----------------------------------------------------------------------------
(* Time, the child and whatever else runs on the machine. *)

BudgetPasses ==
    /\ at \in {"checking", "probing", "judging"}
    /\ ~late
    /\ late' = TRUE
    /\ UNCHANGED <<starter, proc, port, thief, output, settled>>

SettlePasses ==
    /\ at \in {"exited", "overdue"}
    /\ ~settled
    /\ settled' = TRUE
    /\ UNCHANGED <<starter, late, proc, port, thief, output>>

(* Another process takes the port while nobody has it. *)
Steal ==
    /\ proc = "starting"
    /\ port = "free"
    /\ port' = "other"
    /\ UNCHANGED <<starter, late, proc, thief, output, settled>>

(* The child binds its port, or exits because it cannot. *)
Bind ==
    /\ proc = "starting"
    /\ IF port = "free"
       THEN port' = "child" /\ proc' = "loading"
       ELSE proc' = "gone" /\ UNCHANGED port
    /\ UNCHANGED <<starter, late, thief, output, settled>>

Loads ==
    /\ proc = "loading"
    /\ proc' = "serving"
    /\ UNCHANGED <<starter, late, port, thief, output, settled>>

Dies ==
    /\ Alive
    /\ proc' = "gone"
    /\ port' = IF port = "child" THEN "free" ELSE port
    /\ UNCHANGED <<starter, late, thief, output, settled>>

(* A line goes into a pipe that has room; else the child blocks on it. *)
Writes(s) ==
    /\ Alive
    /\ wrote < MaxLines
    /\ Len(pipe[s]) < PipeRoom
    /\ wrote' = wrote + 1
    /\ pipe' = [pipe EXCEPT ![s] = Append(@, wrote')]
    /\ UNCHANGED <<starter, late, proc, port, thief, open, lines, settled>>

-----------------------------------------------------------------------------
(* The thread that drains a stream. *)

(* A bug the checks must catch: the drain ends with the start. *)
Draining_UntilReady(s) == s \in open /\ pipe[s] # <<>> /\ outcome # "ready"

(* It reads for as long as there is something to read. *)
Draining(s) == s \in open /\ pipe[s] # <<>>

(* A bug the checks must catch: every line is kept.                        *)
PassOn_All(line) == Append(lines, line)

(* Said::passed_on: only the last lines are kept. *)
PassOn(line) ==
    LET all == Append(lines, line)
    IN  IF Len(all) > Kept THEN Tail(all) ELSE all

Drain(s) ==
    /\ Draining(s)
    /\ lines' = PassOn(Head(pipe[s]))
    /\ pipe' = [pipe EXCEPT ![s] = Tail(@)]
    /\ UNCHANGED <<starter, late, proc, port, thief, wrote, open, settled>>

(* The end of a stream, which comes after all that was written to it. *)
DrainEnds(s) ==
    /\ s \in open
    /\ pipe[s] = <<>>
    /\ proc = "gone"
    /\ open' = open \ {s}
    /\ UNCHANGED <<starter, late, proc, port, thief, wrote, pipe, lines, settled>>

-----------------------------------------------------------------------------

Starting == Start \/ CannotSpawn \/ Spawn \/ Check \/ Probe \/ Judge \/ Exited
            \/ Overdue

World == Steal \/ Bind \/ Loads \/ Dies \/ \E s \in Streams : Writes(s)

Time == BudgetPasses \/ SettlePasses

Drains == \E s \in Streams : Drain(s) \/ DrainEnds(s)

Next == Starting \/ World \/ Time \/ Drains

Spec == Init /\ [][Next]_vars

-----------------------------------------------------------------------------

(* A start is what whoever asks is promised (server.rs:59-83): at most one *)
(* process at a time, and none left behind by one that failed, whichever   *)
(* way the race between its exit, its answer and its deadline goes.        *)
Promise == INSTANCE StartPromise WITH
    status <- CASE at = "idle" -> "idle"
                [] at # "idle" /\ outcome = "none" -> "starting"
                [] outcome = "ready" -> "ready"
                [] OTHER -> "failed",
    alive  <- Alive

ImplementsStart == Promise!PSpec

(* What a failure quotes is the end of what the child said: nothing it     *)
(* wrote is left in a pipe, and as many lines are quoted as are kept,      *)
(* unless its streams outlast the wait for their end (output.rs:117-129).  *)
LastWordsAreTheLast ==
    outcome \in {"unavailable", "not ready"} /\ ~settled =>
        /\ \A s \in Streams : pipe[s] = <<>>
        /\ quoted = lines
        /\ Len(quoted) = IF wrote < Kept THEN wrote ELSE Kept

-----------------------------------------------------------------------------
(* Fairness: the thread that starts the child and those that drain it run, *)
(* a probe ends within its bound, and time passes.  Neither the child nor  *)
(* whatever else runs on the machine owes anything, but that it does not   *)
(* answer a probe one byte at a time for ever (probe.rs:33).               *)

LiveSpec ==
    /\ Spec
    /\ WF_vars(Starting)
    /\ WF_vars(BudgetPasses) /\ WF_vars(SettlePasses)
    /\ \A s \in Streams : WF_vars(Drain(s))

(* A start ends: with a child that hangs while it loads, answers 503 for   *)
(* ever, is never reachable or loses its port twice (server.rs:96-135).    *)
StartEnds == at = "spawning" ~> at = "done"

(* A child never stays blocked on its output, while it starts or after, as *)
(* long as it lives (output.rs:84-104).                                    *)
ChildIsNeverBlocked ==
    \A s \in Streams : Len(pipe[s]) = PipeRoom ~> Len(pipe[s]) < PipeRoom
=============================================================================
