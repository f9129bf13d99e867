---------------------------- MODULE Connections ----------------------------
(***************************************************************************)
(* A connection from the listener's backlog to its end: the accept loops   *)
(* that share one count of permits (proxy/listen.rs, proxy/permits.rs),    *)
(* the thread that answers (proxy/answer/connection.rs), and the relay     *)
(* between a caller and a child with its watch on the caller               *)
(* (proxy/relay.rs).  Which model a request gets, and when, is Slots; here *)
(* a model is got or refused.                                              *)
(***************************************************************************)
EXTENDS Naturals, Sequences, FiniteSets

CONSTANTS
    Callers,      \* those who connect, once each
    Listeners,    \* one accept loop for each address bound
    Connections,  \* how many connections are answered at once
    Kinds,        \* what callers ask for
    ShutdownWakes,\* whether a shutdown wakes a read blocked on the socket:
                  \* on Linux and macOS it does, on Windows not
    MaxEvents     \* bound: pieces a child's answer comes in

ASSUME CallersAssumption     == IsFiniteSet(Callers)
ASSUME ListenersAssumption   == IsFiniteSet(Listeners)
ASSUME ConnectionsAssumption == Connections \in Nat
ASSUME KindsAssumption       == Kinds \subseteq {"own", "load", "generic", "dedicated"}
ASSUME WakesAssumption       == ShutdownWakes \in BOOLEAN
ASSUME MaxEventsAssumption   == MaxEvents \in Nat

VARIABLES
    free,     \* permits nobody holds
    loop,     \* what each accept loop does: takes a permit, or accepts
    backlog,  \* connections the operating system holds for each listener
    caller,   \* whether a caller is there, silent (but connected) or gone
    kind,     \* what it asked for
    pc,       \* where the thread of its connection is
    lease,    \* whether that thread holds a model
    up,       \* the connection to the child
    said,     \* pieces of the answer the child has written
    relayed,  \* pieces passed on to the caller
    watch,    \* the thread that watches the caller
    ended     \* whether the caller has seen the end of what is sent to it

vars == <<free, loop, backlog, caller, kind, pc, lease, up, said, relayed,
          watch, ended>>

(* Permits::new: this many, and never none. *)
Permits == IF Connections = 0 THEN 1 ELSE Connections

Answering == {"head", "body", "asking", "proceed", "sending", "relaying",
              "ending", "touching", "answered"}
Past      == {"given", "closed"}

TypeOK ==
    /\ free \in 0..Permits
    /\ loop \in [Listeners -> {"taking", "accepting"}]
    /\ backlog \in [Listeners -> Seq(Callers)]
    /\ caller \in [Callers -> {"here", "silent", "gone"}]
    /\ kind \in [Callers -> Kinds]
    /\ pc \in [Callers -> {"away", "backlog"} \cup Answering \cup Past]
    /\ lease \in [Callers -> BOOLEAN]
    /\ up \in [Callers -> {"none", "open", "finished", "shut", "closed"}]
    /\ said \in [Callers -> 0..MaxEvents]
    /\ relayed \in [Callers -> 0..MaxEvents]
    /\ watch \in [Callers -> {"none", "watching", "noticed", "over"}]
    /\ ended \in [Callers -> BOOLEAN]

Init ==
    /\ free = Permits
    /\ loop = [l \in Listeners |-> "taking"]
    /\ backlog = [l \in Listeners |-> <<>>]
    /\ caller = [c \in Callers |-> "here"]
    /\ kind \in [Callers -> Kinds]
    /\ pc = [c \in Callers |-> "away"]
    /\ lease = [c \in Callers |-> FALSE]
    /\ up = [c \in Callers |-> "none"]
    /\ said = [c \in Callers |-> 0]
    /\ relayed = [c \in Callers |-> 0]
    /\ watch = [c \in Callers |-> "none"]
    /\ ended = [c \in Callers |-> FALSE]

-----------------------------------------------------------------------------
(* The accept loops.  A permit is taken before the accept, so what is past *)
(* the limit waits in the backlog.                                         *)

relayVars == <<lease, up, said, relayed, watch>>

Connect(c, l) ==
    /\ pc[c] = "away"
    /\ pc' = [pc EXCEPT ![c] = "backlog"]
    /\ backlog' = [backlog EXCEPT ![l] = Append(@, c)]
    /\ UNCHANGED <<free, loop, caller, kind, ended, relayVars>>

(* A bug the checks must catch: the count is not waited for. *)
Take_AtOnce(l) ==
    /\ loop[l] = "taking"
    /\ free' = free - 1
    /\ loop' = [loop EXCEPT ![l] = "accepting"]
    /\ UNCHANGED <<backlog, caller, kind, pc, ended, relayVars>>

(* Permits::take, which waits while none is free. *)
Take(l) ==
    /\ loop[l] = "taking"
    /\ free > 0
    /\ free' = free - 1
    /\ loop' = [loop EXCEPT ![l] = "accepting"]
    /\ UNCHANGED <<backlog, caller, kind, pc, ended, relayVars>>

(* The permit goes to the connection's own thread.  That the operating     *)
(* system may have no thread to give, which ends the loop, is left out.    *)
Accept(l) ==
    /\ loop[l] = "accepting"
    /\ backlog[l] # <<>>
    /\ loop' = [loop EXCEPT ![l] = "taking"]
    /\ backlog' = [backlog EXCEPT ![l] = Tail(@)]
    /\ pc' = [pc EXCEPT ![Head(backlog[l])] = "head"]
    /\ UNCHANGED <<free, caller, kind, ended, relayVars>>

(* A bug the checks must catch: the turn of a failed accept is not given   *)
(* back.                                                                   *)
AcceptFails_KeepsTheTurn(l) ==
    /\ loop[l] = "accepting"
    /\ backlog[l] # <<>>
    /\ caller[Head(backlog[l])] = "gone"
    /\ pc' = [pc EXCEPT ![Head(backlog[l])] = "closed"]
    /\ loop' = [loop EXCEPT ![l] = "taking"]
    /\ backlog' = [backlog EXCEPT ![l] = Tail(@)]
    /\ UNCHANGED <<free, ended, caller, kind, relayVars>>

(* A connection that was gone before it was accepted: the permit goes back *)
(* and the loop starts over.                                               *)
AcceptFails(l) ==
    /\ loop[l] = "accepting"
    /\ backlog[l] # <<>>
    /\ LET c == Head(backlog[l]) IN
        /\ caller[c] = "gone"
        /\ pc' = [pc EXCEPT ![c] = "closed"]
        /\ ended' = [ended EXCEPT ![c] = TRUE]
    /\ loop' = [loop EXCEPT ![l] = "taking"]
    /\ backlog' = [backlog EXCEPT ![l] = Tail(@)]
    /\ free' = free + 1
    /\ UNCHANGED <<caller, kind, relayVars>>

-----------------------------------------------------------------------------
(* The thread of a connection, to the model it needs. *)

acceptVars == <<free, loop, backlog>>

(* The caller stops sending and reading, or closes its end. *)
FallsSilent(c) ==
    /\ caller[c] = "here"
    /\ pc[c] \notin {"away", "closed"}
    /\ caller' = [caller EXCEPT ![c] = "silent"]
    /\ UNCHANGED <<acceptVars, kind, pc, ended, relayVars>>

Leaves(c) ==
    /\ caller[c] # "gone"
    /\ pc[c] \notin {"away", "closed"}
    /\ caller' = [caller EXCEPT ![c] = "gone"]
    /\ UNCHANGED <<acceptVars, kind, pc, ended, relayVars>>

(* A reply of the router's own: written whole, and the thread is done.  A  *)
(* refusal closes the writing half and drains for a bounded moment.        *)
Replied(c, refused) ==
    /\ pc' = [pc EXCEPT ![c] = "answered"]
    /\ ended' = [ended EXCEPT ![c] = @ \/ refused]

(* The head, and what is decided from it alone: a refusal, an answer of    *)
(* the router's own, or which model to ask.  The read gives up once the    *)
(* caller has sent nothing for the stall it is allowed.                    *)
ReadHead(c) ==
    /\ pc[c] = "head"
    /\ \/ Replied(c, TRUE)
       \/ /\ caller[c] = "here"
          /\ \/ kind[c] = "own" /\ Replied(c, FALSE)
             \/ /\ kind[c] \in {"load", "generic"}
                /\ pc' = [pc EXCEPT ![c] = "body"]
                /\ UNCHANGED ended
             \/ /\ kind[c] = "dedicated"
                /\ pc' = [pc EXCEPT ![c] = "asking"]
                /\ UNCHANGED ended
    /\ UNCHANGED <<acceptVars, caller, kind, relayVars>>

(* A bug the checks must catch: a body that never comes is waited for. *)
ReadBody_NoStall(c) ==
    /\ pc[c] = "body"
    /\ \/ caller[c] # "silent" /\ Replied(c, TRUE)
       \/ /\ caller[c] = "here"
          /\ pc' = [pc EXCEPT ![c] = "asking"]
          /\ UNCHANGED ended
    /\ UNCHANGED <<acceptVars, caller, kind, relayVars>>

(* The body that names the model, read whole before any model is asked. *)
ReadBody(c) ==
    /\ pc[c] = "body"
    /\ \/ Replied(c, TRUE)
       \/ /\ caller[c] = "here"
          /\ pc' = [pc EXCEPT ![c] = "asking"]
          /\ UNCHANGED ended
    /\ UNCHANGED <<acceptVars, caller, kind, relayVars>>

(* Shared::child: a model to read from, or a refusal.  Nobody looks at the *)
(* caller meanwhile.  A load lets go of its model before it replies.       *)
AskForModel(c) ==
    /\ pc[c] = "asking"
    /\ \/ Replied(c, TRUE) /\ UNCHANGED lease
       \/ kind[c] = "load" /\ Replied(c, FALSE) /\ UNCHANGED lease
       \/ /\ kind[c] # "load"
          /\ lease' = [lease EXCEPT ![c] = TRUE]
          /\ pc' = [pc EXCEPT ![c] = IF kind[c] = "dedicated"
                                     THEN "proceed" ELSE "sending"]
          /\ UNCHANGED ended
    /\ UNCHANGED <<acceptVars, caller, kind, up, said, relayed, watch>>

(* Only now is the caller of a dedicated endpoint told to send its body;   *)
(* one that cannot be told lets the model go untouched.                    *)
Proceed(c) ==
    /\ pc[c] = "proceed"
    /\ \/ pc' = [pc EXCEPT ![c] = "sending"] /\ UNCHANGED lease
       \/ /\ caller[c] # "here"
          /\ pc' = [pc EXCEPT ![c] = "answered"]
          /\ lease' = [lease EXCEPT ![c] = FALSE]
    /\ UNCHANGED <<acceptVars, caller, kind, up, said, relayed, watch, ended>>

-----------------------------------------------------------------------------
(* The relay. *)

(* The request goes to the child: connected to, and its body copied.  A    *)
(* caller that leaves has sent what it has, and the child decides; one     *)
(* that falls silent is given up on, and so is a child that cannot be      *)
(* reached or written to.  A child that does neither, and leaves what it   *)
(* is written unread, keeps the thread here: no timeout is set, so the     *)
(* step may never be taken.  The watch starts unless the caller's socket   *)
(* takes no timeout.                                                       *)
Send(c) ==
    /\ pc[c] = "sending"
    /\ \/ /\ kind[c] = "generic" \/ caller[c] # "silent"
          /\ pc' = [pc EXCEPT ![c] = "relaying"]
          /\ up' = [up EXCEPT ![c] = "open"]
          /\ \E w \in {"none", "watching"} : watch' = [watch EXCEPT ![c] = w]
       \/ /\ pc' = [pc EXCEPT ![c] = "touching"]
          /\ UNCHANGED <<up, watch>>
    /\ UNCHANGED <<acceptVars, caller, kind, lease, said, relayed, ended>>

(* The child writes a piece of its answer; it finishes, or dies. *)
ChildSpeaks(c) ==
    /\ up[c] = "open"
    /\ said[c] < MaxEvents
    /\ said' = [said EXCEPT ![c] = @ + 1]
    /\ UNCHANGED <<acceptVars, caller, kind, pc, lease, up, relayed, watch, ended>>

ChildFinishes(c) ==
    /\ up[c] = "open"
    /\ up' = [up EXCEPT ![c] = "finished"]
    /\ UNCHANGED <<acceptVars, caller, kind, pc, lease, said, relayed, watch, ended>>

(* A child that was shut out closes its side in turn, once it looks. *)
ChildHangsUp(c) ==
    /\ up[c] = "shut"
    /\ up' = [up EXCEPT ![c] = "closed"]
    /\ UNCHANGED <<acceptVars, caller, kind, pc, lease, said, relayed, watch, ended>>

(* Every piece is read and written before the next.  A write to a caller   *)
(* that is not reading may be taken by the socket, or fail: at once when   *)
(* the caller has gone, after the stall when it is silent.                 *)
RelayPiece(c) ==
    /\ pc[c] = "relaying"
    /\ relayed[c] < said[c]
    /\ \/ relayed' = [relayed EXCEPT ![c] = @ + 1] /\ UNCHANGED pc
       \/ /\ caller[c] # "here"
          /\ pc' = [pc EXCEPT ![c] = "ending"]
          /\ UNCHANGED relayed
    /\ UNCHANGED <<acceptVars, caller, kind, lease, up, said, watch, ended>>

(* End of file, or a broken upstream: one arm.  What was still to be read  *)
(* from a connection that was shut may be lost.  A read that was blocked   *)
(* as it was shut ends only where a shutdown wakes it, or when the child   *)
(* has closed its side; one made afterwards fails.                         *)
RelayEnds(c) ==
    /\ pc[c] = "relaying"
    /\ \/ up[c] = "finished" /\ relayed[c] = said[c]
       \/ up[c] = "shut" /\ (ShutdownWakes \/ relayed[c] < said[c])
       \/ up[c] = "closed"
    /\ pc' = [pc EXCEPT ![c] = "ending"]
    /\ UNCHANGED <<acceptVars, caller, kind, lease, up, said, relayed, watch, ended>>

(* `relaying` as the watch reads it. *)
Relaying(c) == pc[c] = "relaying"

(* A bug the checks must catch: a read that timed out ends the watch too. *)
EndOfCaller_OrSilence(c) == TRUE

(* What makes the watch stop reading: the caller's end is closed, or its   *)
(* reading half has been shut by the relay that ended.  A read that timed  *)
(* out, and a byte nobody asked for, only look at `relaying` again.        *)
EndOfCaller(c) == caller[c] = "gone"

WatchReads(c) ==
    /\ watch[c] = "watching"
    /\ \/ EndOfCaller(c) /\ watch' = [watch EXCEPT ![c] = "noticed"]
       \/ ~Relaying(c) /\ watch' = [watch EXCEPT ![c] = "noticed"]
    /\ UNCHANGED <<acceptVars, caller, kind, pc, lease, up, said, relayed, ended>>

(* A bug the checks must catch: the watch ends without closing anything. *)
WatchEnds_OnlyEnds(c) ==
    /\ watch[c] = "noticed"
    /\ watch' = [watch EXCEPT ![c] = "over"]
    /\ UNCHANGED <<acceptVars, caller, kind, pc, lease, up, said, relayed, ended>>

(* It looks at `relaying` once more, and closes the child's side. *)
WatchEnds(c) ==
    /\ watch[c] = "noticed"
    /\ watch' = [watch EXCEPT ![c] = "over"]
    /\ up' = [up EXCEPT ![c] = IF Relaying(c) THEN "shut" ELSE @]
    /\ UNCHANGED <<acceptVars, caller, kind, pc, lease, said, relayed, ended>>

(* A bug the checks must catch: both halves are shut. *)
EndSeen_BothHalves(c) == [ended EXCEPT ![c] = TRUE]

(* Only the reading half of the caller's connection is shut, to wake the   *)
(* watch: the caller must not see its reply end while the model is held.   *)
EndSeen(c) == ended

(* The scope of the copy ends with its watch, and the child's connection   *)
(* is dropped, which tells the child to stop.                              *)
JoinWatch(c) ==
    /\ pc[c] = "ending"
    /\ watch[c] \in {"none", "over"}
    /\ pc' = [pc EXCEPT ![c] = "touching"]
    /\ up' = [up EXCEPT ![c] = "none"]
    /\ ended' = EndSeen(c)
    /\ UNCHANGED <<acceptVars, caller, kind, lease, said, relayed, watch>>

(* The model is touched with its handle still held, and then let go. *)
TouchAndRelease(c) ==
    /\ pc[c] = "touching"
    /\ lease' = [lease EXCEPT ![c] = FALSE]
    /\ pc' = [pc EXCEPT ![c] = "answered"]
    /\ UNCHANGED <<acceptVars, caller, kind, up, said, relayed, watch, ended>>

(* Held::drop: the turn goes back however the thread ended. *)
Give(c) ==
    /\ pc[c] = "answered"
    /\ free' = free + 1
    /\ pc' = [pc EXCEPT ![c] = "given"]
    /\ UNCHANGED <<loop, backlog, caller, kind, ended, relayVars>>

(* The socket goes with the thread that owns it, after the turn. *)
Close(c) ==
    /\ pc[c] = "given"
    /\ pc' = [pc EXCEPT ![c] = "closed"]
    /\ ended' = [ended EXCEPT ![c] = TRUE]
    /\ UNCHANGED <<acceptVars, caller, kind, relayVars>>

-----------------------------------------------------------------------------

Loop(l) == Take(l) \/ Accept(l) \/ AcceptFails(l)

(* What the thread of a connection does without waiting for the child. *)
OwnSteps(c) ==
    \/ ReadHead(c) \/ ReadBody(c) \/ AskForModel(c) \/ Proceed(c)
    \/ RelayPiece(c) \/ RelayEnds(c) \/ JoinWatch(c) \/ TouchAndRelease(c)
    \/ Give(c) \/ Close(c)

Thread(c) == OwnSteps(c) \/ Send(c)

Child(c) == ChildSpeaks(c) \/ ChildFinishes(c) \/ ChildHangsUp(c)

Watch(c) == WatchReads(c) \/ WatchEnds(c)

Next ==
    \/ \E l \in Listeners : Loop(l) \/ \E c \in Callers : Connect(c, l)
    \/ \E c \in Callers :
        \/ FallsSilent(c) \/ Leaves(c) \/ Child(c) \/ Thread(c) \/ Watch(c)

Spec == Init /\ [][Next]_vars

-----------------------------------------------------------------------------

(* Every turn is held once: by nobody, by a loop that accepts, or by a     *)
(* connection being answered (listen.rs:163-187).  A turn lost on a failed *)
(* accept or a thread that ended badly would be lost for good, and one     *)
(* given back twice would let more be answered than the bound.             *)
EveryTurnIsHeldOnce ==
    free + Cardinality({l \in Listeners : loop[l] = "accepting"})
         + Cardinality({c \in Callers : pc[c] \in Answering}) = Permits

(* The caller must not see its reply end while the model is still held, or *)
(* a caller quick to ask again finds it busy (relay.rs:158-161).           *)
ReplyEndsAfterTheModelIsFree == \A c \in Callers : ended[c] => ~lease[c]

(* A caller that stays and reads gets the whole of the answer its child    *)
(* wrote: the watch, whichever way it races the end of the relay, takes    *)
(* nothing from a caller that is there (relay.rs:174-202).                 *)
AnswerIsWhole ==
    \A c \in Callers :
        pc[c] = "ending" /\ caller[c] = "here" =>
            up[c] = "finished" /\ relayed[c] = said[c]
=============================================================================
