---------------------------- MODULE MCConnections ---------------------------
(***************************************************************************)
(* Two listeners that share two turns, and what fairness gives the callers *)
(* of Connections.                                                         *)
(***************************************************************************)
EXTENDS Connections

AllKinds == {"own", "load", "generic", "dedicated"}

(* What needs nothing of anybody is done: by an accept loop, the thread of *)
(* a connection and its watch.  A loop that waits for a turn is woken by   *)
(* the one given (permits.rs:35-38) and gets one if it is free again and   *)
(* again.  Nothing is assumed of callers, nor of a child: it may leave its *)
(* request unread, and Send then never ends.                               *)
Fairness ==
    /\ \A l \in Listeners : SF_vars(Take(l)) /\ WF_vars(Accept(l) \/ AcceptFails(l))
    /\ \A c \in Callers : WF_vars(OwnSteps(c)) /\ WF_vars(Watch(c))

LiveSpec == Spec /\ Fairness

(* A child that was shut out looks, sooner or later (relay.rs:167-169). *)
ChildrenLook == \A c \in Callers : WF_vars(ChildHangsUp(c))

(* A child takes its request or refuses it, and ends its answer. *)
ChildrenWork == \A c \in Callers : WF_vars(Send(c)) /\ WF_vars(ChildFinishes(c))

(* A caller that leaves while its answer is awaited or relayed frees the   *)
(* model, even if the child never writes another byte: the watch sees it   *)
(* go and closes the child's side (relay.rs:129-137, 199-201).  Where a    *)
(* shutdown wakes no blocked read the child has to close its own side      *)
(* (relay.rs:165-169).  It is not said of a caller that leaves while its   *)
(* request is still being written: there is no watch yet, and no timeout   *)
(* on the child (relay.rs:52-63, 79-83).  A socket that takes no timeout   *)
(* has no watch either, and its caller is missed at the next write.        *)
LeaverFreesItsModel ==
    (ShutdownWakes \/ ChildrenLook) =>
        \A c \in Callers :
            (lease[c] /\ caller[c] = "gone" /\ pc[c] \notin {"proceed", "sending"}) ~>
                (~lease[c] \/ (pc[c] = "relaying" /\ watch[c] = "none"))

(* If children take what they are sent and finish what they write, every   *)
(* connection that is made is accepted and ends, whatever its caller does: *)
(* no turn is kept for good by a caller that fell silent or by a listener  *)
(* nobody calls (listen.rs:158-187).                                       *)
EveryConnectionEnds ==
    (ChildrenWork /\ (ShutdownWakes \/ ChildrenLook)) =>
        \A c \in Callers : (pc[c] = "backlog" ~> pc[c] = "closed")

=============================================================================
