------------------------- MODULE ConnectionsProofs -------------------------
(***************************************************************************)
(* What holds of connections for any number of callers, listeners and      *)
(* turns.                                                                  *)
(***************************************************************************)
EXTENDS Connections, FiniteSetTheorems, TLAPS

(* What TypeOK says, but that the free turns are no more than there are:   *)
(* that follows from the count.                                            *)
Types ==
    /\ free \in Nat
    /\ loop \in [Listeners -> {"taking", "accepting"}]
    /\ backlog \in [Listeners -> Seq(Callers)]
    /\ caller \in [Callers -> {"here", "silent", "gone"}]
    /\ kind \in [Callers -> Kinds]
    /\ pc \in [Callers -> {"away", "backlog"} \cup Answering \cup Past]
    /\ lease \in [Callers -> BOOLEAN]
    /\ up \in [Callers -> {"none", "open", "finished", "shut", "closed"}]
    /\ said \in [Callers -> 0..MaxEvents]
    /\ relayed \in [Callers -> 0..MaxEvents]
    /\ watch \in [Callers -> {"none", "watching", "noticed", "over"}]
    /\ ended \in [Callers -> BOOLEAN]

(* A caller stands in one backlog, once, and is nowhere else meanwhile. *)
QueuedOnce ==
    /\ \A l \in Listeners : \A i \in 1..Len(backlog[l]) :
          pc[backlog[l][i]] = "backlog"
    /\ \A l, m \in Listeners :
          \A i \in 1..Len(backlog[l]), j \in 1..Len(backlog[m]) :
              backlog[l][i] = backlog[m][j] => l = m /\ i = j

(* Who holds a model is on the way from getting it to touching it. *)
HoldersAreAnswering ==
    \A c \in Callers :
        lease[c] => pc[c] \in {"proceed", "sending", "relaying", "ending", "touching"}

(* Who has seen the end of what it is sent is past all that. *)
EndedAreAnswered ==
    \A c \in Callers : ended[c] => pc[c] \in {"answered", "given", "closed"}

(* The watch closes nothing on a caller that is there. *)
WatchSparesTheCaller ==
    \A c \in Callers :
        pc[c] = "relaying" /\ caller[c] = "here" =>
            up[c] \notin {"shut", "closed"} /\ watch[c] # "noticed"

CallerInv == /\ HoldersAreAnswering /\ EndedAreAnswered
             /\ WatchSparesTheCaller /\ AnswerIsWhole

ConnInv == Types /\ QueuedOnce /\ EveryTurnIsHeldOnce /\ CallerInv

-----------------------------------------------------------------------------
(* What each step does to where the callers are. *)

(* The steps that are not an accept loop's or a new connection.            *)
CallerStep(c) ==
    \/ FallsSilent(c) \/ Leaves(c) \/ Child(c) \/ Thread(c) \/ Watch(c)

(* They move their own caller alone, which is in no backlog, and turns     *)
(* change hands at Give only.                                              *)
LEMMA CallerStepMoves ==
    ASSUME Types, NEW c \in Callers, CallerStep(c)
    PROVE  /\ UNCHANGED <<loop, backlog>>
           /\ \A d \in Callers : d # c => pc'[d] = pc[d]
           /\ pc'[c] = pc[c] \/ pc[c] # "backlog"
           /\ ~Give(c) => /\ free' = free
                          /\ pc'[c] \in Answering <=> pc[c] \in Answering
<1>1. CASE FallsSilent(c) \/ Leaves(c) \/ Child(c) \/ Watch(c)
  BY <1>1 DEF FallsSilent, Leaves, Child, ChildSpeaks, ChildFinishes, ChildHangsUp, Watch, WatchReads,
              WatchEnds, acceptVars
<1>2. CASE ReadHead(c) \/ ReadBody(c) \/ AskForModel(c) \/ Proceed(c)
  BY <1>2 DEF ReadHead, ReadBody, AskForModel, Proceed, Replied, acceptVars, Types,
              Answering, relayVars
<1>3. CASE Send(c) \/ RelayPiece(c) \/ RelayEnds(c) \/ JoinWatch(c) \/ TouchAndRelease(c)
  BY <1>3 DEF Send, RelayPiece, RelayEnds, JoinWatch, TouchAndRelease, acceptVars,
              Types, Answering
<1>4. CASE Give(c)
  BY <1>4 DEF Give, Types
<1>5. CASE Close(c)
  BY <1>5 DEF Close, acceptVars, Types, Answering
<1> QED
  BY <1>1, <1>2, <1>3, <1>4, <1>5 DEF CallerStep, Thread, OwnSteps

(* Whoever is accepted stood at the head of a backlog. *)
LEMMA HeadOfBacklog ==
    ASSUME Types, QueuedOnce, NEW l \in Listeners, backlog[l] # <<>>
    PROVE  /\ Head(backlog[l]) \in Callers
           /\ pc[Head(backlog[l])] = "backlog"
           /\ Len(backlog[l]) \in Nat \ {0}
           /\ Head(backlog[l]) = backlog[l][1]
           /\ Tail(backlog[l]) \in Seq(Callers)
           /\ Len(Tail(backlog[l])) = Len(backlog[l]) - 1
           /\ \A i \in 1..Len(Tail(backlog[l])) : Tail(backlog[l])[i] = backlog[l][i + 1]
<1>1. backlog[l] \in Seq(Callers) /\ backlog[l] # <<>>
  BY DEF Types
<1>2. Len(backlog[l]) \in Nat \ {0} /\ Head(backlog[l]) = backlog[l][1]
  BY <1>1
<1>3. /\ Head(backlog[l]) \in Callers
      /\ Tail(backlog[l]) \in Seq(Callers)
      /\ Len(Tail(backlog[l])) = Len(backlog[l]) - 1
      /\ \A i \in 1..Len(Tail(backlog[l])) : Tail(backlog[l])[i] = backlog[l][i + 1]
  BY <1>1
<1>4. pc[Head(backlog[l])] = "backlog"
  BY <1>2 DEF QueuedOnce
<1> QED
  BY <1>2, <1>3, <1>4

-----------------------------------------------------------------------------
(* The types. *)

LEMMA InitTypes == Init => Types
BY ConnectionsAssumption, MaxEventsAssumption
   DEF Init, Types, Permits, Answering, Past

LEMMA LoopTypes ==
    ASSUME Types, QueuedOnce, NEW l \in Listeners,
           Loop(l) \/ \E c \in Callers : Connect(c, l)
    PROVE  Types'
<1>1. CASE Take(l)
  BY <1>1 DEF Take, Types, relayVars, Answering, Past
<1>2. CASE Accept(l)
  <2>1. backlog[l] # <<>>
    BY <1>2 DEF Accept
  <2>2. Head(backlog[l]) \in Callers /\ Tail(backlog[l]) \in Seq(Callers)
    BY <2>1, HeadOfBacklog
  <2> QED
    BY <1>2, <2>2 DEF Accept, Types, relayVars, Answering, Past
<1>3. CASE AcceptFails(l)
  <2>1. backlog[l] # <<>>
    BY <1>3 DEF AcceptFails
  <2>2. Head(backlog[l]) \in Callers /\ Tail(backlog[l]) \in Seq(Callers)
    BY <2>1, HeadOfBacklog
  <2> QED
    BY <1>3, <2>2 DEF AcceptFails, Types, relayVars, Answering, Past
<1>4. ASSUME NEW c \in Callers, Connect(c, l) PROVE Types'
  <2>1. Append(backlog[l], c) \in Seq(Callers)
    BY DEF Types
  <2> QED
    BY <1>4, <2>1 DEF Connect, Types, relayVars, Answering, Past
<1> QED
  BY <1>1, <1>2, <1>3, <1>4 DEF Loop

LEMMA CallerTypes ==
    ASSUME Types, NEW c \in Callers, CallerStep(c)
    PROVE  Types'
<1> USE DEF Types, acceptVars, relayVars, Answering, Past
<1>1. CASE FallsSilent(c)
  BY <1>1 DEF FallsSilent
<1>2. CASE Leaves(c)
  BY <1>2 DEF Leaves
<1>3. CASE ChildSpeaks(c)
  BY <1>3, MaxEventsAssumption DEF ChildSpeaks
<1>4. CASE ChildFinishes(c) \/ ChildHangsUp(c)
  BY <1>4 DEF ChildFinishes, ChildHangsUp
<1>5. CASE WatchReads(c)
  BY <1>5 DEF WatchReads
<1>6. CASE WatchEnds(c)
  BY <1>6 DEF WatchEnds
<1>7. CASE ReadHead(c)
  BY <1>7 DEF ReadHead, Replied
<1>8. CASE ReadBody(c)
  BY <1>8 DEF ReadBody, Replied
<1>9. CASE AskForModel(c)
  BY <1>9 DEF AskForModel, Replied
<1>10. CASE Proceed(c)
  <2>1. CASE pc' = [pc EXCEPT ![c] = "sending"] /\ UNCHANGED lease
    BY <1>10, <2>1 DEF Proceed
  <2>2. CASE /\ pc' = [pc EXCEPT ![c] = "answered"]
             /\ lease' = [lease EXCEPT ![c] = FALSE]
    BY <1>10, <2>2 DEF Proceed
  <2> QED
    BY <1>10, <2>1, <2>2 DEF Proceed
<1>11. CASE Send(c)
  <2>1. PICK w \in {"none", "watching"} : watch' \in {watch, [watch EXCEPT ![c] = w]}
    BY <1>11 DEF Send
  <2>2. watch' \in [Callers -> {"none", "watching", "noticed", "over"}]
    BY <2>1
  <2>3. CASE up' = [up EXCEPT ![c] = "open"]
    BY <1>11, <2>2, <2>3 DEF Send
  <2>4. CASE up' = up
    BY <1>11, <2>2, <2>4 DEF Send
  <2>5. up' = [up EXCEPT ![c] = "open"] \/ up' = up
    BY <1>11 DEF Send
  <2> QED
    BY ONLY <2>3, <2>4, <2>5
<1>12. CASE RelayPiece(c)
  <2>1. /\ said' = said /\ relayed[c] + 1 \in 0..MaxEvents
        /\ pc' = pc \/ pc' = [pc EXCEPT ![c] = "ending"]
        /\ relayed' = relayed \/ relayed' = [relayed EXCEPT ![c] = @ + 1]
    BY <1>12, MaxEventsAssumption DEF RelayPiece
  <2>2. relayed' \in [Callers -> 0..MaxEvents]
    BY <2>1
  <2>3. pc' \in [Callers -> {"away", "backlog"} \cup Answering \cup Past]
    BY <2>1
  <2> QED
    BY <1>12, <2>2, <2>3 DEF RelayPiece
<1>13. CASE RelayEnds(c)
  BY <1>13 DEF RelayEnds
<1>14. CASE JoinWatch(c)
  BY <1>14 DEF JoinWatch, EndSeen
<1>15. CASE TouchAndRelease(c)
  BY <1>15 DEF TouchAndRelease
<1>16. CASE Give(c)
  BY <1>16 DEF Give
<1>17. CASE Close(c)
  BY <1>17 DEF Close
<1> QED
  BY <1>1, <1>2, <1>3, <1>4, <1>5, <1>6, <1>7, <1>8, <1>9, <1>10, <1>11, <1>12,
     <1>13, <1>14, <1>15, <1>16, <1>17 DEF CallerStep, Thread, OwnSteps, Child, Watch

-----------------------------------------------------------------------------
(* The backlogs. *)

LEMMA QueueAfterHead ==
    ASSUME Types, QueuedOnce, NEW l \in Listeners, Accept(l) \/ AcceptFails(l)
    PROVE  QueuedOnce'
<1> DEFINE first == Head(backlog[l])
<1>1. backlog[l] # <<>>
  BY DEF Accept, AcceptFails
<1>2. /\ backlog' = [backlog EXCEPT ![l] = Tail(@)]
      /\ \A d \in Callers : d # first => pc'[d] = pc[d]
  BY DEF Accept, AcceptFails, Types
<1>3. /\ Len(backlog[l]) \in Nat \ {0} /\ first = backlog[l][1]
      /\ Len(Tail(backlog[l])) = Len(backlog[l]) - 1
      /\ \A i \in 1..Len(Tail(backlog[l])) : Tail(backlog[l])[i] = backlog[l][i + 1]
  BY <1>1, HeadOfBacklog
<1>4. ASSUME NEW m \in Listeners, NEW i \in 1..Len(backlog'[m])
      PROVE  LET k == IF m = l THEN i + 1 ELSE i
             IN  /\ k \in 1..Len(backlog[m])
                 /\ backlog'[m][i] = backlog[m][k]
                 /\ backlog[m][k] \in Callers
                 /\ backlog[m][k] # first
  <2>1. CASE m = l
    <3>1. backlog'[m] = Tail(backlog[l])
      BY <1>2, <2>1 DEF Types
    <3>2. i + 1 \in 1..Len(backlog[l]) /\ backlog'[m][i] = backlog[l][i + 1]
      BY <3>1, <1>3
    <3>3. backlog[l][i + 1] \in Callers
      BY <3>2 DEF Types
    <3>4. backlog[l][i + 1] # backlog[l][1]
      BY <3>2, <1>3 DEF QueuedOnce
    <3> QED
      BY <2>1, <3>2, <3>3, <3>4, <1>3
  <2>2. CASE m # l
    <3>1. backlog'[m] = backlog[m]
      BY <1>2, <2>2 DEF Types
    <3>2. backlog[m][i] \in Callers
      BY <3>1 DEF Types
    <3>3. backlog[m][i] # backlog[l][1]
      BY <3>1, <2>2, <1>3 DEF QueuedOnce
    <3> QED
      BY <2>2, <3>1, <3>2, <3>3, <1>3
  <2> QED
    BY <2>1, <2>2
<1>5. ASSUME NEW m \in Listeners, NEW i \in 1..Len(backlog'[m])
      PROVE  pc'[backlog'[m][i]] = "backlog"
  BY <1>4, <1>2 DEF QueuedOnce
<1>6. ASSUME NEW m \in Listeners, NEW n \in Listeners,
             NEW i \in 1..Len(backlog'[m]), NEW j \in 1..Len(backlog'[n]),
             backlog'[m][i] = backlog'[n][j]
      PROVE  m = n /\ i = j
  <2> DEFINE k == IF m = l THEN i + 1 ELSE i
             h == IF n = l THEN j + 1 ELSE j
  <2>1. k \in 1..Len(backlog[m]) /\ h \in 1..Len(backlog[n])
    BY <1>4
  <2>2. backlog[m][k] = backlog[n][h]
    BY <1>4, <1>6
  <2>3. m = n /\ k = h
    BY <2>1, <2>2 DEF QueuedOnce
  <2> QED
    BY <2>3
<1> QED
  BY <1>5, <1>6 DEF QueuedOnce

LEMMA QueueAfterTake ==
    ASSUME QueuedOnce, NEW l \in Listeners, Take(l)
    PROVE  QueuedOnce'
BY DEF Take, QueuedOnce

LEMMA QueueAfterConnect ==
    ASSUME Types, QueuedOnce, NEW l \in Listeners, NEW c \in Callers, Connect(c, l)
    PROVE  QueuedOnce'
<1>1. /\ pc[c] = "away" /\ pc'[c] = "backlog"
      /\ \A d \in Callers : d # c => pc'[d] = pc[d]
      /\ backlog'[l] = Append(backlog[l], c)
      /\ \A m \in Listeners : m # l => backlog'[m] = backlog[m]
  BY DEF Connect, Types
<1>2. Len(backlog[l]) \in Nat
  BY DEF Types
<1>3. ASSUME NEW m \in Listeners, NEW i \in 1..Len(backlog'[m])
      PROVE  \/ /\ i \in 1..Len(backlog[m])
                /\ backlog'[m][i] = backlog[m][i]
                /\ backlog[m][i] \in Callers \ {c}
             \/ m = l /\ i = Len(backlog[l]) + 1 /\ backlog'[m][i] = c
  <2>1. ASSUME i \in 1..Len(backlog[m]) PROVE backlog[m][i] \in Callers \ {c}
    BY <2>1, <1>1 DEF QueuedOnce, Types
  <2>2. CASE m # l
    BY <2>1, <2>2, <1>1
  <2>3. CASE m = l
    <3>1. /\ Len(backlog'[l]) = Len(backlog[l]) + 1
          /\ \A j \in 1..Len(backlog[l]) : backlog'[l][j] = backlog[l][j]
          /\ backlog'[l][Len(backlog[l]) + 1] = c
      BY <1>1 DEF Types
    <3> QED
      BY <2>1, <2>3, <3>1, <1>2
  <2> QED
    BY <2>2, <2>3
<1>4. ASSUME NEW m \in Listeners, NEW i \in 1..Len(backlog'[m])
      PROVE  pc'[backlog'[m][i]] = "backlog"
  BY <1>3, <1>1 DEF QueuedOnce
<1>5. ASSUME NEW m \in Listeners, NEW n \in Listeners,
             NEW i \in 1..Len(backlog'[m]), NEW j \in 1..Len(backlog'[n]),
             backlog'[m][i] = backlog'[n][j]
      PROVE  m = n /\ i = j
  BY <1>3, <1>5 DEF QueuedOnce
<1> QED
  BY <1>4, <1>5 DEF QueuedOnce

LEMMA QueueAfterCaller ==
    ASSUME Types, QueuedOnce, NEW c \in Callers, CallerStep(c)
    PROVE  QueuedOnce'
<1>1. /\ backlog' = backlog
      /\ \A d \in Callers : d # c => pc'[d] = pc[d]
      /\ pc'[c] = pc[c] \/ pc[c] # "backlog"
  BY CallerStepMoves
<1>2. ASSUME NEW l \in Listeners, NEW i \in 1..Len(backlog[l])
      PROVE  pc'[backlog[l][i]] = "backlog"
  <2>1. backlog[l][i] \in Callers /\ pc[backlog[l][i]] = "backlog"
    BY DEF Types, QueuedOnce
  <2> QED
    BY <1>1, <2>1
<1> QED
  BY <1>1, <1>2 DEF QueuedOnce

-----------------------------------------------------------------------------
(* The turns. *)

Holding  == {l \in Listeners : loop[l] = "accepting"}
Answered == {c \in Callers : pc[c] \in Answering}

(* What is counted can be. *)
LEMMA CountsAreNumbers ==
    /\ IsFiniteSet(Holding) /\ Cardinality(Holding) \in Nat
    /\ IsFiniteSet(Answered) /\ Cardinality(Answered) \in Nat
<1>1. IsFiniteSet(Holding) /\ IsFiniteSet(Answered)
  BY CallersAssumption, ListenersAssumption, FS_Subset DEF Holding, Answered
<1> QED
  BY <1>1, FS_CardinalityType

LEMMA InitTurns == Init => EveryTurnIsHeldOnce
<1> SUFFICES ASSUME Init PROVE EveryTurnIsHeldOnce
  OBVIOUS
<1>1. Holding = {} /\ Answered = {}
  BY DEF Init, Holding, Answered, Answering
<1>2. Cardinality(Holding) = 0 /\ Cardinality(Answered) = 0
  BY <1>1, FS_EmptySet
<1>3. free = Permits /\ Permits \in Nat
  BY ConnectionsAssumption DEF Init, Permits
<1> QED
  BY <1>2, <1>3 DEF EveryTurnIsHeldOnce, Holding, Answered

LEMMA TurnsAfterTake ==
    ASSUME Types, EveryTurnIsHeldOnce, NEW l \in Listeners, Take(l)
    PROVE  EveryTurnIsHeldOnce'
<1>1. Holding' = Holding \cup {l} /\ l \notin Holding /\ Answered' = Answered
  BY DEF Take, Types, Holding, Answered
<1>2. Cardinality(Holding') = Cardinality(Holding) + 1
  BY <1>1, CountsAreNumbers, FS_AddElement
<1>3. free' = free - 1 /\ free \in Nat
  BY DEF Take, Types
<1>4. free + Cardinality(Holding) + Cardinality(Answered) = Permits
  BY DEF EveryTurnIsHeldOnce, Holding, Answered
<1>5. free' + Cardinality(Holding') + Cardinality(Answered') = Permits
  BY <1>1, <1>2, <1>3, <1>4, CountsAreNumbers
<1> QED
  BY <1>5 DEF EveryTurnIsHeldOnce, Holding, Answered, Permits

LEMMA TurnsAfterAccept ==
    ASSUME Types, QueuedOnce, EveryTurnIsHeldOnce, NEW l \in Listeners,
           Accept(l) \/ AcceptFails(l)
    PROVE  EveryTurnIsHeldOnce'
<1> DEFINE c == Head(backlog[l])
<1>1. c \in Callers /\ pc[c] = "backlog"
  BY HeadOfBacklog DEF Accept, AcceptFails
<1>2. Holding = Holding' \cup {l} /\ l \notin Holding'
  BY DEF Accept, AcceptFails, Types, Holding
<1>3. IsFiniteSet(Holding') /\ Cardinality(Holding') \in Nat
  BY <1>2, CountsAreNumbers, FS_Subset, FS_CardinalityType
<1>4. Cardinality(Holding) = Cardinality(Holding') + 1
  BY <1>2, <1>3, FS_AddElement
<1>5. free + Cardinality(Holding) + Cardinality(Answered) = Permits /\ free \in Nat
  BY DEF EveryTurnIsHeldOnce, Holding, Answered, Types
<1>6. free' + Cardinality(Holding') + Cardinality(Answered') = Permits
  <2>1. CASE Accept(l)
    <3>1. free' = free /\ Answered' = Answered \cup {c} /\ c \notin Answered
      BY <2>1, <1>1 DEF Accept, Types, Answered, Answering
    <3>2. Cardinality(Answered') = Cardinality(Answered) + 1
      BY <3>1, CountsAreNumbers, FS_AddElement
    <3> QED
      BY <3>1, <3>2, <1>3, <1>4, <1>5, CountsAreNumbers
  <2>2. CASE AcceptFails(l)
    <3>1. free' = free + 1 /\ Answered' = Answered
      BY <2>2, <1>1 DEF AcceptFails, Types, Answered, Answering
    <3> QED
      BY <3>1, <1>3, <1>4, <1>5, CountsAreNumbers
  <2> QED
    BY <2>1, <2>2
<1> QED
  BY <1>6 DEF EveryTurnIsHeldOnce, Holding, Answered, Permits

LEMMA TurnsAfterConnect ==
    ASSUME Types, EveryTurnIsHeldOnce, NEW l \in Listeners, NEW c \in Callers,
           Connect(c, l)
    PROVE  EveryTurnIsHeldOnce'
<1>1. free' = free /\ Holding' = Holding /\ Answered' = Answered
  BY DEF Connect, Types, Holding, Answered, Answering
<1>2. /\ EveryTurnIsHeldOnce <=> free + Cardinality(Holding) + Cardinality(Answered) = Permits
      /\ EveryTurnIsHeldOnce' <=> free' + Cardinality(Holding') + Cardinality(Answered') = Permits
  BY DEF EveryTurnIsHeldOnce, Holding, Answered, Permits
<1> QED
  BY <1>1, <1>2

LEMMA TurnsAfterCaller ==
    ASSUME Types, EveryTurnIsHeldOnce, NEW c \in Callers, CallerStep(c)
    PROVE  EveryTurnIsHeldOnce'
<1>1. free + Cardinality(Holding) + Cardinality(Answered) = Permits /\ free \in Nat
  BY DEF EveryTurnIsHeldOnce, Holding, Answered, Types
<1>2. Holding' = Holding /\ \A d \in Callers : d # c => pc'[d] = pc[d]
  BY CallerStepMoves DEF Holding
<1>3. free' + Cardinality(Holding') + Cardinality(Answered') = Permits
  <2>1. CASE Give(c)
    <3>1. free' = free + 1 /\ pc[c] \in Answering /\ pc'[c] \notin Answering
      BY <2>1 DEF Give, Types, Answering
    <3>2. Answered = Answered' \cup {c} /\ c \notin Answered'
      BY <3>1, <1>2 DEF Answered, Answering
    <3>3. IsFiniteSet(Answered') /\ Cardinality(Answered') \in Nat
      BY <3>2, CountsAreNumbers, FS_Subset, FS_CardinalityType
    <3>4. Cardinality(Answered) = Cardinality(Answered') + 1
      BY <3>2, <3>3, FS_AddElement
    <3> QED
      BY <3>1, <3>3, <3>4, <1>1, <1>2, CountsAreNumbers
  <2>2. CASE ~Give(c)
    <3>1. free' = free /\ (pc'[c] \in Answering <=> pc[c] \in Answering)
      BY <2>2, CallerStepMoves
    <3>2. Answered' = Answered
      BY <3>1, <1>2 DEF Answered, Answering
    <3> QED
      BY <3>1, <3>2, <1>1, <1>2
  <2> QED
    BY <2>1, <2>2
<1> QED
  BY <1>3 DEF EveryTurnIsHeldOnce, Holding, Answered, Permits

-----------------------------------------------------------------------------
(* The callers, one at a time. *)

CallerOK(c) ==
    /\ lease[c] => pc[c] \in {"proceed", "sending", "relaying", "ending", "touching"}
    /\ ended[c] => pc[c] \in {"answered", "given", "closed"}
    /\ pc[c] = "relaying" /\ caller[c] = "here" => up[c] \notin {"shut", "closed"} /\ watch[c] # "noticed"
    /\ pc[c] = "ending" /\ caller[c] = "here" => up[c] = "finished" /\ relayed[c] = said[c]

LEMMA CallerInvIsOfEach == CallerInv <=> \A c \in Callers : CallerOK(c)
BY DEF CallerInv, CallerOK, HoldersAreAnswering, EndedAreAnswered,
       WatchSparesTheCaller, AnswerIsWhole

(* Nothing that CallerOK reads of a caller changes. *)
SameCaller(d) ==
    /\ pc'[d] = pc[d] /\ lease'[d] = lease[d] /\ ended'[d] = ended[d]
    /\ up'[d] = up[d] /\ watch'[d] = watch[d] /\ caller'[d] = caller[d]
    /\ said'[d] = said[d] /\ relayed'[d] = relayed[d]

LEMMA SameCallerIsOK ==
    ASSUME NEW d, CallerOK(d), SameCaller(d)
    PROVE  CallerOK(d)'
BY DEF CallerOK, SameCaller

LEMMA CallersAfterLoop ==
    ASSUME Types, QueuedOnce, CallerInv, NEW l \in Listeners,
           Loop(l) \/ \E c \in Callers : Connect(c, l)
    PROVE  CallerInv'
<1> SUFFICES ASSUME NEW d \in Callers PROVE CallerOK(d)'
  BY CallerInvIsOfEach
  DEF CallerInv, CallerOK, HoldersAreAnswering, EndedAreAnswered,
      WatchSparesTheCaller, AnswerIsWhole
<1>1. CallerOK(d)
  BY CallerInvIsOfEach
<1>2. CASE Take(l)
  BY <1>1, <1>2 DEF Take, relayVars, CallerOK
<1>3. CASE Accept(l)
  <2>1. pc[Head(backlog[l])] = "backlog"
    BY <1>3, HeadOfBacklog DEF Accept
  <2> QED
    BY <1>1, <1>3, <2>1 DEF Accept, relayVars, CallerOK, Types
<1>4. CASE AcceptFails(l)
  <2>1. pc[Head(backlog[l])] = "backlog"
    BY <1>4, HeadOfBacklog DEF AcceptFails
  <2> QED
    BY <1>1, <1>4, <2>1 DEF AcceptFails, relayVars, CallerOK, Types
<1>5. ASSUME NEW c \in Callers, Connect(c, l) PROVE CallerOK(d)'
  BY <1>1, <1>5 DEF Connect, relayVars, CallerOK, Types
<1> QED
  BY <1>2, <1>3, <1>4, <1>5 DEF Loop

(* The step of one caller is nothing to the others. *)
LEMMA OthersAreLeftAlone ==
    ASSUME Types, NEW c \in Callers, CallerStep(c), NEW d \in Callers, d # c
    PROVE  SameCaller(d)
<1> USE DEF Types, acceptVars, relayVars, SameCaller
<1>1. CASE FallsSilent(c) \/ Leaves(c) \/ Child(c)
  BY <1>1 DEF FallsSilent, Leaves, Child, ChildSpeaks, ChildFinishes, ChildHangsUp
<1>2. CASE Watch(c)
  BY <1>2 DEF Watch, WatchReads, WatchEnds
<1>3. CASE ReadHead(c) \/ ReadBody(c)
  BY <1>3 DEF ReadHead, ReadBody, Replied
<1>4. CASE AskForModel(c)
  BY <1>4 DEF AskForModel, Replied
<1>5. CASE Proceed(c)
  BY <1>5 DEF Proceed
<1>6. CASE Send(c)
  BY <1>6 DEF Send
<1>7. CASE RelayPiece(c) \/ RelayEnds(c)
  BY <1>7 DEF RelayPiece, RelayEnds
<1>8. CASE JoinWatch(c)
  BY <1>8 DEF JoinWatch, EndSeen
<1>9. CASE TouchAndRelease(c) \/ Give(c) \/ Close(c)
  BY <1>9 DEF TouchAndRelease, Give, Close
<1> QED
  BY <1>1, <1>2, <1>3, <1>4, <1>5, <1>6, <1>7, <1>8, <1>9 DEF CallerStep, Thread, OwnSteps

LEMMA CallerIsOK ==
    ASSUME Types, NEW c \in Callers, CallerStep(c), CallerOK(c)
    PROVE  CallerOK(c)'
<1> USE DEF Types, acceptVars, relayVars, CallerOK
<1>1. CASE FallsSilent(c) \/ Leaves(c)
  BY <1>1 DEF FallsSilent, Leaves
<1>2. CASE Child(c)
  BY <1>2 DEF Child, ChildSpeaks, ChildFinishes, ChildHangsUp
<1>3. CASE WatchReads(c)
  BY <1>3 DEF WatchReads, EndOfCaller, Relaying
<1>4. CASE WatchEnds(c)
  BY <1>4 DEF WatchEnds, Relaying
<1>5. CASE ReadHead(c) \/ ReadBody(c)
  BY <1>5 DEF ReadHead, ReadBody, Replied
<1>6. CASE AskForModel(c)
  BY <1>6 DEF AskForModel, Replied
<1>7. CASE Proceed(c)
  BY <1>7 DEF Proceed
<1>8. CASE Send(c)
  BY <1>8 DEF Send
<1>9. CASE RelayPiece(c)
  BY <1>9 DEF RelayPiece
<1>10. CASE RelayEnds(c)
  BY <1>10 DEF RelayEnds
<1>11. CASE JoinWatch(c)
  BY <1>11 DEF JoinWatch, EndSeen
<1>12. CASE TouchAndRelease(c) \/ Give(c) \/ Close(c)
  BY <1>12 DEF TouchAndRelease, Give, Close
<1> QED
  BY <1>1, <1>2, <1>3, <1>4, <1>5, <1>6, <1>7, <1>8, <1>9, <1>10, <1>11, <1>12
  DEF CallerStep, Thread, OwnSteps, Child, Watch

LEMMA CallersAfterCaller ==
    ASSUME Types, CallerInv, NEW c \in Callers, CallerStep(c)
    PROVE  CallerInv'
<1>1. \A d \in Callers : CallerOK(d)
  BY CallerInvIsOfEach
<1>2. \A d \in Callers : CallerOK(d)'
  BY <1>1, OthersAreLeftAlone, SameCallerIsOK, CallerIsOK
<1> QED
  BY <1>2 DEF CallerInv, CallerOK, HoldersAreAnswering, EndedAreAnswered,
              WatchSparesTheCaller, AnswerIsWhole

-----------------------------------------------------------------------------
(* Together. *)

LEMMA InitHolds == Init => ConnInv
<1> SUFFICES ASSUME Init PROVE ConnInv
  OBVIOUS
<1>1. Types /\ EveryTurnIsHeldOnce
  BY InitTypes, InitTurns
<1>2. QueuedOnce
  BY DEF Init, QueuedOnce
<1>3. CallerInv
  BY DEF Init, CallerInv, HoldersAreAnswering, EndedAreAnswered,
         WatchSparesTheCaller, AnswerIsWhole
<1> QED
  BY <1>1, <1>2, <1>3 DEF ConnInv

LEMMA StepHolds == ConnInv /\ [Next]_vars => ConnInv'
<1> SUFFICES ASSUME ConnInv, [Next]_vars PROVE ConnInv'
  OBVIOUS
<1> USE DEF ConnInv
<1>1. ASSUME NEW l \in Listeners, Loop(l) PROVE ConnInv'
  BY <1>1, LoopTypes, QueueAfterTake, QueueAfterHead, TurnsAfterTake,
     TurnsAfterAccept, CallersAfterLoop DEF Loop
<1>2. ASSUME NEW l \in Listeners, NEW c \in Callers, Connect(c, l) PROVE ConnInv'
  BY <1>2, LoopTypes, QueueAfterConnect, TurnsAfterConnect, CallersAfterLoop
<1>3. ASSUME NEW c \in Callers, CallerStep(c) PROVE ConnInv'
  BY <1>3, CallerTypes, QueueAfterCaller, TurnsAfterCaller, CallersAfterCaller
<1>4. CASE UNCHANGED vars
  <2> USE <1>4 DEF vars
  <2>1. Types'
    BY DEF Types, Answering, Past
  <2>2. QueuedOnce'
    BY DEF QueuedOnce
  <2>3. EveryTurnIsHeldOnce'
    BY DEF EveryTurnIsHeldOnce, Permits, Answering
  <2>4. CallerInv'
    BY DEF CallerInv, HoldersAreAnswering, EndedAreAnswered,
           WatchSparesTheCaller, AnswerIsWhole
  <2> QED
    BY <2>1, <2>2, <2>3, <2>4
<1> QED
  BY <1>1, <1>2, <1>3, <1>4 DEF Next, CallerStep

LEMMA Invariance == Spec => []ConnInv
BY InitHolds, StepHolds, PTL DEF Spec

(* The turns that are free are never more than there are: none is given    *)
(* back twice, by any mix of failed accepts and ended threads              *)
(* (listen.rs:163-187).                                                    *)
THEOREM ConnectionsAreTyped == Spec => []TypeOK
<1>1. ConnInv => TypeOK
  <2> SUFFICES ASSUME ConnInv PROVE TypeOK
    OBVIOUS
  <2>1. free + Cardinality(Holding) + Cardinality(Answered) = Permits
    BY DEF ConnInv, EveryTurnIsHeldOnce, Holding, Answered
  <2>2. free \in Nat /\ Permits \in Nat
    BY ConnectionsAssumption DEF ConnInv, Types, Permits
  <2>3. free \in 0..Permits
    BY <2>1, <2>2, CountsAreNumbers
  <2> QED
    BY <2>3 DEF ConnInv, Types, TypeOK
<1> QED
  BY <1>1, Invariance, PTL

(* Every turn is free, with a loop that accepts, or with a connection that *)
(* is being answered, and with one of them only (permits.rs:9-59).         *)
THEOREM TurnsAreNeitherLostNorDoubled == Spec => []EveryTurnIsHeldOnce
<1>1. ConnInv => EveryTurnIsHeldOnce
  BY DEF ConnInv
<1> QED
  BY <1>1, Invariance, PTL

(* No caller sees its reply end while the model is held                    *)
(* (relay.rs:158-161).                                                     *)
THEOREM RepliesEndAfterTheModelIsFree == Spec => []ReplyEndsAfterTheModelIsFree
<1>1. ConnInv => ReplyEndsAfterTheModelIsFree
  BY DEF ConnInv, CallerInv, HoldersAreAnswering, EndedAreAnswered,
         ReplyEndsAfterTheModelIsFree
<1> QED
  BY <1>1, Invariance, PTL

(* A caller that stays gets the whole answer, however the watch races the  *)
(* end of the relay (relay.rs:174-202).                                    *)
THEOREM AnswersAreWhole == Spec => []AnswerIsWhole
<1>1. ConnInv => AnswerIsWhole
  BY DEF ConnInv, CallerInv
<1> QED
  BY <1>1, Invariance, PTL

=============================================================================
