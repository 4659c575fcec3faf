-------------------------- MODULE SupervisorProofs --------------------------
(***************************************************************************)
(* Proofs about Supervisor, for any finite set of viewers and any capacity *)
(* of the reconnect budget.                                                *)
(***************************************************************************)
EXTENDS Supervisor, FiniteSetTheorems, TLAPS

-----------------------------------------------------------------------------
(***************************************************************************)
(* Types                                                                   *)
(***************************************************************************)

\* Waking the receivers of state_watch moves calls between known places.
LEMMA WokenType ==
  ASSUME NEW next \in [Viewers -> PcStates]
  PROVE  Woken(next) \in [Viewers -> PcStates]
  BY DEF Woken, PcStates

\* A published state is a state, and publishing keeps the types.
LEMMA PublishType ==
  ASSUME TypeOK, NEW s \in States, NEW next \in [Viewers -> PcStates], Publish(s, next)
  PROVE  state_watch' \in States /\ pc' \in [Viewers -> PcStates]
  BY WokenType DEF Publish, TypeOK

\* The budget stays between empty and full.
LEMMA RecordType ==
  ASSUME TypeOK, RecordSuccess \/ RecordFailure
  PROVE  tokens' \in 0..Capacity /\ owed' \subseteq Viewers
  BY CapacityAssumption DEF RecordSuccess, RecordFailure, TypeOK

\* Every step of the supervisor keeps its state well-typed.
LEMMA TypeStep == TypeOK /\ [Next]_vars => TypeOK'
<1> SUFFICES ASSUME TypeOK, [Next]_vars PROVE TypeOK'
  OBVIOUS
<1> USE DEF TypeOK, sessionVars, wdVars, timerVars, Goto, PcStates, WdStates
<1>1. ASSUME NEW v \in Viewers, Count(v) PROVE TypeOK'
  BY <1>1 DEF Count
<1>2. ASSUME NEW v \in Viewers, Attach(v) PROVE TypeOK'
  BY <1>2 DEF Attach, Send, Event, Events
<1>3. ASSUME NEW v \in Viewers, RejectNoBudget(v) PROVE TypeOK'
  BY <1>3 DEF RejectNoBudget
<1>4. ASSUME NEW v \in Viewers, StartConnect(v) PROVE TypeOK'
  BY <1>4, PublishType DEF StartConnect, States
<1>5. ASSUME NEW v \in Viewers, ConnectOk(v) PROVE TypeOK'
  BY <1>5, RecordType DEF ConnectOk
<1>6. ASSUME NEW v \in Viewers, ConnectErr(v) PROVE TypeOK'
  BY <1>6, RecordType DEF ConnectErr
<1>7. ASSUME NEW v \in Viewers, RollBack(v) PROVE TypeOK'
  <2>1. [pc EXCEPT ![v] = "detaching"] \in [Viewers -> PcStates] /\ "Idle" \in States
    BY DEF States
  <2>2. state' \in States /\ state_watch' \in States /\ pc' \in [Viewers -> PcStates]
    BY <1>7, <2>1, PublishType DEF RollBack
  <2> QED
    BY <1>7, <2>2 DEF RollBack
<1>8. ASSUME NEW v \in Viewers, Install(v) PROVE TypeOK'
  BY <1>8, PublishType DEF Install, States
<1>9. ASSUME NEW v \in Viewers, JoinConnecting(v) \/ JoinStreaming(v) \/ SubscribeWatch(v)
      PROVE TypeOK'
  <2>1. CASE JoinConnecting(v)
    BY <2>1 DEF JoinConnecting
  <2>2. CASE JoinStreaming(v)
    BY <2>2 DEF JoinStreaming
  <2>3. CASE SubscribeWatch(v)
    BY <2>3 DEF SubscribeWatch
  <2> QED
    BY <1>9, <2>1, <2>2, <2>3
<1>10. ASSUME NEW v \in Viewers, CheckWatch(v) PROVE TypeOK'
  BY <1>10 DEF CheckWatch, States
<1>11. ASSUME NEW v \in Viewers, Subscribe(v) \/ Panic(v) PROVE TypeOK'
  BY <1>11 DEF Subscribe, Panic
<1>12. ASSUME NEW v \in Viewers, Detach(v) PROVE TypeOK'
  BY <1>12 DEF Detach, Send, Event, Events
<1>24. ASSUME NEW v \in Viewers, Leave(v) PROVE TypeOK'
  BY <1>24 DEF Leave, Send, Event, Events
<1>13. CASE OnAttached
  <2>1. events' \in Seq(Events)
    BY <1>13 DEF OnAttached
  <2>2. timer' \in [Viewers -> {"none", "sleeping", "firing"}]
    BY <1>13 DEF OnAttached, Abort
  <2> QED
    BY <1>13, <2>1, <2>2 DEF OnAttached
<1>14. CASE OnDetached
  <2>1. Head(events) \in Events /\ Tail(events) \in Seq(Events)
    BY <1>14 DEF OnDetached
  <2>2. Head(events).viewer \in Viewers
    BY <2>1 DEF Events
  <2>3. timer' \in [Viewers -> {"none", "sleeping", "firing"}]
    BY <1>14, <2>2 DEF OnDetached
  <2>4. idle_timer' \in Viewers \cup {None}
    BY <1>14, <2>2 DEF OnDetached
  <2> QED
    BY <1>14, <2>1, <2>3, <2>4 DEF OnDetached
<1>15. ASSUME NEW t \in Viewers, TimerExpires(t) PROVE TypeOK'
  BY <1>15 DEF TimerExpires
<1>16. ASSUME NEW t \in Viewers, Teardown(t) PROVE TypeOK'
  BY <1>16, PublishType DEF Teardown, Dropped, States
<1>17. ASSUME NEW c \in Viewers, WdStopped(c) \/ WdEnded(c) \/ WdWake(c) \/ WdAttempt(c)
       PROVE TypeOK'
  BY <1>17 DEF WdStopped, WdEnded, WdWake, WdAttempt, WdGoto
<1>18. ASSUME NEW c \in Viewers, WdSleep(c) PROVE TypeOK'
  BY <1>18 DEF WdSleep, WdGoto
<1>19. ASSUME NEW c \in Viewers, WdConnectOk(c) \/ WdConnectErr(c) PROVE TypeOK'
  BY <1>19, RecordType DEF WdConnectOk, WdConnectErr, WdGoto
<1>20. ASSUME NEW c \in Viewers, WdInstall(c) PROVE TypeOK'
  BY <1>20, PublishType DEF WdInstall, WdGoto, States
<1>21. ASSUME NEW c \in Viewers, SessionEnds(c) PROVE TypeOK'
  BY <1>21 DEF SessionEnds
<1>22. CASE Refill
  BY <1>22, CapacityAssumption DEF Refill
<1>25. CASE AuthFails
  <2>1. auth_failed' \in BOOLEAN
    BY <1>25, Zenon DEF AuthFails
  <2> QED
    BY <1>25, <2>1 DEF AuthFails
<1>23. CASE UNCHANGED vars
  BY <1>23 DEF vars
<1> QED
  BY <1>1, <1>2, <1>3, <1>4, <1>5, <1>6, <1>7, <1>8, <1>9, <1>10, <1>11, <1>12, <1>13,
     <1>14, <1>15, <1>16, <1>17, <1>18, <1>19, <1>20, <1>21, <1>22, <1>23, <1>24, <1>25
  DEF Next, ViewerStep, ConnectReturns, EventLoop, TimerStep, WdStep, WdLocalStep, WdConnectReturns

\* The supervisor starts well-typed.
LEMMA TypeInit == Init => TypeOK
<1> SUFFICES ASSUME Init PROVE TypeOK
  OBVIOUS
<1>1. auth_failed \in BOOLEAN
  BY Zenon DEF Init
<1> QED
  BY <1>1, CapacityAssumption DEF Init, TypeOK, States, PcStates, WdStates

\* Type correctness: in every reachable state of the supervisor every variable
\* is in its domain; in particular the token count of the budget never leaves
\* 0..Capacity.
THEOREM TypeCorrect == Spec => []TypeOK
  BY TypeInit, TypeStep, PTL DEF Spec

-----------------------------------------------------------------------------
(***************************************************************************)
(* Counting.  viewer_count is right because of the order of events: the    *)
(* queue holds at most one Detached of a call, only of a call that has     *)
(* returned, and no Attached of a call whose Detached went before it.      *)
(***************************************************************************)

DetachedOnce ==
  \A i, j \in 1..Len(events) : events[i].ev = "Detached" /\ events[i] = events[j] => i = j

DetachedIsOut == \A v \in Viewers : InQueue("Detached", v) => pc[v] = "out"

AttachedIsCounted ==
  \A i \in 1..Len(events), v \in Viewers :
    events[i] = Event("Attached", v) =>
      \/ pc[v] # "out"
      \/ \E j \in 1..Len(events) : j > i /\ events[j] = Event("Detached", v)

QueueOK == DetachedOnce /\ DetachedIsOut /\ AttachedIsCounted

CountInv == TypeOK /\ QueueOK /\ CountMatches

\* A step that neither counts nor sends nor handles events.
CountFrame ==
  /\ viewer_count' = viewer_count
  /\ events' = events
  /\ \A v \in Viewers : pc'[v] = "out" <=> pc[v] = "out"
  /\ \A v \in Viewers : pc[v] = "counted" => pc'[v] = "counted"

\* The steps that count, or touch the event queue, are these six.
LEMMA CountSteps ==
  ASSUME TypeOK, [Next]_vars
  PROVE  \/ CountFrame
         \/ \E v \in Viewers : Count(v) \/ Attach(v) \/ Detach(v) \/ Leave(v)
         \/ OnAttached
         \/ OnDetached
<1> USE DEF TypeOK, Goto, sessionVars, wdVars, timerVars, CountFrame
<1>1. ASSUME NEW v \in Viewers, RejectNoBudget(v) PROVE CountFrame
  BY <1>1 DEF RejectNoBudget
<1>2. ASSUME NEW v \in Viewers, StartConnect(v) PROVE CountFrame
  BY <1>2 DEF StartConnect, Publish, Woken
<1>3. ASSUME NEW v \in Viewers, ConnectOk(v) PROVE CountFrame
  BY <1>3 DEF ConnectOk
<1>4. ASSUME NEW v \in Viewers, ConnectErr(v) PROVE CountFrame
  BY <1>4 DEF ConnectErr
<1>5. ASSUME NEW v \in Viewers, RollBack(v) PROVE CountFrame
  BY <1>5 DEF RollBack, Publish, Woken
<1>6. ASSUME NEW v \in Viewers, Install(v) PROVE CountFrame
  BY <1>6 DEF Install, Publish, Woken
<1>7. ASSUME NEW v \in Viewers, JoinConnecting(v) \/ JoinStreaming(v) \/ SubscribeWatch(v)
      PROVE CountFrame
  BY <1>7 DEF JoinConnecting, JoinStreaming, SubscribeWatch
<1>8. ASSUME NEW v \in Viewers, CheckWatch(v) PROVE CountFrame
  BY <1>8 DEF CheckWatch
<1>9. ASSUME NEW v \in Viewers, Subscribe(v) \/ Panic(v) PROVE CountFrame
  BY <1>9 DEF Subscribe, Panic
<1>10. ASSUME NEW t \in Viewers, TimerExpires(t) PROVE CountFrame
  BY <1>10 DEF TimerExpires
<1>11. ASSUME NEW t \in Viewers, Teardown(t) PROVE CountFrame
  BY <1>11 DEF Teardown, Publish, Woken
<1>12. ASSUME NEW c \in Viewers, WdStep(c) \/ WdConnectReturns(c) \/ SessionEnds(c)
       PROVE CountFrame
  <2>1. ASSUME WdInstall(c) PROVE CountFrame
    BY <2>1 DEF WdInstall, Publish, Woken
  <2> QED
    BY <1>12, <2>1 DEF WdStep, WdLocalStep, WdConnectReturns, WdStopped, WdEnded, WdSleep, WdWake,
      WdAttempt, WdConnectOk, WdConnectErr, SessionEnds
<1>13. ASSUME Refill \/ AuthFails \/ UNCHANGED vars PROVE CountFrame
  BY <1>13 DEF Refill, AuthFails, vars
<1> QED
  BY <1>1, <1>2, <1>3, <1>4, <1>5, <1>6, <1>7, <1>8, <1>9, <1>10, <1>11, <1>12, <1>13
  DEF Next, ViewerStep, ConnectReturns, EventLoop, TimerStep

\* What sending an event does to the queue.
LEMMA SendQueue ==
  ASSUME TypeOK, NEW k \in {"Attached", "Detached"}, NEW v \in Viewers, Send(k, v)
  PROVE  /\ Len(events') = Len(events) + 1
         /\ \A i \in 1..Len(events) : events'[i] = events[i]
         /\ events'[Len(events) + 1] = Event(k, v)
         /\ \A kind, u : InQueue(kind, u)' <=> InQueue(kind, u) \/ Event(kind, u) = Event(k, v)
<1>1. events \in Seq(Events) /\ Event(k, v) \in Events
  BY DEF TypeOK, Event, Events
<1>2. /\ Len(events') = Len(events) + 1
      /\ \A i \in 1..Len(events) : events'[i] = events[i]
      /\ events'[Len(events) + 1] = Event(k, v)
  BY <1>1 DEF Send
<1>3. Len(events) \in Nat
  BY <1>1
<1>4. \A kind, u : InQueue(kind, u)' <=> InQueue(kind, u) \/ Event(kind, u) = Event(k, v)
  BY <1>2, <1>3 DEF InQueue
<1> QED
  BY <1>2, <1>4

\* What handling the first event does to the queue.
LEMMA TakeQueue ==
  ASSUME TypeOK, events # << >>, events' = Tail(events)
  PROVE  /\ Len(events) \in Nat \ {0}
         /\ Len(events') = Len(events) - 1
         /\ \A i \in 1..Len(events') : events'[i] = events[i + 1]
         /\ Head(events) = events[1]
         /\ Head(events) \in Events
         /\ \A kind, u : InQueue(kind, u) <=> InQueue(kind, u)' \/ Event(kind, u) = Head(events)
<1>1. events \in Seq(Events)
  BY DEF TypeOK
<1>2. /\ Len(events) \in Nat \ {0}
      /\ Len(events') = Len(events) - 1
      /\ \A i \in 1..Len(events') : events'[i] = events[i + 1]
      /\ Head(events) = events[1]
      /\ Head(events) \in Events
  BY <1>1
<1>3. ASSUME NEW kind, NEW u
      PROVE  InQueue(kind, u) <=> InQueue(kind, u)' \/ Event(kind, u) = Head(events)
  <2>1. ASSUME InQueue(kind, u), Event(kind, u) # Head(events) PROVE InQueue(kind, u)'
    <3>1. PICK i \in 1..Len(events) : events[i] = Event(kind, u)
      BY <2>1 DEF InQueue
    <3>2. i # 1
      BY <3>1, <2>1, <1>2
    <3>3. i - 1 \in 1..Len(events') /\ events'[i - 1] = events[i]
      BY <3>2, <1>2
    <3> QED
      BY <3>1, <3>3 DEF InQueue, Event
  <2>2. ASSUME InQueue(kind, u)' PROVE InQueue(kind, u)
    <3>1. PICK i \in 1..Len(events') : events'[i] = Event(kind, u)
      BY <2>2 DEF InQueue, Event
    <3>2. i + 1 \in 1..Len(events) /\ events[i + 1] = Event(kind, u)
      BY <3>1, <1>2
    <3> QED
      BY <3>2 DEF InQueue
  <2>3. ASSUME Event(kind, u) = Head(events) PROVE InQueue(kind, u)
    <3>1. 1 \in 1..Len(events) /\ events[1] = Event(kind, u)
      BY <2>3, <1>2
    <3> QED
      BY <3>1 DEF InQueue
  <2> QED
    BY <2>1, <2>2, <2>3
<1> QED
  BY <1>2, <1>3

\* The counted viewers are finitely many.
LEMMA CountedFinite ==
  /\ Counted \subseteq Viewers
  /\ IsFiniteSet(Counted)
  /\ Cardinality(Counted) \in Nat
<1>1. Counted \subseteq Viewers
  BY DEF Counted
<1>2. IsFiniteSet(Counted)
  BY <1>1, ViewersAssumption, FS_Subset
<1> QED
  BY <1>1, <1>2, FS_CardinalityType

\* Events are told apart by their kind and their viewer.
LEMMA EventsDiffer ==
  \A k1, k2, u1, u2 : Event(k1, u1) = Event(k2, u2) <=> k1 = k2 /\ u1 = u2
  BY DEF Event

\* Every event is of one of the two kinds.
LEMMA EventIs ==
  ASSUME NEW e \in Events
  PROVE  e = Event(e.ev, e.viewer) /\ e.viewer \in Viewers /\ e.ev \in {"Attached", "Detached"}
  BY DEF Events, Event

\* A step that leaves count, queue and membership alone keeps the invariant.
LEMMA CountFrameStep ==
  ASSUME CountInv, CountFrame, TypeOK'
  PROVE  CountInv' /\ Counted' = Counted
<1>1. \A kind, u : InQueue(kind, u)' <=> InQueue(kind, u)
  BY DEF CountFrame, InQueue, Event
<1>2. Counted' = Counted
  BY <1>1 DEF CountFrame, Counted
<1>3. CountMatches'
  BY <1>2 DEF CountMatches, CountInv, CountFrame
<1>4. DetachedOnce'
  BY DEF DetachedOnce, CountInv, QueueOK, CountFrame
<1>5. DetachedIsOut'
  BY <1>1 DEF DetachedIsOut, CountInv, QueueOK, CountFrame
<1>6. AttachedIsCounted'
  BY DEF AttachedIsCounted, CountInv, QueueOK, CountFrame, Event
<1> QED
  BY <1>2, <1>3, <1>4, <1>5, <1>6 DEF CountInv, QueueOK

\* fetch_add in subscribe().
LEMMA CountStep_Count ==
  ASSUME CountInv, NEW v \in Viewers, Count(v), TypeOK'
  PROVE  CountInv' /\ Counted' = Counted \cup {v}
<1> USE DEF CountInv, QueueOK
<1>1. /\ viewer_count' = viewer_count + 1
      /\ events' = events
      /\ pc[v] = "out"
      /\ pc' = [pc EXCEPT ![v] = "counted"]
      /\ pc' \in [Viewers -> PcStates]
      /\ pc \in [Viewers -> PcStates]
      /\ ~InQueue("Attached", v)
      /\ ~InQueue("Detached", v)
  BY DEF Count, Free, Goto, TypeOK
<1>2. \A kind, u : InQueue(kind, u)' <=> InQueue(kind, u)
  BY <1>1 DEF InQueue, Event
<1>3. v \notin Counted /\ Counted' = Counted \cup {v}
  BY <1>1, <1>2 DEF Counted
<1>4. Cardinality(Counted') = Cardinality(Counted) + 1
  BY <1>3, CountedFinite, FS_AddElement
<1>5. CountMatches'
  BY <1>1, <1>4 DEF CountMatches
<1>6. DetachedOnce'
  BY <1>1 DEF DetachedOnce
<1>7. DetachedIsOut'
  BY <1>1, <1>2 DEF DetachedIsOut
<1>8. AttachedIsCounted'
  BY <1>1 DEF AttachedIsCounted, Event
<1> QED
  BY <1>3, <1>5, <1>6, <1>7, <1>8

\* Sending Attached.
LEMMA CountStep_Attach ==
  ASSUME CountInv, NEW v \in Viewers, Attach(v), TypeOK'
  PROVE  CountInv' /\ Counted' = Counted
<1> USE DEF CountInv, QueueOK
<1>1. /\ viewer_count' = viewer_count
      /\ Send("Attached", v)
      /\ pc[v] # "out" /\ pc'[v] # "out"
      /\ \A u \in Viewers : pc'[u] = "out" <=> pc[u] = "out"
  BY DEF Attach, Goto, TypeOK
<1>2. /\ Len(events') = Len(events) + 1
      /\ \A i \in 1..Len(events) : events'[i] = events[i]
      /\ events'[Len(events) + 1] = Event("Attached", v)
      /\ \A u : InQueue("Detached", u)' <=> InQueue("Detached", u)
      /\ Len(events) \in Nat
  BY <1>1, SendQueue, EventsDiffer DEF TypeOK
<1>3. Counted' = Counted
  BY <1>1, <1>2 DEF Counted
<1>4. CountMatches'
  BY <1>1, <1>3 DEF CountMatches
<1>5. events'[Len(events) + 1].ev = "Attached"
  BY <1>2 DEF Event
<1>6. DetachedOnce'
  BY <1>2, <1>5 DEF DetachedOnce
<1>7. DetachedIsOut'
  BY <1>1, <1>2 DEF DetachedIsOut
<1>8. AttachedIsCounted'
  <2> SUFFICES ASSUME NEW i \in 1..Len(events'), NEW u \in Viewers,
                      events'[i] = Event("Attached", u), pc'[u] = "out"
               PROVE  \E j \in 1..Len(events') : j > i /\ events'[j] = Event("Detached", u)
    BY DEF AttachedIsCounted, Event
  <2>1. i \in 1..Len(events) /\ events[i] = Event("Attached", u)
    BY <1>1, <1>2, EventsDiffer
  <2>2. PICK j \in 1..Len(events) : j > i /\ events[j] = Event("Detached", u)
    BY <1>1, <2>1 DEF AttachedIsCounted
  <2> QED
    BY <1>2, <2>2
<1> QED
  BY <1>3, <1>4, <1>6, <1>7, <1>8

\* Sending Detached, from an error path or from Subscription::drop.
LEMMA CountStep_Detach ==
  ASSUME CountInv, NEW v \in Viewers, Detach(v) \/ Leave(v), TypeOK'
  PROVE  CountInv' /\ Counted' = Counted
<1> USE DEF CountInv, QueueOK
<1>1. /\ viewer_count' = viewer_count
      /\ Send("Detached", v)
      /\ pc[v] # "out" /\ pc'[v] = "out"
      /\ \A u \in Viewers \ {v} : pc'[u] = pc[u]
  BY DEF Detach, Leave, Goto, TypeOK
<1>2. /\ Len(events') = Len(events) + 1
      /\ \A i \in 1..Len(events) : events'[i] = events[i]
      /\ events'[Len(events) + 1] = Event("Detached", v)
      /\ \A u : InQueue("Detached", u)' <=> InQueue("Detached", u) \/ u = v
      /\ Len(events) \in Nat
  BY <1>1, SendQueue, EventsDiffer DEF TypeOK
<1>3. ~InQueue("Detached", v)
  BY <1>1 DEF DetachedIsOut
<1>4. Counted' = Counted
  BY <1>1, <1>2 DEF Counted
<1>5. CountMatches'
  BY <1>1, <1>4 DEF CountMatches
<1>6. DetachedOnce'
  <2>1. \A i \in 1..Len(events) : events[i] # Event("Detached", v)
    BY <1>3 DEF InQueue
  <2> QED
    BY <1>2, <2>1 DEF DetachedOnce
<1>7. DetachedIsOut'
  BY <1>1, <1>2 DEF DetachedIsOut
<1>8. AttachedIsCounted'
  <2> SUFFICES ASSUME NEW i \in 1..Len(events'), NEW u \in Viewers,
                      events'[i] = Event("Attached", u), pc'[u] = "out"
               PROVE  \E j \in 1..Len(events') : j > i /\ events'[j] = Event("Detached", u)
    BY DEF AttachedIsCounted, Event
  <2>1. i \in 1..Len(events) /\ events[i] = Event("Attached", u)
    BY <1>2, EventsDiffer
  <2>2. CASE u = v
    BY <1>2, <2>1, <2>2
  <2>3. CASE u # v
    <3>1. PICK j \in 1..Len(events) : j > i /\ events[j] = Event("Detached", u)
      BY <1>1, <2>1, <2>3 DEF AttachedIsCounted
    <3> QED
      BY <1>2, <3>1
  <2> QED
    BY <2>2, <2>3
<1> QED
  BY <1>4, <1>5, <1>6, <1>7, <1>8

\* Handling the first event keeps the order of the others.
LEMMA TakeOrder ==
  ASSUME CountInv, events # << >>, events' = Tail(events),
         \A u \in Viewers : pc'[u] = "out" <=> pc[u] = "out"
  PROVE  QueueOK'
<1> USE DEF CountInv, QueueOK
<1>1. /\ Len(events) \in Nat \ {0}
      /\ Len(events') = Len(events) - 1
      /\ \A i \in 1..Len(events') : events'[i] = events[i + 1]
      /\ \A kind, u : InQueue(kind, u)' => InQueue(kind, u)
  BY TakeQueue
<1>2. DetachedOnce'
  <2> SUFFICES ASSUME NEW i \in 1..Len(events'), NEW j \in 1..Len(events'),
                      events'[i].ev = "Detached", events'[i] = events'[j]
               PROVE  i = j
    BY DEF DetachedOnce
  <2>1. i + 1 \in 1..Len(events) /\ j + 1 \in 1..Len(events)
    BY <1>1
  <2>2. events[i + 1].ev = "Detached" /\ events[i + 1] = events[j + 1]
    BY <1>1
  <2>3. i + 1 = j + 1
    BY <2>1, <2>2 DEF DetachedOnce
  <2> QED
    BY <2>3
<1>3. DetachedIsOut'
  BY <1>1 DEF DetachedIsOut
<1>4. AttachedIsCounted'
  <2> SUFFICES ASSUME NEW i \in 1..Len(events'), NEW u \in Viewers,
                      events'[i] = Event("Attached", u), pc'[u] = "out"
               PROVE  \E j \in 1..Len(events') : j > i /\ events'[j] = Event("Detached", u)
    BY DEF AttachedIsCounted, Event
  <2>1. i + 1 \in 1..Len(events) /\ events[i + 1] = Event("Attached", u)
    BY <1>1
  <2>2. PICK j \in 1..Len(events) : j > i + 1 /\ events[j] = Event("Detached", u)
    BY <2>1 DEF AttachedIsCounted
  <2>3. j - 1 \in 1..Len(events') /\ j - 1 > i /\ events'[j - 1] = events[j]
    BY <1>1, <2>2
  <2> QED
    BY <2>2, <2>3
<1> QED
  BY <1>2, <1>3, <1>4

\* Handling Attached: the viewer it is about is still counted.
LEMMA CountStep_OnAttached ==
  ASSUME CountInv, OnAttached, TypeOK'
  PROVE  CountInv' /\ Counted' = Counted /\ Counted # {}
<1> USE DEF CountInv, QueueOK
<1>1. /\ viewer_count' = viewer_count
      /\ pc' = pc
      /\ events # << >>
      /\ events' = Tail(events)
      /\ Head(events).ev = "Attached"
  BY DEF OnAttached
<1>2. /\ \A kind, u : InQueue(kind, u) <=> InQueue(kind, u)' \/ Event(kind, u) = Head(events)
      /\ Head(events) \in Events
      /\ Head(events) = events[1]
      /\ Len(events) \in Nat \ {0}
  BY <1>1, TakeQueue
<1>3. PICK v \in Viewers : Head(events) = Event("Attached", v)
  BY <1>1, <1>2, EventIs
<1>4. \A u : InQueue("Detached", u)' <=> InQueue("Detached", u)
  BY <1>2, <1>3, EventsDiffer
<1>5. Counted' = Counted
  BY <1>1, <1>4 DEF Counted
<1>6. v \in Counted
  <2>1. 1 \in 1..Len(events)
    BY <1>2
  <2>2. pc[v] # "out" \/ \E j \in 1..Len(events) : j > 1 /\ events[j] = Event("Detached", v)
    BY <1>2, <1>3, <2>1 DEF AttachedIsCounted
  <2> QED
    BY <2>2 DEF Counted, InQueue
<1>7. QueueOK'
  BY <1>1, TakeOrder
<1>8. CountMatches'
  BY <1>1, <1>5 DEF CountMatches
<1> QED
  BY <1>5, <1>6, <1>7, <1>8

\* Handling Detached: the viewer it is about is given back, once, and no
\* Attached of it is left in the queue.
LEMMA CountStep_OnDetached ==
  ASSUME CountInv, OnDetached, TypeOK'
  PROVE  /\ CountInv'
         /\ Head(events).viewer \in Counted
         /\ pc[Head(events).viewer] = "out"
         /\ ~InQueue("Attached", Head(events).viewer)
         /\ Counted' = Counted \ {Head(events).viewer}
<1> USE DEF CountInv, QueueOK
<1>1. /\ viewer_count' = viewer_count - 1
      /\ pc' = pc
      /\ events # << >>
      /\ events' = Tail(events)
      /\ Head(events).ev = "Detached"
  BY DEF OnDetached
<1>2. /\ \A kind, u : InQueue(kind, u) <=> InQueue(kind, u)' \/ Event(kind, u) = Head(events)
      /\ Head(events) \in Events
      /\ Head(events) = events[1]
      /\ Len(events) \in Nat \ {0}
      /\ Len(events') = Len(events) - 1
      /\ \A i \in 1..Len(events') : events'[i] = events[i + 1]
  BY <1>1, TakeQueue
<1>3. PICK v \in Viewers : Head(events) = Event("Detached", v)
  BY <1>1, <1>2, EventIs
<1>4. InQueue("Detached", v)
  BY <1>2, <1>3
<1>5. pc[v] = "out" /\ v \in Counted
  BY <1>3, <1>4 DEF DetachedIsOut, Counted
<1>6. \A j \in 1..Len(events) : events[j] = Event("Detached", v) => j = 1
  <2>1. 1 \in 1..Len(events) /\ events[1].ev = "Detached"
    BY <1>1, <1>2
  <2> QED
    BY <2>1, <1>2, <1>3 DEF DetachedOnce
<1>7. ~InQueue("Detached", v)'
  <2> SUFFICES ASSUME InQueue("Detached", v)' PROVE FALSE
    OBVIOUS
  <2>1. PICK i \in 1..Len(events') : events'[i] = Event("Detached", v)
    BY DEF InQueue, Event
  <2>2. i + 1 \in 1..Len(events) /\ events[i + 1] = Event("Detached", v)
    BY <1>2, <2>1
  <2> QED
    BY <1>6, <2>2
<1>8. \A u : u # v => (InQueue("Detached", u)' <=> InQueue("Detached", u))
  BY <1>2, <1>3, EventsDiffer
<1>9. Counted' = Counted \ {v}
  BY <1>1, <1>5, <1>7, <1>8 DEF Counted
<1>10. Cardinality(Counted') = Cardinality(Counted) - 1
  BY <1>5, <1>9, CountedFinite, FS_RemoveElement
<1>11. CountMatches'
  BY <1>1, <1>10 DEF CountMatches
<1>12. QueueOK'
  BY <1>1, TakeOrder
<1>13. ~InQueue("Attached", v)
  <2> SUFFICES ASSUME NEW i \in 1..Len(events), events[i] = Event("Attached", v) PROVE FALSE
    BY DEF InQueue
  <2>1. PICK j \in 1..Len(events) : j > i /\ events[j] = Event("Detached", v)
    BY <1>5 DEF AttachedIsCounted
  <2> QED
    BY <1>6, <2>1
<1>14. Head(events).viewer = v
  BY <1>3 DEF Event
<1> QED
  BY <1>5, <1>9, <1>11, <1>12, <1>13, <1>14

\* Every step keeps the count right.
LEMMA CountStep == CountInv /\ [Next]_vars => CountInv'
<1> SUFFICES ASSUME CountInv, [Next]_vars PROVE CountInv'
  OBVIOUS
<1>1. TypeOK'
  BY TypeStep DEF CountInv
<1> QED
  BY <1>1, CountSteps, CountFrameStep, CountStep_Count, CountStep_Attach, CountStep_Detach,
     CountStep_OnAttached, CountStep_OnDetached
  DEF CountInv

\* Nobody is counted at first.
LEMMA CountInit == Init => CountInv
<1> SUFFICES ASSUME Init PROVE CountInv
  OBVIOUS
<1>1. Len(events) = 0 /\ viewer_count = 0 /\ \A v \in Viewers : pc[v] = "out"
  BY DEF Init
<1>2. Counted = {}
  BY <1>1 DEF Counted, InQueue
<1>3. CountMatches
  BY <1>1, <1>2, FS_EmptySet DEF CountMatches
<1>4. QueueOK
  BY <1>1 DEF QueueOK, DetachedOnce, DetachedIsOut, AttachedIsCounted, InQueue
<1> QED
  BY <1>3, <1>4, TypeInit DEF CountInv

\* The invariant of this section holds throughout.
THEOREM CountInvariant == Spec => []CountInv
  BY CountInit, CountStep, PTL DEF Spec

\* viewer_count is exactly the number of viewers between their fetch_add in
\* subscribe() and their fetch_sub in the event loop, for any number of viewers
\* and any interleaving of their events.
THEOREM CountCorrect == Spec => []CountMatches
<1>1. CountInv => CountMatches
  BY DEF CountInv
<1> QED
  BY <1>1, CountInvariant, PTL

-----------------------------------------------------------------------------
(***************************************************************************)
(* The session.  The mutex protects SessionState only while it is held, so *)
(* that its fields agree rests on who may be where: one connector while    *)
(* the state is Connecting, and nobody in subscribe() or holding a         *)
(* Subscription when the count lets a teardown through.                    *)
(***************************************************************************)

SessionInv == SessionConsistent /\ OneConnector

\* When the count is down to zero, no call is under way and none streams.
LEMMA Unwatched ==
  ASSUME CountInv, viewer_count <= 0
  PROVE  Counted = {} /\ \A v \in Viewers : pc[v] = "out"
<1>1. Cardinality(Counted) = 0
  BY CountedFinite DEF CountInv, CountMatches, TypeOK
<1>2. Counted = {}
  BY <1>1, CountedFinite, FS_EmptySet
<1> QED
  BY <1>2 DEF Counted

\* A step that leaves SessionState and the connectors alone.
SessionFrame ==
  /\ state' = state /\ rtp_tx' = rtp_tx /\ stop' = stop /\ h264' = h264
  /\ Connectors' = Connectors

\* Every step keeps the fields of SessionState in agreement.
LEMMA SessionStep == CountInv /\ SessionInv /\ [Next]_vars => SessionInv'
<1> SUFFICES ASSUME CountInv, SessionInv, [Next]_vars PROVE SessionInv'
  OBVIOUS
<1> USE DEF sessionVars, wdVars, timerVars, Goto
<1>0. TypeOK
  BY DEF CountInv
<1>1. ASSUME SessionFrame PROVE SessionInv'
  BY <1>1 DEF SessionFrame, SessionInv, SessionConsistent, OneConnector
<1>2. ASSUME NEW v \in Viewers, Count(v) \/ Attach(v) \/ RejectNoBudget(v) PROVE SessionFrame
  BY <1>0, <1>2 DEF Count, Free, Attach, RejectNoBudget, SessionFrame, Connectors, TypeOK
<1>3. ASSUME NEW v \in Viewers,
             JoinConnecting(v) \/ JoinStreaming(v) \/ SubscribeWatch(v) \/ CheckWatch(v)
      PROVE SessionFrame
  BY <1>0, <1>3 DEF JoinConnecting, JoinStreaming, SubscribeWatch, CheckWatch, SessionFrame,
    Connectors, TypeOK
<1>4. ASSUME NEW v \in Viewers, Subscribe(v) \/ Panic(v) \/ Detach(v) \/ Leave(v)
      PROVE SessionFrame
  BY <1>0, <1>4 DEF Subscribe, Panic, Detach, Leave, SessionFrame, Connectors, TypeOK
<1>5. ASSUME NEW v \in Viewers, ConnectOk(v) \/ ConnectErr(v) PROVE SessionFrame
  BY <1>0, <1>5 DEF ConnectOk, ConnectErr, SessionFrame, Connectors, TypeOK
<1>6. ASSUME NEW v \in Viewers, StartConnect(v) PROVE SessionInv'
  <2>1. Connectors = {} /\ Connectors' = {v}
    BY <1>0, <1>6 DEF StartConnect, Publish, Woken, SessionInv, OneConnector, Connectors, TypeOK
  <2> QED
    BY <1>6, <2>1 DEF StartConnect, SessionInv, SessionConsistent, OneConnector
<1>7. ASSUME NEW v \in Viewers, RollBack(v) PROVE SessionInv'
  <2>1. Connectors = {v} /\ state = "Connecting"
    BY <1>7 DEF RollBack, SessionInv, OneConnector, Connectors
  <2>2. Connectors' = {}
    BY <1>0, <1>7, <2>1 DEF RollBack, Publish, Woken, Connectors, TypeOK
  <2> QED
    BY <1>7, <2>1, <2>2 DEF RollBack, SessionInv, SessionConsistent, OneConnector
<1>8. ASSUME NEW v \in Viewers, Install(v) PROVE SessionInv'
  <2>1. Connectors = {v} /\ state = "Connecting"
    BY <1>8 DEF Install, SessionInv, OneConnector, Connectors
  <2>2. Connectors' = {}
    BY <1>0, <1>8, <2>1 DEF Install, Publish, Woken, Connectors, TypeOK
  <2> QED
    BY <1>8, <2>1, <2>2, NoneAssumption
    DEF Install, SessionInv, SessionConsistent, OneConnector
<1>9. ASSUME OnAttached \/ OnDetached PROVE SessionFrame
  BY <1>9 DEF OnAttached, OnDetached, SessionFrame, Connectors
<1>10. ASSUME NEW t \in Viewers, TimerExpires(t) PROVE SessionFrame
  BY <1>10 DEF TimerExpires, SessionFrame, Connectors
<1>11. ASSUME NEW t \in Viewers, Teardown(t) PROVE SessionInv'
  <2>1. CASE TeardownDue
    <3>1. \A v \in Viewers : pc[v] = "out"
      BY <2>1, Unwatched DEF TeardownDue
    <3>2. Connectors' = {}
      BY <1>11, <2>1, <3>1 DEF Teardown, Publish, Woken, Connectors
    <3> QED
      BY <1>11, <2>1, <3>2 DEF Teardown, SessionInv, SessionConsistent, OneConnector
  <2>2. CASE ~TeardownDue
    BY <1>1, <1>11, <2>2 DEF Teardown, SessionFrame, Connectors
  <2> QED
    BY <2>1, <2>2
<1>12. ASSUME NEW c \in Viewers, WdInstall(c) PROVE SessionInv'
  <2>1. Connectors' = Connectors
    BY <1>12 DEF WdInstall, Publish, Woken, Connectors
  <2>2. CASE SameChannel(c)
    <3>1. state = "Streaming" /\ stop = c
      BY <2>2, NoneAssumption DEF SameChannel, SessionInv, SessionConsistent
    <3> QED
      BY <1>1, <1>12, <2>1, <2>2, <3>1 DEF WdInstall, SessionFrame
  <2>3. CASE ~SameChannel(c)
    BY <1>1, <1>12, <2>1, <2>3 DEF WdInstall, SessionFrame
  <2> QED
    BY <2>2, <2>3
<1>13. ASSUME NEW c \in Viewers,
              WdStopped(c) \/ WdEnded(c) \/ WdSleep(c) \/ WdWake(c) \/ WdAttempt(c)
       PROVE SessionFrame
  BY <1>13 DEF WdStopped, WdEnded, WdSleep, WdWake, WdAttempt, SessionFrame, Connectors
<1>14. ASSUME NEW c \in Viewers, WdConnectReturns(c) \/ SessionEnds(c) PROVE SessionFrame
  BY <1>14 DEF WdConnectReturns, WdConnectOk, WdConnectErr, SessionEnds, SessionFrame, Connectors
<1>15. ASSUME Refill \/ AuthFails \/ UNCHANGED vars PROVE SessionFrame
  BY <1>15 DEF Refill, AuthFails, vars, SessionFrame, Connectors
<1> QED
  BY <1>1, <1>2, <1>3, <1>4, <1>5, <1>6, <1>7, <1>8, <1>9, <1>10, <1>11, <1>12, <1>13,
     <1>14, <1>15
  DEF Next, ViewerStep, ConnectReturns, EventLoop, TimerStep, WdStep, WdLocalStep

\* Nothing is up at first.
LEMMA SessionInit == Init => SessionInv
  BY DEF Init, SessionInv, SessionConsistent, OneConnector, Connectors

\* The two invariants together are inductive.
THEOREM SessionInvariant == Spec => [](CountInv /\ SessionInv)
  BY CountInit, CountStep, SessionInit, SessionStep, PTL DEF Spec

\* The fields of SessionState agree in every reachable state: however late a
\* watchdog's connect() returns, it never replaces the stop handle of a newer
\* session, and a teardown never leaves half a session behind.
THEOREM SessionIsConsistent == Spec => []SessionConsistent
<1>1. SessionInv => SessionConsistent
  BY DEF SessionInv
<1> QED
  BY <1>1, SessionInvariant, PTL

\* At most one subscribe() call connects at a time, and exactly one does while
\* the state is Connecting, although the lock is released meanwhile.
THEOREM ConnectorIsUnique == Spec => []OneConnector
<1>1. SessionInv => OneConnector
  BY DEF SessionInv
<1> QED
  BY <1>1, SessionInvariant, PTL

-----------------------------------------------------------------------------
(***************************************************************************)
(* Viewers.  With MQTT configured state_watch never lags behind the state, *)
(* which is what makes the two unprotected hand-overs in subscribe() safe: *)
(* from the lock to changed(), and from the Streaming seen to the reads.   *)
(***************************************************************************)

WatchFollows == mqtt => state_watch = state

ReaderHasSession == mqtt => \A v \in Viewers : pc[v] = "reading" => state = "Streaming"

WaiterSeesConnecting == mqtt => \A v \in Viewers : pc[v] = "awaiting" => state = "Connecting"

ViewerInv ==
  /\ WatchFollows
  /\ ReaderHasSession
  /\ WaiterSeesConnecting
  /\ NoPanic
  /\ SubscriptionIsCurrent

\* A step that changes neither state nor channel and moves no call to a place
\* the invariant speaks of.
ViewerFrame ==
  /\ state' = state /\ rtp_tx' = rtp_tx /\ state_watch' = state_watch /\ mqtt' = mqtt
  /\ \A v \in Viewers :
       /\ pc'[v] \in {"reading", "awaiting", "panicked"} => pc'[v] = pc[v]
       /\ pc'[v] = "streaming" => pc'[v] = pc[v] /\ sub'[v] = sub[v]

\* Every step keeps viewers and session together.
LEMMA ViewerStepInv == CountInv /\ SessionInv /\ ViewerInv /\ [Next]_vars => ViewerInv'
<1> SUFFICES ASSUME CountInv, SessionInv, ViewerInv, [Next]_vars PROVE ViewerInv'
  OBVIOUS
<1> USE DEF sessionVars, wdVars, timerVars, Goto
<1>0. TypeOK /\ pc \in [Viewers -> PcStates] /\ sub \in [Viewers -> Viewers \cup {None}]
  BY DEF CountInv, TypeOK
<1>1. ASSUME ViewerFrame PROVE ViewerInv'
  BY <1>1 DEF ViewerFrame, ViewerInv, WatchFollows, ReaderHasSession, WaiterSeesConnecting,
    NoPanic, SubscriptionIsCurrent
<1>2. ASSUME NEW v \in Viewers, Count(v) \/ Attach(v) \/ RejectNoBudget(v) PROVE ViewerFrame
  BY <1>0, <1>2 DEF Count, Attach, RejectNoBudget, ViewerFrame
<1>3. ASSUME NEW v \in Viewers, JoinConnecting(v) \/ SubscribeWatch(v) PROVE ViewerFrame
  BY <1>0, <1>3 DEF JoinConnecting, SubscribeWatch, ViewerFrame
<1>4. ASSUME NEW v \in Viewers, Detach(v) \/ Leave(v) PROVE ViewerFrame
  BY <1>0, <1>4 DEF Detach, Leave, ViewerFrame
<1>5. ASSUME NEW v \in Viewers, ConnectOk(v) \/ ConnectErr(v) PROVE ViewerFrame
  BY <1>0, <1>5 DEF ConnectOk, ConnectErr, ViewerFrame
<1>6. ASSUME NEW v \in Viewers, JoinStreaming(v) PROVE ViewerInv'
  BY <1>0, <1>6 DEF JoinStreaming, ViewerInv, WatchFollows, ReaderHasSession,
    WaiterSeesConnecting, NoPanic, SubscriptionIsCurrent
<1>7. ASSUME NEW v \in Viewers, CheckWatch(v) PROVE ViewerInv'
  BY <1>0, <1>7 DEF CheckWatch, ViewerInv, WatchFollows, ReaderHasSession,
    WaiterSeesConnecting, NoPanic, SubscriptionIsCurrent
<1>8. ASSUME NEW v \in Viewers, Subscribe(v) PROVE ViewerInv'
  <2>1. state = "Streaming"
    BY <1>8 DEF Subscribe, SessionInv, SessionConsistent
  <2> QED
    BY <1>0, <1>8, <2>1 DEF Subscribe, ViewerInv, WatchFollows, ReaderHasSession,
      WaiterSeesConnecting, NoPanic, SubscriptionIsCurrent
<1>9. ASSUME NEW v \in Viewers, Panic(v) PROVE ViewerInv'
  <2>1. ~mqtt
    BY <1>9 DEF Panic, SessionInv, SessionConsistent, ViewerInv, ReaderHasSession
  <2> QED
    BY <1>0, <1>9, <2>1 DEF Panic, ViewerInv, WatchFollows, ReaderHasSession,
      WaiterSeesConnecting, NoPanic, SubscriptionIsCurrent
<1>10. ASSUME NEW v \in Viewers, StartConnect(v) PROVE ViewerInv'
  <2>1. \A u \in Viewers : pc[u] # "streaming"
    BY <1>10 DEF StartConnect, ViewerInv, SubscriptionIsCurrent
  <2>2. /\ state = "Idle" /\ state' = "Connecting" /\ mqtt' = mqtt
        /\ mqtt => state_watch' = "Connecting"
        /\ \A u \in Viewers : pc'[u] \in {"reading", "panicked", "streaming"} => pc'[u] = pc[u]
    BY <1>0, <1>10 DEF StartConnect, Publish, Woken
  <2> QED
    BY <2>1, <2>2 DEF ViewerInv, WatchFollows, ReaderHasSession, WaiterSeesConnecting,
      NoPanic, SubscriptionIsCurrent
<1>11. ASSUME NEW v \in Viewers, RollBack(v) PROVE ViewerInv'
  <2>1. state = "Connecting"
    BY <1>11 DEF RollBack, SessionInv, OneConnector, Connectors
  <2>2. /\ state' = "Idle" /\ mqtt' = mqtt
        /\ mqtt => state_watch' = "Idle"
        /\ \A u \in Viewers : /\ pc'[u] \in {"reading", "panicked", "streaming"} => pc'[u] = pc[u]
                              /\ pc'[u] # "awaiting"
    BY <1>0, <1>11, <2>1 DEF RollBack, Publish, Woken
  <2> QED
    BY <2>1, <2>2 DEF ViewerInv, WatchFollows, ReaderHasSession, WaiterSeesConnecting,
      NoPanic, SubscriptionIsCurrent
<1>12. ASSUME NEW v \in Viewers, Install(v) PROVE ViewerInv'
  <2>1. state = "Connecting"
    BY <1>12 DEF Install, SessionInv, OneConnector, Connectors
  <2>2. /\ state' = "Streaming" /\ mqtt' = mqtt
        /\ mqtt => state_watch' = "Streaming"
        /\ \A u \in Viewers : /\ pc'[u] \in {"panicked", "streaming"} => pc'[u] = pc[u]
                              /\ pc'[u] # "awaiting"
    BY <1>0, <1>12, <2>1 DEF Install, Publish, Woken
  <2> QED
    BY <2>1, <2>2 DEF ViewerInv, WatchFollows, ReaderHasSession, WaiterSeesConnecting,
      NoPanic, SubscriptionIsCurrent
<1>13. ASSUME OnAttached \/ OnDetached PROVE ViewerFrame
  BY <1>13 DEF OnAttached, OnDetached, ViewerFrame
<1>14. ASSUME NEW t \in Viewers, TimerExpires(t) PROVE ViewerFrame
  BY <1>14 DEF TimerExpires, ViewerFrame
<1>15. ASSUME NEW t \in Viewers, Teardown(t) PROVE ViewerInv'
  <2>1. CASE TeardownDue
    <3>1. \A v \in Viewers : pc[v] = "out"
      BY <2>1, Unwatched DEF TeardownDue
    <3>2. /\ state' = "Idle" /\ mqtt' = mqtt
          /\ mqtt => state_watch' = "Idle"
          /\ \A u \in Viewers : pc'[u] = "out"
      BY <1>15, <2>1, <3>1 DEF Teardown, Publish, Woken
    <3> QED
      BY <3>2 DEF ViewerInv, WatchFollows, ReaderHasSession, WaiterSeesConnecting,
        NoPanic, SubscriptionIsCurrent
  <2>2. CASE ~TeardownDue
    BY <1>1, <1>15, <2>2 DEF Teardown, ViewerFrame
  <2> QED
    BY <2>1, <2>2
<1>16. ASSUME NEW c \in Viewers, WdInstall(c) PROVE ViewerInv'
  <2>1. CASE SameChannel(c)
    <3>1. state = "Streaming"
      BY <2>1, NoneAssumption DEF SameChannel, SessionInv, SessionConsistent
    <3>2. /\ state' = "Streaming" /\ rtp_tx' = rtp_tx /\ sub' = sub /\ mqtt' = mqtt
          /\ mqtt => state_watch' = "Streaming"
          /\ \A u \in Viewers : pc'[u] \in {"reading", "panicked", "streaming"} => pc'[u] = pc[u]
          /\ \A u \in Viewers : pc'[u] # "awaiting"
      BY <1>0, <1>16, <2>1 DEF WdInstall, Publish, Woken
    <3> QED
      BY <3>1, <3>2 DEF ViewerInv, WatchFollows, ReaderHasSession, WaiterSeesConnecting,
        NoPanic, SubscriptionIsCurrent
  <2>2. CASE ~SameChannel(c)
    BY <1>1, <1>16, <2>2 DEF WdInstall, ViewerFrame
  <2> QED
    BY <2>1, <2>2
<1>17. ASSUME NEW c \in Viewers,
              WdStopped(c) \/ WdEnded(c) \/ WdSleep(c) \/ WdWake(c) \/ WdAttempt(c)
       PROVE ViewerFrame
  BY <1>17 DEF WdStopped, WdEnded, WdSleep, WdWake, WdAttempt, ViewerFrame
<1>18. ASSUME NEW c \in Viewers, WdConnectReturns(c) \/ SessionEnds(c) PROVE ViewerFrame
  BY <1>18 DEF WdConnectReturns, WdConnectOk, WdConnectErr, SessionEnds, ViewerFrame
<1>19. ASSUME Refill \/ AuthFails \/ UNCHANGED vars PROVE ViewerFrame
  BY <1>19 DEF Refill, AuthFails, vars, ViewerFrame
<1> QED
  BY <1>1, <1>2, <1>3, <1>4, <1>5, <1>6, <1>7, <1>8, <1>9, <1>10, <1>11, <1>12, <1>13,
     <1>14, <1>15, <1>16, <1>17, <1>18, <1>19
  DEF Next, ViewerStep, ConnectReturns, EventLoop, TimerStep, WdStep, WdLocalStep

\* Nobody watches at first.
LEMMA ViewerInit == Init => ViewerInv
  BY DEF Init, ViewerInv, WatchFollows, ReaderHasSession, WaiterSeesConnecting, NoPanic,
    SubscriptionIsCurrent

\* The three invariants together are inductive.
THEOREM ViewerInvariant == Spec => [](CountInv /\ SessionInv /\ ViewerInv)
  BY CountInit, CountStep, SessionInit, SessionStep, ViewerInit, ViewerStepInv, PTL DEF Spec

\* A viewer that holds a Subscription reads from the channel of the current
\* session: neither a late idle timer nor a watchdog takes it away.
THEOREM SubscriptionStaysCurrent == Spec => []SubscriptionIsCurrent
<1>1. ViewerInv => SubscriptionIsCurrent
  BY DEF ViewerInv
<1> QED
  BY <1>1, ViewerInvariant, PTL

\* With MQTT configured, the expect()s at the end of subscribe() never fail.
THEOREM ExpectsHold == Spec => []NoPanic
<1>1. ViewerInv => NoPanic
  BY DEF ViewerInv
<1> QED
  BY <1>1, ViewerInvariant, PTL

\* With MQTT configured, a call that waits for the session to come up waits for
\* a call that is bringing it up: the wake-up cannot have been missed.
THEOREM NoLostWakeup == Spec => []WaiterHasConnector
<1>1. SessionInv /\ ViewerInv => WaiterHasConnector
  BY DEF SessionInv, ViewerInv, OneConnector, WaiterSeesConnecting, WaiterHasConnector
<1> QED
  BY <1>1, ViewerInvariant, PTL

-----------------------------------------------------------------------------
(***************************************************************************)
(* The idle timer.  While a timer sleeps, whoever is counted arrived after *)
(* it was armed, so the Attached that aborts it is still to come: the next *)
(* event is not a Detached, and no second timer is armed beside it.        *)
(***************************************************************************)

SleeperPredatesViewers ==
  \A t \in Viewers : timer[t] = "sleeping" =>
    \A v \in Counted : pc[v] = "counted" \/ InQueue("Attached", v)

TimerInv == OneIdleTimer /\ SleeperPredatesViewers /\ UnwatchedSessionHasTimer

\* A step that leaves the timers alone and brings up no session nobody watches.
TimerFrame ==
  /\ timer' = timer /\ idle_timer' = idle_timer
  /\ Counted' # {} \/ state' = state \/ state' = "Idle"

\* Only the event loop and the timers themselves touch the timers.
LEMMA TimerSteps ==
  ASSUME CountInv, SessionInv, [Next]_vars
  PROVE  \/ TimerFrame
         \/ OnAttached
         \/ OnDetached
         \/ \E t \in Viewers : TimerExpires(t) \/ Teardown(t)
<1> USE DEF sessionVars, wdVars, timerVars, Goto, TimerFrame
<1>0. pc \in [Viewers -> PcStates]
  BY DEF CountInv, TypeOK
<1>1. ASSUME NEW v \in Viewers,
             Count(v) \/ Attach(v) \/ RejectNoBudget(v) \/ JoinConnecting(v)
      PROVE TimerFrame
  BY <1>1 DEF Count, Attach, RejectNoBudget, JoinConnecting
<1>2. ASSUME NEW v \in Viewers,
             JoinStreaming(v) \/ SubscribeWatch(v) \/ CheckWatch(v) \/ Subscribe(v) \/ Panic(v)
      PROVE TimerFrame
  BY <1>2 DEF JoinStreaming, SubscribeWatch, CheckWatch, Subscribe, Panic
<1>3. ASSUME NEW v \in Viewers, Detach(v) \/ Leave(v) \/ ConnectOk(v) \/ ConnectErr(v)
      PROVE TimerFrame
  BY <1>3 DEF Detach, Leave, ConnectOk, ConnectErr
<1>4. ASSUME NEW v \in Viewers, RollBack(v) PROVE TimerFrame
  BY <1>4 DEF RollBack
<1>5. ASSUME NEW v \in Viewers, StartConnect(v) PROVE TimerFrame
  <2>1. pc'[v] # "out"
    BY <1>0, <1>5 DEF StartConnect, Publish, Woken
  <2>2. v \in Counted'
    BY <2>1 DEF Counted
  <2> QED
    BY <1>5, <2>2 DEF StartConnect
<1>6. ASSUME NEW v \in Viewers, Install(v) PROVE TimerFrame
  <2>1. pc'[v] # "out"
    BY <1>0, <1>6 DEF Install, Publish, Woken
  <2>2. v \in Counted'
    BY <2>1 DEF Counted
  <2> QED
    BY <1>6, <2>2 DEF Install
<1>7. ASSUME NEW c \in Viewers, WdInstall(c) PROVE TimerFrame
  <2>1. SameChannel(c) => state = "Streaming"
    BY NoneAssumption DEF SameChannel, SessionInv, SessionConsistent
  <2> QED
    BY <1>7, <2>1 DEF WdInstall
<1>8. ASSUME NEW c \in Viewers,
             WdStopped(c) \/ WdEnded(c) \/ WdSleep(c) \/ WdWake(c) \/ WdAttempt(c)
      PROVE TimerFrame
  BY <1>8 DEF WdStopped, WdEnded, WdSleep, WdWake, WdAttempt
<1>9. ASSUME NEW c \in Viewers, WdConnectReturns(c) \/ SessionEnds(c) PROVE TimerFrame
  BY <1>9 DEF WdConnectReturns, WdConnectOk, WdConnectErr, SessionEnds
<1>10. ASSUME Refill \/ AuthFails \/ UNCHANGED vars PROVE TimerFrame
  BY <1>10 DEF Refill, AuthFails, vars
<1> QED
  BY <1>1, <1>2, <1>3, <1>4, <1>5, <1>6, <1>7, <1>8, <1>9, <1>10
  DEF Next, ViewerStep, ConnectReturns, EventLoop, TimerStep, WdStep, WdLocalStep

\* Who is counted, and whose Attached is still to come, as the queue moves.
LEMMA FreshStays ==
  ASSUME CountInv, [Next]_vars, ~OnAttached, ~OnDetached, NEW v \in Counted',
         \A u \in Counted : pc[u] = "counted" \/ InQueue("Attached", u)
  PROVE  pc'[v] = "counted" \/ InQueue("Attached", v)'
<1>0. TypeOK /\ TypeOK' /\ pc \in [Viewers -> PcStates] /\ v \in Viewers
  BY TypeStep DEF CountInv, TypeOK, Counted
<1>1. CASE CountFrame
  <2>1. v \in Counted
    BY <1>0, <1>1, CountFrameStep
  <2>2. InQueue("Attached", v)' <=> InQueue("Attached", v)
    BY <1>1 DEF CountFrame, InQueue, Event
  <2> QED
    BY <1>1, <2>1, <2>2 DEF CountFrame, Counted
<1>2. ASSUME NEW u \in Viewers, Count(u) PROVE pc'[v] = "counted" \/ InQueue("Attached", v)'
  <2>1. v \in Counted \/ v = u
    BY <1>0, <1>2, CountStep_Count
  <2>2. InQueue("Attached", v)' <=> InQueue("Attached", v)
    BY <1>2 DEF Count, InQueue, Event
  <2> QED
    BY <1>0, <1>2, <2>1, <2>2 DEF Count, Goto
<1>3. ASSUME NEW u \in Viewers, Attach(u) PROVE pc'[v] = "counted" \/ InQueue("Attached", v)'
  <2>1. v \in Counted
    BY <1>0, <1>3, CountStep_Attach
  <2>2. InQueue("Attached", v)' <=> InQueue("Attached", v) \/ v = u
    BY <1>0, <1>3, SendQueue, EventsDiffer DEF Attach
  <2> QED
    BY <1>0, <1>3, <2>1, <2>2 DEF Attach, Goto
<1>4. ASSUME NEW u \in Viewers, Detach(u) \/ Leave(u)
      PROVE pc'[v] = "counted" \/ InQueue("Attached", v)'
  <2>1. v \in Counted
    BY <1>0, <1>4, CountStep_Detach
  <2>2. InQueue("Attached", v)' <=> InQueue("Attached", v)
    BY <1>0, <1>4, SendQueue, EventsDiffer DEF Detach, Leave
  <2>3. pc[v] = "counted" => pc'[v] = "counted"
    BY <1>0, <1>4 DEF Detach, Leave, Goto
  <2> QED
    BY <2>1, <2>2, <2>3
<1> QED
  BY <1>0, <1>1, <1>2, <1>3, <1>4, CountSteps

\* Every step keeps the timers right.
LEMMA TimerStepInv == CountInv /\ SessionInv /\ TimerInv /\ [Next]_vars => TimerInv'
<1> SUFFICES ASSUME CountInv, SessionInv, TimerInv, [Next]_vars PROVE TimerInv'
  OBVIOUS
<1> USE DEF TimerInv
<1>0. /\ TypeOK /\ TypeOK' /\ CountInv'
      /\ timer \in [Viewers -> {"none", "sleeping", "firing"}]
      /\ timer' \in [Viewers -> {"none", "sleeping", "firing"}]
  BY TypeStep, CountStep DEF CountInv, TypeOK
<1>1. CASE OnAttached
  <2>1. Counted' # {}
    BY <1>0, <1>1, CountStep_OnAttached
  <2>2. \A t \in Viewers : timer'[t] # "sleeping"
    BY <1>0, <1>1, NoneAssumption DEF OnAttached, Abort, OneIdleTimer
  <2> QED
    BY <2>1, <2>2 DEF OneIdleTimer, SleeperPredatesViewers, UnwatchedSessionHasTimer
<1>2. CASE OnDetached
  <2>1. PICK v \in Viewers : v = Head(events).viewer
    BY <1>0, <1>2, CountStep_OnDetached, CountedFinite
  <2>2. v \in Counted /\ pc[v] = "out" /\ ~InQueue("Attached", v) /\ Counted' = Counted \ {v}
    BY <1>0, <1>2, <2>1, CountStep_OnDetached
  <2>3. \A t \in Viewers : timer[t] # "sleeping"
    BY <2>2 DEF SleeperPredatesViewers
  <2>4. viewer_count' = viewer_count - 1 /\ viewer_count \in Int
    BY <1>0, <1>2 DEF OnDetached, TypeOK
  <2>5. CASE NobodyLeft(viewer_count - 1)
    <3>1. timer' = [timer EXCEPT ![v] = "sleeping"] /\ idle_timer' = v
      BY <1>2, <2>1, <2>5 DEF OnDetached
    <3>2. Counted' = {}
      <4>1. Cardinality(Counted') <= 0
        BY <1>0, <2>4, <2>5 DEF CountInv, CountMatches, NobodyLeft
      <4>2. IsFiniteSet(Counted') /\ Cardinality(Counted') \in Nat
        BY <2>2, CountedFinite, FS_RemoveElement, FS_CardinalityType
      <4> QED
        BY <4>1, <4>2, FS_EmptySet
    <3> QED
      BY <1>0, <2>3, <3>1, <3>2
      DEF OneIdleTimer, SleeperPredatesViewers, UnwatchedSessionHasTimer
  <2>6. CASE ~NobodyLeft(viewer_count - 1)
    <3>1. timer' = timer
      BY <1>2, <2>6 DEF OnDetached, timerVars
    <3>2. Counted' # {}
      <4>1. Cardinality(Counted') > 0
        BY <1>0, <2>4, <2>6 DEF CountInv, CountMatches, NobodyLeft
      <4> QED
        BY <4>1, FS_EmptySet
    <3> QED
      BY <2>3, <3>1, <3>2 DEF OneIdleTimer, SleeperPredatesViewers, UnwatchedSessionHasTimer
  <2> QED
    BY <2>5, <2>6
<1>3. ASSUME NEW t \in Viewers, TimerExpires(t) PROVE TimerInv'
  <2>1. /\ timer' = [timer EXCEPT ![t] = "firing"] /\ idle_timer' = idle_timer
        /\ state' = state /\ timer[t] = "sleeping" /\ events' = events /\ pc' = pc
    BY <1>3 DEF TimerExpires, sessionVars
  <2>2. Counted' = Counted /\ \A u : InQueue("Attached", u)' <=> InQueue("Attached", u)
    BY <2>1 DEF Counted, InQueue, Event
  <2> QED
    BY <1>0, <2>1, <2>2 DEF OneIdleTimer, SleeperPredatesViewers, UnwatchedSessionHasTimer
<1>4. ASSUME NEW t \in Viewers, Teardown(t) PROVE TimerInv'
  <2>1. /\ timer' = [timer EXCEPT ![t] = "none"] /\ idle_timer' = idle_timer
        /\ timer[t] = "firing" /\ events' = events /\ viewer_count' = viewer_count
        /\ ~OnAttached /\ ~OnDetached
    BY <1>0, <1>4 DEF Teardown, OnAttached, OnDetached, TypeOK
  <2>2. OneIdleTimer'
    BY <1>0, <2>1 DEF OneIdleTimer
  <2>3. SleeperPredatesViewers'
    <3> SUFFICES ASSUME NEW u \in Viewers, timer'[u] = "sleeping", NEW v \in Counted'
                 PROVE  pc'[v] = "counted" \/ InQueue("Attached", v)'
      BY DEF SleeperPredatesViewers
    <3>1. timer[u] = "sleeping"
      BY <1>0, <2>1
    <3> QED
      BY <2>1, <3>1, FreshStays DEF SleeperPredatesViewers
  <2>4. UnwatchedSessionHasTimer'
    <3>1. CASE TeardownDue
      BY <1>4, <3>1 DEF Teardown, UnwatchedSessionHasTimer
    <3>2. CASE state = "Idle"
      BY <1>4, <3>2 DEF Teardown, TeardownDue, sessionVars, UnwatchedSessionHasTimer
    <3>3. CASE viewer_count > 0
      <4>1. Cardinality(Counted') > 0
        BY <1>0, <2>1, <3>3 DEF CountInv, CountMatches
      <4>2. Counted' # {}
        BY <4>1, FS_EmptySet
      <4> QED
        BY <4>2 DEF UnwatchedSessionHasTimer
    <3> QED
      BY <1>0, <3>1, <3>2, <3>3 DEF TeardownDue, TypeOK
  <2> QED
    BY <2>2, <2>3, <2>4
<1>5. CASE TimerFrame /\ ~OnAttached /\ ~OnDetached
  <2>1. OneIdleTimer'
    BY <1>5 DEF TimerFrame, OneIdleTimer
  <2>2. SleeperPredatesViewers'
    <3> SUFFICES ASSUME NEW u \in Viewers, timer'[u] = "sleeping", NEW v \in Counted'
                 PROVE  pc'[v] = "counted" \/ InQueue("Attached", v)'
      BY DEF SleeperPredatesViewers
    <3> QED
      BY <1>5, FreshStays DEF TimerFrame, SleeperPredatesViewers
  <2>3. UnwatchedSessionHasTimer'
    <3> SUFFICES ASSUME Counted' = {}, state' # "Idle"
                 PROVE  \E t \in Viewers : timer'[t] # "none"
      BY DEF UnwatchedSessionHasTimer
    <3>1. state # "Idle"
      BY <1>5 DEF TimerFrame
    <3>2. Counted = {}
      BY <1>0, CountSteps, CountFrameStep, CountStep_Count, CountStep_Attach,
        CountStep_Detach, <1>5
    <3> QED
      BY <1>5, <3>1, <3>2 DEF TimerFrame, UnwatchedSessionHasTimer
  <2> QED
    BY <2>1, <2>2, <2>3
<1> QED
  BY <1>1, <1>2, <1>3, <1>4, <1>5, TimerSteps

\* No timer runs and no session is up at first.
LEMMA TimerInit == Init => TimerInv
<1> SUFFICES ASSUME Init PROVE TimerInv
  OBVIOUS
<1>1. \A t \in Viewers : timer[t] = "none"
  BY DEF Init
<1>2. state = "Idle"
  BY DEF Init
<1> QED
  BY <1>1, <1>2 DEF TimerInv, OneIdleTimer, SleeperPredatesViewers, UnwatchedSessionHasTimer

\* The invariants on count, session and timers together are inductive.
THEOREM TimerInvariant == Spec => [](CountInv /\ SessionInv /\ TimerInv)
  BY CountInit, CountStep, SessionInit, SessionStep, TimerInit, TimerStepInv, PTL DEF Spec

\* The event loop never loses the handle of an idle timer that still sleeps.
THEOREM IdleTimerIsUnique == Spec => []OneIdleTimer
<1>1. TimerInv => OneIdleTimer
  BY DEF TimerInv
<1> QED
  BY <1>1, TimerInvariant, PTL

\* A session that nobody watches is never forgotten: an idle timer is pending.
THEOREM UnwatchedIsTimed == Spec => []UnwatchedSessionHasTimer
<1>1. TimerInv => UnwatchedSessionHasTimer
  BY DEF TimerInv
<1> QED
  BY <1>1, TimerInvariant, PTL

-----------------------------------------------------------------------------
(***************************************************************************)
(* Ownership.  A running camera session costs bandwidth until somebody     *)
(* drops its StopHandle, so somebody must always hold it.                  *)
(***************************************************************************)

\* A watchdog holds a session exactly between its connect() and its install.
CandidateHeld == \A c \in Viewers : candidate[c] # "none" <=> wd[c] = "connected"

\* The watchdog of a channel is spawned after its session is installed.
NoWatchdogYet ==
  \A v \in Viewers :
    pc[v] \in {"counted", "attached", "connecting", "connected", "failed"} => wd[v] = "none"

SessionHeld == \A c \in Viewers : sess[c] = "up" => stop = c \/ pc[c] = "connected"

OwnerInv == CandidateHeld /\ NoWatchdogYet /\ SessionHeld

\* Every step keeps running sessions owned.
LEMMA OwnerStepInv == CountInv /\ SessionInv /\ OwnerInv /\ [Next]_vars => OwnerInv'
<1> SUFFICES ASSUME CountInv, SessionInv, OwnerInv, [Next]_vars PROVE OwnerInv'
  OBVIOUS
<1> USE DEF sessionVars, wdVars, timerVars, Goto, WdGoto
<1>0. /\ pc \in [Viewers -> PcStates] /\ wd \in [Viewers -> WdStates]
      /\ sess \in [Viewers -> {"none", "up", "ended"}]
      /\ candidate \in [Viewers -> {"none", "up", "ended"}]
  BY DEF CountInv, TypeOK
<1>2. ASSUME NEW v \in Viewers, Count(v) \/ Attach(v) \/ RejectNoBudget(v) PROVE OwnerInv'
  BY <1>0, <1>2 DEF Count, Free, Attach, RejectNoBudget, OwnerInv, CandidateHeld,
    NoWatchdogYet, SessionHeld
<1>3. ASSUME NEW v \in Viewers,
             JoinConnecting(v) \/ JoinStreaming(v) \/ SubscribeWatch(v) \/ CheckWatch(v)
      PROVE OwnerInv'
  BY <1>0, <1>3 DEF JoinConnecting, JoinStreaming, SubscribeWatch, CheckWatch, OwnerInv,
    CandidateHeld, NoWatchdogYet, SessionHeld
<1>4. ASSUME NEW v \in Viewers, Subscribe(v) \/ Panic(v) \/ Detach(v) \/ Leave(v)
      PROVE OwnerInv'
  BY <1>0, <1>4 DEF Subscribe, Panic, Detach, Leave, OwnerInv, CandidateHeld, NoWatchdogYet,
    SessionHeld
<1>5. ASSUME NEW v \in Viewers, ConnectOk(v) \/ ConnectErr(v) PROVE OwnerInv'
  BY <1>0, <1>5 DEF ConnectOk, ConnectErr, OwnerInv, CandidateHeld, NoWatchdogYet, SessionHeld
<1>6. ASSUME NEW v \in Viewers, StartConnect(v) \/ RollBack(v) PROVE OwnerInv'
  BY <1>0, <1>6 DEF StartConnect, RollBack, Publish, Woken, OwnerInv, CandidateHeld,
    NoWatchdogYet, SessionHeld
<1>7. ASSUME NEW v \in Viewers, Install(v) PROVE OwnerInv'
  <2>1. stop = None /\ \A u \in Viewers : pc[u] = "connected" => u = v
    BY <1>7 DEF Install, SessionInv, SessionConsistent, OneConnector, Connectors
  <2>2. /\ wd' = [wd EXCEPT ![v] = "watching"] /\ candidate' = candidate /\ sess' = sess
        /\ stop' = v /\ wd[v] = "none" /\ pc'[v] = "reading"
        /\ \A u \in Viewers \ {v} : pc'[u] \notin {"awaiting", "checking"} => pc'[u] = pc[u]
    BY <1>0, <1>7 DEF Install, Publish, Woken, OwnerInv, NoWatchdogYet
  <2>3. CandidateHeld'
    BY <1>0, <2>2 DEF OwnerInv, CandidateHeld
  <2>4. NoWatchdogYet'
    BY <1>0, <2>2 DEF OwnerInv, NoWatchdogYet
  <2>5. SessionHeld'
    BY <2>1, <2>2, NoneAssumption DEF OwnerInv, SessionHeld
  <2> QED
    BY <2>3, <2>4, <2>5 DEF OwnerInv
<1>8. ASSUME OnAttached \/ OnDetached PROVE OwnerInv'
  BY <1>8 DEF OnAttached, OnDetached, OwnerInv, CandidateHeld, NoWatchdogYet, SessionHeld
<1>9. ASSUME NEW t \in Viewers, TimerExpires(t) PROVE OwnerInv'
  BY <1>9 DEF TimerExpires, OwnerInv, CandidateHeld, NoWatchdogYet, SessionHeld
<1>10. ASSUME NEW t \in Viewers, Teardown(t) PROVE OwnerInv'
  <2>1. CASE TeardownDue
    <3>1. \A v \in Viewers : pc[v] = "out"
      BY <2>1, Unwatched DEF TeardownDue
    <3>2. \A v \in Viewers : pc'[v] = "out"
      BY <1>10, <2>1, <3>1 DEF Teardown, Publish, Woken
    <3>3. wd' = wd /\ candidate' = candidate /\ \A c \in Viewers : sess'[c] # "up"
      BY <1>10, <2>1, <3>1 DEF Teardown, Dropped, OwnerInv, SessionHeld
    <3> QED
      BY <3>2, <3>3 DEF OwnerInv, CandidateHeld, NoWatchdogYet, SessionHeld
  <2>2. CASE ~TeardownDue
    BY <1>10, <2>2 DEF Teardown, OwnerInv, CandidateHeld, NoWatchdogYet, SessionHeld
  <2> QED
    BY <2>1, <2>2
<1>11. ASSUME NEW c \in Viewers, WdStopped(c) \/ WdEnded(c) \/ WdWake(c) PROVE OwnerInv'
  BY <1>0, <1>11 DEF WdStopped, WdEnded, WdWake, OwnerInv, CandidateHeld, NoWatchdogYet,
    SessionHeld
<1>12. ASSUME NEW c \in Viewers, WdSleep(c) \/ WdAttempt(c) PROVE OwnerInv'
  BY <1>0, <1>12 DEF WdSleep, WdAttempt, OwnerInv, CandidateHeld, NoWatchdogYet, SessionHeld
<1>13. ASSUME NEW c \in Viewers, WdConnectReturns(c) PROVE OwnerInv'
  BY <1>0, <1>13 DEF WdConnectReturns, WdConnectOk, WdConnectErr, OwnerInv, CandidateHeld,
    NoWatchdogYet, SessionHeld
<1>14. ASSUME NEW c \in Viewers, WdInstall(c) PROVE OwnerInv'
  <2>1. /\ candidate' = [candidate EXCEPT ![c] = "none"]
        /\ wd[c] = "connected" /\ wd'[c] \in {"watching", "none"}
        /\ \A d \in Viewers \ {c} : wd'[d] = wd[d] /\ sess'[d] = sess[d]
        /\ \A u \in Viewers : pc'[u] \notin {"awaiting", "checking"} => pc'[u] = pc[u]
        /\ \A u \in Viewers : pc[u] = "connected" => pc'[u] = "connected"
    BY <1>0, <1>14 DEF WdInstall, Publish, Woken
  <2>2. CandidateHeld'
    BY <1>0, <2>1 DEF OwnerInv, CandidateHeld
  <2>3. NoWatchdogYet'
    BY <1>0, <2>1 DEF OwnerInv, NoWatchdogYet
  <2>4. SessionHeld'
    <3>1. CASE SameChannel(c)
      <4>1. stop = c /\ stop' = c
        BY <1>14, <3>1, NoneAssumption DEF WdInstall, SameChannel, SessionInv, SessionConsistent
      <4> QED
        BY <2>1, <4>1 DEF OwnerInv, SessionHeld
    <3>2. CASE ~SameChannel(c)
      BY <1>14, <2>1, <3>2 DEF WdInstall, OwnerInv, SessionHeld
    <3> QED
      BY <3>1, <3>2
  <2> QED
    BY <2>2, <2>3, <2>4 DEF OwnerInv
<1>15. ASSUME NEW c \in Viewers, SessionEnds(c) PROVE OwnerInv'
  BY <1>0, <1>15 DEF SessionEnds, OwnerInv, CandidateHeld, NoWatchdogYet, SessionHeld
<1>16. ASSUME Refill \/ AuthFails \/ UNCHANGED vars PROVE OwnerInv'
  BY <1>16 DEF Refill, AuthFails, vars, OwnerInv, CandidateHeld, NoWatchdogYet, SessionHeld
<1> QED
  BY <1>2, <1>3, <1>4, <1>5, <1>6, <1>7, <1>8, <1>9, <1>10, <1>11, <1>12, <1>13, <1>14,
     <1>15, <1>16
  DEF Next, ViewerStep, ConnectReturns, EventLoop, TimerStep, WdStep, WdLocalStep

\* There is no session at first.
LEMMA OwnerInit == Init => OwnerInv
  BY DEF Init, OwnerInv, CandidateHeld, NoWatchdogYet, SessionHeld

\* The invariants on count, session and ownership together are inductive.
THEOREM OwnerInvariant == Spec => [](CountInv /\ SessionInv /\ OwnerInv)
  BY CountInit, CountStep, SessionInit, SessionStep, OwnerInit, OwnerStepInv, PTL DEF Spec

\* A running camera session always has an owner that will drop it.
THEOREM SessionsAreOwned == Spec => []NoOrphanSession
<1>1. OwnerInv => NoOrphanSession
  BY DEF OwnerInv, CandidateHeld, SessionHeld, NoOrphanSession
<1> QED
  BY <1>1, OwnerInvariant, PTL

\* A running session is stopped by a teardown that found nobody watching, and
\* by nothing else, however late its idle timer fires.
THEOREM StopsOnlyUnwatched == Spec => StoppedOnlyUnwatched
<1> DEFINE Stopped == \A c \in Viewers : sess[c] = "up" /\ sess'[c] = "none" => Counted = {}
<1>1. CountInv /\ SessionInv /\ OwnerInv /\ [Next]_vars => Stopped
  <2> SUFFICES ASSUME CountInv, SessionInv, OwnerInv, [Next]_vars,
                      NEW c \in Viewers, sess[c] = "up", sess'[c] = "none"
               PROVE  Counted = {}
    OBVIOUS
  <2> USE DEF sessionVars, wdVars, timerVars
  <2>0. /\ sess \in [Viewers -> {"none", "up", "ended"}]
        /\ candidate \in [Viewers -> {"none", "up", "ended"}]
    BY DEF CountInv, TypeOK
  <2>1. ASSUME NEW t \in Viewers, Teardown(t) PROVE Counted = {}
    BY <2>1, Unwatched DEF Teardown, TeardownDue
  <2>2. ASSUME NEW d \in Viewers, WdInstall(d) PROVE FALSE
    BY <2>0, <2>2 DEF WdInstall, OwnerInv, CandidateHeld
  <2>3. ASSUME NEW d \in Viewers, WdEnded(d) \/ SessionEnds(d) PROVE FALSE
    BY <2>0, <2>3 DEF WdEnded, SessionEnds
  <2>4. ASSUME NEW v \in Viewers, ConnectOk(v) PROVE FALSE
    BY <2>0, <2>4 DEF ConnectOk
  <2>5. ASSUME NEW v \in Viewers, Count(v) \/ ViewerStep(v) \/ ConnectErr(v) \/ Leave(v)
        PROVE FALSE
    BY <2>5 DEF Count, ViewerStep, Attach, RejectNoBudget, StartConnect, JoinConnecting,
      JoinStreaming, RollBack, Install, SubscribeWatch, CheckWatch, Subscribe, Panic, Detach,
      ConnectErr, Leave
  <2>6. ASSUME NEW d \in Viewers,
               \/ WdStopped(d) \/ WdSleep(d) \/ WdWake(d) \/ WdAttempt(d)
               \/ WdConnectReturns(d) \/ TimerExpires(d)
        PROVE FALSE
    BY <2>6 DEF WdStopped, WdSleep, WdWake, WdAttempt, WdConnectReturns, WdConnectOk,
      WdConnectErr, TimerExpires
  <2>7. ASSUME EventLoop \/ Refill \/ AuthFails \/ UNCHANGED vars PROVE FALSE
    BY <2>7 DEF EventLoop, OnAttached, OnDetached, Refill, AuthFails, vars
  <2> QED
    BY <2>1, <2>2, <2>3, <2>4, <2>5, <2>6, <2>7 DEF Next, ConnectReturns, TimerStep, WdStep, WdLocalStep
<1> QED
  BY <1>1, OwnerInvariant, PTL DEF Spec, StoppedOnlyUnwatched
-----------------------------------------------------------------------------
(***************************************************************************)
(* The shared camera.  Every step of the supervisor is one that            *)
(* SharedCamera allows, or one that nobody notices.  The invariants above  *)
(* say who may be where; what is missing is that a session is looked after *)
(* by its watchdog for as long as it runs, so that a watchdog that comes   *)
(* back with a new session has none to replace.                            *)
(***************************************************************************)

OnlyStreamersSubscribed == \A v \in Viewers : pc[v] # "streaming" => sub[v] = None

ConnectedHasSession == \A v \in Viewers : pc[v] = "connected" => sess[v] # "none"

SessionWatched == \A c \in Viewers : sess[c] # "none" => wd[c] = "watching" \/ pc[c] = "connected"

ShareInv == OnlyStreamersSubscribed /\ ConnectedHasSession /\ SessionWatched

\* A step that moves no call into or out of the places the invariant speaks of,
\* and touches neither subscriptions nor sessions nor watchdogs.
ShareFrame ==
  /\ sub' = sub /\ sess' = sess /\ wd' = wd
  /\ \A v \in Viewers : (pc'[v] = "streaming" <=> pc[v] = "streaming")
                        /\ (pc'[v] = "connected" <=> pc[v] = "connected")

\* Every step keeps sessions watched.
LEMMA ShareStep ==
  CountInv /\ SessionInv /\ OwnerInv /\ ShareInv /\ [Next]_vars => ShareInv'
<1> SUFFICES ASSUME CountInv, SessionInv, OwnerInv, ShareInv, [Next]_vars PROVE ShareInv'
  OBVIOUS
<1> USE DEF sessionVars, wdVars, timerVars, Goto, WdGoto
<1>0. /\ pc \in [Viewers -> PcStates] /\ wd \in [Viewers -> WdStates]
      /\ sub \in [Viewers -> Viewers \cup {None}]
      /\ sess \in [Viewers -> {"none", "up", "ended"}]
      /\ candidate \in [Viewers -> {"none", "up", "ended"}]
  BY DEF CountInv, TypeOK
<1>1. ASSUME ShareFrame PROVE ShareInv'
  BY <1>1 DEF ShareFrame, ShareInv, OnlyStreamersSubscribed, ConnectedHasSession, SessionWatched
<1>2. ASSUME NEW v \in Viewers,
             Count(v) \/ Attach(v) \/ RejectNoBudget(v) \/ JoinConnecting(v) \/ JoinStreaming(v)
      PROVE ShareFrame
  BY <1>0, <1>2 DEF Count, Free, Attach, RejectNoBudget, JoinConnecting, JoinStreaming, ShareFrame
<1>3. ASSUME NEW v \in Viewers,
             SubscribeWatch(v) \/ CheckWatch(v) \/ Panic(v) \/ Detach(v) \/ ConnectErr(v)
      PROVE ShareFrame
  BY <1>0, <1>3 DEF SubscribeWatch, CheckWatch, Panic, Detach, ConnectErr, ShareFrame
<1>4. ASSUME NEW v \in Viewers, StartConnect(v) \/ RollBack(v) PROVE ShareFrame
  BY <1>0, <1>4 DEF StartConnect, RollBack, Publish, Woken, ShareFrame
<1>5. ASSUME NEW v \in Viewers, Subscribe(v) \/ Leave(v) PROVE ShareInv'
  BY <1>0, <1>5 DEF Subscribe, Leave, ShareInv, OnlyStreamersSubscribed, ConnectedHasSession,
    SessionWatched
<1>6. ASSUME NEW v \in Viewers, ConnectOk(v) PROVE ShareInv'
  BY <1>0, <1>6 DEF ConnectOk, ShareInv, OnlyStreamersSubscribed, ConnectedHasSession,
    SessionWatched
<1>7. ASSUME NEW v \in Viewers, Install(v) PROVE ShareInv'
  <2>1. /\ wd' = [wd EXCEPT ![v] = "watching"] /\ sess' = sess /\ sub' = sub
        /\ pc'[v] = "reading" /\ pc[v] = "connected"
        /\ \A u \in Viewers \ {v} : (pc'[u] = "streaming" <=> pc[u] = "streaming")
                                    /\ (pc'[u] = "connected" <=> pc[u] = "connected")
    BY <1>0, <1>7 DEF Install, Publish, Woken
  <2> QED
    BY <1>0, <2>1 DEF ShareInv, OnlyStreamersSubscribed, ConnectedHasSession, SessionWatched
<1>8. ASSUME OnAttached \/ OnDetached PROVE ShareFrame
  BY <1>8 DEF OnAttached, OnDetached, ShareFrame
<1>9. ASSUME NEW t \in Viewers, TimerExpires(t) PROVE ShareFrame
  BY <1>9 DEF TimerExpires, ShareFrame
<1>10. ASSUME NEW t \in Viewers, Teardown(t) PROVE ShareInv'
  <2>1. CASE TeardownDue
    <3>1. \A v \in Viewers : pc[v] = "out"
      BY <2>1, Unwatched DEF TeardownDue
    <3>2. /\ \A v \in Viewers : pc'[v] = "out"
          /\ wd' = wd /\ sub' = sub /\ \A c \in Viewers : sess'[c] # "none" => sess'[c] = sess[c]
      BY <1>0, <1>10, <2>1, <3>1 DEF Teardown, Publish, Woken, Dropped
    <3> QED
      BY <3>1, <3>2 DEF ShareInv, OnlyStreamersSubscribed, ConnectedHasSession, SessionWatched
  <2>2. CASE ~TeardownDue
    BY <1>1, <1>10, <2>2 DEF Teardown, ShareFrame
  <2> QED
    BY <2>1, <2>2
<1>11. ASSUME NEW c \in Viewers, WdStopped(c) \/ WdEnded(c) PROVE ShareInv'
  BY <1>0, <1>11 DEF WdStopped, WdEnded, OwnerInv, NoWatchdogYet, ShareInv,
    OnlyStreamersSubscribed, ConnectedHasSession, SessionWatched
<1>12. ASSUME NEW c \in Viewers, WdSleep(c) \/ WdWake(c) \/ WdAttempt(c) PROVE ShareInv'
  BY <1>0, <1>12 DEF WdSleep, WdWake, WdAttempt, ShareInv, OnlyStreamersSubscribed,
    ConnectedHasSession, SessionWatched
<1>13. ASSUME NEW c \in Viewers, WdConnectReturns(c) PROVE ShareInv'
  BY <1>0, <1>13 DEF WdConnectReturns, WdConnectOk, WdConnectErr, ShareInv,
    OnlyStreamersSubscribed, ConnectedHasSession, SessionWatched
<1>14. ASSUME NEW c \in Viewers, WdInstall(c) PROVE ShareInv'
  <2>1. /\ wd[c] = "connected" /\ candidate[c] # "none" /\ pc[c] # "connected" /\ sess[c] = "none"
        /\ sub' = sub
        /\ \A u \in Viewers : (pc'[u] = "streaming" <=> pc[u] = "streaming")
                              /\ (pc'[u] = "connected" <=> pc[u] = "connected")
    BY <1>0, <1>14 DEF WdInstall, Publish, Woken, OwnerInv, CandidateHeld, NoWatchdogYet, ShareInv,
      SessionWatched
  <2>2. \/ wd' = [wd EXCEPT ![c] = "watching"] /\ sess' = [sess EXCEPT ![c] = candidate[c]]
        \/ wd' = [wd EXCEPT ![c] = "none"] /\ sess' = sess
    BY <1>14 DEF WdInstall
  <2> QED
    BY <1>0, <2>1, <2>2 DEF ShareInv, OnlyStreamersSubscribed, ConnectedHasSession, SessionWatched
<1>15. ASSUME NEW c \in Viewers, SessionEnds(c) PROVE ShareInv'
  BY <1>0, <1>15 DEF SessionEnds, ShareInv, OnlyStreamersSubscribed, ConnectedHasSession,
    SessionWatched
<1>16. ASSUME Refill \/ AuthFails \/ UNCHANGED vars PROVE ShareFrame
  BY <1>16 DEF Refill, AuthFails, vars, ShareFrame
<1> QED
  BY <1>1, <1>2, <1>3, <1>4, <1>5, <1>6, <1>7, <1>8, <1>9, <1>10, <1>11, <1>12, <1>13, <1>14,
     <1>15, <1>16
  DEF Next, ViewerStep, ConnectReturns, EventLoop, TimerStep, WdStep, WdLocalStep

\* Nobody is subscribed and nothing runs at first.
LEMMA ShareInit == Init => ShareInv
  BY DEF Init, ShareInv, OnlyStreamersSubscribed, ConnectedHasSession, SessionWatched

\* All the invariants on count, session, viewers, ownership and sharing.
SharedInv == CountInv /\ SessionInv /\ ViewerInv /\ OwnerInv /\ ShareInv

LEMMA SharedInvariant == Spec => []SharedInv
<1>1. Init => SharedInv
  BY CountInit, SessionInit, ViewerInit, OwnerInit, ShareInit DEF SharedInv
<1>2. SharedInv /\ [Next]_vars => SharedInv'
  BY CountStep, SessionStep, ViewerStepInv, OwnerStepInv, ShareStep DEF SharedInv
<1> QED
  BY <1>1, <1>2, PTL DEF Spec

\* Only a call that counts itself and an event that gives one back change who
\* is counted.
LEMMA WhoCounts ==
  ASSUME CountInv, TypeOK', [Next]_vars
  PROVE  \/ Counted' = Counted
         \/ \E v \in Viewers : Count(v)
         \/ OnDetached
  BY CountSteps, CountFrameStep, CountStep_Attach, CountStep_Detach, CountStep_OnAttached
  DEF CountInv

\* A step that SharedCamera does not notice, when nobody is counted or given back.
CameraFrame ==
  /\ state' = state /\ rtp_tx' = rtp_tx /\ sub' = sub
  /\ rtp_tx # None => sess'[rtp_tx] = sess[rtp_tx]

\* Every step of the supervisor is a step of the shared camera, or none.
LEMMA CameraStep ==
  SharedInv /\ TypeOK' /\ [Next]_vars => [Camera!Next]_Camera!cameraVars
<1> SUFFICES ASSUME SharedInv, TypeOK', [Next]_vars PROVE [Camera!Next]_Camera!cameraVars
  OBVIOUS
<1> DEFINE Seen == [Camera!Next]_Camera!cameraVars
<1> USE DEF sessionVars, wdVars, timerVars, Goto, WdGoto
<1>0. /\ pc \in [Viewers -> PcStates] /\ wd \in [Viewers -> WdStates]
      /\ sub \in [Viewers -> Viewers \cup {None}] /\ rtp_tx \in Viewers \cup {None}
      /\ sess \in [Viewers -> {"none", "up", "ended"}]
      /\ candidate \in [Viewers -> {"none", "up", "ended"}]
  BY DEF SharedInv, CountInv, TypeOK
<1>00. /\ CountInv /\ SessionConsistent /\ OneConnector /\ SubscriptionIsCurrent
       /\ CandidateHeld /\ NoWatchdogYet
       /\ OnlyStreamersSubscribed /\ ConnectedHasSession /\ SessionWatched
  BY DEF SharedInv, SessionInv, ViewerInv, OwnerInv, ShareInv
<1>000. \A v \in Viewers : pc[v] # "out" => v \in Counted
  BY DEF Counted
<1>1. ASSUME CameraFrame, Counted' = Counted PROVE Seen
  BY <1>1 DEF CameraFrame, Camera!cameraVars, Link
<1>2. ASSUME NEW v \in Viewers, Count(v) PROVE Seen
  <2>1. v \notin Counted
    BY <1>2 DEF Count, Free, Counted
  <2>2. Counted' = Counted \cup {v}
    BY <1>00, <1>2, CountStep_Count
  <2>3. Camera!Arrive(v)
    BY <1>2, <2>1, <2>2 DEF Count, Camera!Arrive, Link
  <2> QED
    BY <2>3 DEF Camera!Next
<1>3. ASSUME OnDetached PROVE Seen
  <2> PICK v : v = Head(events).viewer
    OBVIOUS
  <2>1. v \in Counted /\ pc[v] = "out" /\ Counted' = Counted \ {v}
    BY <1>00, <1>3, CountStep_OnDetached
  <2>2. v \in Viewers /\ sub[v] = None
    BY <1>00, <2>1 DEF Counted, OnlyStreamersSubscribed
  <2>3. Camera!Depart(v)
    BY <1>3, <2>1, <2>2 DEF OnDetached, Camera!Depart, Link
  <2> QED
    BY <2>2, <2>3 DEF Camera!Next
<1> SUFFICES ASSUME Counted' = Counted PROVE Seen
  BY <1>00, <1>2, <1>3, WhoCounts
<1>4. ASSUME NEW v \in Viewers, StartConnect(v) PROVE Seen
  <2>1. Counted # {}
    BY <1>000, <1>4 DEF StartConnect
  <2>2. Camera!Begin
    BY <1>4, <2>1 DEF StartConnect, Camera!Begin, Link
  <2> QED
    BY <2>2 DEF Camera!Next
<1>5. ASSUME NEW v \in Viewers, RollBack(v) PROVE Seen
  <2>1. CASE state = "Connecting"
    <3>1. Camera!GiveUp
      BY <1>5, <2>1 DEF RollBack, Camera!GiveUp, Link
    <3> QED
      BY <3>1 DEF Camera!Next
  <2>2. CASE state # "Connecting"
    BY <1>1, <1>5, <2>2 DEF RollBack, CameraFrame
  <2> QED
    BY <2>1, <2>2
<1>6. ASSUME NEW v \in Viewers, ConnectOk(v) PROVE Seen
  <2>1. state = "Connecting"
    BY <1>00, <1>6 DEF ConnectOk, OneConnector, Connectors
  <2>2. rtp_tx = None
    BY <1>00, <2>1 DEF SessionConsistent
  <2> QED
    BY <1>1, <1>6, <2>2 DEF ConnectOk, CameraFrame
<1>7. ASSUME NEW v \in Viewers, Install(v) PROVE Seen
  <2>1. state = "Connecting" /\ v \in Counted /\ sess[v] \in {"up", "ended"}
    BY <1>0, <1>00, <1>000, <1>7 DEF Install, OneConnector, Connectors, ConnectedHasSession
  <2>2. Link' \in {"up", "ended"}
    BY <1>7, <2>1, NoneAssumption DEF Install, Link
  <2>3. Camera!Open(v)
    BY <1>7, <2>1, <2>2 DEF Install, Camera!Open
  <2> QED
    BY <2>3 DEF Camera!Next
<1>8. ASSUME NEW v \in Viewers, Subscribe(v) PROVE Seen
  <2>1. state = "Streaming" /\ v \in Counted /\ sub[v] = None
    BY <1>00, <1>000, <1>8 DEF Subscribe, SessionConsistent, OnlyStreamersSubscribed
  <2>2. Camera!Take(v)
    BY <1>8, <2>1 DEF Subscribe, Camera!Take, Link
  <2> QED
    BY <2>2 DEF Camera!Next
<1>9. ASSUME NEW v \in Viewers, Leave(v) PROVE Seen
  <2>1. sub[v] # None
    BY <1>00, <1>9 DEF Leave, SubscriptionIsCurrent, SessionConsistent
  <2>2. Camera!Release(v)
    BY <1>9, <2>1 DEF Leave, Camera!Release, Link
  <2> QED
    BY <2>2 DEF Camera!Next
<1>10. ASSUME NEW v \in Viewers,
              \/ Attach(v) \/ RejectNoBudget(v) \/ JoinConnecting(v) \/ JoinStreaming(v)
              \/ SubscribeWatch(v) \/ CheckWatch(v) \/ Panic(v) \/ Detach(v) \/ ConnectErr(v)
       PROVE Seen
  BY <1>1, <1>10 DEF Attach, RejectNoBudget, JoinConnecting, JoinStreaming, SubscribeWatch,
    CheckWatch, Panic, Detach, ConnectErr, CameraFrame
<1>11. ASSUME OnAttached \/ Refill \/ AuthFails \/ UNCHANGED vars PROVE Seen
  BY <1>1, <1>11 DEF OnAttached, Refill, AuthFails, vars, CameraFrame
<1>12. ASSUME NEW t \in Viewers, TimerExpires(t) PROVE Seen
  BY <1>1, <1>12 DEF TimerExpires, CameraFrame
<1>13. ASSUME NEW t \in Viewers, Teardown(t) PROVE Seen
  <2>1. CASE TeardownDue
    <3>1. Counted = {} /\ Connectors = {}
      BY <1>00, <2>1, Unwatched DEF TeardownDue, Connectors
    <3>2. state = "Streaming"
      BY <1>00, <2>1, <3>1 DEF TeardownDue, OneConnector, SharedInv, CountInv, TypeOK, States
    <3>3. Camera!Close
      BY <1>13, <2>1, <3>1, <3>2 DEF Teardown, Camera!Close, Link
    <3> QED
      BY <3>3 DEF Camera!Next
  <2>2. CASE ~TeardownDue
    BY <1>1, <1>13, <2>2 DEF Teardown, CameraFrame
  <2> QED
    BY <2>1, <2>2
<1>14. ASSUME NEW c \in Viewers, WdEnded(c) PROVE Seen
  <2>1. CASE rtp_tx = c
    <3>1. Camera!Notice
      BY <1>0, <1>14, <2>1, NoneAssumption DEF WdEnded, Camera!Notice, Link
    <3> QED
      BY <3>1 DEF Camera!Next
  <2>2. CASE rtp_tx # c
    BY <1>0, <1>1, <1>14, <2>2 DEF WdEnded, CameraFrame
  <2> QED
    BY <2>1, <2>2
<1>15. ASSUME NEW c \in Viewers, WdInstall(c) PROVE Seen
  <2>1. CASE rtp_tx = c
    <3>1. wd[c] = "connected" /\ pc[c] # "connected" /\ candidate[c] \in {"up", "ended"}
      BY <1>0, <1>00, <1>15 DEF WdInstall, CandidateHeld, NoWatchdogYet
    <3>2. sess[c] = "none" /\ state = "Streaming"
      BY <1>0, <1>00, <2>1, <3>1, NoneAssumption DEF SessionWatched, SessionConsistent
    <3>3. Camera!Renew
      BY <1>0, <1>15, <2>1, <3>1, <3>2, NoneAssumption DEF WdInstall, SameChannel, Camera!Renew,
        Link
    <3> QED
      BY <3>3 DEF Camera!Next
  <2>2. CASE rtp_tx # c
    BY <1>1, <1>15, <2>2 DEF WdInstall, SameChannel, CameraFrame
  <2> QED
    BY <2>1, <2>2
<1>16. ASSUME NEW c \in Viewers,
              WdStopped(c) \/ WdSleep(c) \/ WdWake(c) \/ WdAttempt(c) \/ WdConnectReturns(c)
       PROVE Seen
  BY <1>1, <1>16 DEF WdStopped, WdSleep, WdWake, WdAttempt, WdConnectReturns, WdConnectOk,
    WdConnectErr, CameraFrame
<1>17. ASSUME NEW c \in Viewers, SessionEnds(c) PROVE Seen
  <2>1. CASE rtp_tx = c /\ sess' # sess
    <3>1. Camera!Lose
      BY <1>0, <1>17, <2>1, NoneAssumption DEF SessionEnds, Camera!Lose, Link
    <3> QED
      BY <3>1 DEF Camera!Next
  <2>2. CASE rtp_tx # c \/ sess' = sess
    BY <1>0, <1>1, <1>17, <2>2 DEF SessionEnds, CameraFrame
  <2> QED
    BY <2>1, <2>2
<1> QED
  BY <1>3, <1>4, <1>5, <1>6, <1>7, <1>8, <1>9, <1>10, <1>11, <1>12, <1>13, <1>14, <1>15, <1>16,
     <1>17, <1>2
  DEF Next, ViewerStep, ConnectReturns, EventLoop, TimerStep, WdStep, WdLocalStep

\* The supervisor implements the shared camera: at first nobody is there and
\* nothing runs, and every step of a call, the event loop, a timer, a watchdog
\* or the camera is one that the shared camera makes, or none of its concern.
THEOREM SupervisorSharesCamera == Spec => SharesCamera
<1>1. Init => Camera!Init
  BY DEF Init, Camera!Init, Counted, InQueue, Link
<1>2. SharedInv => TypeOK
  BY DEF SharedInv, CountInv
<1> QED
  BY <1>1, <1>2, SharedInvariant, CameraStep, PTL DEF Spec, SharesCamera, Camera!Spec
=============================================================================
