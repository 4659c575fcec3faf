----------------------------- MODULE Supervisor -----------------------------
(***************************************************************************)
(* The session supervisor of buddy3d-proxy (src/supervisor/mod.rs).        *)
(*                                                                         *)
(* One camera session is shared by all RTSP viewers.  The first viewer     *)
(* brings it up, later ones join, the last one to leave arms an idle timer *)
(* that tears it down, and a watchdog per broadcast channel reconnects a   *)
(* session that died by itself.  The actors are the viewers' subscribe()   *)
(* calls, the viewer event loop, the idle timers, the watchdogs and the    *)
(* camera; a step of the model is what one of them does between two        *)
(* points where another may run (a lock, an await, an atomic operation).   *)
(*                                                                         *)
(* A member of Viewers names one call of subscribe() together with the     *)
(* Subscription it returns.  The broadcast channel the call creates, the   *)
(* watchdog of that channel and the idle timer armed when the call's       *)
(* Detached event is handled bear its name: each exists at most once per   *)
(* call.  A name nothing bears any more is free for a later call, so that  *)
(* Viewers bounds what exists at a time and not the calls there ever are.  *)
(***************************************************************************)
EXTENDS Integers, Sequences, FiniteSets

CONSTANTS
  Viewers,   \* calls of subscribe()
  Capacity,  \* capacity of the reconnect budget
  None       \* the None of Option

ASSUME ViewersAssumption == IsFiniteSet(Viewers)
ASSUME CapacityAssumption == Capacity \in Nat \ {0}
ASSUME NoneAssumption == None \notin Viewers

VARIABLES
  \* Shared state: the atomic counter, the event queue, the mutex-protected
  \* SessionState and the watch channel that publishes its state.
  viewer_count, events, state, rtp_tx, stop, h264, state_watch,
  \* Configuration: with MQTT, the state watcher holds a receiver of
  \* state_watch as long as the process runs.
  mqtt,
  \* subscribe(): where each call is, and the channel its receiver reads.
  pc, sub,
  \* Watchdogs: where each is, which sleep until the budget's next refill,
  \* and the session it connected but has not installed yet.
  wd, owed, candidate,
  \* The camera session behind the StopHandle of each channel: not running,
  \* up, or ended by itself and the watchdog not told yet.
  sess,
  \* The reconnect budget and the auth orchestrator's failure latch.
  tokens, auth_failed,
  \* Idle timers: the spawned tasks, and the event loop's handle on one.
  timer, idle_timer

\* What most steps leave alone, by owner.
sessionVars == <<state, rtp_tx, stop, h264, state_watch>>
wdVars == <<wd, owed, candidate>>
timerVars == <<timer, idle_timer>>
vars == <<viewer_count, events, state, rtp_tx, stop, h264, state_watch, mqtt, pc,
          sub, wd, owed, candidate, sess, tokens, auth_failed, timer, idle_timer>>

-----------------------------------------------------------------------------
States == {"Idle", "Connecting", "Streaming"}

PcStates == {"out", "counted", "attached", "connecting", "connected", "failed",
             "subscribing", "checking", "awaiting", "giving_up", "detaching",
             "reading", "streaming", "panicked"}

WdStates == {"none", "watching", "backoff", "sleeping", "counting",
             "connecting", "connected"}

Events == [ev : {"Attached", "Detached"}, viewer : Viewers]

Event(kind, v) == [ev |-> kind, viewer |-> v]

\* Every variable stays in its domain.
TypeOK ==
  /\ viewer_count \in Int
  /\ events \in Seq(Events)
  /\ state \in States
  /\ rtp_tx \in Viewers \cup {None}
  /\ stop \in Viewers \cup {None}
  /\ h264 \in Viewers \cup {None}
  /\ state_watch \in States
  /\ mqtt \in BOOLEAN
  /\ pc \in [Viewers -> PcStates]
  /\ sub \in [Viewers -> Viewers \cup {None}]
  /\ wd \in [Viewers -> WdStates]
  /\ owed \subseteq Viewers
  /\ candidate \in [Viewers -> {"none", "up", "ended"}]
  /\ sess \in [Viewers -> {"none", "up", "ended"}]
  /\ tokens \in 0..Capacity
  /\ auth_failed \in BOOLEAN
  /\ timer \in [Viewers -> {"none", "sleeping", "firing"}]
  /\ idle_timer \in Viewers \cup {None}

Init ==
  /\ viewer_count = 0
  /\ events = << >>
  /\ state = "Idle"
  /\ rtp_tx = None
  /\ stop = None
  /\ h264 = None
  /\ state_watch = "Idle"
  /\ mqtt \in BOOLEAN
  /\ pc = [v \in Viewers |-> "out"]
  /\ sub = [v \in Viewers |-> None]
  /\ wd = [c \in Viewers |-> "none"]
  /\ owed = {}
  /\ candidate = [c \in Viewers |-> "none"]
  /\ sess = [c \in Viewers |-> "none"]
  /\ tokens = Capacity
  /\ auth_failed = FALSE
  /\ timer = [t \in Viewers |-> "none"]
  /\ idle_timer = None

-----------------------------------------------------------------------------
(***************************************************************************)
(* The watch channel.  tokio's watch::Sender::send stores nothing when no  *)
(* receiver exists; otherwise it stores the value and wakes every receiver *)
(* that waits in changed().                                                *)
(***************************************************************************)
Receivers == {v \in Viewers : pc[v] \in {"checking", "awaiting", "giving_up"}}

Woken(next) == [v \in Viewers |-> IF next[v] = "awaiting" THEN "checking" ELSE next[v]]

\* state_watch.send(s), in a step that also moves the subscribe() calls to next.
Publish(s, next) ==
  /\ state_watch' = IF mqtt \/ Receivers # {} THEN s ELSE state_watch
  /\ pc' = Woken(next)

Goto(v, label) == pc' = [pc EXCEPT ![v] = label]

\* viewer_tx.send(...)
Send(kind, v) == events' = Append(events, Event(kind, v))

(***************************************************************************)
(* The reconnect budget, as ReconnectBudget shows it to its callers.  A    *)
(* watchdog that found it empty sleeps until the next refill is due; the   *)
(* bucket restarts its refill clock when it becomes full, so a sleeper's   *)
(* deadline may then pass without a refill.                                *)
(***************************************************************************)
RecordSuccess ==
  /\ tokens' = IF tokens < Capacity THEN tokens + 1 ELSE Capacity
  /\ owed' = IF tokens' < Capacity THEN owed ELSE {}

\* Mutant: the subtraction does not saturate.
RecordFailureBelowZero == tokens' = tokens - 1 /\ UNCHANGED owed

RecordFailure ==
  /\ tokens' = IF tokens > 0 THEN tokens - 1 ELSE 0
  /\ UNCHANGED owed

-----------------------------------------------------------------------------
(***************************************************************************)
(* subscribe()                                                             *)
(***************************************************************************)

\* Is there an event of this kind in the queue?
InQueue(kind, v) == \E i \in 1..Len(events) : events[i] = Event(kind, v)

\* Nothing bears the name v.
Free(v) ==
  /\ pc[v] = "out"
  /\ \A kind \in {"Attached", "Detached"} : ~InQueue(kind, v)
  /\ timer[v] = "none"
  /\ rtp_tx # v
  /\ wd[v] = "none"

\* Count the viewer before anything else.
Count(v) ==
  /\ Free(v)
  /\ viewer_count' = viewer_count + 1
  /\ Goto(v, "counted")
  /\ UNCHANGED <<mqtt, events, sessionVars, sub, wdVars, sess, tokens, auth_failed, timerVars>>

\* Tell the event loop.
Attach(v) ==
  /\ pc[v] = "counted"
  /\ Send("Attached", v)
  /\ Goto(v, "attached")
  /\ UNCHANGED <<mqtt, viewer_count, sessionVars, sub, wdVars, sess, tokens, auth_failed, timerVars>>

\* Lock, Idle, and no token: fail fast.
RejectNoBudget(v) ==
  /\ pc[v] = "attached"
  /\ state = "Idle"
  /\ tokens = 0
  /\ Goto(v, "detaching")
  /\ UNCHANGED <<mqtt, viewer_count, events, sessionVars, sub, wdVars, sess, tokens, auth_failed, timerVars>>

\* Lock, Idle, and a token: this call brings the session up.
StartConnect(v) ==
  /\ pc[v] = "attached"
  /\ state = "Idle"
  /\ tokens > 0
  /\ state' = "Connecting"
  /\ Publish("Connecting", [pc EXCEPT ![v] = "connecting"])
  /\ UNCHANGED <<mqtt, viewer_count, events, rtp_tx, stop, h264, sub, wdVars, sess, tokens, auth_failed, timerVars>>

\* factory.connect() returns a session on the new channel v.
ConnectOk(v) ==
  /\ pc[v] = "connecting"
  /\ sess' = [sess EXCEPT ![v] = "up"]
  /\ RecordSuccess
  /\ Goto(v, "connected")
  /\ UNCHANGED <<mqtt, viewer_count, events, sessionVars, sub, wd, candidate, auth_failed, timerVars>>

ConnectErr(v) ==
  /\ pc[v] = "connecting"
  /\ RecordFailure
  /\ Goto(v, "failed")
  /\ UNCHANGED <<mqtt, viewer_count, events, sessionVars, sub, wd, candidate, sess, auth_failed, timerVars>>

\* Mutant: the failed call leaves the state Connecting.
RollBackNothing(v) ==
  /\ pc[v] = "failed"
  /\ Goto(v, "detaching")
  /\ UNCHANGED <<mqtt, viewer_count, events, sessionVars, sub, wdVars, sess, tokens, auth_failed, timerVars>>

\* Mutant: the state is reset but not published.
RollBackSilently(v) ==
  /\ pc[v] = "failed"
  /\ state' = IF state = "Connecting" THEN "Idle" ELSE state
  /\ Goto(v, "detaching")
  /\ UNCHANGED <<mqtt, viewer_count, events, rtp_tx, stop, h264, state_watch, sub, wdVars, sess, tokens, auth_failed, timerVars>>

\* Lock and reset to Idle, so that the calls waiting for this one bail out.
RollBack(v) ==
  /\ pc[v] = "failed"
  /\ IF state = "Connecting"
       THEN /\ state' = "Idle"
            /\ Publish("Idle", [pc EXCEPT ![v] = "detaching"])
       ELSE /\ Goto(v, "detaching")
            /\ UNCHANGED <<state, state_watch>>
  /\ UNCHANGED <<mqtt, viewer_count, events, rtp_tx, stop, h264, sub, wdVars, sess, tokens, auth_failed, timerVars>>

\* Lock, install the session, spawn its watchdog.  h264 is a OnceCell.
Install(v) ==
  /\ pc[v] = "connected"
  /\ state' = "Streaming"
  /\ Publish("Streaming", [pc EXCEPT ![v] = "reading"])
  /\ rtp_tx' = v
  /\ stop' = v
  /\ h264' = IF h264 = None THEN v ELSE h264
  /\ wd' = [wd EXCEPT ![v] = "watching"]
  /\ UNCHANGED <<mqtt, viewer_count, events, sub, owed, candidate, sess, tokens, auth_failed, timerVars>>

\* Mutant: fall through to the reads as if the session were up.
JoinConnectingAtOnce(v) ==
  /\ pc[v] = "attached"
  /\ state = "Connecting"
  /\ Goto(v, "reading")
  /\ UNCHANGED <<mqtt, viewer_count, events, sessionVars, sub, wdVars, sess, tokens, auth_failed, timerVars>>

\* Lock, Connecting: another call is bringing the session up.
JoinConnecting(v) ==
  /\ pc[v] = "attached"
  /\ state = "Connecting"
  /\ Goto(v, "subscribing")
  /\ UNCHANGED <<mqtt, viewer_count, events, sessionVars, sub, wdVars, sess, tokens, auth_failed, timerVars>>

\* Lock, Streaming: fall through.
JoinStreaming(v) ==
  /\ pc[v] = "attached"
  /\ state = "Streaming"
  /\ Goto(v, "reading")
  /\ UNCHANGED <<mqtt, viewer_count, events, sessionVars, sub, wdVars, sess, tokens, auth_failed, timerVars>>

\* The lock is released before the receiver of state_watch is created.
SubscribeWatch(v) ==
  /\ pc[v] = "subscribing"
  /\ Goto(v, "checking")
  /\ UNCHANGED <<mqtt, viewer_count, events, sessionVars, sub, wdVars, sess, tokens, auth_failed, timerVars>>

\* borrow_and_update(), then break, bail out, or wait for the next send.
CheckWatch(v) ==
  /\ pc[v] = "checking"
  /\ \/ state_watch = "Streaming" /\ Goto(v, "reading")
     \/ state_watch = "Idle" /\ Goto(v, "giving_up")
     \/ state_watch = "Connecting" /\ Goto(v, "awaiting")
  /\ UNCHANGED <<mqtt, viewer_count, events, sessionVars, sub, wdVars, sess, tokens, auth_failed, timerVars>>

\* Lock again: both expect()s hold, and the caller gets its Subscription.
Subscribe(v) ==
  /\ pc[v] = "reading"
  /\ h264 # None
  /\ rtp_tx # None
  /\ sub' = [sub EXCEPT ![v] = rtp_tx]
  /\ Goto(v, "streaming")
  /\ UNCHANGED <<mqtt, viewer_count, events, sessionVars, wdVars, sess, tokens, auth_failed, timerVars>>

\* Lock again: an expect() fails.  The task is gone and sends no Detached.
Panic(v) ==
  /\ pc[v] = "reading"
  /\ h264 = None \/ rtp_tx = None
  /\ Goto(v, "panicked")
  /\ UNCHANGED <<mqtt, viewer_count, events, sessionVars, sub, wdVars, sess, tokens, auth_failed, timerVars>>

\* Mutant: an error return that forgets to undo the count.
DetachSilently(v) ==
  /\ pc[v] \in {"detaching", "giving_up"}
  /\ Goto(v, "out")
  /\ UNCHANGED <<mqtt, viewer_count, events, sessionVars, sub, wdVars, sess, tokens, auth_failed, timerVars>>

\* Every error return undoes the count through the event loop.
Detach(v) ==
  /\ pc[v] \in {"detaching", "giving_up"}
  /\ Send("Detached", v)
  /\ Goto(v, "out")
  /\ UNCHANGED <<mqtt, viewer_count, sessionVars, sub, wdVars, sess, tokens, auth_failed, timerVars>>

\* The connection is over: Subscription::drop.
Leave(v) ==
  /\ pc[v] = "streaming"
  /\ Send("Detached", v)
  /\ sub' = [sub EXCEPT ![v] = None]
  /\ Goto(v, "out")
  /\ UNCHANGED <<mqtt, viewer_count, sessionVars, wdVars, sess, tokens, auth_failed, timerVars>>

-----------------------------------------------------------------------------
(***************************************************************************)
(* viewer_event_loop() and teardown_session()                              *)
(***************************************************************************)

\* Mutant: the handle is dropped, which detaches the task.
AbortNothing == UNCHANGED timer

\* abort() ends a timer that sleeps.  One whose sleep is over may already be
\* running teardown_session() on another thread and then is not stopped.
Abort ==
  \/ idle_timer = None /\ UNCHANGED timer
  \/ idle_timer # None /\ timer' = [timer EXCEPT ![idle_timer] = "none"]
  \/ idle_timer # None /\ timer[idle_timer] = "firing" /\ UNCHANGED timer

OnAttached ==
  /\ events # << >>
  /\ Head(events).ev = "Attached"
  /\ events' = Tail(events)
  /\ Abort
  /\ idle_timer' = None
  /\ UNCHANGED <<mqtt, viewer_count, sessionVars, pc, sub, wdVars, sess, tokens, auth_failed>>

\* Mutant: off by one.
BelowZero(after) == after < 0

NobodyLeft(after) == after <= 0

\* The event loop owns the decrement; at zero it arms the idle timer.
OnDetached ==
  /\ events # << >>
  /\ Head(events).ev = "Detached"
  /\ events' = Tail(events)
  /\ viewer_count' = viewer_count - 1
  /\ IF NobodyLeft(viewer_count - 1)
       THEN LET v == Head(events).viewer
            IN  /\ timer' = [timer EXCEPT ![v] = "sleeping"]
                /\ idle_timer' = v
       ELSE UNCHANGED timerVars
  /\ UNCHANGED <<mqtt, sessionVars, pc, sub, wdVars, sess, tokens, auth_failed>>

\* The idle timeout is over; the task goes for the lock.
TimerExpires(t) ==
  /\ timer[t] = "sleeping"
  /\ timer' = [timer EXCEPT ![t] = "firing"]
  /\ UNCHANGED <<mqtt, viewer_count, events, sessionVars, pc, sub, wdVars, sess, tokens, auth_failed, idle_timer>>

\* Mutant: the handle leaks.
DroppedLater(c) == sess

\* Dropping a StopHandle stops a session that is still up.
Dropped(c) ==
  [d \in Viewers |-> IF d = c /\ sess[d] = "up" THEN "none" ELSE sess[d]]

\* Mutant: off by one.
TeardownDueAtOne == viewer_count <= 1 /\ state # "Idle"

TeardownDue == viewer_count <= 0 /\ state # "Idle"

\* teardown_session() under the lock.
Teardown(t) ==
  /\ timer[t] = "firing"
  /\ timer' = [timer EXCEPT ![t] = "none"]
  /\ IF TeardownDue
       THEN /\ sess' = Dropped(stop)
            /\ stop' = None
            /\ rtp_tx' = None
            /\ h264' = None
            /\ state' = "Idle"
            /\ Publish("Idle", pc)
       ELSE UNCHANGED <<sessionVars, pc, sess>>
  /\ UNCHANGED <<mqtt, viewer_count, events, sub, wdVars, tokens, auth_failed, idle_timer>>

-----------------------------------------------------------------------------
(***************************************************************************)
(* reconnect_watchdog(), for channel c                                     *)
(***************************************************************************)

\* Mutant: any session will do.
SomeChannel(c) == rtp_tx # None

\* Is c still the channel of the session?  (tx.same_channel)
SameChannel(c) == rtp_tx = c

WdGoto(c, label) == wd' = [wd EXCEPT ![c] = label]

\* The sender of `ended` was dropped without a value: orderly tear-down.
WdStopped(c) ==
  /\ wd[c] = "watching"
  /\ sess[c] = "none"
  /\ WdGoto(c, "none")
  /\ UNCHANGED <<mqtt, viewer_count, events, sessionVars, pc, sub, owed, candidate, sess, tokens, auth_failed, timerVars>>

\* The session ended by itself; without viewers it is not worth reconnecting.
WdEnded(c) ==
  /\ wd[c] = "watching"
  /\ sess[c] = "ended"
  /\ sess' = [sess EXCEPT ![c] = "none"]
  /\ WdGoto(c, IF viewer_count <= 0 THEN "none" ELSE "backoff")
  /\ UNCHANGED <<mqtt, viewer_count, events, sessionVars, pc, sub, owed, candidate, tokens, auth_failed, timerVars>>

\* Choose the delay: the backoff, or the time to the next refill.
WdSleep(c) ==
  /\ wd[c] = "backoff"
  /\ owed' = IF tokens = 0 THEN owed \cup {c} ELSE owed \ {c}
  /\ WdGoto(c, "sleeping")
  /\ UNCHANGED <<mqtt, viewer_count, events, sessionVars, pc, sub, candidate, sess, tokens, auth_failed, timerVars>>

\* Lock: is our channel still the session's?
WdWake(c) ==
  /\ wd[c] = "sleeping"
  /\ c \notin owed
  /\ WdGoto(c, IF SameChannel(c) THEN "counting" ELSE "none")
  /\ UNCHANGED <<mqtt, viewer_count, events, sessionVars, pc, sub, owed, candidate, sess, tokens, auth_failed, timerVars>>

\* Give up without viewers or without credentials, else start to connect.
WdAttempt(c) ==
  /\ wd[c] = "counting"
  /\ WdGoto(c, IF viewer_count <= 0 \/ auth_failed THEN "none" ELSE "connecting")
  /\ UNCHANGED <<mqtt, viewer_count, events, sessionVars, pc, sub, owed, candidate, sess, tokens, auth_failed, timerVars>>

WdConnectOk(c) ==
  /\ wd[c] = "connecting"
  /\ candidate' = [candidate EXCEPT ![c] = "up"]
  /\ RecordSuccess
  /\ WdGoto(c, "connected")
  /\ UNCHANGED <<mqtt, viewer_count, events, sessionVars, pc, sub, sess, auth_failed, timerVars>>

WdConnectErr(c) ==
  /\ wd[c] = "connecting"
  /\ RecordFailure
  /\ WdGoto(c, "backoff")
  /\ UNCHANGED <<mqtt, viewer_count, events, sessionVars, pc, sub, candidate, sess, auth_failed, timerVars>>

\* Lock: install the new session, or drop it when the channel is stale.
WdInstall(c) ==
  /\ wd[c] = "connected"
  /\ candidate' = [candidate EXCEPT ![c] = "none"]
  /\ IF SameChannel(c)
       THEN /\ stop' = c
            /\ sess' = [sess EXCEPT ![c] = candidate[c]]
            /\ state' = "Streaming"
            /\ Publish("Streaming", pc)
            /\ WdGoto(c, "watching")
       ELSE /\ WdGoto(c, "none")
            /\ UNCHANGED <<stop, sess, state, state_watch, pc>>
  /\ UNCHANGED <<mqtt, viewer_count, events, rtp_tx, h264, sub, owed, tokens, auth_failed, timerVars>>

-----------------------------------------------------------------------------
(***************************************************************************)
(* The environment: the camera, time and the auth orchestrator             *)
(***************************************************************************)

\* A session ends by itself: its signaling channel closed or ICE failed.
SessionEnds(c) ==
  /\ \/ /\ sess[c] = "up"
        /\ sess' = [sess EXCEPT ![c] = "ended"]
        /\ UNCHANGED candidate
     \/ /\ candidate[c] = "up"
        /\ candidate' = [candidate EXCEPT ![c] = "ended"]
        /\ UNCHANGED sess
  /\ UNCHANGED <<mqtt, viewer_count, events, sessionVars, pc, sub, wd, owed, tokens, auth_failed, timerVars>>

\* Mutant: the sleeper computed its wait with the whole period still to go.
RefillTooEarly ==
  /\ tokens < Capacity
  /\ tokens' = tokens + 1
  /\ UNCHANGED <<mqtt, viewer_count, events, sessionVars, pc, sub, wdVars, sess, auth_failed, timerVars>>

\* A refill period passes.
Refill ==
  /\ tokens < Capacity
  /\ tokens' = tokens + 1
  /\ owed' = {}
  /\ UNCHANGED <<mqtt, viewer_count, events, sessionVars, pc, sub, wd, candidate, sess, auth_failed, timerVars>>

\* The auth orchestrator latches its permanent failure.
AuthFails ==
  /\ ~auth_failed
  /\ auth_failed' = TRUE
  /\ UNCHANGED <<mqtt, viewer_count, events, sessionVars, pc, sub, wdVars, sess, tokens, timerVars>>

-----------------------------------------------------------------------------
\* Steps of a subscribe() call that need nothing from outside.
ViewerStep(v) ==
  \/ Attach(v) \/ RejectNoBudget(v) \/ StartConnect(v) \/ JoinConnecting(v)
  \/ JoinStreaming(v) \/ RollBack(v) \/ Install(v) \/ SubscribeWatch(v)
  \/ CheckWatch(v) \/ Subscribe(v) \/ Panic(v) \/ Detach(v)

ConnectReturns(v) == ConnectOk(v) \/ ConnectErr(v)

EventLoop == OnAttached \/ OnDetached

TimerStep(t) == TimerExpires(t) \/ Teardown(t)

\* Steps of a watchdog that need nothing from outside.
WdLocalStep(c) ==
  WdStopped(c) \/ WdEnded(c) \/ WdSleep(c) \/ WdWake(c) \/ WdAttempt(c)

WdStep(c) == WdLocalStep(c) \/ WdInstall(c)

WdConnectReturns(c) == WdConnectOk(c) \/ WdConnectErr(c)

Next ==
  \/ \E v \in Viewers : Count(v) \/ ViewerStep(v) \/ ConnectReturns(v) \/ Leave(v)
  \/ EventLoop
  \/ \E t \in Viewers : TimerStep(t)
  \/ \E c \in Viewers : WdStep(c) \/ WdConnectReturns(c) \/ SessionEnds(c)
  \/ Refill
  \/ AuthFails

Spec == Init /\ [][Next]_vars
(***************************************************************************)
(* Fairness.  The runtime polls every task that is ready, so each actor's  *)
(* own steps are weakly fair, and time passes.  Nothing is assumed of      *)
(* viewers (they may stream for ever), of the camera, of the auth          *)
(* orchestrator, or of factory.connect() returning.                        *)
(***************************************************************************)
Fairness ==
  /\ \A v \in Viewers : WF_vars(ViewerStep(v)) /\ WF_vars(TimerStep(v)) /\ WF_vars(WdStep(v))
  /\ WF_vars(EventLoop)
  /\ WF_vars(Refill)

FairSpec == Spec /\ Fairness

-----------------------------------------------------------------------------
(***************************************************************************)
(* Safety                                                                  *)
(***************************************************************************)

\* The viewers that viewer_count stands for: from fetch_add in subscribe() to
\* fetch_sub in the event loop.  A call that panicked is never given back.
Counted == {v \in Viewers : pc[v] # "out" \/ InQueue("Detached", v)}

\* The optimistic increment of subscribe() and the event loop's decrement add
\* up on every path: viewer_count is the number of viewers counted and not yet
\* given back, whatever the order in which events are sent and handled.
CountMatches == viewer_count = Cardinality(Counted)

Connectors == {v \in Viewers : pc[v] \in {"connecting", "connected", "failed"}}

\* The lock is released while subscribe() connects, and yet exactly one call
\* connects while the state is Connecting, and none otherwise.
OneConnector ==
  /\ \A u, v \in Connectors : u = v
  /\ state = "Connecting" <=> Connectors # {}

\* What the SessionState's fields say agrees: a channel, a stop handle for that
\* channel and codec parameters when Streaming, and none of them otherwise.  In
\* particular no watchdog of an older channel ever leaves its own stop handle.
SessionConsistent ==
  IF state = "Streaming"
    THEN rtp_tx # None /\ stop = rtp_tx /\ h264 # None
    ELSE rtp_tx = None /\ stop = None /\ h264 = None

\* A viewer that got a Subscription reads from the channel of the current
\* session as long as it holds it: no teardown and no reconnect moves the
\* session to another channel under a viewer.
SubscriptionIsCurrent ==
  \A v \in Viewers : pc[v] = "streaming" => state = "Streaming" /\ sub[v] = rtp_tx

\* With MQTT configured the expect()s in subscribe() hold: a call that found
\* the session Streaming still finds it when it takes the lock again.
NoPanic == mqtt => \A v \in Viewers : pc[v] # "panicked"

\* With MQTT configured a call waits in changed() only while another one is
\* bringing the session up, whose outcome will wake it: no lost wake-up.
WaiterHasConnector ==
  mqtt => \A v \in Viewers : pc[v] = "awaiting" => Connectors # {}

\* A running camera session is always owned: by the SessionState, by the call
\* that connected it, or by the watchdog that has just reconnected it.
NoOrphanSession ==
  \A c \in Viewers :
    /\ sess[c] = "up" => stop = c \/ pc[c] = "connected"
    /\ candidate[c] # "none" => wd[c] = "connected"

\* The event loop never overwrites the handle of an idle timer that still
\* sleeps: a timer it can no longer abort would cut a later viewer's grace time.
OneIdleTimer ==
  \A t \in Viewers : timer[t] = "sleeping" => idle_timer = t

\* A session nobody watches is on its way down: once the last viewer's
\* Detached is handled, an idle timer is pending until the session is Idle.
UnwatchedSessionHasTimer ==
  (Counted = {} /\ state # "Idle") => \E t \in Viewers : timer[t] # "none"

\* A running session is stopped only when nobody watches it: the idle timer
\* that fires late, after a viewer came back, does nothing.
StoppedOnlyUnwatched ==
  [][\A c \in Viewers : sess[c] = "up" /\ sess'[c] = "none" => Counted = {}]_vars

\* The session with the camera behind the current channel.
Link == IF rtp_tx = None THEN "none" ELSE sess[rtp_tx]

Camera == INSTANCE SharedCamera WITH
  users <- Counted, reads <- sub, phase <- state, channel <- rtp_tx, link <- Link

\* The supervisor shares its camera as promised: whatever timers, watchdogs and
\* calls do between each other's locks, viewers see one session that is opened
\* for somebody, renewed under them on their channel only after the old one has
\* ended, and closed under nobody.
SharesCamera == Camera!Spec

(***************************************************************************)
(* Liveness, under FairSpec                                                *)
(***************************************************************************)

\* Nobody is subscribed or subscribing.
Quiet == \A v \in Viewers : pc[v] = "out"

Released ==
  /\ state = "Idle"
  /\ \A c \in Viewers : sess[c] # "up" /\ candidate[c] # "up"

\* When all viewers have gone for good, the camera is released for good, even
\* if a watchdog's connect() returns long after the teardown.
QuietIsReleased == <>[]Quiet => <>[]Released

\* With MQTT configured, if no connect() hangs and connects eventually stop
\* failing, every subscribe() returns: with a Subscription, or with an error
\* after its count was given back.  (The watch channel keeps only the latest
\* state, so a call can miss any number of failures of others.)
SubscribeReturns ==
  (/\ mqtt
   /\ \A u \in Viewers : []<>(pc[u] # "connecting")
   /\ <>[](\A u \in Viewers : pc[u] # "failed"))
    => \A v \in Viewers : pc[v] = "counted" ~> pc[v] \in {"streaming", "out"}

\* A watchdog that decided to reconnect does attempt it, or gives up; an empty
\* budget delays the attempt but never for ever.
RetryHappens ==
  \A c \in Viewers : wd[c] = "backoff" ~> wd[c] \in {"connecting", "none"}

(***************************************************************************)
(* What comments in the code say and the code does not do                  *)
(***************************************************************************)

\* "Another viewer is bringing the session up. Wait for the state to
\* transition": a call that joined a connecting session does not give up while
\* the session is still connecting.  Violated without MQTT: state_watch then
\* has no receiver when Connecting is sent, keeps Idle, and the call bails out.
JoinerWaits ==
  [][\A v \in Viewers :
       pc[v] = "checking" /\ pc'[v] = "giving_up" => state # "Connecting"]_vars

\* "No viewers? Don't reconnect - supervisor will go Idle on its own."
\* Violated: a viewer that comes back before the idle timer fires keeps the
\* dead session, which no watchdog looks after any more.
UnguardedGoesIdle ==
  \A c \in Viewers :
    (rtp_tx = c /\ wd[c] = "none" /\ ~auth_failed) ~> (rtp_tx # c \/ auth_failed)

\* "Every attempt needs at least one token in the bucket."  Violated: the
\* watchdog looks at the budget before it sleeps and not after, and the token
\* may have been spent by another attempt in the meantime.
AttemptHasToken ==
  [][\A c \in Viewers : wd[c] # "connecting" /\ wd'[c] = "connecting" => tokens > 0]_vars
=============================================================================
