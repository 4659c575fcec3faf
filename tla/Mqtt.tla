-------------------------------- MODULE Mqtt --------------------------------
(***************************************************************************)
(* The MQTT side of the proxy: the event loop of the hub (src/mqtt/hub.rs), *)
(* the watchers of the supervisor's state and of the camera's status       *)
(* (src/mqtt/state.rs, src/main.rs), the commands (src/mqtt/commands.rs)   *)
(* and the broker with its retained topics.                                *)
(*                                                                         *)
(* Every publish goes through one bounded queue that only the event loop   *)
(* empties, and the event loop itself announces through that queue.  The   *)
(* hub asks for no persistent session (hub.rs:41): what had been queued    *)
(* when an open connection broke is not sent on the next one.              *)
(***************************************************************************)
EXTENDS Naturals, Sequences, SequencesExt

CONSTANTS
  HubOn,        \* whether a broker is configured
  RequestCap,   \* capacity of rumqttc's request queue (64 in the code)
  MaxOutages,   \* bound: losses of the broker connection
  MaxEvents     \* bound: state changes, commands, camera reports, snapshots, all together

ASSUME MqttAssumption ==
  /\ HubOn \subseteq BOOLEAN /\ RequestCap \in Nat \ {0, 1, 2}
  /\ MaxOutages \in Nat /\ MaxEvents \in Nat

VARIABLES
  loop,        \* run_event_loop(): polling, announcing or sleeping
  announcing,  \* messages of announce() still to be queued
  socket,      \* rumqttc's connection is open
  reachable,   \* the broker can be reached
  requests,    \* rumqttc's request queue
  retained,    \* the broker's retained topics
  subscribed,  \* the broker has the subscriptions of this connection
  state,       \* supervisor state or auth_failed, as translate() gives it
  changed,     \* the state watcher has not looked yet
  last,        \* the state it published last
  spawned,     \* publishes in tasks of their own, in the order of spawning
  overtaken,   \* history: a state was queued before an earlier one
  lost,        \* history: the state published last was dropped
  status,      \* the camera_status watch
  reporting,   \* the message the status watcher still has to queue
  dispatching, \* commands being dispatched
  applied,     \* history: settings the camera was sent or has reported
  outages, events   \* counters of the bounded environment

hubVars == <<loop, announcing, socket, requests>>
brokerVars == <<reachable, retained, subscribed>>
watcherVars == <<state, changed, last, spawned, overtaken, lost, status, reporting>>
commandVars == <<dispatching, applied>>
counters == <<outages, events>>
mqttVars == <<hubVars, brokerVars, watcherVars, commandVars, counters>>

States == {"idle", "streaming", "auth_failed"}
Modes == {"Auto", "Night"}
Unset == "unset"

\* The retained topics that matter.
Topics == {"availability", "state", "mode"}

Message ==
  [topic : {"snapshot", "subscribe"}, value : {Unset}]
    \cup [topic : {"availability"}, value : {"online"}]
    \cup [topic : {"state"}, value : States] \cup [topic : {"mode"}, value : Modes]

MqttTypeOK ==
  /\ loop \in {"off", "poll", "announce", "sleep"}
  /\ announcing \in Seq(Message) /\ reporting \in Seq(Message)
  /\ requests \in Seq(Message) /\ Len(requests) <= RequestCap
  /\ spawned \in Seq(Message)
  /\ socket \in BOOLEAN /\ reachable \in BOOLEAN /\ subscribed \in BOOLEAN
  /\ retained \in [Topics -> {Unset, "online", "offline"} \cup States \cup Modes]
  /\ state \in States /\ last \in States \cup {Unset}
  /\ changed \in BOOLEAN /\ overtaken \in BOOLEAN /\ lost \in BOOLEAN
  /\ status \in Modes \cup {Unset}
  /\ dispatching \in Seq(Modes) /\ applied \subseteq Modes

MqttInit ==
  /\ loop \in {IF on THEN "poll" ELSE "off" : on \in HubOn}
  /\ announcing = <<>> /\ requests = <<>>
  /\ socket = FALSE /\ reachable = TRUE /\ subscribed = FALSE
  /\ retained = [topic \in Topics |-> Unset]
  /\ state = "idle" /\ changed = (loop = "poll") /\ last = Unset
  /\ spawned = <<>> /\ overtaken = FALSE /\ lost = FALSE
  /\ status = Unset /\ reporting = <<>>
  /\ dispatching = <<>> /\ applied = {}
  /\ outages = 0 /\ events = 0

-----------------------------------------------------------------------------
\* Mutant: a publish does not wait for room.
RoomAlways == TRUE

Room == Len(requests) < RequestCap

\* Something happens outside of the MQTT side.
Event == events < MaxEvents /\ events' = events + 1

(* The event loop and the broker. *)
Msg(t, v) == [topic |-> t, value |-> v]
Silent(queue) == \A i \in DOMAIN queue : queue[i].topic # "state"
Online == Msg("availability", "online")
Subscription == Msg("subscribe", Unset)

\* Mutant: announce() does not set the availability again.
SubscribeOnly == <<Subscription>>

\* The discovery messages before it only take room in the queue.
Announcement == <<Online, Subscription>>

\* poll() has connected: the event is ConnAck, and announce() begins.
Connect ==
  /\ loop = "poll" /\ ~socket /\ reachable
  /\ socket' = TRUE /\ loop' = "announce" /\ announcing' = Announcement
  /\ UNCHANGED <<requests, brokerVars, watcherVars, commandVars, counters>>

\* These messages, the last of them queued before any in rest, will never arrive.
Dropped(messages, rest) ==
  lost' = (lost \/ (~Silent(messages) /\ Silent(rest) /\ Silent(spawned)))

\* poll() fails and the loop sleeps.  When an open connection fails, rumqttc moves the
\* queue to its pending requests, and the next CONNACK, which resumes no session, clears
\* them; what is queued while there is no connection stays in the queue.
PollFails ==
  /\ loop = "poll" /\ ~reachable
  /\ loop' = "sleep" /\ socket' = FALSE
  /\ IF socket THEN requests' = <<>> /\ Dropped(requests, <<>>)
               ELSE UNCHANGED <<requests, lost>>
  /\ UNCHANGED <<announcing, brokerVars, state, changed, last, spawned, overtaken, status,
                 reporting, commandVars, counters>>

Wake ==
  /\ loop = "sleep" /\ loop' = "poll"
  /\ UNCHANGED <<announcing, socket, requests, brokerVars, watcherVars, commandVars, counters>>

\* announce() waits for room in the queue that its own loop empties.
Announce ==
  /\ loop = "announce" /\ Room
  /\ requests' = Append(requests, Head(announcing))
  /\ announcing' = Tail(announcing)
  /\ loop' = IF announcing' = <<>> THEN "poll" ELSE "announce"
  /\ UNCHANGED <<socket, brokerVars, watcherVars, commandVars, counters>>

\* What the broker does with a message.
Delivered(m) ==
  /\ retained' = IF m.topic \in Topics
                   THEN [retained EXCEPT ![m.topic] = m.value] ELSE retained
  /\ subscribed' = (subscribed \/ m.topic = "subscribe")

\* poll() sends the next message.  On a connection that has broken unnoticed it is lost.
PollSends ==
  /\ loop = "poll" /\ socket /\ requests # <<>>
  /\ requests' = Tail(requests)
  /\ IF reachable
       THEN Delivered(Head(requests)) /\ UNCHANGED lost
       ELSE Dropped(<<Head(requests)>>, Tail(requests)) /\ UNCHANGED <<retained, subscribed>>
  /\ UNCHANGED <<loop, announcing, socket, reachable, state, changed, last, spawned, overtaken,
                 status, reporting, commandVars, counters>>

\* The connection breaks; the broker publishes the last will and forgets the session.
Outage ==
  /\ reachable /\ outages < MaxOutages
  /\ reachable' = FALSE /\ outages' = outages + 1
  /\ subscribed' = FALSE
  /\ retained' = IF socket THEN [retained EXCEPT !["availability"] = "offline"] ELSE retained
  /\ UNCHANGED <<hubVars, watcherVars, commandVars, events>>

\* The broker is back.  The old connection stays broken, as poll() will find.
BrokerBack ==
  /\ ~reachable /\ ~socket
  /\ reachable' = TRUE
  /\ UNCHANGED <<hubVars, retained, subscribed, watcherVars, commandVars, counters>>

-----------------------------------------------------------------------------
(* The watchers. *)

\* Mutant: only the first published state is remembered.
RememberFirst == last' = IF last = Unset THEN state ELSE last

RememberLast == last' = state

\* run_watcher(): a state that differs from the last one is published, in a new task.
Watch ==
  /\ changed
  /\ changed' = FALSE
  /\ IF state # last
       THEN RememberLast /\ spawned' = Append(spawned, Msg("state", state)) /\ lost' = FALSE
       ELSE UNCHANGED <<last, spawned, lost>>
  /\ UNCHANGED <<hubVars, brokerVars, state, overtaken, status, reporting, commandVars, counters>>

\* Any of the spawned tasks gets its message into the queue.
Publish ==
  /\ loop # "off" /\ Room
  /\ \E i \in DOMAIN spawned :
       /\ requests' = Append(requests, spawned[i])
       /\ spawned' = RemoveAt(spawned, i)
       /\ overtaken' = (overtaken \/ (spawned[i].topic = "state"
                                      /\ \E j \in 1..(i - 1) : spawned[j].topic = "state"))
  /\ UNCHANGED <<loop, announcing, socket, brokerVars, state, changed, last, lost, status,
                 reporting, commandVars, counters>>

\* The camera-status watcher takes the latest report.
StatusSeen ==
  /\ status # Unset /\ reporting = <<>>
  /\ reporting' = <<Msg("mode", status)>>
  /\ status' = Unset
  /\ UNCHANGED <<hubVars, brokerVars, state, changed, last, spawned, overtaken, lost, commandVars,
                 counters>>

\* It queues it itself, and waits for room.
Report ==
  /\ reporting # <<>> /\ Room
  /\ requests' = Append(requests, Head(reporting)) /\ reporting' = Tail(reporting)
  /\ UNCHANGED <<loop, announcing, socket, brokerVars, state, changed, last, spawned,
                 overtaken, lost, status, commandVars, counters>>

-----------------------------------------------------------------------------
(* Commands. *)

\* The user selects a mode; the event loop gets the message and starts a task.
Command ==
  /\ loop = "poll" /\ socket /\ reachable /\ subscribed /\ Event
  /\ \E m \in Modes : dispatching' = Append(dispatching, m)
  /\ UNCHANGED <<hubVars, brokerVars, watcherVars, applied, outages>>

\* Mutant: the setting is echoed although it could not be sent.
EchoAnyway(ok) == TRUE

Echoes(ok) == ok

\* dispatch() sends it or fails; the same task then publishes the new setting.
Dispatch ==
  /\ \E i \in DOMAIN dispatching, ok \in BOOLEAN :
       /\ applied' = IF ok THEN applied \cup {dispatching[i]} ELSE applied
       /\ spawned' = IF Echoes(ok) THEN Append(spawned, Msg("mode", dispatching[i]))
                                     ELSE spawned
       /\ dispatching' = RemoveAt(dispatching, i)
  /\ UNCHANGED <<hubVars, brokerVars, state, changed, last, overtaken, lost, status, reporting,
                 counters>>

-----------------------------------------------------------------------------
(* The supervisor and the camera. *)
StateChanges ==
  /\ Event
  /\ \E s \in States \ {state} : state' = s
  /\ changed' = TRUE
  /\ UNCHANGED <<hubVars, brokerVars, last, spawned, overtaken, lost, status, reporting,
                 commandVars, outages>>

CameraReports ==
  /\ Event
  /\ \E m \in Modes : status' = m /\ applied' = applied \cup {m}
  /\ UNCHANGED <<hubVars, brokerVars, state, changed, last, spawned, overtaken, lost, reporting,
                 dispatching, outages>>

SnapshotTaken ==
  /\ Event
  /\ spawned' = Append(spawned, Msg("snapshot", Unset))
  /\ UNCHANGED <<hubVars, brokerVars, state, changed, last, overtaken, lost, status, reporting,
                 commandVars, outages>>

LoopStep == Connect \/ PollFails \/ Wake \/ Announce \/ PollSends
WatcherStep == Watch \/ Publish \/ StatusSeen \/ Report \/ Dispatch

MqttNext ==
  /\ loop # "off"
  /\ \/ LoopStep \/ WatcherStep
     \/ Command \/ StateChanges \/ CameraReports \/ SnapshotTaken
     \/ Outage \/ BrokerBack

MqttSpec == MqttInit /\ [][MqttNext]_mqttVars

\* The event loop and the tasks run; a broker that is there comes back.
MqttFairness ==
  /\ WF_mqttVars(LoopStep) /\ WF_mqttVars(Watch) /\ WF_mqttVars(Publish)
  /\ WF_mqttVars(StatusSeen) /\ WF_mqttVars(Report) /\ WF_mqttVars(Dispatch)
  /\ WF_mqttVars(BrokerBack)

-----------------------------------------------------------------------------
\* announce() waits for room that only its own loop could make: nothing is published
\* any more.
Stuck == loop = "announce" /\ Len(requests) = RequestCap

(* EchoIsTrue: a setting shown to the user was sent to the camera or       *)
(* reported by it; a command that failed is never echoed (hub.rs:169).     *)
EchoIsTrue == retained["mode"] # Unset => retained["mode"] \in applied

\* The last state in the queue is x.
EndsWith(queue, x) ==
  \E i \in DOMAIN queue :
    queue[i] = Msg("state", x) /\ \A j \in DOMAIN queue : queue[j].topic = "state" => j <= i

\* When all that is on its way has arrived, the broker retains the state x.
StateComes(x) ==
  \/ EndsWith(spawned, x)
  \/ Silent(spawned) /\ EndsWith(requests, x)
  \/ Silent(spawned) /\ Silent(requests) /\ retained["state"] = x

Queued(m) == \E queue \in {announcing, requests} : \E i \in DOMAIN queue : queue[i] = m

(* NothingForgotten: on an open connection the availability and the        *)
(* subscriptions are in force or on their way to the broker (hub.rs:155),  *)
(* although those of the connection before were dropped with it; and the   *)
(* state of the supervisor is retained, on its way behind every older one, *)
(* or still to be looked at (state.rs:65).  Excepted are a spawned publish *)
(* that has overtaken an earlier one, and the time from when the publish   *)
(* of the last transition was dropped with its connection until the next   *)
(* transition repairs that (hub.rs:72 does not).                           *)
NothingForgotten ==
  /\ socket /\ reachable =>
       /\ retained["availability"] = "online" \/ Queued(Online)
       /\ subscribed \/ Queued(Subscription)
  /\ loop = "off" \/ changed \/ overtaken \/ lost \/ StateComes(state)

(* Reannounces: after an outage the availability comes back and the        *)
(* commands are subscribed again, although the last will, dropped messages *)
(* and other publishers interfere, unless publishers have filled the queue *)
(* and announce() blocks its own event loop for ever (hub.rs:155).         *)
Reannounces ==
  <>[](loop # "off" /\ reachable) =>
    <>[](Stuck \/ (subscribed /\ retained["availability"] = "online"))

(* StateSettles: the retained state becomes the one the supervisor stays   *)
(* in, through outages that drop earlier states and through missed         *)
(* changes, unless the event loop is stuck, one of the spawned publishes   *)
(* has overtaken an earlier (main.rs:375), or the very publish of that     *)
(* state was dropped with its connection, as announce() does not repeat it *)
(* (hub.rs:72).                                                            *)
StateSettles ==
  <>[](loop # "off" /\ reachable) =>
    <>[](Stuck \/ overtaken \/ lost \/ retained["state"] = state)
=============================================================================
