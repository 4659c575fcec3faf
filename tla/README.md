# buddy3d-proxy in TLA+

buddy3d-proxy makes a Prusa Buddy3D camera available as an RTSP stream. The
camera speaks WebRTC through Prusa's signaling service and is brought up on
demand: the first RTSP viewer starts a session, all viewers share it, and some
time after the last one has gone it is torn down. This directory holds the TLA+
specifications of the program, their TLC configurations and the proofs TLAPS
checks. Paths below are relative to the crate (`src/` of the repository).

## 1. Inventory

| Component | State | Operations | Talks to |
|---|---|---|---|
| Session supervisor, `supervisor/mod.rs` | viewer count (atomic), `SessionState` (mutex): state, RTP channel, stop handle, codec cell; state watch; event queue; idle timer; watchdog tasks | `subscribe`, `Subscription::drop`, event loop, `teardown_session`, `reconnect_watchdog`, `subscribe_rtp`, `state_changes`, `snapshot` | factory, budget, auth latch, RTSP server, MQTT, snapshots, metrics |
| Reconnect budget, `reconnect_budget.rs` | tokens, last refill | `wait_time`, `record_success`, `record_failure`, `tokens` | supervisor |
| WebRTC factory and live outbound, `supervisor/webrtc_factory.rs`, `live_outbound.rs` | registry of the live signaling channel; per session: driver task, forwarder task, kill and ended channels | `connect`, `Joiner::drop`, the clearing task | auth, REST API, signaling, WebRTC session, command dispatcher |
| RTSP server and session, `rtsp/` | per connection: buffer, subscription, method state | accept, request handling, RTP forwarding | supervisor |
| Auth orchestrator and token store, `prusa/auth.rs`, `token_store.rs` | tokens in memory and on disk, failure latch | `access_token`, `refresh`, `bootstrap` | HTTP client; read by factory, health, watchdog, MQTT |
| Rate limiter and HTTP client, `rate_limit.rs`, `prusa/client.rs` | tokens, last refill | `acquire`, `complete`, `send` | Prusa's servers |
| Signaling, `prusa/signaling/` | WebSocket, pending attachments, ACK counter, bounded queues | connect, transport loop, translator | factory, transient signaler |
| WebRTC session, `webrtc_session.rs` | peer connection, buffered candidates | `handle_signal`, callbacks, `run_session` | signaling, forwarder |
| MQTT, `mqtt/` | broker connection, last published state | state watcher, command dispatch, transient signaling | supervisor, live outbound |
| Snapshots, `snapshot/` | latest parameter sets and picture, consumer task | state-driven worker, reassembly, encoding | supervisor, MQTT |
| Backoff, `backoff.rs` | attempt counter | `next_delay`, `reset` | watchdog |
| Health, metrics, config, CLI, redaction, protobuf types | none of their own | | |

The components that keep state are correct when: the supervisor never counts,
connects or releases wrongly (section 3); the budget and the limiter keep to the
rates they document; the stored refresh token survives everything but the loss
of its successor; a session's tasks always end together; nobody sees a stream
that was not negotiated, a picture made of two, or a setting that was not sent.

What is hard here: the supervisor's lock is released during a connect that takes
seconds, so viewers, the event loop, idle timers and watchdogs interleave with
it; sessions die, connects fail or return after the session they were for has
been torn down; an idle timer races with its own cancellation; pacing depends on
elapsed time that is evaluated only when somebody asks; clean-up is done by
spawned tasks in no particular order; `watch` channels keep only the latest
value, and none at all while they have no receiver; tasks send to bounded queues
in the middle of their work and wait there; refresh tokens can be used once, and
the answer that carries the next one, or its saving, can fail. `PROJECT.json` lists the
hazards one by one, each at its line, with the properties that cover it.

## 2. Modules

| Module | What it is |
|---|---|
| `Supervisor` | the supervisor with its budget reduced to a number of tokens |
| `SharedCamera` | abstract specification: what the supervisor promises its viewers |
| `LiveOutbound` | extends `Supervisor` with the registry of the live outbound and the tasks that clear it |
| `ReconnectBudget` | the budget exactly, with time |
| `TokenBucket` | abstract specification: what the budget's documentation promises |
| `RateLimiter` | the token bucket in front of HTTPS requests, with time |
| `Auth` | extends `RateLimiter` with `AuthOrchestrator`, the token file, the account server and callers of the API |
| `Signaling` | one camera session: transport, translator, session driver and the `connect()` that starts them |
| `Rtsp` | the RTSP server's connections |
| `Snapshot` | the snapshot worker, its consumer and the H.264 reassembler |
| `Mqtt` | the hub's event loop, the watchers, the commands and the broker |
| `Outputs` | `Rtsp`, `Snapshot` and `Mqtt` side by side, as `main.rs` starts them |
| `SupervisorProofs`, `LiveOutboundProofs`, `ReconnectBudgetProofs`, `RateLimiterProofs`, `AuthProofs`, `SignalingProofs`, `RtspProofs`, `OutputsProofs` | the theorems |
| `MCSupervisor`, `MCLiveOutbound` | the symmetry sets TLC needs |

Operators whose comment begins with "Mutant:" are deliberate mistakes. Nothing
uses them in the specifications; put in the place of the definition that follows
them (`PROJECT.json`, `mutants`), each must make TLC report the property it is
listed for, which shows that the property depends on the code in question.

### Supervisor

A step is what one task does between two points where another can run: taking
the mutex, an `await`, an atomic operation, a send. A critical section of the
mutex is therefore one step, since none of them awaits anything inside.

* **Viewers.** A member of `Viewers` is a call of `subscribe()` together with the
  `Subscription` it returns. `pc[v]` is where the call is: `Count`, `Attach`,
  then under the lock one of `RejectNoBudget`, `StartConnect`, `JoinConnecting`,
  `JoinStreaming`; `ConnectOk`/`ConnectErr` and `Install`/`RollBack` for the call
  that connects; `SubscribeWatch` and `CheckWatch` for a joiner, which waits in
  `"awaiting"`; and `Subscribe`, or `Panic` if an `expect()` fails. `Detach` is
  the event every error return sends, `Leave` is `Subscription::drop`. Names are
  recycled (`Free`), so the number of calls over time is unbounded.
* **Channels.** The broadcast channel a call creates has the call's name, as has
  its watchdog. `rtp_tx` and `stop` hold names, so that `same_channel` is
  equality. `sess[c]` is the camera session of channel `c`; `candidate[c]` is the
  one its watchdog has connected and not installed.
* **Watch channel.** `Publish` is tokio's `watch::Sender::send`: it stores
  nothing without a receiver. `Supervisor::new` drops the receiver it gets, so
  whether one exists depends on waiting joiners and on MQTT, whose state watcher
  holds one for good. `mqtt` is that configuration, chosen by `Init`; the short
  time between the start of the process and the watcher's first poll is not
  modelled.
* **Events and timers.** The event loop takes `Attached` and `Detached` from the
  unbounded queue. `Abort` allows an idle timer whose sleep is over to escape its
  cancellation, as a task running on another thread does.
* **Watchdog.** `WdStopped`, `WdEnded`, `WdSleep`, `WdWake`, `WdAttempt`,
  `WdConnectOk`, `WdConnectErr`, `WdInstall`, one per stretch between two awaits.
* **Budget.** `tokens`, and `owed`, the watchdogs that sleep until the next
  refill because they found the bucket empty. Backoff delays are arbitrary.
* **Environment.** Sessions end by themselves at any time, connects take any time
  and succeed or fail, the auth latch can be set at any time.

Metrics timestamps and counters are left out; so are the addresses, names and
codec parameters' contents, except for the identity of the session that set them.

### SharedCamera

One camera for any number of viewers, without locks, events, timers or watchdogs.
It is brought up only for somebody who is there, on a channel that a reader keeps
until letting go of it; when its session ends by itself another may follow on the
same channel, never beside the old one; and it is closed only when nobody is
left. `Supervisor` implements it under the mapping `users <- Counted` (the viewers
`viewer_count` stands for, which includes one whose `Detached` is still queued),
`reads <- sub`, `phase <- state`, `channel <- rtp_tx` and `link <- Link` (the
session behind the current channel). `Install` is `Open`, `RollBack` is
`GiveUp`, a `Teardown` that is due is `Close`, `WdEnded` is `Notice`,
`WdInstall` is `Renew`; most other steps stutter.

### LiveOutbound

`connect()` is split at the point where it registers its outbound. Dropping a
`Joiner` (`Drops`) spawns a task, `Clear`, that empties the registry. All other
steps of the supervisor are unchanged, and `LiveImplementsSupervisor` proves that
the composition is a supervisor.

### ReconnectBudget and TokenBucket

Time is a number of ticks; `last_refill` is represented by its age. `Refill` is
`refill()`, called first by every operation as in the code. A caller that asks
`wait_time()` and sleeps is added, with `alone` recording whether an attempt's
outcome was recorded meanwhile. In `TokenBucket` the clock itself adds tokens.
Both record every operation in the interface variable `call`, so that a refilled
token cannot pass for an earned one and no tick can get lost as a stutter. The
mapping is `level <- Refilled.tokens`, `age <- Refilled.since` (0 when full):
what the next caller would find.

### RateLimiter and Auth

`RateLimiter` is `rate_limit.rs` together with the way `PrusaClient::send` uses
it: `Acquire` and `Park` are the two ends of `acquire()`, `Complete` is
`Permit::complete()`, which keeps the token for server and network errors and
gives it back otherwise. `tick()` touches the clock only of a bucket that is not
full, so `elapsed` grows while nothing is used, and the first spending is repaid
at once. `credit`, a history variable, is what an ideal bucket with one token
more would hold.

In `Auth` a caller is at `pc[c]`: waiting for the mutex (`lock`), refreshing
(`refresh`), in the login (`page`, `chain`, `exchange`), or done with
`access_token()` and sending its own request (`api`). The mutex is held from
`Lock` until `NewTokens`, `RequestFails` or a failing login step lets go. Of
tokens the model keeps what decides: `refresh` says whether the account server
would still accept the refresh token, `access` whether the access token is about
to expire. Using a refresh token spends it, in memory and in the file alike,
since both hold the same one. While `trouble` lasts, answers get lost before or
after the server acted, a proxy answers 4xx, saving and loading fail, the server
revokes the session and the process restarts (`Restart`), which leaves the file.
The login is three steps: the page, the chain of redirects with its latch, and
the exchange of the code, the only one of the three that passes the limiter.

### Signaling

One session, from `Dial` to the end of its tasks. Each task (`transport`,
`translator`, `driver`) is either at its `select!` (`"run"`) or inside a send or
a write, where it does nothing else. The four queues are `outQ` (the transport's
outbound), `inQ` (its events), `typedQ` (the translator's) and `signalQ` (the
driver's own, filled by the peer connection's callbacks too). A binary event
comes as a header and an attachment; `pending` is the correlator's memory of the
header. `Read`, `TakeOutbound`, `Push`, `Write`, `PingTimeout` and
`TransportStops` are the transport's loop with its `select!` on
`inbound_tx.closed()`; `Translate` is the translator's match on events, with the
acknowledgement that releases the triggers and the kick-off; `OnOffer` and
`OnIce` are the two arms of `handle_signal()`; `Kill` is the drop of the
`Joiner`. An offer is refused before anything changes (it cannot be decoded or
set), answered, or, once the remote description is set and the held candidates
are handed over, making its answer fails, which `run_session()` logs and
survives; candidates are gathered from the moment the local description is set
(`local`). `Command` is any user of the registered outbound. The server answers,
refuses, offers and offers again, sends candidates, status reports, pings and
disconnects as it likes; `extra` bounds what it and the commands do of their own
accord. The network delivers in order until it dies silently (`LinkDies`). A
write on a dead link fails or seems to succeed. The time until the ping watchdog
fires is not counted: it can fire whenever the transport waits and everything
that arrived has been read, on a dead link and on a live one whose server is
silent.

### Rtsp

Bytes are counted in halves of a request, so that a read can end inside one or
bring several; what a request says is chosen when it is parsed. `task[v]` is the
point `handle_connection()` has reached, `sessionState` and `channel` are the
`Session`, `sub` is the `Subscription`, `cursor` the broadcast receiver. The
subscription is taken before the request is handled, for DESCRIBE, SETUP and PLAY even
if the answer will be an error. A camera session numbers its packets; `Lagged`
is the receiver that the ring has overrun. `client[v] = "stalled"` is a client
that does not read, on which a write waits.

### Snapshot

A picture is three packets: the parameter sets, and a key frame in two
fragments. Sequence numbers wrap after `Pictures` pictures, so a packet's number
says which part it is. `Look` is the top of the worker's loop, run after a state
change or a tick, `Receive` the consumer with `Reassembler::push`, `Lag` and
`Finish` the two errors of its receiver. An abort may come after the consumer
took its lock, so `Look` allows one last picture to be stored.

`streaming` is the supervisor's state, `linked` whether a session is up behind
it. `Connects` is `subscribe()`, with a new broadcast channel. `LinkLost` is a
session that ends by itself: the supervisor stays Streaming and tells nobody, the
ring stays open, and ticks go on publishing the old picture. `Reconnects` is the
watchdog's install, on the same channel, which the consumer thereby survives and
the worker sees as another Streaming. `Teardown` closes the channel. The camera's packets are lost,
repeated and reordered within `Flight`, but never a whole cycle of numbers at once; a new
connection starts shortly after the numbers of the old one. (In reality its
first number is random; then a fragment of the old picture followed by the
matching one of the new has a chance of one in 65536, which is not modelled.)
`NumbersAssumption` states what this takes of the bounds: over all its
connections the camera, which is at most `Flight + 1` packets ahead and steps on
at each reconnect, does not use up the cycle of numbers without the consumer
receiving anything. `Flight` is the reordering of a network, the cycle 65536.
`calm` is the time after which nothing is lost any more.

### Mqtt

`loop` is where `run_event_loop()` is: polling, announcing or sleeping after an
error. Everything published goes through `requests`, rumqttc's bounded queue,
emptied only by polling. When an open connection fails (`PollFails`), rumqttc
0.25.1 takes what is queued or unacknowledged into its list of pending requests,
and clears the list at the next CONNACK that resumes no session. The hub leaves
rumqttc's default of a clean session (`hub.rs:41`), so none ever does and
whatever was queued at the break is dropped; what is published after it stays in
the queue. This is how the crate behaves, which is not part of the repository.
`lost` remembers that the messages so dropped included the only one on its way
with the latest state; the next state that the watcher publishes clears it. The five
discovery messages and the three subscriptions are represented by one message
each of the kinds that matter, hence `RequestCap` of three where the code
has 64. `spawned` are the tasks that `main.rs` and the hub spawn for one publish
each, which finish in any order; `overtaken` remembers that a state passed an
earlier one. The status watcher publishes in its own task (`reporting`). The
state `connecting`, the quality setting and the reboot button take the same ways
as what is modelled. `applied` is what the camera was sent or has reported.

### Outputs

The three consumers share no variable. `Outputs` starts in one of three
configurations, viewers alone, snapshots alone or MQTT alone (`OnePart`), because
their product shows nothing that its parts do not; `Mqtt` contains the
snapshots that are published. The theorems `OutputsServeRtsp`,
`OutputsTakeSnapshots` and `OutputsPublish` say that each part behaves as its own
specification.

## 3. Runs

| Run | Expectation | Shows |
|---|---|---|
| `supervisor` | pass | the safety properties, three viewers, with and without MQTT, about 1.9 million states |
| `supervisor_live` | pass | the liveness properties, two viewers |
| `outbound` | pass | the registry never settles on a session that is gone, and the whole is one shared camera |
| `budget` | pass | the lazy budget implements `TokenBucket`; `wait_time()` is exact |
| `auth` | pass | tokens, mutex, limiter and file under failures and restarts, two callers, about 100 thousand states |
| `signaling` | pass | one session with every queue of one element, about 430 thousand states |
| `outputs` | pass | RTSP, snapshots and MQTT, about 400 thousand states |
| `joiner_waits` | violation | without MQTT a joiner is turned away while the session is still connecting |
| `unguarded_idle` | violation | a session that dies unwatched stays Streaming and dead under a viewer that returns |
| `attempt_token` | violation | a reconnect can start with an empty bucket |
| `outbound_lost` | violation | a late clearing task removes the running session's outbound |
| `commands_gated` | violation | a command overtakes the acknowledgement of the authentication |

The five violations are disagreements between a comment and the code; `findings`
in `PROJECT.json` quotes the comments and describes the mechanism.

**Properties.** `CountMatches`: the optimistic increment and the event loop's
decrement add up on every path. `OneConnector`: no second connect starts although
the lock is released. `SessionConsistent`: the session's fields agree, whatever
stale watchdogs return. `NoPanic` and `WaiterHasConnector`: with MQTT,
the `expect()`s hold and no wake-up is lost. `NoOrphanSession`: every running
camera session has an owner whose drop stops it. `OneIdleTimer`
and `UnwatchedSessionHasTimer`: idle timers are neither lost nor leaked.
`SharesCamera`: the refinement of `SharedCamera`. It says among other things that
a viewer's channel is the session's as long as it holds it, and that a late timer
tears down nobody's session; `SubscriptionStaysCurrent` and `StopsOnlyUnwatched`
state these two on their own. `QuietIsReleased`,
`SubscribeReturns`, `RetryHappens`: the camera is released, calls return,
reconnects happen. `LiveIsInstalled`, `WaitIsExact`, `ImplementsTokenBucket`: as
above.

`BoundedBurst`: the documented rate holds but for one extra request after idling.
`MemoryMatchesDisk`: a restart resumes with the tokens in use, whether or not they
are still good. `LoginOnlyAfterLoss`:
concurrent callers never make each other log in. `TroubleHeals`: whatever failed,
every caller gets tokens again once nothing fails any more; the failure latch
does not block `access_token()` itself (it does stop the supervisor's watchdog).

`SessionGated`: triggers, kick-off, answers and candidates wait for the
acknowledgement; only commands do not, which is the finding. `CandidatesKept`:
every candidate the server has sent is, until the session ends, on its way through
the network, the correlator, the CONNECT handshake or a queue, being held for the
description, or added; and one that came early is handed over with it.
`ConnectResolves`, `TeardownFrees`: although the driver can block on its own full
queue, and the three tasks on each other, the deadline of `wait_for_ready` and the
drop of the `Joiner` free everything. `CloseReachesDriver`: the end of the
websocket reaches the watchdog, unless the driver is `SelfBlocked`: a further offer
found `signalQ` full, and the driver waits for room that only it can make, until
the peer connection ends or the session is torn down.
`DeadLinkNoticed`: a silent network is noticed, except in the state `Wedged`,
where the tasks wait for each other in a circle and the transport does not watch
its timer; TLC reaches that state with full queues, and only a teardown ends it.

`StreamsNegotiated`, `FreshPackets`, `HangUpNoticed`: what a viewer gets, and
that one who leaves is noticed. `WholeNals`, `SnapshotRecovers`: no picture out of
two, and pictures of the current connection in the end. `NothingForgotten`: on an
open connection the availability and the subscriptions are in force or on their
way, although those of the connection before were dropped with it; and the
supervisor's state is retained, on its way behind every older one, or still to be
looked at. `EchoIsTrue`, `Reannounces`, `StateSettles`: what the broker retains is
true in the end. The exceptions are weaknesses of the code that TLC reaches:

* `Stuck` (`Reannounces`, `StateSettles`): `announce()` waits for room in the
  queue that only its own loop empties; a queue filled during an outage leads there.
* `overtaken` (`NothingForgotten`, `StateSettles`): every state is published by a
  task of its own, and one passed an earlier one.
* `lost` (the same two): the publish of the latest state was dropped with its
  connection. `announce()` does not repeat the state and the watcher publishes
  transitions only, so the retained state stays stale until the next transition,
  which may be hours away. Without the exception TLC finds a violation of both.

**Bounds.** Three viewers give one that connected and left, one whose session is
torn down, and one that starts anew, with all their timers and watchdogs; the
safety properties are also proved for any number. Liveness uses two: one to
connect and one to join or to come back, because recycled names let the same two
meet again and again. `Capacity = 1` makes the budget run empty and full often.
`MaxClears = 2` lets two clearing tasks be late. The budget run lets it idle for
longer than it takes to fill an empty bucket (`MaxSince`). Deadlock checking is
off in the supervisor's runs: without MQTT every call can end up panicked. It is
off in the other runs too, where sessions end, clients are gone and the bounds of
the environment are used up.

Two callers are enough in `auth` for one to hold the mutex while the other waits,
and for one to use a token while the other refreshes; two tokens and two ticks
give an empty, a part-full and a full bucket with a remainder. Queues of one
element in `signaling` block as early as possible; two frames in flight hold one
binary event, one candidate fills `signalQ` before the answer to a further offer,
and two messages of the server or the commands fill the other queues. In `outputs` the viewer has
three requests (the shortest way to PLAY is two) and two camera sessions, a ring
of one packet overruns at the second; two connections with packets reordered by
one place in four pictures let numbers wrap; one outage and two events fill the queue of
three while it lasts.

**Fairness.** In the supervisor's runs, each task's own steps are weakly fair,
because the runtime polls every task that is ready; the event loop likewise; timers and refills are fair
because time passes. Nothing is assumed of viewers, of the camera, of the auth
latch, or of `connect()` returning (nothing bounds its HTTP requests);
`SubscribeReturns` states as a premise that connects return and eventually stop
failing, because a joiner can miss any number of other viewers' failures.

In `auth`, the steps of a caller and the server's answers are weakly fair (the
client sets no timeout, so without an answer nothing can be promised), taking the
mutex is strongly fair because tokio's mutex serves its waiters in order, and
time passes. In `signaling` every task is weakly fair, and so are the deadline of
an attempt that is not ready and the ping timer of a dead link; on a live link the
timer may fire but need not. Server, network and peer owe nothing. In `outputs`
the tasks are weakly fair, a calm camera sends, and a broker that was lost comes
back in the end (`BrokerBack`); that it then stays is the premise of
`Reannounces` and `StateSettles`. RTSP clients owe nothing.

## 4. Proofs

For every value of the constants that the named assumptions of the modules admit
(finitely many viewers of the supervisor, capacities of at least one, periods of
at least one tick, any bounds on the environment):

* `SupervisorProofs`. All safety properties of the `supervisor` run. The argument
  is layered. `CountInv` adds to the type invariant how many events of a call
  the queue can hold at each point of the call, in which order, which turns
  `Counted` into a set that changes by one element when the count does. From it
  follows that whoever is inside `subscribe()` keeps the count positive, so a
  teardown cannot happen under it; `SessionInv` uses that to show that the state is
  Connecting exactly while one call connects and that the session's fields agree.
  `ViewerInv` adds what a waiting or reading call knows, and what the watch channel holds
  when MQTT keeps a receiver; `TimerInv` relates idle timers to the count and to
  pending events; `OwnerInv` relates sessions to their handles and watchdogs.
  Last, `SupervisorSharesCamera` is the refinement of `SharedCamera`: `WhoCounts`
  says which steps change `Counted` and by whom, and `ShareInv` adds that only
  streaming calls are subscribed, that a call that has connected has a session,
  and that a session has somebody watching it; with these `CameraStep` maps each
  action to a step of the camera or a stutter.
* `LiveOutboundProofs`. The composition implements `Supervisor`, and so
  `SharedCamera` (`LiveSharesCamera`); its type
  invariant; `LiveIsInstalled`, from an invariant that says who accounts for the
  registered outbound while something is still under way.
* `RateLimiterProofs`. `BoundedBurst` from `CreditCovers`: the credit of the ideal
  bucket is never less than what the lazy one is worth (`Worth`), its tokens and
  the refill its clock would give at once.
* `AuthProofs`. `Auth` implements `RateLimiter`, so the bound carries over. The
  type invariant; `MemoryMatchesDisk`; and `LoginOnlyAfterLoss`, which is not
  inductive: `LoginInv` adds that only the holder of the mutex is inside
  `access_token()`, that a reply belongs to a caller that waits for it, that new
  tokens in a reply are current, and that a rejection or a spent token is
  explained by a loss or by the reply under way.
* `SignalingProofs`. The type invariant with all capacities. `CandidatesKept`, a
  conservation law: `NoneLost` counts candidates (`Among`) along the whole way.
  The lemmas `Among...` say what appending and removing do to a count, `Hands`
  what a task can hold while it is between two queues, `Correlated` that a frame
  that is an attachment follows its header, and `Unasked` that nothing of the
  session arrives before the server has accepted the CONNECT, where the
  translator would discard it. `SessionGated`, whose strengthening says that until the server has acknowledged,
  no queue and no task on the way to it holds anything of the session but the
  connect, the authentication and pongs, and no acknowledgement is on its way
  before the server gave it.
* `RtspProofs`. `StreamsNegotiated` and `FreshPackets` together with the facts they
  need: a request that needs the camera is handled with a subscription, a session
  that is set up has a channel, and a connection streams once.
* `OutputsProofs`. Each part of `Outputs` implements its own specification, so
  the theorems of `RtspProofs` hold of the whole; the type invariants of
  `Snapshot` (a full ring loses its oldest packet before it takes another) and
  `Mqtt`. `EchoIsTrue`, strengthened to all places where a message can wait:
  no queue and no unfinished task holds a mode that was never applied.
  `NothingForgotten` from `HubInv`: the state the watcher published last comes
  behind every older one on the way to the broker, unless it is `lost`
  (`LastComes`: when a queue is dropped, either it held no state, or a newer one is
  still spawned, or `lost` becomes true); it is the current state unless a change
  is still to be looked at (`WatcherKnows`); what `announce()` puts in between is of
  other topics (`OtherTopics`), and until the broker has got it, `announce()` or the
  queue holds it (`Announced`).
  `WholeNals` from `NumbersAssumption` and `NalInv`. The difficulty is that a
  number comes up again with every cycle. `InFlight` bounds how far packets on
  their way are from the camera's next number; `Trailing` says that what the
  consumer receives next was broadcast next, unless the ring lagged, and how far,
  whether a session is `linked` or not,
  the camera can be ahead of it (`Reach`); `Unspliced` that therefore no packet
  that can still be broadcast continues the number of the consumer's last one
  unless it is of the same connection.
* `ReconnectBudgetProofs`. What `refill()` computes, from the bounds of integer
  division; the effect of one more tick on it (`RefillTick`); `WaitIsExact` from
  the invariant that a sleeping caller's rest and the bucket's age add up to a
  period; and the refinement of `TokenBucket`.

Only model-checked are the liveness properties (`QuietIsReleased`,
`SubscribeReturns`, `RetryHappens`, `TroubleHeals`, `ConnectResolves`,
`TeardownFrees`, `CloseReachesDriver`, `DeadLinkNoticed`, `HangUpNoticed`,
`SnapshotRecovers`, `Reannounces`, `StateSettles`), which need fairness and
`ENABLED`. Every invariant and every refinement of the passing runs is a theorem.

## 5. Not modelled

Text and wire formats (RTSP messages, SDP, Engine.IO and Socket.IO frames,
protobuf, JSON, MQTT discovery), generated code, logging, metrics, health,
configuration and the external crates (webrtc, rumqttc, reqwest, openh264), which
appear only as the code uses them. Of the modelled parts:

* REST requests: builders and decoders, which keep no state. The refresh before a
  command and before a connect is `Auth`'s `Call`; that a request could hang for
  ever is excluded there by fairness.
* The login's cookies, URLs and PKCE values. Its redirects are one step.
* `TransientSignaler`: its connection is a `Signaling` session without driver; in
  `Mqtt` it is the outcome of `Dispatch`.
* Reconnection of a session is the supervisor's; `Signaling` is one session.
* H.264 units in one packet, units of more than two fragments, and the encoder.
* The delays of `Backoff`; no property depends on their length.
* The supervisor and the outputs in one state space: the viewers of `Supervisor`
  call `subscribe()` at any time, which covers what `Rtsp` and the snapshot worker
  do to it; `Rtsp` and `Snapshot` see a camera that comes and goes at any time,
  which covers what the supervisor does to them.

## 6. What could follow

* A refinement from `Signaling` to the nondeterministic `ConnectOk` and
  `ConnectErr` of `Supervisor`, stated over a common abstract session.
* `Rtsp` composed with `Supervisor` for one viewer, to replace the last item above
  by a theorem.
* Units of several fragments, and units in one packet, in `Snapshot`.
* Action properties of `Rtsp` and `Snapshot`: what a request may change of its
  session, and that the picture stored only ever moves forward within a connection.
