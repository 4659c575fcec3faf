----------------------------- MODULE Signaling -----------------------------
(***************************************************************************)
(* One camera session from dialing to teardown: the websocket transport    *)
(* (src/prusa/signaling/client.rs with engineio.rs and socketio.rs), the   *)
(* translator (src/prusa/signaling/mod.rs), the session driver             *)
(* (src/webrtc_session.rs), and the connect() that starts them and waits   *)
(* for the media (src/supervisor/webrtc_factory.rs).                       *)
(*                                                                         *)
(*   server -net-> transport -inQ-> translator -typedQ-> driver -signalQ-+ *)
(*   server <------ transport <-------outQ--- translator, driver, commands *)
(*                                                                         *)
(* Every queue is bounded and a sender waits in the middle of its task, so *)
(* that a task which waits does nothing else, not even watch its timer.    *)
(***************************************************************************)
EXTENDS Naturals, Sequences, FiniteSets

CONSTANTS
  QueueCap,       \* capacity of outQ, inQ and typedQ (64 in the code)
  SignalCap,      \* capacity of signalQ (32 in the code)
  NetCap,         \* bound: frames in flight from the server
  MaxCandidates,  \* bound: local ICE candidates
  MaxTraffic      \* bound: remote candidates, further offers, commands, noise

ASSUME SignalingAssumption ==
  /\ QueueCap \in Nat \ {0} /\ SignalCap \in Nat \ {0} /\ NetCap \in Nat \ {0, 1}
  /\ MaxCandidates \in Nat /\ MaxTraffic \in Nat

VARIABLES
  conn,        \* progress of connect() and of the session it returns
  transport, pushing,         \* task, and the Inbound it is sending
  translator, todo, emitting, \* task, Outbound messages to send, event it is sending
  driver, sending,            \* task, and the signal it is sending
  outQ, inQ, typedQ, signalQ, \* the channels
  pending,     \* Correlator::pending: a header has come, its attachment not yet
  remote,      \* the remote description is set
  local,       \* the local description is set
  iceHeld,     \* WebRtcSession::pending_ice
  iceSeen,     \* history: remote candidates that reached the driver
  iceAdded,    \* remote candidates handed to the peer connection
  gathered,    \* local candidates found
  peer,        \* the peer connection
  killed,      \* the StopHandle was dropped
  net, link,   \* frames from the server, state of the network
  server,      \* what the server has seen and done
  early,       \* history: events that reached the server before it acknowledged
  extra        \* how often the server made noise or offered again, and commands were sent

taskVars == <<conn, transport, pushing, translator, todo, emitting, driver, sending>>
queueVars == <<outQ, inQ, typedQ, signalQ>>
mediaVars == <<remote, local, iceHeld, iceSeen, iceAdded, gathered, peer>>
worldVars == <<net, link, server, early, extra>>
vars == <<taskVars, queueVars, pending, mediaVars, killed, worldVars>>

Messages == {"connect", "auth", "trigger", "kickoff", "answer", "candidate", "command", "pong"}
Plain == {"connected", "ack", "nack", "ping", "disconnect"}   \* one text frame
Binary == {"offer", "ice", "status"}                          \* header and attachment
Events == Plain \cup Binary \cup {"closed"}
Frames ==
  [kind : {"text"}, name : Plain \cup {"close"}]
    \cup [kind : {"header", "bytes"}, name : Binary]

TypeOK ==
  /\ conn \in {"dial", "connecting", "waiting", "ready", "down"}
  /\ transport \in {"off", "run", "push", "lastPush", "write", "done"}
  /\ translator \in {"off", "run", "send", "emit", "lastEmit", "done"}
  /\ driver \in {"off", "run", "send", "answer", "ended"}
  /\ pushing \in Events \cup Messages \cup {"none"}
  /\ emitting \in Events \cup {"none"}
  /\ sending \in {"answer", "candidate", "none"}
  /\ todo \in Seq(Messages)
  /\ outQ \in Seq(Messages) /\ Len(outQ) <= QueueCap
  /\ inQ \in Seq(Events) /\ Len(inQ) <= QueueCap
  /\ typedQ \in Seq(Events) /\ Len(typedQ) <= QueueCap
  /\ signalQ \in Seq({"answer", "candidate"}) /\ Len(signalQ) <= SignalCap
  /\ pending \in BOOLEAN /\ remote \in BOOLEAN /\ local \in BOOLEAN /\ killed \in BOOLEAN
  /\ iceHeld \in Nat /\ iceSeen \in Nat /\ iceAdded \in Nat
  /\ gathered \in 0..MaxCandidates
  /\ peer \in {"new", "connected", "terminated"}
  /\ net \in Seq(Frames) /\ Len(net) <= NetCap
  /\ link \in {"up", "dead"}
  /\ server \in [auth : {"no", "asked", "acked", "refused"}, ice : 0..MaxTraffic,
                 seen : SUBSET {"kickoff", "offer", "answer"}]
  /\ early \subseteq Messages
  /\ extra \in 0..MaxTraffic

Init ==
  /\ conn = "dial"
  /\ transport = "off" /\ translator = "off" /\ driver = "off"
  /\ pushing = "none" /\ emitting = "none" /\ sending = "none"
  /\ todo = <<>> /\ outQ = <<>> /\ inQ = <<>> /\ typedQ = <<>> /\ signalQ = <<>>
  /\ pending = FALSE /\ remote = FALSE /\ local = FALSE /\ killed = FALSE
  /\ iceHeld = 0 /\ iceSeen = 0 /\ iceAdded = 0 /\ gathered = 0
  /\ peer = "new"
  /\ net = <<>> /\ link = "up" /\ early = {} /\ extra = 0
  /\ server = [auth |-> "no", ice |-> 0, seen |-> {}]

\* The bound on what the server and the command side do of their own accord.
MoreTraffic == extra + server.ice < MaxTraffic

-----------------------------------------------------------------------------
(* The transport task.  Its receiver of inQ is gone when the translator has *)
(* ended or connect() gave up before it started one.                        *)

\* Mutant: a queue takes one element too many.
FullLate(q) == Len(q) > QueueCap

Full(q) == Len(q) >= QueueCap
TransportAlive == transport \notin {"off", "done"}

\* Mutant: only an explicit close ends the transport, not the end of its consumer.
StillConsumed == FALSE

ConsumerGone == translator = "done"

\* feed_text() and feed_binary(): an event is complete; text between a header and its
\* attachment, or an attachment without header, is dropped.
Complete(frame) ==
  \/ frame.name \in {"ping", "close"}
  \/ frame.kind = "text" /\ ~pending
  \/ frame.kind = "bytes" /\ pending

\* A frame arrives; the watchdog starts anew.
Read ==
  /\ transport = "run" /\ net # <<>>
  /\ LET frame == Head(net) IN
       /\ pending' = IF frame.kind = "text" THEN pending ELSE frame.kind = "header"
       /\ IF ~Complete(frame)
            THEN UNCHANGED <<transport, pushing>>
          ELSE IF frame.name = "ping"
            THEN transport' = "write" /\ pushing' = "pong"
          ELSE IF frame.name = "close"
            THEN transport' = "lastPush" /\ pushing' = "closed"
            ELSE transport' = "push" /\ pushing' = frame.name
  /\ net' = Tail(net)
  /\ UNCHANGED <<conn, translator, todo, emitting, driver, sending, queueVars, mediaVars,
                 killed, link, server, early, extra>>

\* An Outbound is taken from the queue to be written.
TakeOutbound ==
  /\ transport = "run" /\ outQ # <<>>
  /\ transport' = "write" /\ pushing' = Head(outQ)
  /\ outQ' = Tail(outQ)
  /\ UNCHANGED <<conn, translator, todo, emitting, driver, sending, inQ, typedQ, signalQ,
                 pending, mediaVars, killed, worldVars>>

\* inbound_tx.send(): blocks while the queue is full.
Push ==
  /\ transport \in {"push", "lastPush"} /\ ~Full(inQ)
  /\ inQ' = Append(inQ, pushing)
  /\ transport' = IF transport = "lastPush" THEN "done" ELSE "run"
  /\ pushing' = "none"
  /\ UNCHANGED <<conn, translator, todo, emitting, driver, sending, outQ, typedQ, signalQ,
                 pending, mediaVars, killed, worldVars>>

\* The server gets a message.  What it sends later is up to the server.
Receives(m) ==
  /\ server' = [server EXCEPT
       !.auth = IF m = "auth" /\ @ = "no" THEN "asked" ELSE @,
       !.seen = @ \cup ({m} \cap {"answer"})
                  \cup (IF server.auth = "acked" THEN {m} \cap {"kickoff"} ELSE {})]
  /\ early' = IF m \in {"connect", "auth", "pong"} \/ server.auth = "acked"
                THEN early ELSE early \cup {m}
  /\ net' = IF m = "connect" THEN Append(net, [kind |-> "text", name |-> "connected"]) ELSE net

\* The frames are written.  On a dead link they vanish, or the write fails in the end.
Write ==
  /\ transport = "write"
  /\ \/ /\ link = "up"
        /\ Len(net) < NetCap
        /\ Receives(pushing)
        /\ transport' = "run" /\ pushing' = "none"
     \/ /\ link = "dead"
        /\ \/ transport' = "run" /\ pushing' = "none"
           \/ transport' = "lastPush" /\ pushing' = "closed"
        /\ UNCHANGED <<server, early, net>>
  /\ UNCHANGED <<conn, translator, todo, emitting, driver, sending, queueVars, pending,
                 mediaVars, killed, link, extra>>

\* Mutant: the ping timer never fires.
NeverTimesOut == FALSE

\* Nothing has come for ping_interval + 5s, from a server that is silent or over a link
\* that is dead; seen only while the task waits for input.
PingOverdue == transport = "run" /\ net = <<>>

PingTimeout ==
  /\ PingOverdue
  /\ transport' = "lastPush" /\ pushing' = "closed"
  /\ UNCHANGED <<conn, translator, todo, emitting, driver, sending, queueVars, pending,
                 mediaVars, killed, worldVars>>

\* The task is cancelled wherever it waits.
TransportStops ==
  /\ TransportAlive /\ ConsumerGone
  /\ transport' = "done" /\ pushing' = "none"
  /\ UNCHANGED <<conn, translator, todo, emitting, driver, sending, queueVars, pending,
                 mediaVars, killed, worldVars>>

-----------------------------------------------------------------------------
(* The translator task. *)

\* A message goes out; when the transport has ended the error is ignored.
TranslatorSends ==
  /\ translator = "send"
  /\ IF transport = "done" THEN UNCHANGED outQ
     ELSE ~Full(outQ) /\ outQ' = Append(outQ, Head(todo))
  /\ todo' = Tail(todo)
  /\ translator' = IF todo' = <<>> THEN "run" ELSE "send"
  /\ UNCHANGED <<conn, transport, pushing, emitting, driver, sending, inQ, typedQ, signalQ,
                 pending, mediaVars, killed, worldVars>>

\* Mutant: the triggers and the kick-off do not wait for the acknowledgement.
UngatedStart == <<"auth", "trigger", "trigger", "kickoff">>

FirstMessages == <<"auth">>

\* The acknowledgement of the authentication gates the triggers and the kick-off.
Translate ==
  /\ translator = "run" /\ inQ # <<>>
  /\ inQ' = Tail(inQ)
  /\ LET ev == Head(inQ) IN
       IF ev = "ack"
         THEN /\ todo' = <<"trigger", "trigger", "kickoff">> /\ translator' = "send"
              /\ UNCHANGED emitting
       ELSE IF ev = "connected"
         THEN UNCHANGED <<translator, emitting, todo>>
         ELSE /\ translator' = IF ev = "nack" THEN "lastEmit" ELSE "emit"
              /\ emitting' = IF ev \in {"nack", "disconnect"} THEN "closed" ELSE ev
              /\ UNCHANGED todo
  /\ UNCHANGED <<conn, transport, pushing, driver, sending, outQ, typedQ, signalQ,
                 pending, mediaVars, killed, worldVars>>

\* typed_tx.send(): blocks while the queue is full.
Emit ==
  /\ translator \in {"emit", "lastEmit"} /\ ~Full(typedQ)
  /\ typedQ' = Append(typedQ, emitting)
  /\ translator' = IF translator = "lastEmit" THEN "done" ELSE "run"
  /\ emitting' = "none"
  /\ UNCHANGED <<conn, transport, pushing, todo, driver, sending, outQ, inQ, signalQ,
                 pending, mediaVars, killed, worldVars>>

\* The events are no longer consumed, or no more can come.
TranslatorStops ==
  /\ translator \notin {"off", "done"}
  /\ driver = "ended" \/ (translator = "run" /\ inQ = <<>> /\ transport = "done")
  /\ translator' = "done" /\ emitting' = "none" /\ todo' = <<>>
  /\ UNCHANGED <<conn, transport, pushing, driver, sending, queueVars, pending,
                 mediaVars, killed, worldVars>>

-----------------------------------------------------------------------------
(* The driver: run_session() and handle_signal(). *)

\* Mutant: candidates that came before the offer stay where they are.
KeepHeld == UNCHANGED <<iceHeld, iceAdded>>

\* They are handed over once the remote description is set.
Drain == iceHeld' = 0 /\ iceAdded' = iceAdded + iceHeld

\* The offer is not accepted and nothing changes; or it is answered, and the answer goes
\* through the driver's own queue; or making the answer fails, maybe after the local
\* description was set, and the driver goes on.
OnOffer ==
  \/ UNCHANGED <<driver, remote, local, iceHeld, iceSeen, iceAdded>>
  \/ /\ remote' = TRUE
     /\ Drain
     /\ \/ driver' = "answer" /\ local' = TRUE
        \/ driver' = "run" /\ local' \in {local, TRUE}
     /\ UNCHANGED iceSeen

OnIce ==
  /\ iceSeen' = iceSeen + 1
  /\ IF remote THEN iceAdded' = iceAdded + 1 /\ UNCHANGED iceHeld
               ELSE iceHeld' = iceHeld + 1 /\ UNCHANGED iceAdded
  /\ UNCHANGED <<remote, local, driver>>

Handle ==
  /\ driver = "run" /\ typedQ # <<>> /\ Head(typedQ) # "closed"
  /\ typedQ' = Tail(typedQ)
  /\ IF Head(typedQ) = "offer" THEN OnOffer
     ELSE IF Head(typedQ) = "ice" THEN OnIce
     ELSE UNCHANGED <<driver, remote, local, iceHeld, iceSeen, iceAdded>>
  /\ UNCHANGED <<conn, transport, pushing, translator, todo, emitting, sending, outQ, inQ,
                 signalQ, pending, gathered, peer, killed, worldVars>>

\* outbound_signal_tx.send(answer), in the task that empties this very queue.
Answer ==
  /\ driver = "answer" /\ Len(signalQ) < SignalCap
  /\ signalQ' = Append(signalQ, "answer")
  /\ driver' = "run"
  /\ UNCHANGED <<conn, transport, pushing, translator, todo, emitting, sending, outQ, inQ,
                 typedQ, pending, mediaVars, killed, worldVars>>

TakeSignal ==
  /\ driver = "run" /\ signalQ # <<>>
  /\ sending' = Head(signalQ) /\ signalQ' = Tail(signalQ)
  /\ driver' = "send"
  /\ UNCHANGED <<conn, transport, pushing, translator, todo, emitting, outQ, inQ, typedQ,
                 pending, mediaVars, killed, worldVars>>

\* send_webrtc()
SendSignal ==
  /\ driver = "send" /\ transport # "done" /\ ~Full(outQ)
  /\ outQ' = Append(outQ, sending)
  /\ driver' = "run" /\ sending' = "none"
  /\ UNCHANGED <<conn, transport, pushing, translator, todo, emitting, inQ, typedQ, signalQ,
                 pending, mediaVars, killed, worldVars>>

\* Mutant: the driver overlooks that the signaling has ended.
SeesNoEnd == FALSE

\* Closed, the end of the events, or a send that fails.
SeesEnd ==
  \/ driver = "run" /\ typedQ # <<>> /\ Head(typedQ) = "closed"
  \/ driver = "run" /\ typedQ = <<>> /\ translator = "done"
  \/ driver = "send" /\ transport = "done"

\* The driver ends by itself, or is cancelled wherever it waits; it closes the peer.
DriverEnds ==
  /\ driver \notin {"off", "ended"}
  /\ SeesEnd \/ peer = "terminated" \/ killed
  /\ driver' = "ended" /\ sending' = "none"
  /\ peer' = "terminated"
  /\ UNCHANGED <<conn, transport, pushing, translator, todo, emitting, queueVars, pending,
                 remote, local, iceHeld, iceSeen, iceAdded, gathered, killed, worldVars>>

\* on_ice_candidate: a callback of the peer connection, from set_local_description() on.
Gather ==
  /\ local /\ peer # "terminated" /\ driver # "ended"
  /\ gathered < MaxCandidates /\ Len(signalQ) < SignalCap
  /\ gathered' = gathered + 1
  /\ signalQ' = Append(signalQ, "candidate")
  /\ UNCHANGED <<taskVars, outQ, inQ, typedQ, pending, remote, local, iceHeld, iceSeen,
                 iceAdded, peer, killed, worldVars>>

-----------------------------------------------------------------------------
(* connect() *)
Dial ==
  /\ conn = "dial"
  /\ \/ conn' = "connecting" /\ transport' = "run" /\ outQ' = <<"connect">>
     \/ conn' = "down" /\ UNCHANGED <<transport, outQ>>
  /\ UNCHANGED <<pushing, translator, todo, emitting, driver, sending, inQ, typedQ, signalQ,
                 pending, mediaVars, killed, worldVars>>

\* from_transport() waits for the CONNECT reply; then the tasks start, or building
\* the peer connection fails and everything is dropped.
AwaitConnected ==
  /\ conn = "connecting"
  /\ \/ /\ inQ # <<>>
        /\ inQ' = Tail(inQ)
        /\ \/ /\ Head(inQ) = "connected"
              /\ conn' = "waiting"
              /\ translator' = "send" /\ todo' = FirstMessages /\ driver' = "run"
           \/ /\ Head(inQ) \in {"connected", "closed"}
              /\ conn' = "down" /\ translator' = "done"
              /\ UNCHANGED <<todo, driver>>
           \/ /\ Head(inQ) \notin {"connected", "closed"}
              /\ UNCHANGED <<conn, translator, todo, driver>>
     \/ /\ inQ = <<>> /\ transport = "done"
        /\ conn' = "down" /\ translator' = "done"
        /\ UNCHANGED <<inQ, todo, driver>>
  /\ UNCHANGED <<transport, pushing, emitting, sending, outQ, typedQ, signalQ, pending,
                 mediaVars, killed, worldVars>>

\* wait_for_ready(): connected, and the offer's codec is known.
Ready ==
  /\ conn = "waiting" /\ driver # "ended"
  /\ peer = "connected" /\ remote
  /\ conn' = "ready"
  /\ UNCHANGED <<transport, pushing, translator, todo, emitting, driver, sending, queueVars,
                 pending, mediaVars, killed, worldVars>>

\* Mutant: only a peer connection that ended gives the attempt up, no deadline does.
GivesUpLate == conn = "waiting" /\ peer = "terminated"

\* The session ended, the peer failed, or 15 seconds have passed.
GivesUp == conn = "waiting"

\* The Joiner is dropped: by an attempt that fails, or at teardown.
Kill ==
  /\ GivesUp \/ conn = "ready"
  /\ conn' = "down" /\ killed' = TRUE
  /\ UNCHANGED <<transport, pushing, translator, todo, emitting, driver, sending, queueVars,
                 pending, mediaVars, worldVars>>

\* dispatch() over the registered outbound, which a clone keeps usable at any time
\* after the registration.
Command ==
  /\ conn \in {"waiting", "ready"} /\ MoreTraffic
  /\ TransportAlive /\ ~Full(outQ)
  /\ outQ' = Append(outQ, "command")
  /\ extra' = extra + 1
  /\ UNCHANGED <<taskVars, inQ, typedQ, signalQ, pending, mediaVars, killed, net, link,
                 server, early>>

-----------------------------------------------------------------------------
(* The server, the network and the peer. *)
Text(name) == <<[kind |-> "text", name |-> name]>>
Bytes(name) == <<[kind |-> "header", name |-> name], [kind |-> "bytes", name |-> name]>>

ServerDoes ==
  \/ server.auth = "asked" /\ \E ok \in BOOLEAN :
       /\ server' = [server EXCEPT !.auth = IF ok THEN "acked" ELSE "refused"]
       /\ net' = net \o Text(IF ok THEN "ack" ELSE "nack")
       /\ UNCHANGED extra
  \/ /\ "kickoff" \in server.seen
     /\ IF "offer" \in server.seen THEN MoreTraffic /\ extra' = extra + 1
                                   ELSE UNCHANGED extra
     /\ server' = [server EXCEPT !.seen = @ \cup {"offer"}]
     /\ net' = net \o Bytes("offer")
  \/ "kickoff" \in server.seen /\ MoreTraffic
       /\ server' = [server EXCEPT !.ice = @ + 1]
       /\ net' = net \o Bytes("ice")
       /\ UNCHANGED extra
  \/ server.auth # "no" /\ MoreTraffic /\ extra' = extra + 1
       /\ \/ net' = net \o Text("ping") \/ net' = net \o Bytes("status")
          \/ net' = net \o Text("disconnect") \/ net' = net \o Text("close")
       /\ UNCHANGED server

ServerSends ==
  /\ link = "up" /\ Len(net) + 2 <= NetCap /\ TransportAlive
  /\ ServerDoes
  /\ UNCHANGED <<taskVars, queueVars, pending, mediaVars, killed, link, early>>

\* The network dies under the websocket.
LinkDies ==
  /\ link = "up" /\ TransportAlive
  /\ link' = "dead"
  /\ UNCHANGED <<taskVars, queueVars, pending, mediaVars, killed, net, server, early, extra>>

PeerChanges ==
  /\ \/ peer = "new" /\ "answer" \in server.seen /\ peer' = "connected"
     \/ local /\ peer # "terminated" /\ peer' = "terminated"
  /\ UNCHANGED <<taskVars, queueVars, pending, remote, local, iceHeld, iceSeen, iceAdded,
                 gathered, killed, worldVars>>

TransportWorks == Read \/ TakeOutbound \/ Push \/ Write \/ TransportStops
TransportStep == TransportWorks \/ PingTimeout
TranslatorStep == TranslatorSends \/ Translate \/ Emit \/ TranslatorStops
DriverStep == Handle \/ Answer \/ TakeSignal \/ SendSignal \/ DriverEnds
ConnectStep == Dial \/ AwaitConnected \/ Ready

Next ==
  \/ TransportStep \/ TranslatorStep \/ DriverStep \/ ConnectStep
  \/ Gather \/ Kill \/ Command
  \/ ServerSends \/ LinkDies \/ PeerChanges

Spec == Init /\ [][Next]_vars

(* Fairness: every task runs; a write ends; the deadline of an attempt that *)
(* is not ready comes, and so does the one for pings when nothing can come  *)
(* any more.  Nothing makes a running session stop, and nothing makes the   *)
(* server, the network or the peer act.                                     *)
FairSpec ==
  /\ Spec
  /\ WF_vars(TransportWorks \/ (link = "dead" /\ PingTimeout))
  /\ WF_vars(TranslatorStep) /\ WF_vars(DriverStep)
  /\ WF_vars(ConnectStep)
  /\ WF_vars(GivesUp /\ Kill)

-----------------------------------------------------------------------------
(* SessionGated: no event of the session itself reaches the server before  *)
(* the server has acknowledged the authentication, which it would answer   *)
(* with ClientIsNotSessionMemberError (signaling/mod.rs:193).              *)
SessionGated == early \subseteq {"command"}

(* CommandsGated: no event at all does.  client.rs:44 says of the ACK:     *)
(* "Used to gate follow-up emits until the auth flow is complete (otherwise *)
(* the server returns ClientIsNotSessionMemberError for any event that     *)
(* races the auth ACK)"; the registered outbound passes by this gate.      *)
CommandsGated == early = {}

\* How often x is in a queue, or in a task's hands.
Among(x, queue) == Cardinality({i \in DOMAIN queue : queue[i] = x})
InHand(x, hand) == IF hand = x THEN 1 ELSE 0

\* The remote candidates that have not reached the driver.
IceBytes == [kind |-> "bytes", name |-> "ice"]

OnTheWay ==
  Among(IceBytes, net) + InHand("ice", pushing) + Among("ice", inQ)
    + InHand("ice", emitting) + Among("ice", typedQ)

\* While the translator runs, none that the server sent is missing.
NoneLost == translator # "done" => server.ice = iceSeen + OnTheWay

HeldOrAdded == iceSeen = iceAdded + iceHeld /\ (remote => iceHeld = 0)

(* CandidatesKept: no candidate of the server's is lost, neither by the    *)
(* correlation of headers with attachments, nor in the CONNECT handshake,  *)
(* nor between bounded queues, until the session ends; each that reached   *)
(* the driver is held or handed to the peer connection, and none is left   *)
(* behind once the offer is known, in whatever order the two arrive        *)
(* (socketio.rs:247, mod.rs:123, webrtc_session.rs:309).                   *)
CandidatesKept == NoneLost /\ HeldOrAdded

(* ConnectResolves: an attempt that got its CONNECT reply ends, ready or   *)
(* given up, even when the driver blocks on its own full queue or the      *)
(* tasks wait for each other in a circle (webrtc_session.rs:350).          *)
ConnectResolves == conn = "waiting" ~> conn \in {"ready", "down"}

(* TeardownFrees: once the StopHandle is dropped or the driver has ended,  *)
(* no task of the session is left, although commands may keep a clone of   *)
(* its outbound and whichever queues were full (client.rs:133, mod.rs:137). *)
TeardownFrees ==
  (killed \/ driver = "ended") ~>
    (driver \in {"off", "ended"} /\ translator = "done" /\ ~TransportAlive)

\* The driver waits for room in the queue that only it empties, until the peer connection
\* ends or the session is torn down.
SelfBlocked == driver = "answer" /\ Len(signalQ) = SignalCap

(* CloseReachesDriver: when the websocket is gone the driver ends, so that *)
(* the watchdog learns of it (factory's ended channel), unless a further   *)
(* offer found the driver's own queue full of candidates                   *)
(* (webrtc_session.rs:350).                                                *)
CloseReachesDriver == transport = "done" ~> (driver \in {"off", "ended"} \/ SelfBlocked)

\* Every task waits for room that only another one of them can make.
Wedged ==
  /\ transport \in {"push", "lastPush"} /\ Full(inQ)
  /\ \/ translator = "send" /\ Full(outQ)
     \/ /\ translator = "emit" /\ Full(typedQ)
        /\ (driver = "send" /\ Full(outQ)) \/ SelfBlocked

(* DeadLinkNoticed: a network that has died silently ends the transport,   *)
(* unless the tasks block each other first: the ping timer is not watched  *)
(* while the transport waits for room (client.rs:261, mod.rs:202).         *)
DeadLinkNoticed == link = "dead" ~> (~TransportAlive \/ Wedged)
=============================================================================
