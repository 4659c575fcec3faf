-------------------------------- MODULE Rtsp --------------------------------
(***************************************************************************)
(* The RTSP server: one task per connection reads bytes, answers requests  *)
(* and in the end forwards the RTP packets of the camera (src/rtsp).       *)
(*                                                                         *)
(* Bytes are counted in halves of a request, so that a read may end in the *)
(* middle of one or bring several.  What a request says matters only when  *)
(* it is parsed, and is chosen there.                                      *)
(***************************************************************************)
EXTENDS Naturals

CONSTANTS
  Viewers,      \* RTSP clients
  Ring,         \* capacity of the broadcast channel (256 in the code)
  MaxRequests,  \* bound: requests of one client
  MaxPackets,   \* bound: packets of one camera session
  MaxSessions   \* bound: camera sessions

ASSUME RtspAssumption ==
  /\ Ring \in Nat \ {0}
  /\ MaxRequests \in Nat /\ MaxPackets \in Nat /\ MaxSessions \in Nat

VARIABLES
  client,     \* the other end of the connection
  sent,       \* half requests the client has sent
  got,        \* half requests the server has read
  used,       \* half requests taken out of the buffer
  task,       \* what handle_connection() is doing
  request,    \* the request in hand
  sessionState, \* Session::state
  channel,    \* Session::rtp_channel, 0 for None
  sub,        \* the camera session of the Subscription, 0 for None
  cursor,     \* position of the viewer's broadcast receiver
  forwarded,  \* number of the last packet written to the client
  playedAt,   \* history: the last packet broadcast before PLAY was handled
  camera,     \* the current camera session, and whether it lives
  packets     \* packets broadcast in every camera session

connectionVars == <<client, sent, got, used, task, request>>
sessionVars == <<sessionState, channel, sub>>
streamVars == <<cursor, forwarded, playedAt>>
sourceVars == <<camera, packets>>
rtspVars == <<connectionVars, sessionVars, streamVars, sourceVars>>

Methods == {"query", "describe", "setup", "play", "teardown"}
Channels == {1, 2}

\* "query" stands for OPTIONS, GET_PARAMETER and unknown methods; a SETUP without a
\* usable Transport header names no channel.
Request ==
  [method : Methods \ {"setup"}, ours : BOOLEAN, channel : {0}]
    \cup [method : {"setup"}, ours : BOOLEAN, channel : Channels \cup {0}]

NoRequest == [method |-> "none", ours |-> FALSE, channel |-> 0]

RtspTypeOK ==
  /\ client \in [Viewers -> {"off", "up", "stalled", "closed"}]
  /\ task \in [Viewers -> {"off", "read", "parse", "subscribe", "handle", "stream", "done"}]
  /\ sent \in [Viewers -> 0..(2 * MaxRequests)]
  /\ got \in [Viewers -> 0..(2 * MaxRequests)]
  /\ used \in [Viewers -> 0..(2 * MaxRequests)]
  /\ \A v \in Viewers : used[v] <= got[v] /\ got[v] <= sent[v]
  /\ request \in [Viewers -> Request \cup {NoRequest}]
  /\ sessionState \in [Viewers -> {"Init", "Described", "SetUp", "Playing", "TornDown"}]
  /\ channel \in [Viewers -> Channels \cup {0}]
  /\ sub \in [Viewers -> 0..MaxSessions]
  /\ cursor \in [Viewers -> 0..MaxPackets]
  /\ forwarded \in [Viewers -> 0..MaxPackets]
  /\ playedAt \in [Viewers -> 0..MaxPackets]
  /\ camera \in [session : 0..MaxSessions, live : BOOLEAN]
  /\ packets \in [1..MaxSessions -> 0..MaxPackets]

RtspInit ==
  /\ client = [v \in Viewers |-> "off"]
  /\ sent = [v \in Viewers |-> 0]
  /\ got = [v \in Viewers |-> 0]
  /\ used = [v \in Viewers |-> 0]
  /\ task = [v \in Viewers |-> "off"]
  /\ request = [v \in Viewers |-> NoRequest]
  /\ sessionState = [v \in Viewers |-> "Init"]
  /\ channel = [v \in Viewers |-> 0]
  /\ sub = [v \in Viewers |-> 0]
  /\ cursor = [v \in Viewers |-> 0]
  /\ forwarded = [v \in Viewers |-> 0]
  /\ playedAt = [v \in Viewers |-> 0]
  /\ camera = [session |-> 0, live |-> FALSE]
  /\ packets = [s \in 1..MaxSessions |-> 0]

-----------------------------------------------------------------------------
Goto(v, state) == task' = [task EXCEPT ![v] = state]

\* handle_connection() returns: socket, session and subscription are dropped.
Close(v) ==
  /\ Goto(v, "done")
  /\ sub' = [sub EXCEPT ![v] = 0]
  /\ request' = [request EXCEPT ![v] = NoRequest]
  /\ UNCHANGED <<client, sent, got, used, sessionState, channel, streamVars, sourceVars>>

Accept(v) ==
  /\ client[v] = "off"
  /\ client' = [client EXCEPT ![v] = "up"]
  /\ Goto(v, "read")
  /\ UNCHANGED <<sent, got, used, request, sessionVars, streamVars, sourceVars>>

\* A read brings some of the bytes that have arrived.
Read(v) ==
  /\ task[v] = "read"
  /\ \E n \in (got[v] + 1)..sent[v] : got' = [got EXCEPT ![v] = n]
  /\ Goto(v, "parse")
  /\ UNCHANGED <<client, sent, used, request, sessionVars, streamVars, sourceVars>>

\* parse_request(): the buffer holds a whole request, which is taken out of it ...
Parse(v) ==
  /\ task[v] = "parse"
  /\ got[v] - used[v] >= 2
  /\ used' = [used EXCEPT ![v] = @ + 2]
  /\ \E r \in Request :
       /\ request' = [request EXCEPT ![v] = r]
       /\ Goto(v, IF sub[v] = 0 /\ r.method \in {"describe", "setup", "play"}
                    THEN "subscribe" ELSE "handle")
  /\ UNCHANGED <<client, sent, got, sessionVars, streamVars, sourceVars>>

\* ... or it does not, and more has to be read ...
Incomplete(v) ==
  /\ task[v] = "parse"
  /\ got[v] - used[v] < 2
  /\ Goto(v, "read")
  /\ UNCHANGED <<client, sent, got, used, request, sessionVars, streamVars, sourceVars>>

\* ... or it holds something that is no request.
Malformed(v) == task[v] = "parse" /\ got[v] - used[v] >= 2 /\ Close(v)

\* StreamSource::subscribe() returns; while it waits the socket is not watched.
Subscribe(v) ==
  /\ task[v] = "subscribe"
  /\ camera.live
  /\ sub' = [sub EXCEPT ![v] = camera.session]
  /\ cursor' = [cursor EXCEPT ![v] = packets[camera.session]]
  /\ Goto(v, "handle")
  /\ UNCHANGED <<client, sent, got, used, request, sessionState, channel, forwarded, playedAt,
                 sourceVars>>

SubscribeFails(v) == task[v] = "subscribe" /\ ~camera.live /\ Close(v)

\* Mutant: PLAY is accepted in any state.
PlayAnyway(v) == request[v].method = "play" /\ request[v].ours

\* PLAY is valid only in the state that SETUP leaves.
Plays(v) == request[v].method = "play" /\ request[v].ours /\ sessionState[v] = "SetUp"

\* Mutant: the stream starts where the subscription was taken, not at PLAY.
FromSubscription(v) == UNCHANGED cursor

\* resubscribe(): a receiver that starts at the next packet.
Resubscribe(v) == cursor' = [cursor EXCEPT ![v] = packets[sub[v]]]

\* Session::handle() starts the stream.
Play(v) ==
  /\ task[v] = "handle" /\ Plays(v)
  /\ client[v] # "closed"
  /\ sessionState' = [sessionState EXCEPT ![v] = "Playing"]
  /\ Resubscribe(v)
  /\ playedAt' = [playedAt EXCEPT ![v] = packets[sub[v]]]
  /\ request' = [request EXCEPT ![v] = NoRequest]
  /\ Goto(v, "stream")
  /\ UNCHANGED <<client, sent, got, used, channel, sub, forwarded, sourceVars>>

\* Session::handle() answers anything else; a request for another path changes nothing.
Answer(v) ==
  /\ task[v] = "handle" /\ ~Plays(v)
  /\ client[v] # "closed"
  /\ LET r == request[v] IN
       /\ ~(r.method = "teardown" /\ r.ours)
       /\ sessionState' =
            IF r.ours /\ r.method = "describe" THEN [sessionState EXCEPT ![v] = "Described"]
            ELSE IF r.ours /\ r.channel # 0 THEN [sessionState EXCEPT ![v] = "SetUp"]
            ELSE sessionState
       /\ channel' = IF r.ours /\ r.channel # 0 THEN [channel EXCEPT ![v] = r.channel] ELSE channel
  /\ request' = [request EXCEPT ![v] = NoRequest]
  /\ Goto(v, "parse")
  /\ UNCHANGED <<client, sent, got, used, sub, streamVars, sourceVars>>

\* TEARDOWN is answered and the connection ends; a response that cannot be written ends it too.
Stop(v) ==
  /\ task[v] = "handle"
  /\ (request[v].method = "teardown" /\ request[v].ours) \/ client[v] = "closed"
  /\ Close(v)

-----------------------------------------------------------------------------
\* forward_rtp()
Oldest(s) == IF packets[s] > Ring THEN packets[s] - Ring ELSE 0

Lagged(v) ==
  /\ task[v] = "stream" /\ cursor[v] < Oldest(sub[v])
  /\ cursor' = [cursor EXCEPT ![v] = Oldest(sub[v])]
  /\ UNCHANGED <<connectionVars, sessionVars, forwarded, playedAt, sourceVars>>

\* A packet is written, which waits for a client that does not read.
Forward(v) ==
  /\ task[v] = "stream" /\ client[v] = "up"
  /\ Oldest(sub[v]) <= cursor[v] /\ cursor[v] < packets[sub[v]]
  /\ cursor' = [cursor EXCEPT ![v] = @ + 1]
  /\ forwarded' = [forwarded EXCEPT ![v] = cursor[v] + 1]
  /\ UNCHANGED <<connectionVars, sessionVars, playedAt, sourceVars>>

\* What the client sends while it plays is read and thrown away.
Discard(v) ==
  /\ task[v] = "stream" /\ got[v] < sent[v]
  /\ got' = [got EXCEPT ![v] = sent[v]]
  /\ UNCHANGED <<client, sent, used, task, request, sessionVars, streamVars, sourceVars>>

\* The write fails, or the camera session is over.
StreamEnds(v) ==
  /\ task[v] = "stream"
  /\ \/ client[v] = "closed" /\ cursor[v] < packets[sub[v]]
     \/ cursor[v] = packets[sub[v]] /\ (sub[v] # camera.session \/ ~camera.live)
  /\ Close(v)

\* Mutant: only handle_connection() reads the socket, forward_rtp() does not.
WatchesReadsOnly(v) == task[v] = "read"

WatchesSocket(v) == task[v] \in {"read", "stream"}

\* End of file.
HangUp(v) ==
  /\ WatchesSocket(v)
  /\ client[v] = "closed" /\ got[v] = sent[v]
  /\ Close(v)

-----------------------------------------------------------------------------
(* The clients and the camera. *)
Send(v) ==
  /\ client[v] = "up" /\ task[v] # "done" /\ sent[v] < 2 * MaxRequests
  /\ sent' = [sent EXCEPT ![v] = @ + 1]
  /\ UNCHANGED <<client, got, used, task, request, sessionVars, streamVars, sourceVars>>

ClientChanges(v) ==
  /\ client[v] \in {"up", "stalled"}
  /\ \E state \in {"up", "stalled", "closed"} : client' = [client EXCEPT ![v] = state]
  /\ UNCHANGED <<sent, got, used, task, request, sessionVars, streamVars, sourceVars>>

CameraStarts ==
  /\ ~camera.live /\ camera.session < MaxSessions
  /\ \E v \in Viewers : task[v] = "subscribe"
  /\ camera' = [session |-> camera.session + 1, live |-> TRUE]
  /\ UNCHANGED <<connectionVars, sessionVars, streamVars, packets>>

CameraEnds ==
  /\ camera.live
  /\ camera' = [camera EXCEPT !.live = FALSE]
  /\ UNCHANGED <<connectionVars, sessionVars, streamVars, packets>>

Packet ==
  /\ camera.live /\ packets[camera.session] < MaxPackets
  /\ packets' = [packets EXCEPT ![camera.session] = @ + 1]
  /\ UNCHANGED <<connectionVars, sessionVars, streamVars, camera>>

ConnectionStep(v) ==
  \/ Read(v) \/ Parse(v) \/ Incomplete(v) \/ Malformed(v)
  \/ Subscribe(v) \/ SubscribeFails(v)
  \/ Play(v) \/ Answer(v) \/ Stop(v)
  \/ Lagged(v) \/ Forward(v) \/ Discard(v) \/ StreamEnds(v) \/ HangUp(v)

RtspNext ==
  \/ \E v \in Viewers : ConnectionStep(v) \/ Accept(v) \/ Send(v) \/ ClientChanges(v)
  \/ CameraStarts \/ CameraEnds \/ Packet

RtspSpec == RtspInit /\ [][RtspNext]_rtspVars

\* Every connection's task runs.
RtspFairness == \A v \in Viewers : WF_rtspVars(ConnectionStep(v))

-----------------------------------------------------------------------------
(* StreamsNegotiated: packets flow only to a viewer that holds a           *)
(* subscription and has set up the channel they are sent on; the fallback  *)
(* channel 0 of session.rs:142 and the "StartStreaming without             *)
(* subscription" of server.rs:189 never happen, whatever the requests,     *)
(* their order, and the subscriptions taken for refused ones.              *)
StreamsNegotiated ==
  \A v \in Viewers : task[v] = "stream" => sub[v] # 0 /\ channel[v] # 0 /\ sessionState[v] = "Playing"

(* FreshPackets: a viewer gets packets in their order, none twice, and     *)
(* none that was broadcast before its PLAY, although its subscription is   *)
(* older and it may lag behind the ring (server.rs:188, 237).              *)
FreshPackets ==
  \A v \in Viewers :
    task[v] = "stream" =>
      /\ playedAt[v] <= cursor[v] /\ cursor[v] <= packets[sub[v]]
      /\ forwarded[v] # 0 => playedAt[v] < forwarded[v] /\ forwarded[v] <= cursor[v]

(* HangUpNoticed: a client that hangs up is noticed and its subscription   *)
(* released, also when the camera is down and nothing is written           *)
(* (server.rs:215).                                                        *)
HangUpNoticed ==
  \A v \in Viewers : client[v] = "closed" ~> (task[v] = "done" /\ sub[v] = 0)
=============================================================================
