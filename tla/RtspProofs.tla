----------------------------- MODULE RtspProofs -----------------------------
(***************************************************************************)
(* Proofs about Rtsp, for any number of viewers, requests, packets and     *)
(* camera sessions, and every size of the broadcast ring.                  *)
(***************************************************************************)
EXTENDS Rtsp, TLAPS

\* RtspTypeOK in four parts.
ConnectionTypes ==
  /\ client \in [Viewers -> {"off", "up", "stalled", "closed"}]
  /\ task \in [Viewers -> {"off", "read", "parse", "subscribe", "handle", "stream", "done"}]
  /\ sent \in [Viewers -> 0..(2 * MaxRequests)]
  /\ got \in [Viewers -> 0..(2 * MaxRequests)]
  /\ used \in [Viewers -> 0..(2 * MaxRequests)]
  /\ \A v \in Viewers : used[v] <= got[v] /\ got[v] <= sent[v]
  /\ request \in [Viewers -> Request \cup {NoRequest}]

SessionTypes ==
  /\ sessionState \in [Viewers -> {"Init", "Described", "SetUp", "Playing", "TornDown"}]
  /\ channel \in [Viewers -> Channels \cup {0}]
  /\ sub \in [Viewers -> 0..MaxSessions]

StreamTypes ==
  /\ cursor \in [Viewers -> 0..MaxPackets]
  /\ forwarded \in [Viewers -> 0..MaxPackets]
  /\ playedAt \in [Viewers -> 0..MaxPackets]

SourceTypes ==
  /\ camera \in [session : 0..MaxSessions, live : BOOLEAN]
  /\ packets \in [1..MaxSessions -> 0..MaxPackets]

\* A stream can start only from "handle", where whoever asks for something that needs
\* the camera holds a subscription, and only after a SETUP that named a channel.
HandlesSubscribed ==
  \A v \in Viewers :
    task[v] = "handle" /\ request[v].method \in {"describe", "setup", "play"} => sub[v] # 0

SetUpHasChannel ==
  \A v \in Viewers : sessionState[v] \in {"SetUp", "Playing"} => channel[v] # 0

LiveIsNumbered == camera.live => camera.session # 0

\* A connection streams once in its life.
StreamsOnce ==
  \A v \in Viewers :
    /\ client[v] = "off" => task[v] = "off"
    /\ task[v] \notin {"stream", "done"} => forwarded[v] = 0

Shape == HandlesSubscribed /\ SetUpHasChannel /\ LiveIsNumbered /\ StreamsOnce

RtspInv ==
  /\ ConnectionTypes /\ SessionTypes /\ StreamTypes /\ SourceTypes
  /\ Shape /\ StreamsNegotiated /\ FreshPackets

-----------------------------------------------------------------------------
LEMMA RtspInitially == RtspInit => RtspInv
<1> SUFFICES ASSUME RtspInit PROVE RtspInv
  OBVIOUS
<1> USE RtspAssumption DEF RtspInit
<1>1. ConnectionTypes
  BY DEF ConnectionTypes
<1>2. SessionTypes /\ StreamTypes /\ SourceTypes
  BY DEF SessionTypes, StreamTypes, SourceTypes
<1>3. Shape
  BY DEF Shape, HandlesSubscribed, SetUpHasChannel, LiveIsNumbered, StreamsOnce
<1>4. StreamsNegotiated /\ FreshPackets
  BY DEF StreamsNegotiated, FreshPackets
<1>5. QED  BY <1>1, <1>2, <1>3, <1>4 DEF RtspInv

LEMMA RequestKinds ==
  /\ NoRequest.method = "none" /\ NoRequest.channel = 0
  /\ \A r \in Request : /\ r.method \in Methods
                        /\ r.channel \in Channels \cup {0}
                        /\ r.channel # 0 => r.method = "setup"
  BY DEF Request, NoRequest, Methods, Channels

\* What of the connection every step leaves in its domain.
LEMMA ConnectionStays == ConnectionTypes /\ [RtspNext]_rtspVars => ConnectionTypes'
<1> SUFFICES ASSUME ConnectionTypes, [RtspNext]_rtspVars
             PROVE  ConnectionTypes'
  OBVIOUS
<1> USE RtspAssumption DEF ConnectionTypes, Goto, Close
<1>1. ASSUME NEW v \in Viewers, ConnectionStep(v)
      PROVE  ConnectionTypes'
  <2>1. CASE Read(v)
    BY <2>1 DEF Read
  <2>2. CASE Parse(v)
    BY <2>2 DEF Parse
  <2>3. CASE Incomplete(v) \/ Malformed(v)
    BY <2>3 DEF Incomplete, Malformed
  <2>4. CASE Subscribe(v) \/ SubscribeFails(v)
    BY <2>4 DEF Subscribe, SubscribeFails
  <2>5. CASE Play(v) \/ Answer(v)
    BY <2>5 DEF Play, Answer
  <2>6. CASE Stop(v) \/ StreamEnds(v) \/ HangUp(v)
    BY <2>6 DEF Stop, StreamEnds, HangUp
  <2>7. CASE Lagged(v) \/ Forward(v)
    BY <2>7 DEF Lagged, Forward, connectionVars
  <2>8. CASE Discard(v)
    BY <2>8 DEF Discard
  <2>9. QED  BY <1>1, <2>1, <2>2, <2>3, <2>4, <2>5, <2>6, <2>7, <2>8 DEF ConnectionStep
<1>2. ASSUME NEW v \in Viewers, Accept(v) \/ Send(v) \/ ClientChanges(v)
      PROVE  ConnectionTypes'
  BY <1>2 DEF Accept, Send, ClientChanges
<1>3. CASE CameraStarts \/ CameraEnds \/ Packet \/ UNCHANGED rtspVars
  BY <1>3 DEF CameraStarts, CameraEnds, Packet, rtspVars, connectionVars
<1>4. QED  BY <1>1, <1>2, <1>3 DEF RtspNext

\* The camera and its packets.
LEMMA SourceStays ==
  SourceTypes /\ LiveIsNumbered /\ [RtspNext]_rtspVars => SourceTypes' /\ LiveIsNumbered'
<1> SUFFICES ASSUME SourceTypes, LiveIsNumbered, [RtspNext]_rtspVars
             PROVE  SourceTypes' /\ LiveIsNumbered'
  OBVIOUS
<1> USE RtspAssumption DEF SourceTypes, LiveIsNumbered
<1>1. ASSUME NEW v \in Viewers, ConnectionStep(v)
      PROVE  UNCHANGED sourceVars
  BY <1>1 DEF ConnectionStep, Read, Parse, Incomplete, Malformed, Subscribe, SubscribeFails, Play,
              Answer, Stop, Lagged, Forward, Discard, StreamEnds, HangUp, Close, sourceVars
<1>2. ASSUME NEW v \in Viewers, Accept(v) \/ Send(v) \/ ClientChanges(v)
      PROVE  UNCHANGED sourceVars
  BY <1>2 DEF Accept, Send, ClientChanges, sourceVars
<1>3. CASE UNCHANGED sourceVars
  BY <1>3 DEF sourceVars
<1>4. CASE CameraStarts
  BY <1>4 DEF CameraStarts
<1>5. CASE CameraEnds
  BY <1>5 DEF CameraEnds
<1>6. CASE Packet
  BY <1>6 DEF Packet
<1>7. QED  BY <1>1, <1>2, <1>3, <1>4, <1>5, <1>6 DEF RtspNext, rtspVars

\* The state of every session, its channel and its subscription.
LEMMA SessionStays ==
  ConnectionTypes /\ SessionTypes /\ SourceTypes /\ [RtspNext]_rtspVars => SessionTypes'
<1> SUFFICES ASSUME ConnectionTypes, SessionTypes, SourceTypes, [RtspNext]_rtspVars
             PROVE  SessionTypes'
  OBVIOUS
<1> USE RtspAssumption DEF SessionTypes
<1>1. ASSUME NEW v \in Viewers, ConnectionStep(v)
      PROVE  SessionTypes'
  <2>1. CASE Read(v) \/ Parse(v) \/ Incomplete(v) \/ Lagged(v) \/ Forward(v) \/ Discard(v)
    BY <2>1 DEF Read, Parse, Incomplete, Lagged, Forward, Discard, sessionVars
  <2>2. CASE Malformed(v) \/ SubscribeFails(v) \/ Stop(v) \/ StreamEnds(v) \/ HangUp(v)
    BY <2>2 DEF Malformed, SubscribeFails, Stop, StreamEnds, HangUp, Close
  <2>3. CASE Subscribe(v)
    BY <2>3 DEF Subscribe, SourceTypes
  <2>4. CASE Play(v)
    BY <2>4 DEF Play
  <2>5. CASE Answer(v)
    <3>1. request[v].channel \in Channels \cup {0}
      BY RequestKinds DEF ConnectionTypes
    <3>2. QED  BY <2>5, <3>1 DEF Answer
  <2>6. QED  BY <1>1, <2>1, <2>2, <2>3, <2>4, <2>5 DEF ConnectionStep
<1>2. ASSUME NEW v \in Viewers, Accept(v) \/ Send(v) \/ ClientChanges(v)
      PROVE  SessionTypes'
  BY <1>2 DEF Accept, Send, ClientChanges, sessionVars
<1>3. CASE CameraStarts \/ CameraEnds \/ Packet \/ UNCHANGED rtspVars
  BY <1>3 DEF CameraStarts, CameraEnds, Packet, rtspVars, sessionVars
<1>4. QED  BY <1>1, <1>2, <1>3 DEF RtspNext

-----------------------------------------------------------------------------
\* How a connection gets to its stream.
LEMMA ShapeStays == RtspInv /\ [RtspNext]_rtspVars => Shape'
<1> SUFFICES ASSUME RtspInv, [RtspNext]_rtspVars
             PROVE  Shape'
  OBVIOUS
<1> USE RtspAssumption DEF RtspInv, Shape, ConnectionTypes, SessionTypes, StreamTypes,
                           HandlesSubscribed, SetUpHasChannel, StreamsOnce, Goto, Close
<1>1. LiveIsNumbered'
  BY SourceStays
<1>2. ASSUME NEW v \in Viewers, ConnectionStep(v)
      PROVE  Shape'
  <2>1. CASE Read(v) \/ Incomplete(v)
    BY <1>1, <2>1 DEF Read, Incomplete, sessionVars, streamVars
  <2>2. CASE Parse(v)
    BY <1>1, <2>2 DEF Parse, sessionVars, streamVars
  <2>3. CASE Malformed(v) \/ SubscribeFails(v) \/ Stop(v) \/ StreamEnds(v) \/ HangUp(v)
    BY <1>1, <2>3 DEF Malformed, SubscribeFails, Stop, StreamEnds, HangUp, WatchesSocket, streamVars
  <2>4. CASE Subscribe(v)
    <3>1. camera.session # 0
      BY <2>4 DEF Subscribe, LiveIsNumbered
    <3>2. QED  BY <1>1, <2>4, <3>1 DEF Subscribe
  <2>5. CASE Play(v)
    BY <1>1, <2>5 DEF Play, Plays
  <2>6. CASE Answer(v)
    <3>1. request[v].channel # 0 => request[v].method # "describe"
      BY RequestKinds
    <3>2. QED  BY <1>1, <2>6, <3>1 DEF Answer, streamVars
  <2>7. CASE Lagged(v) \/ Forward(v)
    BY <1>1, <2>7 DEF Lagged, Forward, connectionVars, sessionVars
  <2>8. CASE Discard(v)
    BY <1>1, <2>8 DEF Discard, sessionVars, streamVars
  <2>9. QED  BY <1>2, <2>1, <2>2, <2>3, <2>4, <2>5, <2>6, <2>7, <2>8 DEF ConnectionStep
<1>3. ASSUME NEW v \in Viewers, Accept(v) \/ Send(v) \/ ClientChanges(v)
      PROVE  Shape'
  BY <1>1, <1>3 DEF Accept, Send, ClientChanges, sessionVars, streamVars
<1>4. CASE CameraStarts \/ CameraEnds \/ Packet \/ UNCHANGED rtspVars
  BY <1>1, <1>4 DEF CameraStarts, CameraEnds, Packet, rtspVars, connectionVars, sessionVars, streamVars
<1>5. QED  BY <1>2, <1>3, <1>4 DEF RtspNext

\* A stream has a subscription and a channel.
LEMMA NegotiatedStays == RtspInv /\ [RtspNext]_rtspVars => StreamsNegotiated'
<1> SUFFICES ASSUME RtspInv, [RtspNext]_rtspVars
             PROVE  StreamsNegotiated'
  OBVIOUS
<1> USE DEF RtspInv, Shape, ConnectionTypes, SessionTypes, StreamsNegotiated, Goto, Close
<1>1. ASSUME NEW v \in Viewers, ConnectionStep(v)
      PROVE  StreamsNegotiated'
  <2>1. CASE Read(v) \/ Parse(v) \/ Incomplete(v) \/ Lagged(v) \/ Forward(v) \/ Discard(v)
    BY <2>1 DEF Read, Parse, Incomplete, Lagged, Forward, Discard, connectionVars, sessionVars
  <2>2. CASE Malformed(v) \/ SubscribeFails(v) \/ Stop(v) \/ StreamEnds(v) \/ HangUp(v)
    BY <2>2 DEF Malformed, SubscribeFails, Stop, StreamEnds, HangUp
  <2>3. CASE Subscribe(v)
    BY <2>3 DEF Subscribe
  <2>4. CASE Play(v)
    <3>1. sub[v] # 0 /\ channel[v] # 0
      BY <2>4 DEF Play, Plays, HandlesSubscribed, SetUpHasChannel
    <3>2. QED  BY <2>4, <3>1 DEF Play
  <2>5. CASE Answer(v)
    BY <2>5 DEF Answer
  <2>6. QED  BY <1>1, <2>1, <2>2, <2>3, <2>4, <2>5 DEF ConnectionStep
<1>2. ASSUME NEW v \in Viewers, Accept(v) \/ Send(v) \/ ClientChanges(v)
      PROVE  StreamsNegotiated'
  BY <1>2 DEF Accept, Send, ClientChanges, sessionVars
<1>3. CASE CameraStarts \/ CameraEnds \/ Packet \/ UNCHANGED rtspVars
  BY <1>3 DEF CameraStarts, CameraEnds, Packet, rtspVars, connectionVars, sessionVars
<1>4. QED  BY <1>1, <1>2, <1>3 DEF RtspNext

-----------------------------------------------------------------------------
\* The oldest packet in the ring of a session.
LEMMA OldestBounds ==
  ASSUME SourceTypes, NEW s \in 1..MaxSessions
  PROVE  packets[s] \in 0..MaxPackets /\ Oldest(s) \in 0..packets[s]
  BY RtspAssumption DEF SourceTypes, Oldest

\* The position of a stream, and the packets it has passed on.
LEMMA StreamStays == RtspInv /\ [RtspNext]_rtspVars => StreamTypes' /\ FreshPackets'
<1> SUFFICES ASSUME RtspInv, [RtspNext]_rtspVars
             PROVE  StreamTypes' /\ FreshPackets'
  OBVIOUS
<1> USE RtspAssumption DEF RtspInv, ConnectionTypes, StreamTypes, FreshPackets, Goto, Close
<1>1. ASSUME NEW v \in Viewers, ConnectionStep(v)
      PROVE  StreamTypes' /\ FreshPackets'
  <2>1. CASE Read(v) \/ Parse(v) \/ Incomplete(v) \/ Discard(v)
    BY <2>1 DEF Read, Parse, Incomplete, Discard, sessionVars, streamVars, sourceVars
  <2>2. CASE Malformed(v) \/ SubscribeFails(v) \/ Stop(v) \/ StreamEnds(v) \/ HangUp(v)
    <3>1. Close(v)
      BY <2>2 DEF Malformed, SubscribeFails, Stop, StreamEnds, HangUp
    <3>2. /\ task' = [task EXCEPT ![v] = "done"] /\ sub' = [sub EXCEPT ![v] = 0]
          /\ UNCHANGED <<cursor, forwarded, playedAt, packets>>
      BY <3>1 DEF streamVars, sourceVars
    <3> HIDE <2>2
    <3>3. QED  BY <3>2 DEF SessionTypes
  <2>3. CASE Subscribe(v)
    <3>1. camera.session \in 1..MaxSessions
      BY <2>3 DEF Subscribe, Shape, LiveIsNumbered, SourceTypes
    <3>2. packets[camera.session] \in 0..MaxPackets
      BY <3>1, OldestBounds
    <3>3. task[v] = "subscribe" /\ task' = [task EXCEPT ![v] = "handle"]
            /\ cursor' = [cursor EXCEPT ![v] = packets[camera.session]]
            /\ sub' = [sub EXCEPT ![v] = camera.session]
            /\ UNCHANGED <<forwarded, playedAt, packets>>
      BY <2>3 DEF Subscribe, sourceVars
    <3>4. StreamTypes'
      BY <3>2, <3>3
    <3>5. FreshPackets'
      BY <3>3 DEF SessionTypes
    <3>6. QED  BY <3>4, <3>5
  <2>4. CASE Play(v)
    <3>1. sub[v] \in 1..MaxSessions /\ forwarded[v] = 0
      BY <2>4 DEF Play, Plays, Shape, HandlesSubscribed, StreamsOnce, SessionTypes
    <3>2. PICK n \in 0..MaxPackets : n = packets[sub[v]]
      BY <3>1, OldestBounds
    <3>3. /\ task' = [task EXCEPT ![v] = "stream"]
          /\ cursor' = [cursor EXCEPT ![v] = n] /\ playedAt' = [playedAt EXCEPT ![v] = n]
          /\ UNCHANGED <<sub, forwarded, packets>>
      BY <2>4, <3>2 DEF Play, Resubscribe, sourceVars
    <3>4. StreamTypes'
      BY <3>3
    <3>5. FreshPackets'
      BY <3>1, <3>2, <3>3
    <3>6. QED  BY <3>4, <3>5
  <2>5. CASE Answer(v)
    BY <2>5 DEF Answer, streamVars, sourceVars
  <2>6. CASE Lagged(v) \/ Forward(v)
    <3>1. task[v] = "stream" /\ sub[v] \in 1..MaxSessions
      BY <2>6 DEF Lagged, Forward, SessionTypes, StreamsNegotiated
    <3>2. PICK n \in 0..MaxPackets, o \in Nat : n = packets[sub[v]] /\ o = Oldest(sub[v]) /\ o <= n
      BY <3>1, OldestBounds
    <3>3. PICK k \in 0..n : k = cursor[v] /\ playedAt[v] \in 0..k
                              /\ (forwarded[v] # 0 => playedAt[v] < forwarded[v] /\ forwarded[v] \in 0..k)
      BY <3>1, <3>2
    <3>4. UNCHANGED <<task, sub, playedAt, packets>>
      BY <2>6 DEF Lagged, Forward, connectionVars, sessionVars, sourceVars
    <3>5. CASE Lagged(v)
      <4>1. cursor' = [cursor EXCEPT ![v] = o] /\ k < o /\ forwarded' = forwarded
        BY <3>2, <3>3, <3>5 DEF Lagged
      <4>2. StreamTypes'
        BY <3>2, <3>4, <4>1
      <4>3. FreshPackets'
        BY <3>2, <3>3, <3>4, <4>1
      <4>4. QED  BY <4>2, <4>3
    <3>6. CASE Forward(v)
      <4>1. /\ cursor' = [cursor EXCEPT ![v] = k + 1] /\ k < n
            /\ forwarded' = [forwarded EXCEPT ![v] = k + 1]
        BY <3>2, <3>3, <3>6 DEF Forward
      <4>2. StreamTypes'
        BY <3>2, <3>4, <4>1
      <4>3. FreshPackets'
        BY <3>2, <3>3, <3>4, <4>1
      <4>4. QED  BY <4>2, <4>3
    <3>7. QED  BY <2>6, <3>5, <3>6
  <2>7. QED  BY <1>1, <2>1, <2>2, <2>3, <2>4, <2>5, <2>6 DEF ConnectionStep
<1>2. ASSUME NEW v \in Viewers, Accept(v)
      PROVE  StreamTypes' /\ FreshPackets'
  BY <1>2 DEF Accept, sessionVars, streamVars, sourceVars
<1>3. ASSUME NEW v \in Viewers, Send(v) \/ ClientChanges(v)
      PROVE  StreamTypes' /\ FreshPackets'
  BY <1>3 DEF Send, ClientChanges, sessionVars, streamVars, sourceVars
<1>4. CASE CameraStarts \/ CameraEnds \/ UNCHANGED rtspVars
  BY <1>4 DEF CameraStarts, CameraEnds, rtspVars, connectionVars, sessionVars, streamVars, sourceVars
<1>5. CASE Packet
  <2>1. PICK s \in 1..MaxSessions : packets' = [packets EXCEPT ![s] = packets[s] + 1]
    <3>1. camera.session \in 1..MaxSessions
      BY <1>5 DEF Packet, Shape, LiveIsNumbered, SourceTypes
    <3>2. QED  BY <1>5, <3>1 DEF Packet
  <2>2. UNCHANGED <<task, sub, cursor, forwarded, playedAt>>
    BY <1>5 DEF Packet, connectionVars, sessionVars, streamVars
  <2>3. ASSUME NEW v \in Viewers, task[v] = "stream"
        PROVE  packets[sub[v]] <= packets'[sub[v]] /\ packets[sub[v]] \in Nat /\ packets'[sub[v]] \in Nat
    <3>1. sub[v] \in 1..MaxSessions
      BY <2>3 DEF SessionTypes, StreamsNegotiated
    <3>2. PICK k \in 1..MaxSessions : k = sub[v]
      BY <3>1
    <3>3. packets[k] \in Nat /\ packets'[k] = IF k = s THEN packets[k] + 1 ELSE packets[k]
      BY <2>1 DEF SourceTypes
    <3>4. QED  BY <3>2, <3>3
  <2>4. FreshPackets'
    BY <2>2, <2>3
  <2>5. QED  BY <2>2, <2>4
<1>6. QED  BY <1>1, <1>2, <1>3, <1>4, <1>5 DEF RtspNext

-----------------------------------------------------------------------------
(* RtspCorrect: the whole inductive invariant of the connections.          *)
THEOREM RtspCorrect == RtspSpec => []RtspInv
<1>1. RtspInv /\ [RtspNext]_rtspVars => RtspInv'
  BY ConnectionStays, SessionStays, SourceStays, ShapeStays, NegotiatedStays, StreamStays
     DEF RtspInv, Shape
<1>2. QED  BY <1>1, RtspInitially, PTL DEF RtspSpec

(* RtspTypeCorrect: a connection's buffers, session and positions stay in  *)
(* their domains.                                                          *)
THEOREM RtspTypeCorrect == RtspSpec => []RtspTypeOK
<1>1. RtspInv => RtspTypeOK
  BY DEF RtspInv, RtspTypeOK, ConnectionTypes, SessionTypes, StreamTypes, SourceTypes
<1>2. QED  BY <1>1, RtspCorrect, PTL

(* StreamsAreNegotiated: no sequence of requests makes packets flow        *)
(* without a subscription and an agreed channel.                           *)
THEOREM StreamsAreNegotiated == RtspSpec => []StreamsNegotiated
<1>1. RtspInv => StreamsNegotiated
  BY DEF RtspInv
<1>2. QED  BY <1>1, RtspCorrect, PTL

(* PacketsAreFresh: no viewer gets a packet twice, out of order or from    *)
(* before its PLAY.                                                        *)
THEOREM PacketsAreFresh == RtspSpec => []FreshPackets
<1>1. RtspInv => FreshPackets
  BY DEF RtspInv
<1>2. QED  BY <1>1, RtspCorrect, PTL
=============================================================================
