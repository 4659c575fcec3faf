--------------------------- MODULE OutputsProofs ---------------------------
(***************************************************************************)
(* Proofs about Outputs: its parts behave as their own specifications say, *)
(* and what is proved about a part holds of the whole.                     *)
(***************************************************************************)
EXTENDS Outputs, RtspProofs

-----------------------------------------------------------------------------
(* The parts *)

(* OutputsServeRtsp: in the whole the RTSP server behaves as its own       *)
(* specification says, so that its theorems carry over.                    *)
THEOREM OutputsServeRtsp == Spec => RtspSpec
<1>1. Init => RtspInit
  BY DEF Init
<1>2. [Next]_vars => [RtspNext]_rtspVars
  BY DEF Next, vars
<1>3. QED  BY <1>1, <1>2, PTL DEF Spec, RtspSpec

(* OutputsTakeSnapshots: likewise the snapshot worker ...                  *)
THEOREM OutputsTakeSnapshots == Spec => SnapshotSpec
<1>1. Init => SnapshotInit
  BY DEF Init
<1>2. [Next]_vars => [SnapshotNext]_snapshotVars
  BY DEF Next, vars
<1>3. QED  BY <1>1, <1>2, PTL DEF Spec, SnapshotSpec

(* OutputsPublish: ... and the MQTT side.                                  *)
THEOREM OutputsPublish == Spec => MqttSpec
<1>1. Init => MqttInit
  BY DEF Init
<1>2. [Next]_vars => [MqttNext]_mqttVars
  BY DEF Next, vars
<1>3. QED  BY <1>1, <1>2, PTL DEF Spec, MqttSpec

-----------------------------------------------------------------------------
(* Sequences *)

LEMMA AppendKeeps ==
  ASSUME NEW S, NEW q \in Seq(S), NEW x \in S
  PROVE  Append(q, x) \in Seq(S) /\ Len(Append(q, x)) = Len(q) + 1
  OBVIOUS

LEMMA TailKeeps ==
  ASSUME NEW S, NEW q \in Seq(S), q # <<>>
  PROVE  /\ Tail(q) \in Seq(S) /\ Len(Tail(q)) = Len(q) - 1
         /\ Head(q) \in S /\ Len(q) \in Nat
  OBVIOUS

LEMMA ConcatKeeps ==
  ASSUME NEW S, NEW q \in Seq(S), NEW r \in Seq(S)
  PROVE  q \o r \in Seq(S)
  OBVIOUS

LEMMA ConcatIs ==
  ASSUME NEW S, NEW q \in Seq(S), NEW r \in Seq(S)
  PROVE  /\ q \o r \in Seq(S) /\ Len(q \o r) = Len(q) + Len(r)
         /\ \A j \in 1..Len(q) : (q \o r)[j] = q[j]
         /\ \A j \in 1..Len(r) : (q \o r)[Len(q) + j] = r[j]
<1>1. q \o r \in Seq(S)
  BY ConcatKeeps
<1>2. Len(q \o r) = Len(q) + Len(r)
  OBVIOUS
<1>3. \A j \in 1..Len(q) : (q \o r)[j] = q[j]
  OBVIOUS
<1>4. \A j \in 1..Len(r) : (q \o r)[Len(q) + j] = r[j]
  OBVIOUS
<1> QED  BY <1>1, <1>2, <1>3, <1>4

LEMMA RemoveAtKeeps ==
  ASSUME NEW S, NEW q \in Seq(S), NEW i \in DOMAIN q
  PROVE  RemoveAt(q, i) \in Seq(S) /\ q[i] \in S
<1>1. i \in 1..Len(q) /\ q[i] \in S
  OBVIOUS
<1>2. SubSeq(q, 1, i - 1) \in Seq(S) /\ SubSeq(q, i + 1, Len(q)) \in Seq(S)
  BY <1>1
<1>3. QED  BY <1>1, <1>2, ConcatKeeps DEF RemoveAt

LEMMA SeqGrows ==
  ASSUME NEW S, NEW T, S \subseteq T, NEW q \in Seq(S)
  PROVE  q \in Seq(T)
  OBVIOUS

-----------------------------------------------------------------------------
(* MQTT.  EchoIsTrue is not inductive: a message is published long after   *)
(* it was made, so wherever a message waits, a mode in it must already be  *)
(* one that the camera was sent or has reported.                           *)

True(A) == {m \in Message : m.topic = "mode" => m.value \in A}

QueuedIsTrue ==
  /\ applied \subseteq Modes
  /\ announcing \in Seq(True(applied)) /\ reporting \in Seq(True(applied))
  /\ requests \in Seq(True(applied))
  /\ spawned \in Seq(True(applied))
  /\ status \in applied \cup {Unset}
  /\ dispatching \in Seq(Modes)
  /\ loop = "announce" => announcing # <<>>

RetainedIsTrue ==
  /\ retained \in [Topics -> {Unset, "online", "offline"} \cup States \cup Modes]
  /\ retained["mode"] \in applied \cup {Unset}

LoopTypes ==
  /\ loop \in {"off", "poll", "announce", "sleep"}
  /\ state \in States /\ last \in States \cup {Unset}
  /\ Len(requests) <= RequestCap

MqttFlags ==
  /\ socket \in BOOLEAN /\ reachable \in BOOLEAN /\ subscribed \in BOOLEAN
  /\ changed \in BOOLEAN /\ overtaken \in BOOLEAN /\ lost \in BOOLEAN

LEMMA MessageFacts ==
  /\ \A A : /\ Online \in True(A) /\ Subscription \in True(A)
            /\ Msg("snapshot", Unset) \in True(A)
            /\ \A x \in States : Msg("state", x) \in True(A)
            /\ \A x \in A \cap Modes : Msg("mode", x) \in True(A)
            /\ \A B : A \subseteq B => True(A) \subseteq True(B)
  /\ \A m \in Message :
       /\ m.topic \in Topics => m.value \in {Unset, "online", "offline"} \cup States \cup Modes
       /\ m.topic = "mode" => m.value \in Modes
  BY DEF True, Message, Online, Subscription, Msg, Topics

LEMMA QueuedStays == QueuedIsTrue /\ LoopTypes /\ [MqttNext]_mqttVars => QueuedIsTrue'
<1> SUFFICES ASSUME QueuedIsTrue, LoopTypes, [MqttNext]_mqttVars
             PROVE  QueuedIsTrue'
  OBVIOUS
<1> USE DEF QueuedIsTrue
<1>1. CASE Connect
  <2>1. Announcement \in Seq(True(applied)) /\ Announcement # <<>>
    BY MessageFacts DEF Announcement
  <2>2. QED  BY <1>1, <2>1 DEF Connect, watcherVars, commandVars
<1>2. CASE PollFails
  <2>1. <<>> \in Seq(True(applied))
    OBVIOUS
  <2>2. QED  BY <1>2, <2>1 DEF PollFails, commandVars
<1>3. CASE Wake \/ BrokerBack \/ Outage \/ UNCHANGED mqttVars
  BY <1>3 DEF Wake, BrokerBack, Outage, mqttVars, hubVars, watcherVars, commandVars
<1>4. CASE Announce
  <2>1. /\ Tail(announcing) \in Seq(True(applied))
        /\ Append(requests, Head(announcing)) \in Seq(True(applied))
    BY <1>4, TailKeeps, AppendKeeps DEF Announce
  <2>2. QED  BY <1>4, <2>1 DEF Announce, watcherVars, commandVars
<1>5. CASE PollSends
  <2>1. requests # <<>> => Tail(requests) \in Seq(True(applied))
    BY TailKeeps
  <2>2. QED  BY <1>5, <2>1 DEF PollSends, commandVars
<1>6. CASE Watch
  <2>1. Append(spawned, Msg("state", state)) \in Seq(True(applied))
    BY MessageFacts, AppendKeeps DEF LoopTypes
  <2>2. QED  BY <1>6, <2>1 DEF Watch, hubVars, commandVars
<1>7. CASE Publish
  <2>1. PICK i \in DOMAIN spawned : requests' = Append(requests, spawned[i]) /\ spawned' = RemoveAt(spawned, i)
    BY <1>7 DEF Publish
  <2>2. spawned' \in Seq(True(applied)) /\ requests' \in Seq(True(applied))
    BY <2>1, RemoveAtKeeps, AppendKeeps
  <2>3. QED  BY <1>7, <2>2 DEF Publish, commandVars
<1>8. CASE StatusSeen
  <2>1. <<Msg("mode", status)>> \in Seq(True(applied))
    BY <1>8, MessageFacts DEF StatusSeen
  <2>2. QED  BY <1>8, <2>1 DEF StatusSeen, hubVars, commandVars
<1>9. CASE Report
  <2>1. /\ Tail(reporting) \in Seq(True(applied))
        /\ Append(requests, Head(reporting)) \in Seq(True(applied))
    BY <1>9, TailKeeps, AppendKeeps DEF Report
  <2>2. QED  BY <1>9, <2>1 DEF Report, commandVars
<1>10. CASE Dispatch
  <2>1. PICK i \in DOMAIN dispatching, ok \in BOOLEAN :
          /\ applied' = IF ok THEN applied \cup {dispatching[i]} ELSE applied
          /\ spawned' = IF ok THEN Append(spawned, Msg("mode", dispatching[i])) ELSE spawned
          /\ dispatching' = RemoveAt(dispatching, i)
    BY <1>10, Zenon DEF Dispatch, Echoes
  <2>2. dispatching[i] \in Modes /\ dispatching' \in Seq(Modes)
    BY <2>1, RemoveAtKeeps
  <2>3. applied \subseteq applied' /\ applied' \subseteq Modes
    BY <2>1, <2>2
  <2>4. \A q \in Seq(True(applied)) : q \in Seq(True(applied'))
    BY <2>3, MessageFacts, SeqGrows
  <2>5. spawned' \in Seq(True(applied'))
    <3>1. CASE ok
      <4>1. Msg("mode", dispatching[i]) \in True(applied')
        BY <2>1, <2>2, <3>1, MessageFacts
      <4>2. QED  BY <2>1, <2>4, <3>1, <4>1, AppendKeeps
    <3>2. CASE ~ok
      BY <2>1, <2>4, <3>2
    <3>3. QED  BY <3>1, <3>2
  <2>6. UNCHANGED <<loop, announcing, reporting, requests, status>>
    BY <1>10 DEF Dispatch, hubVars
  <2>7. QED  BY <2>2, <2>3, <2>4, <2>5, <2>6
<1>11. CASE Command
  <2>1. \A m \in Modes : Append(dispatching, m) \in Seq(Modes)
    BY AppendKeeps
  <2>2. QED  BY <1>11, <2>1 DEF Command, hubVars, watcherVars
<1>12. CASE StateChanges
  BY <1>12 DEF StateChanges, hubVars, commandVars
<1>13. CASE CameraReports
  <2>1. PICK m \in Modes : status' = m /\ applied' = applied \cup {m}
    BY <1>13 DEF CameraReports
  <2>2. applied \subseteq applied' /\ applied' \subseteq Modes /\ status' \in applied'
    BY <2>1
  <2>3. \A q \in Seq(True(applied)) : q \in Seq(True(applied'))
    BY <2>2, MessageFacts, SeqGrows
  <2>4. UNCHANGED <<loop, announcing, reporting, requests, spawned, dispatching>>
    BY <1>13 DEF CameraReports, hubVars
  <2>5. QED  BY <2>2, <2>3, <2>4
<1>14. CASE SnapshotTaken
  <2>1. Append(spawned, Msg("snapshot", Unset)) \in Seq(True(applied))
    BY MessageFacts, AppendKeeps
  <2>2. QED  BY <1>14, <2>1 DEF SnapshotTaken, hubVars, commandVars
<1>15. QED
  BY <1>1, <1>2, <1>3, <1>4, <1>5, <1>6, <1>7, <1>8, <1>9, <1>10, <1>11, <1>12, <1>13, <1>14
     DEF MqttNext, LoopStep, WatcherStep

LEMMA RetainedStays ==
  QueuedIsTrue /\ RetainedIsTrue /\ [MqttNext]_mqttVars => RetainedIsTrue'
<1> SUFFICES ASSUME QueuedIsTrue, RetainedIsTrue, [MqttNext]_mqttVars
             PROVE  RetainedIsTrue'
  OBVIOUS
<1>0. \A m \in True(applied) : m.topic = "mode" => m.value \in applied
  BY DEF True
<1>1. \A m \in True(applied) : Delivered(m) /\ applied' = applied => RetainedIsTrue'
  <2>1. SUFFICES ASSUME NEW m \in True(applied), Delivered(m), applied' = applied
                 PROVE  RetainedIsTrue'
    OBVIOUS
  <2>2. m \in Message
    BY <2>1 DEF True
  <2>3. CASE m.topic \in Topics
    <3>1. retained' = [retained EXCEPT ![m.topic] = m.value]
      BY <2>1, <2>3 DEF Delivered
    <3>2. m.value \in {Unset, "online", "offline"} \cup States \cup Modes
      BY <2>2, <2>3, MessageFacts
    <3>3. retained' \in [Topics -> {Unset, "online", "offline"} \cup States \cup Modes]
      BY <3>1, <3>2 DEF RetainedIsTrue
    <3>4. retained'["mode"] \in applied \cup {Unset}
      BY <1>0, <2>1, <2>3, <3>1 DEF RetainedIsTrue, Topics
    <3>5. QED  BY <2>1, <3>3, <3>4 DEF RetainedIsTrue
  <2>4. CASE m.topic \notin Topics
    BY <2>1, <2>4 DEF Delivered, RetainedIsTrue
  <2>5. QED  BY <2>3, <2>4
<1>2. CASE PollSends
  <2>1. applied' = applied
    BY <1>2 DEF PollSends, commandVars
  <2>2. CASE reachable
    <3>1. Head(requests) \in True(applied)
      BY <1>2, TailKeeps DEF PollSends, QueuedIsTrue
    <3>2. QED  BY <1>1, <1>2, <2>1, <2>2, <3>1 DEF PollSends
  <2>3. CASE ~reachable
    BY <1>2, <2>1, <2>3 DEF PollSends, RetainedIsTrue
  <2>4. QED  BY <2>2, <2>3
<1>3. CASE Outage
  BY <1>3 DEF Outage, commandVars, RetainedIsTrue, Topics
<1>4. CASE Connect \/ PollFails \/ Wake \/ Announce \/ WatcherStep \/ Command \/ StateChanges
           \/ CameraReports \/ SnapshotTaken \/ BrokerBack \/ UNCHANGED mqttVars
  <2>1. retained' = retained
    BY <1>4 DEF Connect, PollFails, Wake, Announce, WatcherStep, Watch, Publish, StatusSeen, Report,
                Dispatch, Command, StateChanges, CameraReports, SnapshotTaken, BrokerBack, mqttVars,
                brokerVars
  <2>2. applied \subseteq applied'
    <3>1. CASE CameraReports
      BY <3>1 DEF CameraReports
    <3>2. CASE Dispatch
      BY <3>2, Zenon DEF Dispatch
    <3>3. CASE ~CameraReports /\ ~Dispatch
      BY <1>4, <3>3 DEF Connect, PollFails, Wake, Announce, WatcherStep, Watch, Publish, StatusSeen,
                Report, Command, StateChanges, SnapshotTaken, BrokerBack, mqttVars, commandVars
    <3>4. QED  BY <3>1, <3>2, <3>3
  <2>3. QED  BY <2>1, <2>2 DEF RetainedIsTrue
<1>5. QED
  BY <1>2, <1>3, <1>4 DEF MqttNext, LoopStep

LEMMA LoopTypesStay == QueuedIsTrue /\ LoopTypes /\ [MqttNext]_mqttVars => LoopTypes'
<1> SUFFICES ASSUME QueuedIsTrue, LoopTypes, [MqttNext]_mqttVars
             PROVE  LoopTypes'
  OBVIOUS
<1> USE DEF LoopTypes
<1>1. requests \in Seq(Message) /\ RequestCap \in Nat /\ Len(requests) \in Nat
  BY MqttAssumption DEF QueuedIsTrue, True
<1>2. CASE Announce
  <2>1. Len(requests') = Len(requests) + 1
    BY <1>1, <1>2 DEF Announce
  <2>2. QED  BY <1>1, <1>2, <2>1 DEF Announce, Room, watcherVars
<1>3. CASE PollSends
  <2>1. requests # <<>> => Len(Tail(requests)) = Len(requests) - 1
    BY <1>1, TailKeeps
  <2>2. QED  BY <1>1, <1>3, <2>1 DEF PollSends
<1>4. CASE Publish
  <2>1. PICK m : requests' = Append(requests, m)
    BY <1>4 DEF Publish
  <2>2. Len(requests') = Len(requests) + 1
    BY <1>1, <2>1
  <2>3. QED  BY <1>1, <1>4, <2>2 DEF Publish, Room
<1>5. CASE Report
  <2>1. Len(requests') = Len(requests) + 1
    BY <1>1, <1>5 DEF Report
  <2>2. QED  BY <1>1, <1>5, <2>1 DEF Report, Room
<1>6. CASE PollFails
  <2>1. Len(<<>>) = 0 /\ 0 <= RequestCap
    BY <1>1
  <2>2. QED  BY <1>6, <2>1 DEF PollFails
<1>7. CASE Watch \/ StateChanges
  BY <1>7 DEF Watch, RememberLast, StateChanges, hubVars
<1>8. CASE Connect \/ Wake \/ StatusSeen \/ Dispatch \/ Command \/ CameraReports
           \/ SnapshotTaken \/ Outage \/ BrokerBack \/ UNCHANGED mqttVars
  BY <1>8 DEF Connect, Wake, StatusSeen, Dispatch, Command, CameraReports, SnapshotTaken, Outage,
              BrokerBack, mqttVars, hubVars, watcherVars
<1>9. QED
  BY <1>2, <1>3, <1>4, <1>5, <1>6, <1>7, <1>8 DEF MqttNext, LoopStep, WatcherStep

LEMMA MqttFlagsStay == MqttFlags /\ [MqttNext]_mqttVars => MqttFlags'
<1> SUFFICES ASSUME MqttFlags, [MqttNext]_mqttVars
             PROVE  MqttFlags'
  OBVIOUS
<1>1. CASE PollSends
  <2>1. subscribed' \in BOOLEAN
    BY <1>1, Zenon DEF PollSends, Delivered, MqttFlags
  <2>2. lost' \in BOOLEAN
    BY <1>1, Zenon DEF PollSends, Dropped, MqttFlags
  <2>3. QED  BY <1>1, <2>1, <2>2, Zenon DEF PollSends, MqttFlags
<1>2. CASE Publish
  <2>1. PICK i \in DOMAIN spawned :
          overtaken' = (overtaken \/ (spawned[i].topic = "state"
                                      /\ \E j \in 1..(i - 1) : spawned[j].topic = "state"))
    BY <1>2, Zenon DEF Publish
  <2>2. overtaken' \in BOOLEAN
    BY <2>1, Zenon
  <2>3. QED  BY <1>2, <2>2, Zenon DEF Publish, brokerVars, MqttFlags
<1>3. CASE Watch \/ StateChanges
  BY <1>3, Zenon DEF Watch, StateChanges, hubVars, brokerVars, MqttFlags
<1>4. CASE Connect \/ Wake \/ Announce
  BY <1>4, Zenon DEF Connect, Wake, Announce, brokerVars, watcherVars, MqttFlags
<1>8. CASE PollFails
  BY <1>8, Zenon DEF PollFails, Dropped, brokerVars, MqttFlags
<1>5. CASE StatusSeen \/ Report \/ Dispatch
  BY <1>5, Zenon DEF StatusSeen, Report, Dispatch, hubVars, brokerVars, MqttFlags
<1>6. CASE Command \/ CameraReports \/ SnapshotTaken \/ UNCHANGED mqttVars
  BY <1>6, Zenon DEF Command, CameraReports, SnapshotTaken, mqttVars, hubVars, brokerVars,
                     watcherVars, MqttFlags
<1>7. CASE Outage \/ BrokerBack
  BY <1>7, Zenon DEF Outage, BrokerBack, hubVars, watcherVars, MqttFlags
<1>9. QED
  BY <1>1, <1>2, <1>3, <1>4, <1>5, <1>6, <1>7, <1>8 DEF MqttNext, LoopStep, WatcherStep

MqttInv == QueuedIsTrue /\ RetainedIsTrue /\ LoopTypes /\ MqttFlags

(* MqttCorrect: the four together are inductive (hub.rs, state.rs).        *)
THEOREM MqttCorrect == MqttSpec => []MqttInv
<1>1. MqttInit => MqttInv
  <2>1. ASSUME MqttInit PROVE loop \in {"off", "poll"} /\ changed \in BOOLEAN
    <3>1. loop \in {"off", "poll"}
      BY <2>1, Zenon DEF MqttInit
    <3>2. QED  BY <2>1, <3>1, Zenon DEF MqttInit
  <2>2. ASSUME MqttInit PROVE QueuedIsTrue /\ LoopTypes
    BY <2>1, <2>2, MqttAssumption DEF MqttInit, QueuedIsTrue, LoopTypes, States
  <2>3. ASSUME MqttInit PROVE RetainedIsTrue
    BY <2>3 DEF MqttInit, RetainedIsTrue, Topics
  <2>4. ASSUME MqttInit PROVE MqttFlags
    BY <2>1, <2>4, Zenon DEF MqttInit, MqttFlags
  <2>5. QED  BY <2>2, <2>3, <2>4 DEF MqttInv
<1>2. MqttInv /\ [MqttNext]_mqttVars => MqttInv'
  BY QueuedStays, RetainedStays, LoopTypesStay, MqttFlagsStay DEF MqttInv
<1>3. QED  BY <1>1, <1>2, PTL DEF MqttSpec

(* MqttTypeCorrect: every queue of the MQTT side holds messages of the     *)
(* kinds that are published, and rumqttc's never more than its capacity.   *)
THEOREM MqttTypeCorrect == MqttSpec => []MqttTypeOK
<1>1. MqttInv => MqttTypeOK
  <2>1. \A q \in Seq(True(applied)) : q \in Seq(Message)
    BY SeqGrows DEF True
  <2>2. ASSUME MqttInv
        PROVE  /\ announcing \in Seq(Message) /\ reporting \in Seq(Message)
               /\ requests \in Seq(Message)
               /\ spawned \in Seq(Message)
               /\ status \in Modes \cup {Unset} /\ dispatching \in Seq(Modes)
               /\ applied \subseteq Modes
    BY <2>1, <2>2 DEF MqttInv, QueuedIsTrue
  <2>3. QED  BY <2>2, Zenon DEF MqttInv, RetainedIsTrue, LoopTypes, MqttFlags, MqttTypeOK
<1>2. QED  BY <1>1, MqttCorrect, PTL

(* EchoesAreTrue: for every capacity and any number of outages and events, *)
(* a mode that the broker retains was sent to the camera or reported by it *)
(* (hub.rs:169).                                                           *)
THEOREM EchoesAreTrue == Spec => []EchoIsTrue
<1>1. MqttInv => EchoIsTrue
  BY DEF MqttInv, RetainedIsTrue, EchoIsTrue
<1>2. QED  BY <1>1, OutputsPublish, MqttCorrect, PTL

-----------------------------------------------------------------------------
(***************************************************************************)
(* Nothing is forgotten but what a broken connection drops.  What holds    *)
(* after every step is that the state the watcher published last, if it    *)
(* was not dropped, is retained or on its way behind every older one, and  *)
(* that the watcher published the current state unless it still has a      *)
(* change to look at.                                                      *)
(***************************************************************************)

WatcherKnows == loop = "off" \/ changed \/ last = state

LastComes == overtaken \/ lost \/ StateComes(last)

Announced ==
  socket /\ reachable =>
    /\ retained["availability"] = "online" \/ Queued(Online)
    /\ subscribed \/ Queued(Subscription)

\* What a queue ends with after a message has been put at its end.
LEMMA AppendEnds ==
  ASSUME NEW q \in Seq(Message), NEW m \in Message
  PROVE  /\ m.topic # "state" => /\ Silent(q) => Silent(Append(q, m))
                                 /\ \A x : EndsWith(q, x) => EndsWith(Append(q, m), x)
         /\ m.topic = "state" => EndsWith(Append(q, m), m.value)
<1> DEFINE r == Append(q, m)
<1>1. /\ Len(q) \in Nat /\ DOMAIN q = 1..Len(q) /\ DOMAIN r = 1..(Len(q) + 1)
      /\ r[Len(q) + 1] = m /\ \A i \in 1..Len(q) : r[i] = q[i]
  OBVIOUS
<1>2. m.topic = "state" => m = Msg("state", m.value)
  BY DEF Message, Msg
<1> HIDE DEF r
<1>3. m.topic # "state" => (Silent(q) => Silent(r))
  BY <1>1 DEF Silent
<1>4. ASSUME m.topic # "state", NEW x, EndsWith(q, x) PROVE EndsWith(r, x)
  <2>1. PICK i \in DOMAIN q :
          q[i] = Msg("state", x) /\ \A j \in DOMAIN q : q[j].topic = "state" => j <= i
    BY <1>4 DEF EndsWith
  <2>2. i \in DOMAIN r /\ r[i] = Msg("state", x)
        /\ \A j \in DOMAIN r : r[j].topic = "state" => j <= i
    BY <1>1, <1>4, <2>1
  <2> QED
    BY <2>2 DEF EndsWith
<1>5. m.topic = "state" => EndsWith(r, m.value)
  <2>1. Len(q) + 1 \in DOMAIN r /\ \A j \in DOMAIN r : j <= Len(q) + 1
    BY <1>1
  <2> QED
    BY <1>1, <1>2, <2>1 DEF EndsWith
<1> QED
  BY <1>3, <1>4, <1>5 DEF r

\* What a queue ends with after its first message has been taken.
LEMMA TailEnds ==
  ASSUME NEW q \in Seq(Message), q # <<>>
  PROVE  /\ Silent(q) => Silent(Tail(q)) /\ Head(q).topic # "state"
         /\ \A x : EndsWith(q, x) =>
              EndsWith(Tail(q), x) \/ (Silent(Tail(q)) /\ Head(q) = Msg("state", x))
<1> DEFINE r == Tail(q)
<1>1. /\ Len(q) \in Nat \ {0} /\ DOMAIN q = 1..Len(q) /\ DOMAIN r = 1..(Len(q) - 1)
      /\ Head(q) = q[1] /\ \A i \in 1..(Len(q) - 1) : r[i] = q[i + 1]
  OBVIOUS
<1> HIDE DEF r
<1>2. Silent(q) => Silent(r) /\ Head(q).topic # "state"
  BY <1>1 DEF Silent
<1>3. ASSUME NEW x, EndsWith(q, x)
      PROVE  EndsWith(r, x) \/ (Silent(r) /\ Head(q) = Msg("state", x))
  <2>1. PICK i \in DOMAIN q :
          q[i] = Msg("state", x) /\ \A j \in DOMAIN q : q[j].topic = "state" => j <= i
    BY <1>3 DEF EndsWith
  <2>2. CASE i = 1
    BY <1>1, <2>1, <2>2 DEF Silent
  <2>3. CASE i # 1
    <3>1. i - 1 \in DOMAIN r /\ (i - 1) + 1 = i
      BY <1>1, <2>1, <2>3
    <3>2. r[i - 1] = Msg("state", x)
      BY <1>1, <2>1, <3>1
    <3>3. ASSUME NEW j \in DOMAIN r, r[j].topic = "state" PROVE j <= i - 1
      <4>1. j + 1 \in DOMAIN q /\ q[j + 1] = r[j]
        BY <1>1
      <4>2. j + 1 <= i
        BY <2>1, <3>3, <4>1
      <4> QED
        BY <1>1, <2>1, <4>2
    <3> QED
      BY <3>1, <3>2, <3>3 DEF EndsWith
  <2> QED
    BY <2>2, <2>3
<1> QED
  BY <1>2, <1>3 DEF r

\* Where the messages of a queue are after the i-th has been taken.
LEMMA RemoveAtIs ==
  ASSUME NEW q \in Seq(Message), NEW i \in DOMAIN q
  PROVE  /\ i \in 1..Len(q) /\ Len(q) \in Nat
         /\ DOMAIN q = 1..Len(q) /\ DOMAIN RemoveAt(q, i) = 1..(Len(q) - 1)
         /\ \A j \in 1..(Len(q) - 1) : RemoveAt(q, i)[j] = IF j < i THEN q[j] ELSE q[j + 1]
<1>1. i \in 1..Len(q) /\ Len(q) \in Nat /\ DOMAIN q = 1..Len(q)
  OBVIOUS
<1> PICK n \in Nat : n = Len(q)
  BY <1>1
<1>2. PICK a : a = SubSeq(q, 1, i - 1)
  OBVIOUS
<1>3. PICK b : b = SubSeq(q, i + 1, n)
  OBVIOUS
<1>4. a \in Seq(Message) /\ Len(a) = i - 1 /\ \A j \in 1..(i - 1) : a[j] = q[j]
  BY <1>1, <1>2
<1>5. b \in Seq(Message) /\ Len(b) = n - i /\ \A j \in 1..(n - i) : b[j] = q[j + i]
  BY <1>1, <1>3
<1>6. /\ DOMAIN (a \o b) = 1..(n - 1)
      /\ \A j \in 1..(n - 1) : (a \o b)[j] = IF j < i THEN q[j] ELSE q[j + 1]
  <2>1. Len(a \o b) = n - 1 /\ a \o b \in Seq(Message)
    <3>1. Len(a \o b) = Len(a) + Len(b) /\ a \o b \in Seq(Message)
      BY <1>4, <1>5, ConcatIs
    <3>2. (i - 1) + (n - i) = n - 1
      BY <1>1
    <3> QED
      BY <1>4, <1>5, <3>1, <3>2
  <2>2. DOMAIN (a \o b) = 1..(n - 1)
    BY <2>1
  <2>3. ASSUME NEW j \in 1..(n - 1), j < i PROVE (a \o b)[j] = q[j]
    BY <1>1, <1>4, <1>5, <2>3
  <2>4. ASSUME NEW j \in 1..(n - 1), ~(j < i) PROVE (a \o b)[j] = q[j + 1]
    <3>1. (a \o b)[j] = b[j - (i - 1)]
      BY <1>1, <1>4, <1>5, <2>4
    <3>2. j - (i - 1) \in 1..(n - i) /\ (j - (i - 1)) + i = j + 1
      BY <1>1, <2>4
    <3> QED
      BY <1>5, <3>1, <3>2
  <2> QED
    BY <2>2, <2>3, <2>4
<1> QED
  BY <1>1, <1>2, <1>3, <1>6 DEF RemoveAt

\* What a queue ends with after any message has been taken that is no state or
\* the first state in it.
LEMMA RemoveEnds ==
  ASSUME NEW q \in Seq(Message), NEW i \in DOMAIN q,
         q[i].topic = "state" => \A j \in 1..(i - 1) : q[j].topic # "state"
  PROVE  /\ Silent(q) => Silent(RemoveAt(q, i)) /\ q[i].topic # "state"
         /\ \A x : EndsWith(q, x) =>
              EndsWith(RemoveAt(q, i), x) \/ (Silent(RemoveAt(q, i)) /\ q[i] = Msg("state", x))
<1> DEFINE r == RemoveAt(q, i)
<1>1. PICK n \in Nat :
        /\ n = Len(q) /\ i \in 1..n /\ DOMAIN q = 1..n /\ DOMAIN r = 1..(n - 1)
        /\ \A j \in 1..(n - 1) : r[j] = IF j < i THEN q[j] ELSE q[j + 1]
  BY RemoveAtIs
<1> HIDE DEF r
<1>2. Silent(q) => Silent(r) /\ q[i].topic # "state"
  <2> SUFFICES ASSUME Silent(q) PROVE Silent(r) /\ q[i].topic # "state"
    OBVIOUS
  <2>1. \A j \in 1..n : q[j].topic # "state"
    BY <1>1 DEF Silent
  <2>2. \A j \in 1..(n - 1) : r[j].topic # "state"
    BY <1>1, <2>1
  <2> QED
    BY <1>1, <2>1, <2>2 DEF Silent
<1>3. ASSUME NEW x, EndsWith(q, x)
      PROVE  EndsWith(r, x) \/ (Silent(r) /\ q[i] = Msg("state", x))
  <2>1. PICK k \in 1..n :
          q[k] = Msg("state", x) /\ \A j \in 1..n : q[j].topic = "state" => j <= k
    BY <1>1, <1>3 DEF EndsWith
  <2>2. q[k].topic = "state"
    BY <2>1 DEF Msg
  <2>3. CASE k = i
    <3>1. \A j \in 1..(n - 1) : r[j].topic # "state"
      BY <1>1, <2>1, <2>2, <2>3
    <3> QED
      BY <1>1, <2>1, <2>3, <3>1 DEF Silent
  <2>4. CASE k < i
    <3>1. k \in 1..(n - 1) /\ r[k] = Msg("state", x)
      BY <1>1, <2>1, <2>4
    <3>2. \A j \in 1..(n - 1) : r[j].topic = "state" => j <= k
      BY <1>1, <2>1, <2>4
    <3> QED
      BY <1>1, <3>1, <3>2 DEF EndsWith
  <2>5. CASE k > i
    <3>1. k - 1 \in 1..(n - 1) /\ r[k - 1] = Msg("state", x)
      BY <1>1, <2>1, <2>5
    <3>2. \A j \in 1..(n - 1) : r[j].topic = "state" => j <= k - 1
      BY <1>1, <2>1, <2>5
    <3> QED
      BY <1>1, <3>1, <3>2 DEF EndsWith
  <2> QED
    BY <1>1, <2>3, <2>4, <2>5
<1> QED
  BY <1>2, <1>3 DEF r

\* What the event loop announces, and what the status watcher reports, is no state.
OtherTopics ==
  /\ announcing \in Seq({Online, Subscription})
  /\ reporting \in Seq({m \in Message : m.topic = "mode"})

LEMMA OtherTopicsStay ==
  MqttInv /\ OtherTopics /\ [MqttNext]_mqttVars => OtherTopics'
<1> SUFFICES ASSUME MqttInv, OtherTopics, [MqttNext]_mqttVars PROVE OtherTopics'
  OBVIOUS
<1> DEFINE Others == {m \in Message : m.topic = "mode"}
<1>1. CASE Connect
  <2>1. Announcement \in Seq({Online, Subscription})
    BY DEF Announcement
  <2> QED
    BY <1>1, <2>1 DEF Connect, watcherVars, OtherTopics
<1>2. CASE Announce
  <2>1. announcing # <<>>
    BY <1>2 DEF Announce, MqttInv, QueuedIsTrue
  <2>2. Tail(announcing) \in Seq({Online, Subscription})
    BY <2>1, TailKeeps DEF OtherTopics
  <2> QED
    BY <1>2, <2>2 DEF Announce, watcherVars, OtherTopics
<1>3. CASE StatusSeen
  <2>1. status \in Modes
    BY <1>3 DEF StatusSeen, MqttInv, QueuedIsTrue
  <2>2. Msg("mode", status) \in Others
    BY <2>1 DEF Msg, Message
  <2>3. <<Msg("mode", status)>> \in Seq(Others)
    BY <2>2
  <2> QED
    BY <1>3, <2>3 DEF StatusSeen, hubVars, OtherTopics
<1>4. CASE Report
  <2>1. Tail(reporting) \in Seq(Others)
    BY <1>4, TailKeeps DEF Report, OtherTopics
  <2> QED
    BY <1>4, <2>1 DEF Report, OtherTopics
<1>5. CASE PollFails \/ Wake \/ PollSends \/ Watch \/ Publish \/ Dispatch
  BY <1>5 DEF PollFails, Wake, PollSends, Watch, Publish, Dispatch, hubVars, watcherVars, OtherTopics
<1>6. CASE Command \/ StateChanges \/ CameraReports \/ SnapshotTaken \/ Outage \/ BrokerBack
           \/ UNCHANGED mqttVars
  BY <1>6 DEF Command, StateChanges, CameraReports, SnapshotTaken, Outage, BrokerBack, mqttVars,
    hubVars, watcherVars, OtherTopics
<1> QED
  BY <1>1, <1>2, <1>3, <1>4, <1>5, <1>6 DEF MqttNext, LoopStep, WatcherStep

\* What MqttInv says of the queues' types, in short.
LEMMA QueuesHoldMessages ==
  ASSUME MqttInv
  PROVE  /\ announcing \in Seq(Message) /\ requests \in Seq(Message)
         /\ spawned \in Seq(Message)
         /\ dispatching \in Seq(Modes) /\ state \in States
         /\ retained \in [Topics -> {Unset, "online", "offline"} \cup States \cup Modes]
<1>1. \A q \in Seq(True(applied)) : q \in Seq(Message)
  BY SeqGrows DEF True
<1> QED
  BY <1>1 DEF MqttInv, QueuedIsTrue, LoopTypes, RetainedIsTrue

\* Behind every queue another message that is no state, or a state.
LEMMA BehindComes ==
  ASSUME MqttInv, NEW m \in Message, LastComes, m.topic # "state",
         UNCHANGED <<overtaken, lost, last, retained>>,
         \/ requests' = Append(requests, m) /\ spawned' = spawned
         \/ spawned' = Append(spawned, m) /\ requests' = requests
  PROVE  LastComes'
<1>1. requests \in Seq(Message) /\ spawned \in Seq(Message)
  BY QueuesHoldMessages
<1>2. /\ Silent(requests) => Silent(requests')
      /\ Silent(spawned) => Silent(spawned')
      /\ \A x : EndsWith(requests, x) => EndsWith(requests', x)
      /\ \A x : EndsWith(spawned, x) => EndsWith(spawned', x)
  BY <1>1, AppendEnds
<1>3. StateComes(last) => StateComes(last)'
  <2>1. Silent(spawned)' = Silent(spawned') /\ Silent(requests)' = Silent(requests')
    BY DEF Silent
  <2> QED
    BY <1>2 DEF StateComes, Silent, EndsWith
<1> QED
  BY <1>3 DEF LastComes

LEMMA LastComesStays ==
  MqttInv /\ OtherTopics /\ LastComes /\ [MqttNext]_mqttVars => LastComes'
<1> SUFFICES ASSUME MqttInv, OtherTopics, LastComes, [MqttNext]_mqttVars PROVE LastComes'
  OBVIOUS
<1>0. /\ requests \in Seq(Message) /\ spawned \in Seq(Message)
      /\ dispatching \in Seq(Modes) /\ state \in States
      /\ retained \in [Topics -> {Unset, "online", "offline"} \cup States \cup Modes]
  BY QueuesHoldMessages
<1>1. ASSUME UNCHANGED <<overtaken, lost, last, spawned, requests>>,
             retained'["state"] = retained["state"]
      PROVE  LastComes'
  BY <1>1 DEF LastComes, StateComes, Silent, EndsWith
<1>2. CASE PollFails
  <2>1. CASE socket
    <3>1. /\ Dropped(requests, <<>>) /\ requests' = <<>>
          /\ UNCHANGED <<overtaken, last, spawned, retained>>
      BY <1>2, <2>1 DEF PollFails, brokerVars
    <3>2. SUFFICES ASSUME ~lost' PROVE LastComes'
      BY Zenon DEF LastComes
    <3>3. ~lost /\ (Silent(requests) \/ ~Silent(spawned))
      <4>1. Silent(<<>>)
        BY DEF Silent
      <4> QED
        BY <3>1, <3>2, <4>1, Zenon DEF Dropped
    <3>4. Silent(requests) => ~EndsWith(requests, last)
      BY DEF Silent, EndsWith, Msg
    <3> QED
      BY <3>1, <3>3, <3>4 DEF LastComes, StateComes, Silent, EndsWith
  <2>2. CASE ~socket
    BY <1>1, <1>2, <2>2 DEF PollFails, brokerVars
  <2> QED
    BY <2>1, <2>2
<1>3. CASE Announce
  <2>1. announcing # <<>>
    BY <1>3 DEF Announce, MqttInv, QueuedIsTrue
  <2>2. Head(announcing) \in {Online, Subscription}
    BY <2>1, TailKeeps DEF OtherTopics
  <2>3. Head(announcing) \in Message /\ Head(announcing).topic # "state"
    BY <2>2 DEF Online, Subscription, Msg, Message
  <2> QED
    BY <1>3, <2>3, BehindComes DEF Announce, brokerVars, watcherVars
<1>4. CASE Report
  <2>1. Head(reporting) \in Message /\ Head(reporting).topic # "state"
    <3>1. Head(reporting) \in {m \in Message : m.topic = "mode"}
      BY <1>4, TailKeeps DEF Report, OtherTopics
    <3> QED
      BY <3>1
  <2> QED
    BY <1>4, <2>1, BehindComes DEF Report, brokerVars
<1>5. CASE SnapshotTaken
  <2>1. Msg("snapshot", Unset) \in Message /\ Msg("snapshot", Unset).topic # "state"
    BY DEF Msg, Message
  <2> QED
    BY <1>5, <2>1, BehindComes DEF SnapshotTaken, hubVars, brokerVars
<1>6. CASE Dispatch
  <2>1. PICK i \in DOMAIN dispatching, ok \in BOOLEAN :
          spawned' = IF ok THEN Append(spawned, Msg("mode", dispatching[i])) ELSE spawned
    BY <1>6, Zenon DEF Dispatch, Echoes
  <2>2. UNCHANGED <<overtaken, lost, last, requests, retained>>
    BY <1>6 DEF Dispatch, hubVars, brokerVars
  <2>3. Msg("mode", dispatching[i]) \in Message /\ Msg("mode", dispatching[i]).topic # "state"
    BY <1>0, <2>1 DEF Msg, Message
  <2>4. CASE ok
    BY <2>1, <2>2, <2>3, <2>4, BehindComes
  <2>5. CASE ~ok
    BY <1>1, <2>1, <2>2, <2>5
  <2> QED
    BY <2>4, <2>5
<1>7. CASE Watch
  <2>1. UNCHANGED <<overtaken, requests, retained>>
    BY <1>7 DEF Watch, hubVars, brokerVars
  <2>2. CASE state # last
    <3>1. last' = state /\ spawned' = Append(spawned, Msg("state", state))
      BY <1>7, <2>2 DEF Watch, RememberLast
    <3>2. Msg("state", state) \in Message /\ Msg("state", state).topic = "state"
            /\ Msg("state", state).value = state
      BY <1>0 DEF Msg, Message
    <3>3. EndsWith(spawned', last')
      BY <1>0, <3>1, <3>2, AppendEnds
    <3> QED
      BY <3>3 DEF LastComes, StateComes, EndsWith
  <2>3. CASE state = last
    BY <1>1, <1>7, <2>1, <2>3 DEF Watch
  <2> QED
    BY <2>2, <2>3
<1>8. CASE Publish
  <2>1. PICK i \in DOMAIN spawned :
          /\ requests' = Append(requests, spawned[i])
          /\ spawned' = RemoveAt(spawned, i)
          /\ overtaken' = (overtaken \/ (spawned[i].topic = "state"
                                         /\ \E j \in 1..(i - 1) : spawned[j].topic = "state"))
    BY <1>8 DEF Publish
  <2>2. UNCHANGED <<last, lost, retained>>
    BY <1>8 DEF Publish, brokerVars
  <2>3. SUFFICES ASSUME ~overtaken', ~lost PROVE StateComes(last)'
    BY <2>2 DEF LastComes
  <2>4. ~overtaken /\ (spawned[i].topic = "state" => \A j \in 1..(i - 1) : spawned[j].topic # "state")
    BY <2>1, <2>3
  <2>5. StateComes(last) /\ spawned[i] \in Message
    BY <1>0, <2>1, <2>3, <2>4 DEF LastComes
  <2>6. /\ Silent(spawned) => Silent(spawned') /\ spawned[i].topic # "state"
        /\ \A x : EndsWith(spawned, x) =>
             EndsWith(spawned', x) \/ (Silent(spawned') /\ spawned[i] = Msg("state", x))
    BY <1>0, <2>1, <2>4, RemoveEnds
  <2>7. /\ spawned[i].topic # "state" =>
             /\ Silent(requests) => Silent(requests')
             /\ \A x : EndsWith(requests, x) => EndsWith(requests', x)
        /\ \A x : spawned[i] = Msg("state", x) => EndsWith(requests', x)
    <3>1. \A x : spawned[i] = Msg("state", x) => spawned[i].topic = "state" /\ spawned[i].value = x
      BY DEF Msg
    <3> QED
      BY <1>0, <2>1, <2>5, <3>1, AppendEnds
  <2> QED
    BY <2>2, <2>5, <2>6, <2>7 DEF StateComes, Silent, EndsWith
<1>9. CASE PollSends
  <2>1. UNCHANGED <<overtaken, last, spawned>>
    BY <1>9 DEF PollSends
  <2>2. PICK m \in Message : m = Head(requests) /\ requests # <<>> /\ requests' = Tail(requests)
    BY <1>0, <1>9, TailKeeps DEF PollSends
  <2>3. /\ Silent(requests) => Silent(requests') /\ m.topic # "state"
        /\ \A x : EndsWith(requests, x) =>
             EndsWith(requests', x) \/ (Silent(requests') /\ m = Msg("state", x))
    BY <1>0, <2>2, TailEnds
  <2>4. CASE reachable
    <3>1. Delivered(m) /\ lost' = lost
      BY <1>9, <2>2, <2>4 DEF PollSends
    <3>2. /\ m.topic # "state" => retained'["state"] = retained["state"]
          /\ \A x : m = Msg("state", x) => retained'["state"] = x
      BY <1>0, <3>1 DEF Delivered, Topics, Msg
    <3>3. StateComes(last) => StateComes(last)'
      BY <2>1, <2>3, <3>2 DEF StateComes, Silent, EndsWith
    <3> QED
      BY <2>1, <3>1, <3>3 DEF LastComes
  <2>5. CASE ~reachable
    <3>1. Dropped(<<m>>, requests') /\ retained' = retained
      BY <1>9, <2>2, <2>5 DEF PollSends
    <3>2. SUFFICES ASSUME ~lost' PROVE LastComes'
      BY Zenon DEF LastComes
    <3>3. ~lost /\ (Silent(<<m>>) \/ ~Silent(requests') \/ ~Silent(spawned))
      BY <3>1, <3>2, Zenon DEF Dropped
    <3>4. \A x : m = Msg("state", x) => ~Silent(<<m>>)
      BY DEF Silent, Msg
    <3>5. StateComes(last) => StateComes(last)'
      BY <2>1, <2>3, <3>1, <3>3, <3>4 DEF StateComes, Silent, EndsWith
    <3> QED
      BY <2>1, <3>3, <3>5 DEF LastComes
  <2> QED
    BY <2>4, <2>5
<1>10. CASE Outage
  BY <1>0, <1>1, <1>10 DEF Outage, hubVars, watcherVars, Topics
<1>11. CASE Connect \/ Wake \/ StatusSeen \/ Command \/ StateChanges \/ CameraReports \/ BrokerBack
            \/ UNCHANGED mqttVars
  BY <1>1, <1>11 DEF Connect, Wake, StatusSeen, Command, StateChanges, CameraReports, BrokerBack,
    mqttVars, hubVars, brokerVars, watcherVars
<1> QED
  BY <1>2, <1>3, <1>4, <1>5, <1>6, <1>7, <1>8, <1>9, <1>10, <1>11
  DEF MqttNext, LoopStep, WatcherStep

\* A message in a queue stays in it when another is put behind it, and only the
\* first leaves when one is taken.
LEMMA HeldMessages ==
  ASSUME NEW q \in Seq(Message), NEW m
  PROVE  /\ \A x \in Message : \A i \in DOMAIN q : q[i] = m => \E j \in DOMAIN Append(q, x) : Append(q, x)[j] = m
         /\ \A x \in Message : \E j \in DOMAIN Append(q, x) : Append(q, x)[j] = x
         /\ q # <<>> => \A i \in DOMAIN q : q[i] = m =>
              m = Head(q) \/ \E j \in DOMAIN Tail(q) : Tail(q)[j] = m
<1>1. PICK n \in Nat : n = Len(q) /\ DOMAIN q = 1..n
  OBVIOUS
<1>2. ASSUME NEW x \in Message
      PROVE  /\ \A i \in DOMAIN q : q[i] = m => \E j \in DOMAIN Append(q, x) : Append(q, x)[j] = m
             /\ \E j \in DOMAIN Append(q, x) : Append(q, x)[j] = x
  <2>1. /\ DOMAIN Append(q, x) = 1..(n + 1) /\ Append(q, x)[n + 1] = x
        /\ \A i \in 1..n : Append(q, x)[i] = q[i]
    BY <1>1
  <2>2. n + 1 \in 1..(n + 1) /\ \A i \in 1..n : i \in 1..(n + 1)
    BY <1>1
  <2> QED
    BY <1>1, <2>1, <2>2, Zenon
<1>3. ASSUME q # <<>>, NEW i \in DOMAIN q, q[i] = m, m # Head(q)
      PROVE  \E j \in DOMAIN Tail(q) : Tail(q)[j] = m
  <2>1. /\ DOMAIN Tail(q) = 1..(n - 1) /\ Head(q) = q[1]
        /\ \A j \in 1..(n - 1) : Tail(q)[j] = q[j + 1]
    BY <1>1, <1>3
  <2>2. i - 1 \in 1..(n - 1) /\ (i - 1) + 1 = i
    BY <1>1, <1>3, <2>1
  <2>3. Tail(q)[i - 1] = m
    BY <1>3, <2>1, <2>2
  <2> QED
    BY <2>1, <2>2, <2>3
<1> QED
  BY <1>2, <1>3

Holds(q, m) == \E i \in DOMAIN q : q[i] = m

LEMMA HoldsFacts ==
  ASSUME NEW q \in Seq(Message), NEW m
  PROVE  /\ \A x \in Message : (Holds(q, m) => Holds(Append(q, x), m)) /\ Holds(Append(q, x), x)
         /\ q # <<>> /\ Holds(q, m) => m = Head(q) \/ Holds(Tail(q), m)
<1>1. ASSUME NEW x \in Message
      PROVE  (Holds(q, m) => Holds(Append(q, x), m)) /\ Holds(Append(q, x), x)
  BY HeldMessages, Zenon DEF Holds
<1>2. ASSUME q # <<>>, Holds(q, m) PROVE m = Head(q) \/ Holds(Tail(q), m)
  BY <1>2, HeldMessages, Zenon DEF Holds
<1> QED
  BY <1>1, <1>2

LEMMA QueuedIs ==
  ASSUME NEW m
  PROVE  /\ Queued(m) <=> Holds(announcing, m) \/ Holds(requests, m)
         /\ Queued(m)' <=> Holds(announcing', m) \/ Holds(requests', m)
  BY Zenon DEF Queued, Holds

LEMMA AnnouncedStays == MqttInv /\ Announced /\ [MqttNext]_mqttVars => Announced'
<1> SUFFICES ASSUME MqttInv, Announced, [MqttNext]_mqttVars, socket', reachable' PROVE Announced'
  BY DEF Announced
<1>0. /\ announcing \in Seq(Message) /\ requests \in Seq(Message)
      /\ spawned \in Seq(Message)
      /\ retained \in [Topics -> {Unset, "online", "offline"} \cup States \cup Modes]
  BY QueuesHoldMessages
<1>1. Online \in Message /\ Subscription \in Message
  BY DEF Online, Subscription, Msg, Message
<1>2. ASSUME socket, reachable,
             retained["availability"] = "online" => retained'["availability"] = "online",
             subscribed => subscribed',
             \A m \in {Online, Subscription} : Queued(m) => Queued(m)'
      PROVE  Announced'
  BY <1>2, Zenon DEF Announced, Online, Subscription, Msg, Queued
<1>3. CASE Connect
  <2>1. announcing' = Announcement
    BY <1>3 DEF Connect
  <2>2. Holds(announcing', Online) /\ Holds(announcing', Subscription)
    BY <2>1 DEF Holds, Announcement
  <2> QED
    BY <2>2, QueuedIs DEF Announced, Online, Subscription, Msg
<1>4. CASE PollFails
  BY <1>4 DEF PollFails, brokerVars
<1>5. CASE Announce
  <2>1. announcing # <<>> /\ announcing' = Tail(announcing)
        /\ requests' = Append(requests, Head(announcing)) /\ Head(announcing) \in Message
    BY <1>0, <1>5, TailKeeps DEF Announce, MqttInv, QueuedIsTrue
  <2>2. \A m : Queued(m) => Queued(m)'
    <3> SUFFICES ASSUME NEW m, Queued(m) PROVE Queued(m)'
      OBVIOUS
    <3>1. Holds(announcing, m) => m = Head(announcing) \/ Holds(announcing', m)
      BY <1>0, <2>1, HoldsFacts
    <3>2. (Holds(requests, m) => Holds(requests', m)) /\ Holds(requests', Head(announcing))
      BY <1>0, <2>1, HoldsFacts
    <3> QED
      BY <3>1, <3>2, QueuedIs
  <2>3. UNCHANGED <<socket, reachable, retained, subscribed>>
    BY <1>5 DEF Announce, brokerVars
  <2> QED
    BY <1>2, <2>2, <2>3
<1>6. CASE PollSends
  <2>1. socket /\ reachable /\ announcing' = announcing
    BY <1>6 DEF PollSends
  <2>2. PICK m \in Message : Delivered(m) /\ m = Head(requests) /\ requests # <<>>
                              /\ requests' = Tail(requests)
    BY <1>0, <1>6, <2>1, TailKeeps DEF PollSends
  <2>3. m \in Message
    BY <2>2
  <2>4. \A x : Queued(x) => x = m \/ Queued(x)'
    <3> SUFFICES ASSUME NEW x, Queued(x), x # m PROVE Queued(x)'
      OBVIOUS
    <3>1. Holds(requests, x) => Holds(requests', x)
      BY <1>0, <2>2, HoldsFacts
    <3> QED
      BY <2>1, <3>1, QueuedIs
  <2>5. retained["availability"] = "online" => retained'["availability"] = "online"
    BY <1>0, <2>2, <2>3 DEF Delivered, Message
  <2>6. m = Online => retained'["availability"] = "online"
    BY <1>0, <2>2 DEF Delivered, Online, Msg, Topics
  <2>7. subscribed' <=> subscribed \/ m.topic = "subscribe"
    BY <2>2, Zenon DEF Delivered
  <2>8. m = Subscription => subscribed'
    BY <2>7 DEF Subscription, Msg
  <2>9. retained'["availability"] = "online" \/ Queued(Online)'
    BY <2>1, <2>4, <2>5, <2>6 DEF Announced
  <2>10. subscribed' \/ Queued(Subscription)'
    BY <2>1, <2>4, <2>7, <2>8 DEF Announced
  <2> QED
    BY <2>9, <2>10, Zenon DEF Announced, Online, Subscription, Msg, Queued
<1>7. CASE Publish \/ Report
  <2>1. PICK x \in Message : requests' = Append(requests, x)
    <3>1. CASE Publish
      <4>1. PICK i \in DOMAIN spawned : requests' = Append(requests, spawned[i])
        BY <3>1 DEF Publish
      <4> QED
        BY <1>0, <4>1
    <3>2. CASE Report
      <4>1. reporting \in Seq(True(applied)) /\ reporting # <<>>
        BY <3>2 DEF Report, MqttInv, QueuedIsTrue
      <4>2. Head(reporting) \in Message
        BY <4>1, TailKeeps DEF True
      <4> QED
        BY <3>2, <4>2 DEF Report
    <3> QED
      BY <1>7, <3>1, <3>2
  <2>2. UNCHANGED <<announcing, socket, reachable, retained, subscribed>>
    BY <1>7 DEF Publish, Report, brokerVars
  <2>3. \A m : Queued(m) => Queued(m)'
    BY <1>0, <2>1, <2>2, HoldsFacts, QueuedIs
  <2> QED
    BY <1>2, <2>2, <2>3
<1>8. CASE Outage
  BY <1>8 DEF Outage
<1>9. CASE BrokerBack
  BY <1>9 DEF BrokerBack, hubVars
<1>10. CASE Wake
  <2>1. UNCHANGED <<announcing, requests, socket, reachable, retained, subscribed>>
    BY <1>10 DEF Wake, brokerVars
  <2>2. \A m : Queued(m) => Queued(m)'
    BY <2>1, QueuedIs
  <2> QED
    BY <1>2, <2>1, <2>2
<1>11. CASE Watch \/ StatusSeen \/ Dispatch \/ Command \/ StateChanges \/ CameraReports
            \/ SnapshotTaken \/ UNCHANGED mqttVars
  <2>1. UNCHANGED <<announcing, requests, socket, reachable, retained, subscribed>>
    BY <1>11 DEF Watch, StatusSeen, Dispatch, Command, StateChanges, CameraReports, SnapshotTaken,
      mqttVars, hubVars, brokerVars
  <2>2. \A m : Queued(m) => Queued(m)'
    BY <2>1, QueuedIs
  <2> QED
    BY <1>2, <2>1, <2>2
<1> QED
  BY <1>3, <1>4, <1>5, <1>6, <1>7, <1>8, <1>9, <1>10, <1>11 DEF MqttNext, LoopStep, WatcherStep

LEMMA WatcherKnowsStays == WatcherKnows /\ [MqttNext]_mqttVars => WatcherKnows'
<1> SUFFICES ASSUME WatcherKnows, [MqttNext]_mqttVars PROVE WatcherKnows'
  OBVIOUS
<1>1. CASE Watch
  BY <1>1 DEF Watch, RememberLast, WatcherKnows
<1>2. CASE StateChanges
  BY <1>2 DEF StateChanges, WatcherKnows
<1>3. CASE LoopStep
  <2>1. UNCHANGED <<changed, last, state>> /\ loop # "off"
    <3>1. loop # "off"
      BY <1>3 DEF LoopStep, Connect, PollFails, Wake, Announce, PollSends
    <3> QED
      BY <1>3, <3>1 DEF LoopStep, Connect, PollFails, Wake, Announce, PollSends, watcherVars
  <2> QED
    BY <1>3, <2>1 DEF LoopStep, Connect, PollFails, Wake, Announce, PollSends, WatcherKnows
<1>4. CASE Publish \/ StatusSeen \/ Report \/ Dispatch \/ Command \/ CameraReports \/ SnapshotTaken
           \/ Outage \/ BrokerBack \/ UNCHANGED mqttVars
  BY <1>4 DEF Publish, StatusSeen, Report, Dispatch, Command, CameraReports, SnapshotTaken, Outage,
    BrokerBack, mqttVars, hubVars, watcherVars, WatcherKnows
<1> QED
  BY <1>1, <1>2, <1>3, <1>4 DEF MqttNext, WatcherStep

HubInv == MqttInv /\ OtherTopics /\ Announced /\ WatcherKnows /\ LastComes

(* HubKeepsUp: what is announced, what the watcher knows and what comes    *)
(* last at the broker are inductive together (hub.rs:155, state.rs:65).    *)
THEOREM HubKeepsUp == MqttSpec => []HubInv
<1>1. MqttInit => OtherTopics /\ Announced /\ WatcherKnows /\ LastComes
  <2> SUFFICES ASSUME MqttInit PROVE OtherTopics /\ Announced /\ WatcherKnows /\ LastComes
    OBVIOUS
  <2>1. OtherTopics
    BY DEF MqttInit, OtherTopics
  <2>2. Announced
    BY DEF MqttInit, Announced
  <2>3. WatcherKnows
    BY DEF MqttInit, WatcherKnows
  <2>4. LastComes
    BY DEF MqttInit, LastComes, StateComes, Silent, Topics
  <2> QED
    BY <2>1, <2>2, <2>3, <2>4
<1>2. HubInv /\ [MqttNext]_mqttVars /\ MqttInv' => HubInv'
  BY OtherTopicsStay, AnnouncedStays, WatcherKnowsStays, LastComesStays DEF HubInv
<1>3. MqttSpec => [](OtherTopics /\ Announced /\ WatcherKnows /\ LastComes /\ MqttInv)
  BY <1>1, <1>2, MqttCorrect, PTL DEF MqttSpec, HubInv
<1> QED
  BY <1>3, PTL DEF HubInv

(* HubForgetsNothing: for every capacity of the queue and any number of    *)
(* outages, events and dropped messages, what the broker has to know is    *)
(* retained by it, on its way, or still to be looked at, but for a state   *)
(* that was overtaken or whose only publish went with a broken connection. *)
THEOREM HubForgetsNothing == Spec => []NothingForgotten
<1>1. HubInv => NothingForgotten
  <2> SUFFICES ASSUME HubInv PROVE NothingForgotten
    OBVIOUS
  <2>1. changed \/ overtaken \/ lost \/ loop = "off" \/ StateComes(state)
    BY DEF HubInv, WatcherKnows, LastComes
  <2> QED
    BY <2>1 DEF HubInv, Announced, NothingForgotten
<1> QED
  BY <1>1, OutputsPublish, HubKeepsUp, PTL

-----------------------------------------------------------------------------
(* The snapshot worker *)

SnapshotQueues ==
  /\ backlog \in Seq(Packets) /\ Len(backlog) <= Backlog
  /\ partial \in Seq(Packets)
  /\ flight \subseteq Packets /\ next \in 0..(Numbers - 1)
  /\ connection \in 0..MaxConnections

Connected == linked => connection # 0

SnapshotRefs ==
  /\ worker \in {"off", "on"} /\ consumer \in {"none", "running", "finished"}
  /\ tuned \in 0..MaxConnections /\ sender \in 0..MaxConnections /\ shown \in 0..MaxConnections
  /\ sender <= connection
  /\ latest \in [parameters : {"none", "some"}, idr : {"none", "whole", "broken"},
                 of : 0..MaxConnections]

SnapshotFlags ==
  /\ noticed \in BOOLEAN /\ lagging \in BOOLEAN /\ calm \in BOOLEAN
  /\ streaming \in BOOLEAN /\ linked \in BOOLEAN

LEMMA NumberFacts ==
  /\ Numbers \in Nat /\ Numbers > 0
  /\ \A n \in Nat : After(n) \in 0..(Numbers - 1)
  /\ \A n \in Nat : 3 * ((n \div 3 + 1) % Pictures) \in 0..(Numbers - 1)
<1>1. Pictures \in Nat /\ Pictures >= 4 /\ Numbers \in Nat /\ Numbers > 0
  BY SnapshotAssumption DEF Numbers
<1>2. \A a \in Nat, b \in Nat : b > 0 => a % b \in 0..(b - 1)
  OBVIOUS
<1>3. \A n \in Nat : n + 1 \in Nat /\ n \div 3 + 1 \in Nat
  OBVIOUS
<1>4. \A n \in Nat : After(n) \in 0..(Numbers - 1)
  BY <1>1, <1>2, <1>3 DEF After
<1>5. \A n \in Nat : (n \div 3 + 1) % Pictures \in 0..(Pictures - 1)
  BY <1>1, <1>2, <1>3
<1>6. \A k \in 0..(Pictures - 1) : 3 * k \in 0..(Numbers - 1)
  BY <1>1 DEF Numbers
<1>7. QED  BY <1>1, <1>4, <1>5, <1>6

LEMMA ConnectedStays ==
  SnapshotQueues /\ Connected /\ [SnapshotNext]_snapshotVars => Connected'
<1> SUFFICES ASSUME SnapshotQueues, Connected, [SnapshotNext]_snapshotVars
             PROVE  Connected'
  OBVIOUS
<1>1. CASE Connects \/ Reconnects
  <2>1. connection' # 0
    BY <1>1, SnapshotAssumption DEF Connects, Reconnects, NewConnection, SnapshotQueues
  <2>2. QED  BY <2>1, Zenon DEF Connected
<1>2. CASE LinkLost \/ Teardown
  BY <1>2, Zenon DEF LinkLost, Teardown, Connected
<1>3. CASE UNCHANGED <<linked, connection>>
  BY <1>3, Zenon DEF Connected
<1>4. CASE WorkerStep \/ ConsumerStep
  BY <1>3, <1>4, Zenon DEF WorkerStep, Changed, Tick, ConsumerStep, Receive, Lag, Finish, cameraVars,
                          linkVars
<1>5. CASE CameraSends \/ Arrives \/ Lost \/ Calms \/ UNCHANGED snapshotVars
  BY <1>3, <1>5, Zenon DEF CameraSends, Arrives, Lost, Calms, snapshotVars, cameraVars, linkVars
<1>6. QED  BY <1>1, <1>2, <1>4, <1>5 DEF SnapshotNext

LEMMA QueuesStay ==
  SnapshotQueues /\ Connected /\ [SnapshotNext]_snapshotVars => SnapshotQueues'
<1> SUFFICES ASSUME SnapshotQueues, Connected, [SnapshotNext]_snapshotVars
             PROVE  SnapshotQueues'
  OBVIOUS
<1> USE DEF SnapshotQueues
<1>1. <<>> \in Seq(Packets) /\ Len(<<>>) <= Backlog
  BY SnapshotAssumption
<1>2. ASSUME Look
      PROVE  (backlog' = <<>> /\ partial' = <<>>) \/ UNCHANGED <<backlog, partial>>
  BY <1>2, Zenon DEF Look, consumerVars
<1>3. CASE Changed \/ Tick
  <2>1. Look /\ UNCHANGED cameraVars
    BY <1>3, Zenon DEF Changed, Tick
  <2>2. QED  BY <1>1, <1>2, <2>1 DEF cameraVars, linkVars
<1>4. CASE Receive
  <2>1. Head(backlog) \in Packets /\ Tail(backlog) \in Seq(Packets) /\ Len(Tail(backlog)) <= Backlog
    BY <1>4, SnapshotAssumption DEF Receive
  <2>2. partial' \in {<<>>, partial, <<Head(backlog)>>}
    BY <1>4 DEF Receive, Kept
  <2>3. <<Head(backlog)>> \in Seq(Packets) /\ backlog' = Tail(backlog) /\ UNCHANGED cameraVars
    BY <1>4, <2>1 DEF Receive
  <2>4. QED  BY <1>1, <2>1, <2>2, <2>3 DEF cameraVars
<1>5. CASE Lag \/ Finish
  <2>1. backlog' = backlog /\ partial' \in {<<>>, partial} /\ UNCHANGED cameraVars
    BY <1>5, Zenon DEF Lag, Finish, consumerVars
  <2>2. QED  BY <1>1, <2>1 DEF cameraVars, linkVars
<1>6. CASE Connects \/ Reconnects
  <2>0. NewConnection
    BY <1>6, Zenon DEF Connects, Reconnects
  <2>1. next' \in 0..(Numbers - 1)
    <3>1. next \in Nat /\ next' = 3 * ((next \div 3 + 1) % Pictures)
      BY <2>0, NumberFacts DEF NewConnection
    <3>2. QED  BY <3>1, NumberFacts
  <2>2. connection' \in 1..MaxConnections
    BY <2>0, SnapshotAssumption DEF NewConnection
  <2>3. QED  BY <2>0, <2>1, <2>2 DEF NewConnection, consumerVars
<1>7. CASE LinkLost \/ Teardown
  BY <1>7 DEF LinkLost, Teardown, consumerVars
<1>8. \A p \in Packets : Broadcast(p) => backlog' \in Seq(Packets) /\ Len(backlog') <= Backlog
  <2>1. SUFFICES ASSUME NEW p \in Packets, Broadcast(p)
                 PROVE  backlog' \in Seq(Packets) /\ Len(backlog') <= Backlog
    OBVIOUS
  <2>2. Backlog \in Nat \ {0} /\ Len(backlog) \in Nat
    BY SnapshotAssumption
  <2>3. CASE backlog' = backlog
    BY <2>3
  <2>4. CASE Len(backlog) = Backlog /\ backlog' = Append(Tail(backlog), p)
    <3>1. backlog # <<>>
      BY <2>2, <2>4
    <3>2. QED  BY <2>2, <2>4, <3>1, TailKeeps, AppendKeeps
  <2>5. CASE Len(backlog) # Backlog /\ backlog' = Append(backlog, p)
    BY <2>2, <2>5, AppendKeeps
  <2>6. QED  BY <2>1, <2>3, <2>4, <2>5 DEF Broadcast
<1>9. CASE CameraSends
  <2> DEFINE p == [number |-> next, connection |-> connection]
  <2>1. p \in Packets
    <3>1. linked
      BY <1>9, Zenon DEF CameraSends
    <3>2. connection # 0
      BY <3>1, Zenon DEF Connected
    <3>3. QED  BY <3>2, SnapshotAssumption DEF Packets
  <2>2. (Broadcast(p) /\ flight' = flight) \/ (flight' = flight \cup {p} /\ backlog' = backlog)
    BY <1>9, Zenon DEF CameraSends
  <2>3. next' \in 0..(Numbers - 1)
    BY <1>9, NumberFacts DEF CameraSends
  <2>4. partial' = partial /\ connection' = connection
    BY <1>9 DEF CameraSends, linkVars
  <2>5. QED  BY <1>8, <2>1, <2>2, <2>3, <2>4
<1>10. CASE Arrives
  <2>1. PICK p \in flight : Broadcast(p) /\ flight' \subseteq flight
    BY <1>10, Zenon DEF Arrives
  <2>2. partial' = partial /\ connection' = connection /\ next' = next
    BY <1>10 DEF Arrives, linkVars
  <2>3. QED  BY <1>8, <2>1, <2>2
<1>11. CASE Lost \/ Calms \/ UNCHANGED snapshotVars
  BY <1>11 DEF Lost, Calms, consumerVars, linkVars, snapshotVars, cameraVars
<1>12. QED
  BY <1>3, <1>4, <1>5, <1>6, <1>7, <1>9, <1>10, <1>11 DEF SnapshotNext, WorkerStep, ConsumerStep

LEMMA RefsStay ==
  SnapshotQueues /\ SnapshotRefs /\ [SnapshotNext]_snapshotVars => SnapshotRefs'
<1> SUFFICES ASSUME SnapshotQueues, SnapshotRefs, [SnapshotNext]_snapshotVars
             PROVE  SnapshotRefs'
  OBVIOUS
<1> USE DEF SnapshotRefs
<1>1. MaxConnections \in Nat /\ connection \in 0..MaxConnections
  BY SnapshotAssumption DEF SnapshotQueues
<1>2. ASSUME Look
      PROVE  /\ consumer' \in {"none", "running", "finished"} /\ tuned' \in 0..MaxConnections
             /\ latest' \in {latest, NoParams, [latest EXCEPT !.parameters = "none"]}
  BY <1>1, <1>2 DEF Look, consumerVars
<1>3. CASE Changed \/ Tick
  <2>1. Look /\ UNCHANGED cameraVars /\ worker' = worker /\ shown' \in {shown, latest.of}
    BY <1>3, Zenon DEF Changed, Tick
  <2>2. latest' \in [parameters : {"none", "some"}, idr : {"none", "whole", "broken"},
                    of : 0..MaxConnections]
    BY <1>1, <1>2, <2>1 DEF NoParams
  <2>3. QED  BY <1>2, <2>1, <2>2 DEF cameraVars, linkVars
<1>4. CASE Receive
  <2>1. Head(backlog).connection \in 0..MaxConnections
    <3>1. Head(backlog) \in Packets
      BY <1>4, TailKeeps DEF Receive, SnapshotQueues
    <3>2. QED  BY <1>1, <3>1 DEF Packets
  <2>2. latest' \in [parameters : {"none", "some"}, idr : {"none", "whole", "broken"},
                    of : 0..MaxConnections]
    BY <1>4, <2>1 DEF Receive
  <2>3. QED  BY <1>4, <2>2 DEF Receive, cameraVars, linkVars
<1>5. CASE Lag \/ Finish
  BY <1>5 DEF Lag, Finish, workerVars, consumerVars, cameraVars, linkVars
<1>6. CASE Connects \/ Reconnects
  <2>0. NewConnection /\ sender' \in {sender, sender + 1}
    BY <1>6 DEF Connects, Reconnects
  <2>1. connection' = connection + 1 /\ connection < MaxConnections
    BY <2>0 DEF NewConnection
  <2>2. sender' \in 0..MaxConnections /\ sender' <= connection'
    BY <1>1, <2>0, <2>1
  <2>3. QED  BY <2>0, <2>2 DEF NewConnection, consumerVars
<1>7. CASE LinkLost \/ Teardown
  BY <1>7 DEF LinkLost, Teardown, workerVars, consumerVars
<1>8. CASE CameraSends \/ Arrives
  BY <1>8 DEF CameraSends, Arrives, workerVars, linkVars
<1>9. CASE Lost \/ Calms \/ UNCHANGED snapshotVars
  BY <1>9 DEF Lost, Calms, workerVars, consumerVars, linkVars, snapshotVars, cameraVars
<1>10. QED
  BY <1>3, <1>4, <1>5, <1>6, <1>7, <1>8, <1>9 DEF SnapshotNext, WorkerStep, ConsumerStep

LEMMA FlagsStay == SnapshotFlags /\ [SnapshotNext]_snapshotVars => SnapshotFlags'
<1> SUFFICES ASSUME SnapshotFlags, [SnapshotNext]_snapshotVars
             PROVE  SnapshotFlags'
  OBVIOUS
<1> USE DEF SnapshotFlags
<1>1. CASE Changed \/ Tick
  <2>1. Look => lagging' \in BOOLEAN
    BY Zenon DEF Look, consumerVars
  <2>2. QED  BY <1>1, <2>1, Zenon DEF Changed, Tick, cameraVars, linkVars
<1>2. CASE ConsumerStep
  BY <1>2, Zenon DEF ConsumerStep, Receive, Lag, Finish, workerVars, consumerVars, cameraVars, linkVars
<1>3. CASE Connects \/ LinkLost \/ Reconnects \/ Teardown
  BY <1>3, Zenon DEF Connects, LinkLost, Reconnects, Teardown, NewConnection, workerVars, consumerVars
<1>4. \A p : Broadcast(p) => lagging' \in BOOLEAN
  BY Zenon DEF Broadcast
<1>5. CASE CameraSends
  <2>1. lagging' \in BOOLEAN
    BY <1>4, <1>5, Zenon DEF CameraSends
  <2>2. QED  BY <1>5, <2>1, Zenon DEF CameraSends, workerVars, linkVars
<1>6. CASE Arrives
  <2>1. lagging' \in BOOLEAN
    BY <1>4, <1>6, Zenon DEF Arrives
  <2>2. QED  BY <1>6, <2>1, Zenon DEF Arrives, workerVars, linkVars
<1>7. CASE Lost \/ Calms \/ UNCHANGED snapshotVars
  BY <1>7, Zenon DEF Lost, Calms, workerVars, consumerVars, linkVars, snapshotVars, cameraVars
<1>8. QED
  BY <1>1, <1>2, <1>3, <1>5, <1>6, <1>7 DEF SnapshotNext, WorkerStep

SnapshotInv == SnapshotQueues /\ Connected /\ SnapshotRefs /\ SnapshotFlags

LEMMA SnapshotStarts == SnapshotInit => SnapshotInv
<1> SUFFICES ASSUME SnapshotInit PROVE SnapshotInv
  OBVIOUS
<1>1. worker \in {"off", "on"}
  BY Zenon DEF SnapshotInit
<1>2. SnapshotFlags
  BY Zenon DEF SnapshotInit, SnapshotFlags
<1>3. SnapshotRefs
  BY <1>1, SnapshotAssumption DEF SnapshotInit, SnapshotRefs, NoParams
<1>4. SnapshotQueues
  BY SnapshotAssumption, NumberFacts DEF SnapshotInit, SnapshotQueues
<1>5. Connected
  BY Zenon DEF SnapshotInit, Connected
<1>6. QED  BY <1>2, <1>3, <1>4, <1>5 DEF SnapshotInv

LEMMA SnapshotInvariant == SnapshotSpec => []SnapshotInv
<1>1. SnapshotInv /\ [SnapshotNext]_snapshotVars => SnapshotInv'
  BY QueuesStay, ConnectedStays, RefsStay, FlagsStay DEF SnapshotInv
<1>2. QED  BY <1>1, SnapshotStarts, PTL DEF SnapshotSpec

(* SnapshotTypeCorrect: the ring never holds more than its capacity, and a *)
(* picture and a channel never belong to a connection still to come.       *)
THEOREM SnapshotTypeCorrect == SnapshotSpec => []SnapshotTypeOK
<1>1. SnapshotInv => SnapshotTypeOK
  BY Zenon DEF SnapshotInv, SnapshotQueues, SnapshotRefs, SnapshotFlags, SnapshotTypeOK
<1>2. QED  BY <1>1, SnapshotInvariant, PTL

-----------------------------------------------------------------------------
(* Whole NALs.  The reassembler knows a packet only by its number modulo   *)
(* 65536 and by the number of the one it received before.  WholeNals       *)
(* depends on two facts that it cannot see.  What it receives next was     *)
(* broadcast next, or the ring has lagged and a new reassembler is made    *)
(* (Unspliced).  And of the packets that can still be broadcast none has   *)
(* the number that continues the last one unless both belong to the same   *)
(* connection: the camera's next number is always ahead of the newest      *)
(* packet, by at least two when a connection was made since, and never by  *)
(* a whole cycle (Trailing), because between two broadcasts there is only  *)
(* so much that the camera can send.                                       *)

LEMMA Modulo ==
  ASSUME NEW n \in Nat, n > 0, NEW a \in Int
  PROVE  /\ a \in 0..(n - 1) => a % n = a
         /\ a \in (0 - n)..(0 - 1) => a % n = a + n
         /\ a = n => a % n = 0
<1>1. a \in 0..(n - 1) => a % n = a
  OBVIOUS
<1>2. a \in (0 - n)..(0 - 1) => a % n = a + n
  OBVIOUS
<1>3. a = n => a % n = 0
  OBVIOUS
<1>4. QED  BY <1>1, <1>2, <1>3

LEMMA AfterIs ==
  ASSUME NEW n \in 0..(Numbers - 1)
  PROVE  After(n) = IF n = Numbers - 1 THEN 0 ELSE n + 1
<1>1. n + 1 \in Int /\ n + 1 \in 0..Numbers
  BY NumberFacts
<1>2. QED  BY <1>1, NumberFacts, Modulo DEF After

LEMMA AheadIs ==
  ASSUME NEW n \in 0..(Numbers - 1), NEW m \in 0..(Numbers - 1)
  PROVE  Ahead(n, m) = IF n >= m THEN n - m ELSE n - m + Numbers
<1>1. n - m \in Int /\ n - m \in (0 - Numbers)..(Numbers - 1)
  BY NumberFacts
<1>2. QED  BY <1>1, NumberFacts, Modulo DEF Ahead

\* The number with which the next connection begins.
Afresh == 3 * ((next \div 3 + 1) % Pictures)

LEMMA AfreshIs ==
  ASSUME next \in 0..(Numbers - 1)
  PROVE  \E d \in 1..3 : Afresh = IF next + d >= Numbers THEN next + d - Numbers ELSE next + d
<1>1. /\ next \div 3 \in 0..(Pictures - 1)
      /\ next \in (3 * (next \div 3))..(3 * (next \div 3) + 2)
  BY SnapshotAssumption DEF Numbers
<1>2. (next \div 3 + 1) % Pictures = IF next \div 3 + 1 = Pictures THEN 0 ELSE next \div 3 + 1
  BY <1>1, Modulo, SnapshotAssumption
<1>3. QED  BY <1>1, <1>2, SnapshotAssumption DEF Numbers, Afresh

\* How far the camera's next number is ahead of a packet's.
Gap(m) == Ahead(next, m)

LEMMA GapFacts ==
  ASSUME next \in 0..(Numbers - 1), NEW m \in 0..(Numbers - 1)
  PROVE  /\ Gap(m) \in 0..(Numbers - 1)
         /\ next' = After(next) => Gap(m)' = IF Gap(m) = Numbers - 1 THEN 0 ELSE Gap(m) + 1
         /\ next' = Afresh /\ Gap(m) + 3 < Numbers => \E d \in 1..3 : Gap(m)' = Gap(m) + d
         /\ Gap(m) = 1 <=> next = After(m)
         /\ \A q \in 0..(Numbers - 1) : q = After(m) /\ Gap(m) >= 1 => Gap(q) = Gap(m) - 1
<1>1. next \in Int /\ m \in Int /\ Numbers \in Nat /\ Numbers >= 12
  BY NumberFacts, SnapshotAssumption DEF Numbers
<1>2. Gap(m) = IF next >= m THEN next - m ELSE next - m + Numbers
  BY AheadIs DEF Gap
<1>3. next' \in 0..(Numbers - 1) => Gap(m)' = IF next' >= m THEN next' - m ELSE next' - m + Numbers
  BY AheadIs DEF Gap
<1>4. ASSUME next' = After(next)
      PROVE  Gap(m)' = IF Gap(m) = Numbers - 1 THEN 0 ELSE Gap(m) + 1
  BY <1>1, <1>2, <1>3, <1>4, AfterIs
<1>5. ASSUME next' = Afresh, Gap(m) + 3 < Numbers
      PROVE  \E d \in 1..3 : Gap(m)' = Gap(m) + d
  <2>1. PICK d \in 1..3 : Afresh = IF next + d >= Numbers THEN next + d - Numbers ELSE next + d
    BY AfreshIs
  <2>2. Gap(m)' = Gap(m) + d
    BY <1>1, <1>2, <1>3, <1>5, <2>1
  <2>3. QED  BY <2>2
<1>6. Gap(m) = 1 <=> next = After(m)
  BY <1>1, <1>2, AfterIs
<1>7. \A q \in 0..(Numbers - 1) : q = After(m) /\ Gap(m) >= 1 => Gap(q) = Gap(m) - 1
  <2>1. SUFFICES ASSUME NEW q \in 0..(Numbers - 1), q = After(m), Gap(m) >= 1
                 PROVE  Gap(q) = Gap(m) - 1
    OBVIOUS
  <2>2. Gap(q) = IF next >= q THEN next - q ELSE next - q + Numbers
    BY AheadIs DEF Gap
  <2>3. QED  BY <1>1, <1>2, <2>1, <2>2, AfterIs
<1>8. Gap(m) \in 0..(Numbers - 1)
  BY <1>1, <1>2
<1>9. QED  BY <1>4, <1>5, <1>6, <1>7, <1>8

\* If y seems to continue x, it does.
Together(x, y) == y.number = After(x.number) => y.connection = x.connection

\* The window of packets on their way.
InFlight ==
  /\ calm \/ ~linked => flight = {}
  /\ \A q \in flight : q.connection = connection /\ Gap(q.number) \in 1..(Flight + 1)

\* How far the camera can have got when p is the last packet that was broadcast.
Reach(p) == Flight + 1 + (connection - p.connection) * (Flight + 4)

Trails(p) ==
  /\ p.connection <= connection /\ Gap(p.number) >= 1
  /\ linked => \/ Gap(p.number) <= Reach(p)
                  \/ \E q \in flight : Gap(p.number) <= Reach(p) + Gap(q.number)
  /\ ~linked => Gap(p.number) <= Reach(p) + Flight + 1
  /\ linked /\ p.connection # connection =>
       Gap(p.number) >= 2 /\ \A q \in flight : Gap(p.number) >= Gap(q.number) + 2

\* The packet that the consumer was last sent, as far as it can still matter.
Newest == IF backlog # <<>> THEN backlog[Len(backlog)] ELSE partial[1]

Trailing ==
  /\ tuned <= sender
  /\ consumer = "running" /\ tuned = sender /\ (backlog # <<>> \/ partial # <<>>) => Trails(Newest)

Unspliced ==
  /\ partial # <<>> => Len(partial) = 1 /\ IsStart(partial[1])
  /\ \A i \in 1..(Len(backlog) - 1) : Together(backlog[i], backlog[i + 1])
  /\ partial # <<>> /\ backlog # <<>> /\ ~lagging => Together(partial[1], backlog[1])

LEMMA ReachFacts ==
  ASSUME connection \in 1..MaxConnections, NEW p \in Packets
  PROVE  /\ Reach(p) \in Int
         /\ p.connection <= connection => Reach(p) \in Nat /\ Reach(p) + Flight + 1 <= Numbers - 2
         /\ p.connection <= connection /\ connection < MaxConnections => Reach(p) + 2 * Flight + 5 <= Numbers - 2
         /\ p.connection = connection => Reach(p) = Flight + 1
         /\ p.connection <= connection /\ connection' = connection + 1 =>
              Reach(p)' = Reach(p) + Flight + 4
         /\ connection' = connection => Reach(p)' = Reach(p)
<1> DEFINE c == connection - p.connection
           k == Flight + 4
<1>1. p.connection \in 1..MaxConnections /\ MaxConnections \in Nat /\ Flight \in Nat /\ Numbers \in Nat
  BY NumberFacts, SnapshotAssumption DEF Packets
<1>2. c \in Int /\ k \in Nat /\ c <= MaxConnections - 1 /\ (p.connection <= connection => c \in Nat)
  BY <1>1
<1> HIDE DEF c, k
<1>3. /\ c * k \in Int
      /\ c \in Nat => c * k \in Nat
      /\ (MaxConnections - 1) * k = MaxConnections * k - k
      /\ (c + 1) * k = c * k + k
      /\ c = 0 => c * k = 0
  BY <1>1, <1>2
<1>4. c \in Nat => c * k <= (MaxConnections - 1) * k
  BY <1>1, <1>2
<1>4a. c \in Nat /\ connection < MaxConnections => c * k <= (MaxConnections - 2) * k
  <2>1. ASSUME c \in Nat, connection < MaxConnections PROVE c * k <= (MaxConnections - 2) * k
    <3>1. MaxConnections - 2 - c \in Nat
      BY <1>1, <2>1 DEF c
    <3>2. (MaxConnections - 2 - c) * k \in Nat
      BY <1>2, <3>1
    <3>3. (MaxConnections - 2 - c) * k = (MaxConnections - 2) * k - c * k
      BY <1>1, <1>2
    <3>4. QED  BY <1>1, <1>2, <1>3, <3>2, <3>3
  <2>2. QED  BY <2>1
<1>4b. (MaxConnections - 2) * k = MaxConnections * k - 2 * k
  BY <1>1, <1>2
<1>5. MaxConnections * k + Flight <= Numbers
  BY NumbersAssumption DEF k
<1>6. Reach(p) = Flight + 1 + c * k
  BY DEF Reach, c, k
<1>7. Reach(p)' = Flight + 1 + (connection' - p.connection) * k
  BY DEF Reach, k
<1>8. connection' = connection + 1 => connection' - p.connection = c + 1
  BY <1>1 DEF c
<1>9. /\ Reach(p) \in Int
      /\ p.connection <= connection => Reach(p) \in Nat /\ Reach(p) + Flight + 1 <= Numbers - 2
  BY <1>1, <1>2, <1>3, <1>4, <1>5, <1>6 DEF k
<1>9a. p.connection <= connection /\ connection < MaxConnections => Reach(p) + 2 * Flight + 5 <= Numbers - 2
  BY <1>1, <1>2, <1>3, <1>4a, <1>4b, <1>5, <1>6 DEF k
<1>10. p.connection = connection => Reach(p) = Flight + 1
  BY <1>1, <1>3, <1>6 DEF c
<1>11. connection' = connection + 1 => Reach(p)' = Reach(p) + Flight + 4
  BY <1>1, <1>2, <1>3, <1>6, <1>7, <1>8 DEF k
<1>12. connection' = connection => Reach(p)' = Reach(p)
  BY <1>6, <1>7 DEF c
<1>13. QED  BY <1>9, <1>9a, <1>10, <1>11, <1>12

LEMMA InFlightStays ==
  SnapshotQueues /\ Connected /\ InFlight /\ [SnapshotNext]_snapshotVars => InFlight'
<1> SUFFICES ASSUME SnapshotQueues, Connected, InFlight, [SnapshotNext]_snapshotVars
             PROVE  InFlight'
  OBVIOUS
<1>1. /\ next \in 0..(Numbers - 1) /\ Flight \in Nat \ {0} /\ Numbers \in Nat
      /\ \A q \in flight : q \in Packets /\ q.number \in 0..(Numbers - 1)
  BY SnapshotAssumption, NumberFacts DEF SnapshotQueues, Packets
<1>2. CASE Connects \/ LinkLost \/ Reconnects \/ Teardown
  <2>1. flight' = {}
    BY <1>2, Zenon DEF Connects, LinkLost, Reconnects, Teardown, NewConnection
  <2>2. \A q \in flight' : q.connection = connection' /\ Gap(q.number)' \in 1..(Flight + 1)
    BY <2>1
  <2>3. QED  BY <2>1, <2>2, Zenon DEF InFlight
<1>3. CASE flight' \subseteq flight /\ UNCHANGED <<linked, connection, next>> /\ (calm' => calm \/ flight' = {})
  <2>1. \A q \in flight : Gap(q.number)' = Gap(q.number)
    BY <1>3 DEF Gap
  <2>2. calm' \/ ~linked' => flight' = {}
    BY <1>3, Zenon DEF InFlight
  <2>3. \A q \in flight' : q.connection = connection' /\ Gap(q.number)' \in 1..(Flight + 1)
    BY <1>3, <2>1 DEF InFlight
  <2>4. QED  BY <2>2, <2>3, Zenon DEF InFlight
<1>4. CASE WorkerStep \/ ConsumerStep \/ Calms \/ UNCHANGED snapshotVars
  <2>1. UNCHANGED <<linked, connection, next, flight>> /\ (calm' => calm \/ flight = {})
    <3>1. CASE Calms
      <4>1. flight = {}
        BY <3>1, Zenon DEF Calms
      <4>2. UNCHANGED <<linked, connection, next, flight>>
        BY <3>1 DEF Calms, linkVars
      <4>3. QED  BY <4>1, <4>2
    <3>2. CASE WorkerStep \/ ConsumerStep \/ UNCHANGED snapshotVars
      <4>1. UNCHANGED <<linked, connection, next, flight, calm>>
        BY <3>2, Zenon DEF WorkerStep, Changed, Tick, ConsumerStep, Receive, Lag, Finish,
                           snapshotVars, cameraVars, linkVars
      <4>2. QED  BY <4>1, Zenon
    <3>3. QED  BY <1>4, <3>1, <3>2
  <2>2. flight' \subseteq flight /\ (flight = {} => flight' = {})
    BY <2>1
  <2>3. QED  BY <1>3, <2>1, <2>2, Zenon
<1>5. CASE Lost \/ Arrives
  <2>1. UNCHANGED <<linked, connection, next, calm>>
    BY <1>5, Zenon DEF Lost, Arrives, linkVars
  <2>2. flight' \subseteq flight
    <3>1. CASE Lost  BY <3>1 DEF Lost
    <3>2. CASE Arrives  BY <3>2 DEF Arrives
    <3>3. QED  BY <1>5, <3>1, <3>2
  <2>3. QED  BY <1>3, <2>1, <2>2, Zenon
<1>6. CASE CameraSends
  <2>1. linked /\ UNCHANGED <<linked, connection, calm>> /\ next' = After(next)
    BY <1>6, Zenon DEF CameraSends, linkVars
  <2>2. CASE calm
    <3>1. flight = {} /\ flight' = flight
      BY <1>6, <2>2, Zenon DEF CameraSends, InFlight
    <3>2. QED  BY <2>1, <2>2, <3>1, Zenon DEF InFlight
  <2>3. CASE ~calm
    <3>0. PICK p : p = [number |-> next, connection |-> connection]
      OBVIOUS
    <3>1. flight' = flight \cup {p} /\ \A q \in flight : Gap(q.number) <= Flight
      BY <1>6, <2>3, <3>0 DEF CameraSends, Gap
    <3>2. connection \in 1..MaxConnections
      <4>1. connection # 0
        BY <2>1, Zenon DEF Connected
      <4>2. QED  BY <4>1, SnapshotAssumption DEF SnapshotQueues
    <3>3. Flight + 4 <= Numbers
      <4> DEFINE k == Flight + 4
      <4>1. k \in Nat /\ MaxConnections - 1 \in Nat /\ MaxConnections \in Nat
        BY <1>1, <3>2, SnapshotAssumption
      <4>2. MaxConnections * k + Flight <= Numbers
        BY NumbersAssumption
      <4> HIDE DEF k
      <4>3. MaxConnections * k = (MaxConnections - 1) * k + k /\ (MaxConnections - 1) * k \in Nat
        BY <4>1
      <4>4. k <= Numbers
        BY <1>1, <4>1, <4>2, <4>3
      <4>5. QED  BY <4>4 DEF k
    <3>4. \A q \in flight : Gap(q.number)' \in 1..(Flight + 1)
      <4>1. SUFFICES ASSUME NEW q \in flight PROVE Gap(q.number)' \in 1..(Flight + 1)
        OBVIOUS
      <4>2. Gap(q.number) \in 1..Flight
        BY <1>1, <3>1 DEF InFlight
      <4>3. Gap(q.number)' = IF Gap(q.number) = Numbers - 1 THEN 0 ELSE Gap(q.number) + 1
        BY <1>1, <2>1, GapFacts
      <4>4. QED  BY <1>1, <3>3, <4>2, <4>3
    <3>5. Gap(p.number)' = 1
      <4>1. Gap(next) = 0
        BY <1>1, AheadIs DEF Gap
      <4>2. Gap(p.number)' = Ahead(next', next)
        BY <3>0 DEF Gap
      <4>3. next' \in 0..(Numbers - 1)
        BY <1>1, <2>1, NumberFacts
      <4>4. next' = IF next = Numbers - 1 THEN 0 ELSE next + 1
        BY <1>1, <2>1, AfterIs
      <4>5. Ahead(next', next) = IF next' >= next THEN next' - next ELSE next' - next + Numbers
        BY <1>1, <4>3, AheadIs
      <4>6. Ahead(next', next) = 1
        BY <1>1, <3>3, <4>4, <4>5
      <4>7. QED  BY <4>2, <4>6
    <3>6. \A q \in flight' : q.connection = connection' /\ Gap(q.number)' \in 1..(Flight + 1)
      <4>1. p.connection = connection
        BY <3>0
      <4>2. \A q \in flight : q.connection = connection
        BY DEF InFlight
      <4>3. QED  BY <1>1, <2>1, <3>1, <3>4, <3>5, <4>1, <4>2
    <3>7. ~calm' /\ linked'
      BY <2>1, <2>3, Zenon
    <3>8. QED  BY <3>6, <3>7, Zenon DEF InFlight
  <2>4. QED  BY <2>2, <2>3
<1>7. QED
  BY <1>2, <1>4, <1>5, <1>6 DEF SnapshotNext

LEMMA TrailsOn ==
  ASSUME SnapshotQueues, Connected, InFlight, InFlight', SnapshotQueues', Connected',
         NEW p \in Packets, Trails(p),
         \/ Connects \/ Reconnects \/ LinkLost \/ Teardown \/ Lost
         \/ CameraSends /\ ~calm
         \/ UNCHANGED <<linked, connection, next, flight>>
  PROVE  Trails(p)'
<1>1. /\ next \in 0..(Numbers - 1) /\ Flight \in Nat \ {0} /\ Numbers \in Nat
      /\ p.number \in 0..(Numbers - 1) /\ p.connection \in 1..MaxConnections
      /\ connection \in 0..MaxConnections /\ MaxConnections \in Nat
  BY SnapshotAssumption, NumberFacts DEF SnapshotQueues, Packets
<1>2. /\ p.connection <= connection /\ connection \in 1..MaxConnections
      /\ Gap(p.number) \in 1..(Numbers - 1)
  BY <1>1, GapFacts DEF Trails
<1>3. \A q \in flight : /\ q.connection = connection /\ Gap(q.number) \in 1..(Flight + 1)
                        /\ q.number \in 0..(Numbers - 1)
  BY DEF InFlight, SnapshotQueues, Packets
<1>4. Reach(p) \in Nat /\ Reach(p) + Flight + 1 <= Numbers - 2
  BY <1>2, ReachFacts
<1>5. Gap(p.number) <= Reach(p) + Flight + 1
  <2>1. CASE linked
    <3>1. \/ Gap(p.number) <= Reach(p)
          \/ \E q \in flight : Gap(p.number) <= Reach(p) + Gap(q.number)
      BY <2>1, Zenon DEF Trails
    <3>2. QED  BY <1>1, <1>2, <1>3, <1>4, <3>1
  <2>2. CASE ~linked
    BY <2>2, Zenon DEF Trails
  <2>3. QED  BY <2>1, <2>2
<1>6. CASE Connects \/ Reconnects
  <2>0. NewConnection
    BY <1>6, Zenon DEF Connects, Reconnects
  <2>1. /\ linked' /\ flight' = {}
        /\ connection' = connection + 1 /\ next' = Afresh
    BY <2>0, Zenon DEF NewConnection, Afresh
  <2>2. PICK d \in 1..3 : Gap(p.number)' = Gap(p.number) + d
    <3>1. connection < MaxConnections
      BY <2>0, Zenon DEF NewConnection
    <3>2. Reach(p) + 2 * Flight + 5 <= Numbers - 2
      BY <1>2, <3>1, ReachFacts
    <3>3. Gap(p.number) + 3 < Numbers
      BY <1>1, <1>2, <1>4, <1>5, <3>2
    <3>4. QED  BY <1>1, <2>1, <3>3, GapFacts
  <2>3. Reach(p)' = Reach(p) + Flight + 4
    BY <1>2, <2>1, ReachFacts
  <2>4. Gap(p.number)' <= Reach(p)' /\ Gap(p.number)' >= 2 /\ p.connection <= connection'
    BY <1>1, <1>2, <1>4, <1>5, <2>1, <2>2, <2>3
  <2>5. Gap(p.number)' >= 1
    BY <1>2, <2>2
  <2>6. \A q \in flight' : Gap(p.number)' >= Gap(q.number)' + 2
    BY <2>1
  <2>7. QED  BY <2>1, <2>4, <2>5, <2>6, Zenon DEF Trails
<1>7. CASE LinkLost \/ Teardown
  <2>1. UNCHANGED <<connection, next>> /\ flight' = {} /\ ~linked'
    BY <1>7, Zenon DEF LinkLost, Teardown
  <2>2. Gap(p.number)' = Gap(p.number) /\ Reach(p)' = Reach(p)
    BY <1>2, <2>1, ReachFacts DEF Gap
  <2>3. Gap(p.number)' >= 1 /\ p.connection <= connection' /\ Gap(p.number)' <= Reach(p)' + Flight + 1
    BY <1>2, <1>5, <2>1, <2>2
  <2>4. QED  BY <2>1, <2>3, Zenon DEF Trails
<1>8. CASE Lost
  <2>1. UNCHANGED <<linked, connection, next>>
    BY <1>8, Zenon DEF Lost, linkVars
  <2>2. \A m : Gap(m)' = Gap(m)
    BY <2>1 DEF Gap
  <2>3. Reach(p)' = Reach(p)
    BY <1>2, <2>1, ReachFacts
  <2>4. PICK r \in flight, s \in flight : r.number = After(s.number) /\ flight' = flight \ {r}
    BY <1>8 DEF Lost
  <2>5. Gap(r.number) = Gap(s.number) - 1
    BY <1>1, <1>3, <2>4, GapFacts
  <2>6. s \in flight' /\ flight' \subseteq flight
    BY <1>3, <2>4, <2>5
  <2>7. linked => \/ Gap(p.number) <= Reach(p)
                     \/ \E q \in flight' : Gap(p.number) <= Reach(p) + Gap(q.number)
    <3>1. ASSUME NEW q \in flight, Gap(p.number) <= Reach(p) + Gap(q.number)
          PROVE  \E q1 \in flight' : Gap(p.number) <= Reach(p) + Gap(q1.number)
      <4>1. CASE q = r
        BY <1>2, <1>3, <1>4, <2>4, <2>5, <2>6, <3>1, <4>1
      <4>2. CASE q # r
        BY <2>4, <3>1, <4>2
      <4>3. QED  BY <4>1, <4>2
    <3>2. QED  BY <3>1, Zenon DEF Trails
  <2>8. linked /\ p.connection # connection =>
          Gap(p.number) >= 2 /\ \A q \in flight' : Gap(p.number) >= Gap(q.number) + 2
    BY <2>6 DEF Trails
  <2>9. \A q \in flight' : Gap(q.number)' = Gap(q.number)
    BY <2>2
  <2>10. QED
    BY <2>1, <2>2, <2>3, <2>7, <2>8, Zenon DEF Trails
<1>9. CASE CameraSends /\ ~calm
  <2>1. PICK q : q = [number |-> next, connection |-> connection]
    OBVIOUS
  <2>2. linked /\ linked' /\ connection' = connection /\ next' = After(next)
    BY <1>9, Zenon DEF CameraSends, linkVars
  <2>3. flight' = flight \cup {q}
    BY <1>9, <2>1, Zenon DEF CameraSends
  <2>4. Gap(p.number)' = Gap(p.number) + 1
    BY <1>1, <1>2, <1>4, <1>5, <2>2, GapFacts
  <2>5. \A r \in flight : Gap(r.number)' = Gap(r.number) + 1
    <3>1. SUFFICES ASSUME NEW r \in flight PROVE Gap(r.number)' = Gap(r.number) + 1
      OBVIOUS
    <3>2. Gap(r.number) # Numbers - 1
      BY <1>1, <1>3, <1>4
    <3>3. QED  BY <1>1, <1>3, <2>2, <3>2, GapFacts
  <2>6. Gap(q.number)' = 1
    <3>1. Gap(q.number) = 0 /\ q.number \in 0..(Numbers - 1)
      BY <1>1, <2>1, AheadIs DEF Gap
    <3>2. QED  BY <1>1, <1>4, <2>2, <3>1, GapFacts
  <2>7. Reach(p)' = Reach(p)
    BY <1>2, <2>2, ReachFacts
  <2>8. \/ Gap(p.number)' <= Reach(p)'
        \/ \E r \in flight' : Gap(p.number)' <= Reach(p)' + Gap(r.number)'
    <3>1. CASE Gap(p.number) <= Reach(p)
      <4>1. Gap(p.number)' <= Reach(p)' + Gap(q.number)'
        BY <1>2, <1>4, <2>4, <2>6, <2>7, <3>1
      <4>2. QED  BY <2>3, <4>1
    <3>2. CASE \E r \in flight : Gap(p.number) <= Reach(p) + Gap(r.number)
      <4>1. PICK r \in flight : Gap(p.number) <= Reach(p) + Gap(r.number)
        BY <3>2
      <4>2. Gap(p.number)' <= Reach(p)' + Gap(r.number)' /\ r \in flight'
        BY <1>2, <1>3, <1>4, <2>3, <2>4, <2>5, <2>7, <4>1
      <4>3. QED  BY <4>2
    <3>3. QED  BY <2>2, <3>1, <3>2, Zenon DEF Trails
  <2>9. p.connection # connection =>
          Gap(p.number)' >= 2 /\ \A r \in flight' : Gap(p.number)' >= Gap(r.number)' + 2
    <3>1. ASSUME p.connection # connection
          PROVE  Gap(p.number) >= 2 /\ \A r \in flight : Gap(p.number) >= Gap(r.number) + 2
      BY <2>2, <3>1, Zenon DEF Trails
    <3>2. ASSUME p.connection # connection, NEW r \in flight'
          PROVE  Gap(p.number)' >= Gap(r.number)' + 2
      <4>1. CASE r = q
        BY <1>2, <2>4, <2>6, <3>1, <3>2, <4>1
      <4>2. CASE r \in flight
        BY <1>2, <1>3, <2>4, <2>5, <3>1, <3>2, <4>2
      <4>3. QED  BY <2>3, <3>2, <4>1, <4>2
    <3>3. QED  BY <1>2, <2>4, <3>1, <3>2
  <2>10. Gap(p.number)' >= 1 /\ p.connection <= connection'
    BY <1>2, <2>2, <2>4
  <2>11. QED
    BY <2>2, <2>8, <2>9, <2>10, Zenon DEF Trails
<1>10. CASE UNCHANGED <<linked, connection, next, flight>>
  <2>1. \A m : Gap(m)' = Gap(m)
    BY <1>10 DEF Gap
  <2>2. Reach(p)' = Reach(p)
    BY <1>2, <1>10, ReachFacts
  <2>3. QED  BY <1>10, <2>1, <2>2, Zenon DEF Trails
<1>11. QED  BY <1>6, <1>7, <1>8, <1>9, <1>10

LEMMA BroadcastTrails ==
  ASSUME SnapshotQueues, Connected, InFlight, InFlight',
         NEW p \in Packets,
         \/ Arrives /\ p \in flight
         \/ CameraSends /\ calm /\ p = [number |-> next, connection |-> connection]
  PROVE  /\ Trails(p)' /\ linked /\ p.connection = connection
         /\ Gap(p.number) = 0 \/ p \in flight
<1>1. /\ next \in 0..(Numbers - 1) /\ Flight \in Nat \ {0} /\ Numbers \in Nat /\ Numbers >= 12
      /\ p.number \in 0..(Numbers - 1) /\ p.connection \in 1..MaxConnections
      /\ connection \in 0..MaxConnections /\ MaxConnections \in Nat
  BY SnapshotAssumption, NumberFacts DEF SnapshotQueues, Packets, Numbers
<1>2. CASE Arrives /\ p \in flight
  <2>1. linked /\ UNCHANGED <<linked, connection, next>>
    BY <1>2, Zenon DEF Arrives, InFlight, linkVars
  <2>2. p.connection = connection /\ Gap(p.number) \in 1..(Flight + 1)
    BY <1>2 DEF InFlight
  <2>3. Gap(p.number)' = Gap(p.number)
    BY <2>1 DEF Gap
  <2>4. Reach(p)' = Flight + 1
    BY <1>1, <2>1, <2>2, ReachFacts
  <2>5. /\ p.connection <= connection' /\ p.connection = connection'
        /\ Gap(p.number)' >= 1 /\ Gap(p.number)' <= Reach(p)'
    BY <1>1, <2>1, <2>2, <2>3, <2>4
  <2>6. Trails(p)'
    BY <2>1, <2>5, Zenon DEF Trails
  <2>7. QED  BY <1>2, <2>1, <2>2, <2>6
<1>3. CASE CameraSends /\ calm /\ p = [number |-> next, connection |-> connection]
  <2>1. linked /\ UNCHANGED <<linked, connection>> /\ next' = After(next)
    BY <1>3, Zenon DEF CameraSends, linkVars
  <2>2. p.connection = connection /\ Gap(p.number) = 0
    BY <1>1, <1>3, AheadIs DEF Gap
  <2>3. Gap(p.number)' = 1
    BY <1>1, <2>1, <2>2, GapFacts
  <2>4. Reach(p)' = Flight + 1
    BY <1>1, <2>1, <2>2, ReachFacts
  <2>5. /\ p.connection <= connection' /\ p.connection = connection'
        /\ Gap(p.number)' >= 1 /\ Gap(p.number)' <= Reach(p)'
    BY <1>1, <2>1, <2>2, <2>3, <2>4
  <2>6. Trails(p)'
    BY <2>1, <2>5, Zenon DEF Trails
  <2>7. QED  BY <2>1, <2>2, <2>6
<1>4. QED  BY <1>2, <1>3

\* A broadcast packet does not continue one of an earlier connection.
LEMMA BroadcastFits ==
  ASSUME SnapshotQueues, InFlight, linked,
         NEW p \in Packets, p.connection = connection, Gap(p.number) = 0 \/ p \in flight,
         NEW l \in Packets, Trails(l)
  PROVE  Together(l, p)
<1>1. /\ next \in 0..(Numbers - 1) /\ Numbers \in Nat
      /\ p.number \in 0..(Numbers - 1) /\ l.number \in 0..(Numbers - 1)
  BY NumberFacts DEF SnapshotQueues, Packets
<1>2. SUFFICES ASSUME p.number = After(l.number), l.connection # connection
               PROVE  FALSE
  BY DEF Together
<1>3. Gap(l.number) >= 2 /\ \A q \in flight : Gap(l.number) >= Gap(q.number) + 2
  BY <1>2, Zenon DEF Trails
<1>4. Gap(l.number) \in Int /\ Gap(p.number) = Gap(l.number) - 1
  BY <1>1, <1>2, <1>3, GapFacts
<1>5. QED  BY <1>3, <1>4

\* What the consumer's own steps do to its queue.
LEMMA StartGoesOn ==
  ASSUME NEW s \in Packets, NEW p \in Packets, IsStart(s), p.number = After(s.number)
  PROVE  ~IsParameters(p) /\ ~IsStart(p)
<1>1. /\ s.number \in 0..(Numbers - 1) /\ s.number % 3 = 1
      /\ Pictures \in Nat /\ Numbers = 3 * Pictures
  BY SnapshotAssumption DEF Packets, IsStart, Numbers
<1>2. s.number # Numbers - 1
  BY <1>1
<1>3. p.number = s.number + 1
  BY <1>1, <1>2, AfterIs
<1>4. p.number % 3 = 2
  BY <1>1, <1>3
<1>5. QED  BY <1>4 DEF IsParameters, IsStart

LEMMA ReceiveKeeps ==
  ASSUME SnapshotQueues, Unspliced, Receive
  PROVE  /\ backlog # <<>> /\ backlog[1] \in Packets /\ backlog' = Tail(backlog)
         /\ partial' \in {<<>>, <<backlog[1]>>}
         /\ partial' # <<>> => IsStart(backlog[1])
<1>1. /\ ~lagging /\ backlog # <<>> /\ backlog \in Seq(Packets) /\ partial \in Seq(Packets)
      /\ Head(backlog) = backlog[1] /\ backlog[1] \in Packets /\ backlog' = Tail(backlog)
  <2>1. ~lagging
    BY Zenon DEF Receive
  <2>2. QED  BY <2>1, TailKeeps DEF Receive, SnapshotQueues
<1>2. IsParameters(backlog[1]) => Kept(backlog[1]) = <<>>
  <2>1. SUFFICES ASSUME IsParameters(backlog[1]), partial # <<>>, backlog[1].number = After(partial[Len(partial)].number)
                 PROVE  FALSE
    BY <1>1 DEF Kept
  <2>2. Len(partial) = 1 /\ IsStart(partial[1]) /\ partial[1] \in Packets
    BY <1>1, <2>1 DEF Unspliced
  <2>3. QED  BY <1>1, <2>1, <2>2, StartGoesOn
<1>3. partial' \in {<<>>, <<backlog[1]>>} /\ (partial' # <<>> => IsStart(backlog[1]))
  BY <1>1, <1>2 DEF Receive
<1>4. QED  BY <1>1, <1>3

LEMMA TrailingStays ==
  /\ SnapshotQueues /\ Connected /\ InFlight /\ Trailing /\ Unspliced
  /\ SnapshotQueues' /\ Connected' /\ InFlight'
  /\ SnapshotRefs /\ [SnapshotNext]_snapshotVars
  => Trailing'
<1> SUFFICES ASSUME SnapshotQueues, Connected, InFlight, Trailing, Unspliced, SnapshotRefs,
                    SnapshotQueues', Connected', InFlight', [SnapshotNext]_snapshotVars
             PROVE  Trailing'
  OBVIOUS
<1> DEFINE Stays == UNCHANGED <<linked, connection, next, flight>>
           Heard == consumer = "running" /\ tuned = sender /\ (backlog # <<>> \/ partial # <<>>)
<1>1. /\ tuned <= sender /\ tuned \in Nat /\ sender \in Nat
      /\ Heard => Trails(Newest)
      /\ Heard => Newest \in Packets
  <2>1. Heard => Newest \in Packets
    BY DEF SnapshotQueues, Newest
  <2>2. tuned \in Nat /\ sender \in Nat
    BY SnapshotAssumption DEF SnapshotRefs
  <2>3. QED  BY <2>1, <2>2 DEF Trailing
<1>2. ASSUME UNCHANGED <<consumer, tuned, sender, backlog, partial>>,
             \/ Connects \/ Reconnects \/ LinkLost \/ Teardown \/ Lost
             \/ CameraSends /\ ~calm
             \/ Stays
      PROVE  Trailing'
  <2>1. Newest' = Newest /\ (Heard' <=> Heard)
    BY <1>2 DEF Newest
  <2>2. ASSUME Heard PROVE Trails(Newest)'
    <3>1. PICK l \in Packets : l = Newest /\ Trails(l)
      BY <1>1, <2>2
    <3>2. Trails(l)'
      BY <1>2, <3>1, TrailsOn
    <3>3. l = Newest'
      BY <2>1, <3>1
    <3>4. QED  BY <3>2, <3>3 DEF Trails, Reach
  <2>3. tuned' <= sender'
    BY <1>1, <1>2
  <2>4. QED  BY <2>1, <2>2, <2>3 DEF Trailing
<1>3. CASE Changed \/ Tick
  <2>1. Look /\ UNCHANGED <<sender, linked, connection, next, flight>>
    BY <1>3, Zenon DEF Changed, Tick, cameraVars, linkVars
  <2>2. CASE UNCHANGED <<consumer, tuned, backlog, partial>>
    BY <1>2, <2>1, <2>2
  <2>3. CASE backlog' = <<>> /\ partial' = <<>> /\ tuned' \in {0, sender}
    BY <1>1, <2>1, <2>3 DEF Trailing
  <2>4. QED  BY <2>1, <2>2, <2>3, Zenon DEF Look, consumerVars
<1>4. CASE Receive
  <2>1. UNCHANGED <<consumer, tuned, sender, linked, connection, next, flight>>
    BY <1>4 DEF Receive, cameraVars, linkVars
  <2>2. ASSUME Heard' PROVE Heard /\ Newest' = Newest
    <3>1. /\ backlog # <<>> /\ backlog \in Seq(Packets) /\ backlog' = Tail(backlog)
          /\ partial' \in {<<>>, <<backlog[1]>>}
      BY <1>4, ReceiveKeeps DEF SnapshotQueues
    <3>2. CASE Tail(backlog) = <<>>
      <4>1. Len(backlog) = 1
        <5>1. Len(Tail(backlog)) = Len(backlog) - 1 /\ Len(backlog) \in Nat
          BY <3>1, TailKeeps
        <5>2. \A q : q = <<>> => Len(q) = 0
          OBVIOUS
        <5>3. Len(Tail(backlog)) = 0
          BY <3>2, <5>2, Zenon
        <5>4. QED  BY <5>1, <5>3
      <4>2. QED  BY <2>1, <2>2, <3>1, <3>2, <4>1 DEF Newest
    <3>3. CASE Tail(backlog) # <<>>
      <4>1. Tail(backlog)[Len(Tail(backlog))] = backlog[Len(backlog)]
        BY <3>1, <3>3
      <4>2. QED  BY <2>1, <2>2, <3>1, <3>3, <4>1 DEF Newest
    <3>4. QED  BY <3>2, <3>3
  <2>3. ASSUME Heard' PROVE Trails(Newest)'
    <3>1. PICK l \in Packets : l = Newest /\ Trails(l)
      BY <1>1, <2>2, <2>3
    <3>2. Trails(l)'
      BY <2>1, <3>1, TrailsOn
    <3>3. l = Newest'
      BY <2>2, <2>3, <3>1
    <3>4. QED  BY <3>2, <3>3 DEF Trails, Reach
  <2>4. QED  BY <1>1, <2>1, <2>3 DEF Trailing
<1>5. CASE Lag
  <2>1. UNCHANGED <<consumer, tuned, sender, backlog, linked, connection, next, flight>> /\ partial' = <<>>
    BY <1>5 DEF Lag, workerVars, cameraVars, linkVars
  <2>2. ASSUME Heard' PROVE Heard /\ Newest' = Newest
    BY <2>1, <2>2 DEF Newest
  <2>3. ASSUME Heard' PROVE Trails(Newest)'
    <3>1. PICK l \in Packets : l = Newest /\ Trails(l)
      BY <1>1, <2>2, <2>3
    <3>2. Trails(l)'
      BY <2>1, <3>1, TrailsOn
    <3>3. l = Newest'
      BY <2>2, <2>3, <3>1
    <3>4. QED  BY <3>2, <3>3 DEF Trails, Reach
  <2>4. QED  BY <1>1, <2>1, <2>3 DEF Trailing
<1>6. CASE Finish
  BY <1>1, <1>6 DEF Finish, consumerVars, cameraVars, linkVars, Trailing
<1>7. CASE Connects
  <2>1. sender' = sender + 1 /\ UNCHANGED <<consumer, tuned, backlog, partial>>
    BY <1>7, Zenon DEF Connects, NewConnection, consumerVars
  <2>2. QED  BY <1>1, <2>1 DEF Trailing
<1>8. CASE Reconnects \/ LinkLost \/ Teardown \/ Lost
  <2>1. UNCHANGED <<consumer, tuned, sender, backlog, partial>>
    BY <1>8, Zenon DEF Reconnects, NewConnection, LinkLost, Teardown, Lost, workerVars, consumerVars,
                       linkVars
  <2>2. QED  BY <1>2, <1>8, <2>1
<1>9. CASE CameraSends /\ ~calm
  <2>1. UNCHANGED <<consumer, tuned, sender, backlog, partial>>
    BY <1>9, Zenon DEF CameraSends, workerVars, linkVars
  <2>2. QED  BY <1>2, <1>9, <2>1
<1>10. ASSUME NEW p \in Packets, Broadcast(p), Trails(p)',
              UNCHANGED <<consumer, tuned, sender, partial>>
       PROVE  Trailing'
  <2>1. CASE consumer = "running" /\ tuned = sender
    <3>1. PICK b \in Seq(Packets) : backlog' = Append(b, p)
      <4>1. Len(backlog) = Backlog => backlog # <<>>
        BY SnapshotAssumption
      <4>2. QED  BY <1>10, <2>1, <4>1, TailKeeps DEF Broadcast, SnapshotQueues
    <3>2. backlog' # <<>> /\ Newest' = p
      BY <3>1 DEF Newest
    <3>3. Trails(Newest)'
      BY <1>10, <3>2 DEF Trails, Reach
    <3>4. QED  BY <1>1, <1>10, <3>3 DEF Trailing
  <2>2. CASE ~(consumer = "running" /\ tuned = sender)
    BY <1>1, <1>10, <2>2 DEF Trailing
  <2>3. QED  BY <2>1, <2>2
<1>11. CASE CameraSends /\ calm
  <2>1. PICK p \in Packets : p = [number |-> next, connection |-> connection] /\ Broadcast(p)
    <3>1. connection \in 1..MaxConnections /\ next \in 0..(Numbers - 1)
      <4>1. connection # 0
        BY <1>11, Zenon DEF CameraSends, Connected
      <4>2. QED  BY <4>1, SnapshotAssumption DEF SnapshotQueues
    <3>2. Broadcast([number |-> next, connection |-> connection])
      BY <1>11, Zenon DEF CameraSends
    <3>3. QED  BY <3>1, <3>2 DEF Packets
  <2>2. Trails(p)'
    BY <1>11, <2>1, BroadcastTrails
  <2>3. UNCHANGED <<consumer, tuned, sender, partial>>
    BY <1>11, Zenon DEF CameraSends, workerVars, linkVars
  <2>4. QED  BY <1>10, <2>1, <2>2, <2>3
<1>12. CASE Arrives
  <2>1. PICK p \in flight : Broadcast(p)
    BY <1>12, Zenon DEF Arrives
  <2>2. p \in Packets
    BY DEF SnapshotQueues
  <2>3. Trails(p)'
    BY <1>12, <2>1, <2>2, BroadcastTrails
  <2>4. UNCHANGED <<consumer, tuned, sender, partial>>
    BY <1>12, Zenon DEF Arrives, workerVars, linkVars
  <2>5. QED  BY <1>10, <2>1, <2>2, <2>3, <2>4
<1>13. CASE Calms \/ UNCHANGED snapshotVars
  <2>1. UNCHANGED <<consumer, tuned, sender, backlog, partial, linked, connection, next, flight>>
    BY <1>13, Zenon DEF Calms, snapshotVars, workerVars, consumerVars, linkVars, cameraVars
  <2>2. QED  BY <1>2, <2>1
<1>14. QED
  BY <1>3, <1>4, <1>5, <1>6, <1>7, <1>8, <1>9, <1>11, <1>12, <1>13
     DEF SnapshotNext, WorkerStep, ConsumerStep

LEMMA UnsplicedStays ==
  /\ SnapshotQueues /\ Connected /\ InFlight /\ Trailing /\ Unspliced /\ InFlight'
  /\ [SnapshotNext]_snapshotVars
  => Unspliced'
<1> SUFFICES ASSUME SnapshotQueues, Connected, InFlight, Trailing, Unspliced, InFlight',
                    [SnapshotNext]_snapshotVars
             PROVE  Unspliced'
  OBVIOUS
<1>0. backlog \in Seq(Packets) /\ partial \in Seq(Packets) /\ Len(backlog) \in Nat
  BY DEF SnapshotQueues
<1>1. ASSUME backlog' = backlog, lagging' \in {lagging, TRUE} \/ partial' = <<>>, partial' \in {<<>>, partial}
      PROVE  Unspliced'
  <2>1. ~lagging' => ~lagging \/ partial' = <<>>
    BY <1>1, Zenon
  <2>2. /\ partial' # <<>> => Len(partial') = 1 /\ IsStart(partial'[1])
        /\ \A i \in 1..(Len(backlog') - 1) : Together(backlog'[i], backlog'[i + 1])
    BY <1>1 DEF Unspliced, Together
  <2>3. partial' # <<>> /\ backlog' # <<>> /\ ~lagging' => Together(partial'[1], backlog'[1])
    BY <1>1, <2>1 DEF Unspliced
  <2>4. QED  BY <2>2, <2>3, Zenon DEF Unspliced, Together, IsStart
<1>2. ASSUME backlog' = <<>>, partial' = <<>>
      PROVE  Unspliced'
  BY <1>2 DEF Unspliced
<1>3. CASE Changed \/ Tick
  <2>1. Look
    BY <1>3, Zenon DEF Changed, Tick
  <2>2. (backlog' = <<>> /\ partial' = <<>>) \/ (backlog' = backlog /\ partial' = partial /\ lagging' = lagging)
    BY <2>1, Zenon DEF Look, consumerVars
  <2>3. QED  BY <1>1, <1>2, <2>2
<1>4. CASE Receive
  <2>1. /\ backlog # <<>> /\ backlog' = Tail(backlog)
        /\ partial' \in {<<>>, <<backlog[1]>>} /\ (partial' # <<>> => IsStart(backlog[1]))
    BY <1>4, ReceiveKeeps
  <2>2. \A i \in 1..(Len(backlog') - 1) : Together(backlog'[i], backlog'[i + 1])
    <3>1. SUFFICES ASSUME NEW i \in 1..(Len(backlog') - 1) PROVE Together(backlog'[i], backlog'[i + 1])
      OBVIOUS
    <3>2. /\ Len(backlog') = Len(backlog) - 1 /\ i + 1 \in 1..(Len(backlog) - 1)
          /\ backlog'[i] = backlog[i + 1] /\ backlog'[i + 1] = backlog[(i + 1) + 1]
      BY <1>0, <2>1
    <3>3. QED  BY <3>2 DEF Unspliced
  <2>3. partial' # <<>> /\ backlog' # <<>> => Together(partial'[1], backlog'[1])
    <3>1. SUFFICES ASSUME partial' # <<>>, backlog' # <<>>
                   PROVE  Together(partial'[1], backlog'[1])
      OBVIOUS
    <3>2. /\ partial'[1] = backlog[1] /\ backlog'[1] = backlog[1 + 1] /\ 1 \in 1..(Len(backlog) - 1)
      BY <1>0, <2>1, <3>1
    <3>3. QED  BY <3>2 DEF Unspliced
  <2>4. partial' # <<>> => Len(partial') = 1 /\ IsStart(partial'[1])
    BY <2>1
  <2>5. QED  BY <2>2, <2>3, <2>4, Zenon DEF Unspliced, Together, IsStart
<1>5. CASE Lag
  BY <1>1, <1>5 DEF Lag
<1>6. CASE \/ Finish \/ Connects \/ LinkLost \/ Reconnects \/ Teardown \/ Lost
           \/ (CameraSends /\ ~calm) \/ Calms \/ UNCHANGED snapshotVars
  <2>1. backlog' = backlog /\ lagging' = lagging /\ partial' = partial
    BY <1>6, Zenon DEF Finish, Connects, NewConnection, LinkLost, Reconnects, Teardown, Lost,
                       CameraSends, Calms, snapshotVars, workerVars, consumerVars, linkVars, cameraVars
  <2>2. QED  BY <1>1, <2>1
<1>7. ASSUME NEW p \in Packets, Broadcast(p), linked, p.connection = connection,
             Gap(p.number) = 0 \/ p \in flight, partial' = partial
      PROVE  Unspliced'
  <2>1. CASE consumer = "running" /\ tuned = sender
    <3>1. backlog # <<>> => Together(backlog[Len(backlog)], p)
      <4>1. ASSUME backlog # <<>>
            PROVE  backlog[Len(backlog)] \in Packets /\ Trails(backlog[Len(backlog)])
        BY <1>0, <2>1, <4>1 DEF Trailing, Newest
      <4>2. QED  BY <1>7, <4>1, BroadcastFits
    <3>2. backlog = <<>> /\ partial # <<>> => Together(partial[1], p)
      <4>1. ASSUME backlog = <<>>, partial # <<>>
            PROVE  partial[1] \in Packets /\ Trails(partial[1])
        BY <1>0, <2>1, <4>1 DEF Trailing, Newest, Unspliced
      <4>2. QED  BY <1>7, <4>1, BroadcastFits
    <3>3. CASE Len(backlog) = Backlog
      <4>1. backlog # <<>> /\ lagging' /\ backlog' = Append(Tail(backlog), p)
        <5>1. backlog # <<>>
          BY <3>3, SnapshotAssumption
        <5>2. lagging' /\ backlog' = Append(Tail(backlog), p)
          BY <1>7, <2>1, <3>3, Zenon DEF Broadcast
        <5>3. QED  BY <5>1, <5>2
      <4>2. \A i \in 1..(Len(backlog') - 1) : Together(backlog'[i], backlog'[i + 1])
        <5>1. SUFFICES ASSUME NEW i \in 1..(Len(backlog') - 1) PROVE Together(backlog'[i], backlog'[i + 1])
          OBVIOUS
        <5>2. /\ Tail(backlog) \in Seq(Packets) /\ Len(Tail(backlog)) = Len(backlog) - 1
              /\ Len(backlog') = Len(backlog) /\ i \in 1..(Len(backlog) - 1)
              /\ backlog'[i] = backlog[i + 1]
          BY <1>0, <4>1
        <5>3. CASE i = Len(backlog) - 1
          <6>1. backlog'[i + 1] = p /\ backlog'[i] = backlog[Len(backlog)]
            BY <1>0, <4>1, <5>2, <5>3
          <6>2. QED  BY <3>1, <4>1, <6>1
        <5>4. CASE i # Len(backlog) - 1
          <6>1. i + 1 \in 1..(Len(backlog) - 1)
            <7>1. i \in Int /\ i >= 1 /\ i <= Len(backlog) - 1 /\ Len(backlog) \in Int
              BY <1>0, <5>2
            <7>2. QED  BY <5>4, <7>1
          <6>2. backlog'[i + 1] = Tail(backlog)[i + 1]
            BY <4>1, <5>2, <6>1
          <6>3. Tail(backlog)[i + 1] = backlog[(i + 1) + 1]
            BY <1>0, <4>1, <6>1
          <6>4. QED  BY <5>2, <6>1, <6>2, <6>3 DEF Unspliced
        <5>5. QED  BY <5>3, <5>4
      <4>3. partial' # <<>> => Len(partial') = 1 /\ IsStart(partial'[1])
        BY <1>7 DEF Unspliced
      <4>4. QED  BY <4>1, <4>2, <4>3, Zenon DEF Unspliced, Together, IsStart
    <3>4. CASE Len(backlog) # Backlog
      <4>1. (lagging => lagging') /\ backlog' = Append(backlog, p)
        BY <1>7, <2>1, <3>4, Zenon DEF Broadcast
      <4>2. \A i \in 1..(Len(backlog') - 1) : Together(backlog'[i], backlog'[i + 1])
        <5>1. SUFFICES ASSUME NEW i \in 1..(Len(backlog') - 1) PROVE Together(backlog'[i], backlog'[i + 1])
          OBVIOUS
        <5>2. Len(backlog') = Len(backlog) + 1 /\ i \in 1..Len(backlog) /\ backlog'[i] = backlog[i]
          BY <1>0, <4>1
        <5>3. CASE i = Len(backlog)
          <6>1. backlog'[i + 1] = p /\ backlog # <<>>
            BY <1>0, <4>1, <5>2, <5>3
          <6>2. QED  BY <3>1, <5>2, <5>3, <6>1
        <5>4. CASE i # Len(backlog)
          <6>1. backlog'[i + 1] = backlog[i + 1] /\ i \in 1..(Len(backlog) - 1)
            BY <1>0, <4>1, <5>2, <5>4
          <6>2. QED  BY <5>2, <6>1 DEF Unspliced
        <5>5. QED  BY <5>3, <5>4
      <4>3. partial' # <<>> /\ backlog' # <<>> /\ ~lagging' => Together(partial'[1], backlog'[1])
        <5>1. SUFFICES ASSUME partial # <<>>, ~lagging
                       PROVE  Together(partial[1], backlog'[1])
          BY <1>7, <4>1, Zenon
        <5>2. CASE backlog = <<>>
          <6>1. backlog'[1] = p
            BY <4>1, <5>2
          <6>2. QED  BY <3>2, <5>1, <5>2, <6>1
        <5>3. CASE backlog # <<>>
          <6>1. backlog'[1] = backlog[1]
            BY <1>0, <4>1, <5>3
          <6>2. Together(partial[1], backlog[1])
            BY <5>1, <5>3, Zenon DEF Unspliced
          <6>3. QED  BY <6>1, <6>2
        <5>4. QED  BY <5>2, <5>3
      <4>4. partial' # <<>> => Len(partial') = 1 /\ IsStart(partial'[1])
        BY <1>7 DEF Unspliced
      <4>5. QED  BY <4>2, <4>3, <4>4, Zenon DEF Unspliced, Together, IsStart
    <3>5. QED  BY <3>3, <3>4
  <2>2. CASE ~(consumer = "running" /\ tuned = sender)
    <3>1. backlog' = backlog /\ lagging' = lagging
      BY <1>7, <2>2, Zenon DEF Broadcast
    <3>2. QED  BY <1>1, <1>7, <3>1
  <2>3. QED  BY <2>1, <2>2
<1>8. CASE CameraSends /\ calm
  <2>1. PICK p \in Packets : p = [number |-> next, connection |-> connection] /\ Broadcast(p)
    <3>1. connection \in 1..MaxConnections /\ next \in 0..(Numbers - 1)
      <4>1. connection # 0
        BY <1>8, Zenon DEF CameraSends, Connected
      <4>2. QED  BY <4>1, SnapshotAssumption DEF SnapshotQueues
    <3>2. Broadcast([number |-> next, connection |-> connection])
      BY <1>8, Zenon DEF CameraSends
    <3>3. QED  BY <3>1, <3>2 DEF Packets
  <2>2. linked /\ p.connection = connection /\ (Gap(p.number) = 0 \/ p \in flight)
    BY <1>8, <2>1, BroadcastTrails
  <2>3. partial' = partial
    BY <1>8, Zenon DEF CameraSends
  <2>4. QED  BY <1>7, <2>1, <2>2, <2>3
<1>9. CASE Arrives
  <2>1. PICK p \in flight : Broadcast(p)
    BY <1>9, Zenon DEF Arrives
  <2>2. p \in Packets
    BY DEF SnapshotQueues
  <2>3. linked /\ p.connection = connection
    BY <1>9, <2>1, <2>2, BroadcastTrails
  <2>4. partial' = partial
    BY <1>9, Zenon DEF Arrives
  <2>5. QED  BY <1>7, <2>1, <2>2, <2>3, <2>4
<1>10. QED
  BY <1>3, <1>4, <1>5, <1>6, <1>8, <1>9 DEF SnapshotNext, WorkerStep, ConsumerStep

LEMMA WholeStays ==
  /\ SnapshotQueues /\ SnapshotRefs /\ Unspliced /\ WholeNals /\ [SnapshotNext]_snapshotVars
  => WholeNals'
<1> SUFFICES ASSUME SnapshotQueues, SnapshotRefs, Unspliced, WholeNals, [SnapshotNext]_snapshotVars
             PROVE  WholeNals'
  OBVIOUS
<1>1. CASE Receive
  <2>1. /\ ~lagging /\ backlog # <<>> /\ Head(backlog) = backlog[1] /\ backlog[1] \in Packets
        /\ partial \in Seq(Packets)
    <3>1. ~lagging
      BY <1>1, Zenon DEF Receive
    <3>2. QED  BY <1>1, <3>1 DEF Receive, SnapshotQueues
  <2>2. ASSUME Kept(backlog[1]) # <<>>
        PROVE  Whole(Append(Kept(backlog[1]), backlog[1]))
    <3>1. PICK s \in Packets : partial = <<s>> /\ Together(s, backlog[1])
      <4>1. partial # <<>> /\ Len(partial) = 1
        BY <2>2 DEF Kept, Unspliced
      <4>2. partial = <<partial[1]>> /\ partial[1] \in Packets
        BY <2>1, <4>1
      <4>3. Together(partial[1], backlog[1])
        BY <2>1, <4>1, Zenon DEF Unspliced
      <4>4. QED  BY <4>2, <4>3
    <3>2. Kept(backlog[1]) = <<s>> /\ backlog[1].number = After(s.number)
      BY <2>2, <3>1 DEF Kept
    <3>3. backlog[1].connection = s.connection
      BY <3>1, <3>2 DEF Together
    <3>4. backlog[1] = [s EXCEPT !.number = After(s.number)]
      BY <2>1, <3>2, <3>3 DEF Packets
    <3>5. Append(Kept(backlog[1]), backlog[1])[1] = s /\ Append(Kept(backlog[1]), backlog[1])[2] = backlog[1]
      BY <3>2
    <3>6. QED  BY <3>4, <3>5 DEF Whole
  <2>3. QED  BY <1>1, <2>1, <2>2 DEF Receive, WholeNals, SnapshotRefs
<1>2. CASE Changed \/ Tick
  <2>1. latest' \in {latest, NoParams, [latest EXCEPT !.parameters = "none"]}
    <3>1. Look
      BY <1>2, Zenon DEF Changed, Tick
    <3>2. QED  BY <3>1 DEF Look
  <2>2. QED  BY <2>1 DEF WholeNals, NoParams, SnapshotRefs
<1>3. CASE ~Receive /\ ~Changed /\ ~Tick
  <2>1. latest' = latest
    BY <1>3, Zenon DEF SnapshotNext, WorkerStep, ConsumerStep, Lag, Finish, Connects, NewConnection,
       LinkLost, Reconnects, Teardown, CameraSends, Arrives, Lost, Calms, snapshotVars, workerVars
  <2>2. QED  BY <2>1 DEF WholeNals
<1>4. QED  BY <1>1, <1>2, <1>3

NalInv == SnapshotInv /\ InFlight /\ Trailing /\ Unspliced /\ WholeNals

(* NalsStayWhole: the three are inductive together with WholeNals.         *)
THEOREM NalsStayWhole == SnapshotSpec => []NalInv
<1>1. SnapshotInit => InFlight /\ Trailing /\ Unspliced /\ WholeNals
  <2> SUFFICES ASSUME SnapshotInit PROVE InFlight /\ Trailing /\ Unspliced /\ WholeNals
    OBVIOUS
  <2>1. /\ flight = {} /\ consumer = "none" /\ tuned = 0 /\ sender = 0
        /\ partial = <<>> /\ backlog = <<>> /\ latest = NoParams
    BY Zenon DEF SnapshotInit
  <2>2. \A q \in flight : q.connection = connection /\ Gap(q.number) \in 1..(Flight + 1)
    BY <2>1
  <2>3. InFlight
    BY <2>1, <2>2, Zenon DEF InFlight
  <2>4. QED  BY <2>1, <2>3 DEF Trailing, Unspliced, WholeNals, NoParams
<1>2. NalInv /\ [SnapshotNext]_snapshotVars => NalInv'
  <2> SUFFICES ASSUME NalInv, [SnapshotNext]_snapshotVars PROVE NalInv'
    OBVIOUS
  <2>1. SnapshotInv'
    BY QueuesStay, ConnectedStays, RefsStay, FlagsStay DEF NalInv, SnapshotInv
  <2>2. InFlight'
    BY InFlightStays DEF NalInv, SnapshotInv
  <2>3. Trailing'
    BY <2>1, <2>2, TrailingStays DEF NalInv, SnapshotInv
  <2>4. Unspliced' /\ WholeNals'
    BY <2>2, UnsplicedStays, WholeStays DEF NalInv, SnapshotInv
  <2>5. QED  BY <2>1, <2>2, <2>3, <2>4 DEF NalInv
<1>3. SnapshotInit => NalInv
  BY <1>1, SnapshotStarts DEF NalInv
<1>4. QED  BY <1>2, <1>3, PTL DEF SnapshotSpec

-----------------------------------------------------------------------------
(* The whole *)

(* OutputsTypeCorrect: the type invariant of the three parts, for every    *)
(* value of their constants.                                               *)
THEOREM OutputsTypeCorrect == Spec => []TypeOK
BY OutputsServeRtsp, OutputsTakeSnapshots, OutputsPublish, RtspTypeCorrect, SnapshotTypeCorrect,
   MqttTypeCorrect, PTL DEF TypeOK

(* OutputsNegotiate: StreamsNegotiated holds of the whole (server.rs:188). *)
THEOREM OutputsNegotiate == Spec => []StreamsNegotiated
BY OutputsServeRtsp, StreamsAreNegotiated, PTL

(* OutputsAreFresh: and so does FreshPackets (server.rs:188).              *)
THEOREM OutputsAreFresh == Spec => []FreshPackets
BY OutputsServeRtsp, PacketsAreFresh, PTL

(* OutputsTakeWholeNals: WholeNals, however many connections, packets on   *)
(* their way and places in the ring there are (h264.rs:59).                *)
THEOREM OutputsTakeWholeNals == Spec => []WholeNals
<1>1. NalInv => WholeNals
  BY DEF NalInv
<1>2. QED  BY <1>1, OutputsTakeSnapshots, NalsStayWhole, PTL
=============================================================================
