-------------------------- MODULE SignalingProofs --------------------------
(***************************************************************************)
(* Proofs about Signaling, for queues of any capacity and any bounds on    *)
(* the traffic and the local candidates.                                   *)
(***************************************************************************)
EXTENDS Signaling, FiniteSetTheorems, TLAPS

-----------------------------------------------------------------------------
(* Queues *)

LEMMA AppendKeeps ==
  ASSUME NEW S, NEW q \in Seq(S), NEW x \in S
  PROVE  Append(q, x) \in Seq(S) /\ Len(Append(q, x)) = Len(q) + 1
  OBVIOUS

LEMMA TailKeeps ==
  ASSUME NEW S, NEW q \in Seq(S), q # <<>>
  PROVE  /\ Tail(q) \in Seq(S) /\ Len(Tail(q)) = Len(q) - 1
         /\ Head(q) \in S /\ Len(q) \in Nat
  OBVIOUS

LEMMA ConcatKeeps ==
  ASSUME NEW S, NEW q \in Seq(S), NEW r \in Seq(S)
  PROVE  q \o r \in Seq(S) /\ Len(q \o r) = Len(q) + Len(r)
  OBVIOUS

\* The frames of a text event and of a binary one.
LEMMA FramesOf ==
  ASSUME NEW S
  PROVE  /\ \A n : [kind |-> "text", name |-> n] \in S => Text(n) \in Seq(S) /\ Len(Text(n)) = 1
         /\ \A n : [kind |-> "header", name |-> n] \in S /\ [kind |-> "bytes", name |-> n] \in S
                     => Bytes(n) \in Seq(S) /\ Len(Bytes(n)) = 2
  BY DEF Text, Bytes

\* How the number of occurrences follows a queue.
LEMMA AmongIsNumber ==
  ASSUME NEW S, NEW q \in Seq(S), NEW x
  PROVE  IsFiniteSet({i \in DOMAIN q : q[i] = x}) /\ Among(x, q) \in Nat
<1>1. IsFiniteSet(DOMAIN q)
  <2>1. DOMAIN q = 1..Len(q) /\ Len(q) \in Int
    OBVIOUS
  <2>2. QED  BY <2>1, FS_Interval
<1>2. {i \in DOMAIN q : q[i] = x} \in SUBSET DOMAIN q
  OBVIOUS
<1>3. IsFiniteSet({i \in DOMAIN q : q[i] = x})
  BY <1>1, <1>2, FS_Subset
<1>4. QED  BY <1>3, FS_CardinalityType DEF Among

LEMMA AmongEmpty == \A x : Among(x, <<>>) = 0
<1> TAKE x
<1>1. {i \in DOMAIN <<>> : <<>>[i] = x} = {}
  OBVIOUS
<1>2. QED  BY <1>1, FS_EmptySet DEF Among

LEMMA AmongAppend ==
  ASSUME NEW S, NEW q \in Seq(S), NEW y \in S, NEW x
  PROVE  Among(x, Append(q, y)) = Among(x, q) + InHand(x, y)
<1> DEFINE T == {i \in DOMAIN q : q[i] = x}
           U == {i \in DOMAIN Append(q, y) : Append(q, y)[i] = x}
<1>1. Len(q) \in Nat /\ DOMAIN q = 1..Len(q) /\ DOMAIN Append(q, y) = 1..(Len(q) + 1)
  OBVIOUS
<1>2. \A i \in 1..Len(q) : Append(q, y)[i] = q[i]
  OBVIOUS
<1>3. Append(q, y)[Len(q) + 1] = y
  OBVIOUS
<1>4. U = IF x = y THEN T \cup {Len(q) + 1} ELSE T
  <2>1. \A i : i \in 1..(Len(q) + 1) <=> i \in 1..Len(q) \/ i = Len(q) + 1
    BY <1>1
  <2>2. QED  BY <1>1, <1>2, <1>3, <2>1
<1>5. IsFiniteSet(T) /\ Len(q) + 1 \notin T /\ Cardinality(T) \in Nat
  <2>1. IsFiniteSet(T)
    BY AmongIsNumber
  <2>2. Len(q) + 1 \notin T
    BY <1>1
  <2>3. QED  BY <2>1, <2>2, FS_CardinalityType
<1>6. Cardinality(T \cup {Len(q) + 1}) = Cardinality(T) + 1
  BY <1>5, FS_AddElement
<1>7. Among(x, q) = Cardinality(T) /\ Among(x, Append(q, y)) = Cardinality(U)
  BY Zenon DEF Among
<1> HIDE DEF T, U
<1>8. CASE x = y
  <2>1. Cardinality(U) = Cardinality(T) + 1
    BY <1>4, <1>6, <1>8
  <2>2. QED  BY <1>5, <1>7, <1>8, <2>1 DEF InHand
<1>9. CASE x # y
  <2>1. Cardinality(U) = Cardinality(T)
    BY <1>4, <1>9
  <2>2. QED  BY <1>5, <1>7, <1>9, <2>1 DEF InHand
<1>10. QED  BY <1>8, <1>9

LEMMA AmongTail ==
  ASSUME NEW S, NEW q \in Seq(S), q # <<>>, NEW x
  PROVE  Among(x, q) = InHand(x, Head(q)) + Among(x, Tail(q))
<1> DEFINE T == {i \in DOMAIN Tail(q) : Tail(q)[i] = x}
           U == {i \in DOMAIN q : q[i] = x}
           V == U \ {1}
           f == [i \in T |-> i + 1]
<1>1. /\ Len(q) \in Nat /\ Len(q) > 0 /\ DOMAIN q = 1..Len(q)
      /\ DOMAIN Tail(q) = 1..(Len(q) - 1) /\ Head(q) = q[1] /\ Tail(q) \in Seq(S)
  OBVIOUS
<1>2. \A i \in 1..(Len(q) - 1) : Tail(q)[i] = q[i + 1]
  OBVIOUS
<1>3. IsFiniteSet(T) /\ IsFiniteSet(U) /\ Cardinality(T) \in Nat /\ Cardinality(U) \in Nat
  BY <1>1, AmongIsNumber DEF Among
<1>4. f \in Bijection(T, V)
  <2>1. f \in [T -> V]
    <3>1. \A i \in T : i + 1 \in V
      BY <1>1, <1>2
    <3>2. QED  BY <3>1
  <2>2. \A i, j \in T : f[i] = f[j] => i = j
    BY <1>1
  <2>3. \A j \in V : \E i \in T : f[i] = j
    <3> SUFFICES ASSUME NEW j \in V PROVE \E i \in T : f[i] = j
      OBVIOUS
    <3>1. j \in 2..Len(q) /\ q[j] = x
      BY <1>1
    <3>2. j - 1 \in 1..(Len(q) - 1) /\ (j - 1) + 1 = j
      BY <1>1, <3>1
    <3>3. j - 1 \in T
      BY <1>1, <1>2, <3>1, <3>2
    <3>4. QED  BY <3>2, <3>3
  <2>4. f \in Injection(T, V)
    BY <2>1, <2>2, Zenon DEF Injection, IsInjective
  <2>5. f \in Surjection(T, V)
    BY <2>1, <2>3, Zenon DEF Surjection
  <2>6. QED  BY <2>4, <2>5, Zenon DEF Bijection
<1>5. Cardinality(V) = Cardinality(T)
  <2>1. ExistsBijection(T, V)
    BY <1>4, Zenon DEF ExistsBijection
  <2>2. QED  BY <1>3, <2>1, FS_Bijection, Zenon
<1>6. Cardinality(V) = IF 1 \in U THEN Cardinality(U) - 1 ELSE Cardinality(U)
  BY <1>3, FS_RemoveElement, Zenon
<1>7. 1 \in U <=> x = Head(q)
  BY <1>1
<1>8. Among(x, q) = Cardinality(U) /\ Among(x, Tail(q)) = Cardinality(T)
  BY Zenon DEF Among
<1> HIDE DEF T, U, V
<1>9. QED  BY <1>3, <1>5, <1>6, <1>7, <1>8 DEF InHand

-----------------------------------------------------------------------------
(* Types *)

TaskTypes ==
  /\ conn \in {"dial", "connecting", "waiting", "ready", "down"}
  /\ transport \in {"off", "run", "push", "lastPush", "write", "done"}
  /\ translator \in {"off", "run", "send", "emit", "lastEmit", "done"}
  /\ driver \in {"off", "run", "send", "answer", "ended"}
  /\ pushing \in Events \cup Messages \cup {"none"}
  /\ emitting \in Events \cup {"none"}
  /\ sending \in {"answer", "candidate", "none"}
  /\ todo \in Seq(Messages)

\* What a task that sends has in hand.
Purposes ==
  /\ transport = "write" => pushing \in Messages
  /\ transport \in {"push", "lastPush"} => pushing \in Events
  /\ translator \in {"emit", "lastEmit"} => emitting \in Events
  /\ translator = "send" => todo # <<>>
  /\ driver = "send" => sending \in {"answer", "candidate"}

QueueTypes ==
  /\ outQ \in Seq(Messages) /\ Len(outQ) <= QueueCap
  /\ inQ \in Seq(Events) /\ Len(inQ) <= QueueCap
  /\ typedQ \in Seq(Events) /\ Len(typedQ) <= QueueCap
  /\ signalQ \in Seq({"answer", "candidate"}) /\ Len(signalQ) <= SignalCap

NetTypes == net \in Seq(Frames) /\ Len(net) <= NetCap

Flags == pending \in BOOLEAN /\ remote \in BOOLEAN /\ local \in BOOLEAN /\ killed \in BOOLEAN

MediaTypes ==
  /\ iceHeld \in Nat /\ iceSeen \in Nat /\ iceAdded \in Nat
  /\ gathered \in 0..MaxCandidates
  /\ peer \in {"new", "connected", "terminated"}

WorldTypes ==
  /\ link \in {"up", "dead"}
  /\ server \in [auth : {"no", "asked", "acked", "refused"}, ice : 0..MaxTraffic,
                 seen : SUBSET {"kickoff", "offer", "answer"}]
  /\ early \subseteq Messages
  /\ extra \in 0..MaxTraffic

Types == TaskTypes /\ Purposes /\ QueueTypes /\ NetTypes

\* What the driver does with an event, by kind of event and outcome.
LEMMA HandleDoes ==
  Handle =>
    \/ Head(typedQ) # "ice" /\ UNCHANGED <<driver, remote, local, iceHeld, iceSeen, iceAdded>>
    \/ /\ Head(typedQ) = "offer" /\ driver' \in {"answer", "run"}
       /\ remote' = TRUE /\ local' \in {local, TRUE}
       /\ Drain /\ UNCHANGED iceSeen
    \/ Head(typedQ) = "ice" /\ OnIce
  BY Zenon DEF Handle, OnOffer

LEMMA Names ==
  /\ Plain \subseteq Events /\ Binary \subseteq Events /\ "closed" \in Events
  /\ "ack" \in Plain /\ "nack" \in Plain /\ "connected" \in Plain
  /\ \A f \in Frames : f.name = "close" \/ f.name \in Events
  BY DEF Plain, Binary, Events, Frames

LEMMA TasksStay == Types /\ [Next]_vars => TaskTypes' /\ Purposes'
<1> SUFFICES ASSUME Types, [Next]_vars
             PROVE  TaskTypes' /\ Purposes'
  OBVIOUS
<1> USE DEF Types, TaskTypes, Purposes, QueueTypes
<1>1. CASE TransportStep
  <2>1. CASE Read
    <3>1. Head(net) \in Frames /\ (Head(net).name = "close" \/ Head(net).name \in Events)
      BY <2>1, TailKeeps, Names DEF Read, NetTypes
    <3>2. "pong" \in Messages /\ "closed" \in Events
      BY DEF Messages, Events
    <3>3. QED  BY <2>1, <3>1, <3>2 DEF Read
  <2>2. CASE TakeOutbound
    <3>1. Head(outQ) \in Messages
      BY <2>2, TailKeeps DEF TakeOutbound
    <3>2. QED  BY <2>2, <3>1 DEF TakeOutbound
  <2>3. CASE Push \/ TransportStops
    BY <2>3 DEF Push, TransportStops
  <2>4. CASE Write
    BY <2>4, Names DEF Write
  <2>5. CASE PingTimeout
    BY <2>5, Names DEF PingTimeout
  <2>6. QED  BY <1>1, <2>1, <2>2, <2>3, <2>4, <2>5 DEF TransportStep, TransportWorks
<1>2. CASE TranslatorStep
  <2>1. CASE TranslatorSends
    <3>1. Tail(todo) \in Seq(Messages)
      BY <2>1, TailKeeps DEF TranslatorSends
    <3>2. QED  BY <2>1, <3>1 DEF TranslatorSends
  <2>2. CASE Translate
    <3>1. Head(inQ) \in Events
      BY <2>2, TailKeeps DEF Translate
    <3>2. <<"trigger", "trigger", "kickoff">> \in Seq(Messages) /\ <<"trigger", "trigger", "kickoff">> # <<>>
      BY DEF Messages
    <3>3. CASE Head(inQ) = "ack"
      <4>1. todo' = <<"trigger", "trigger", "kickoff">> /\ translator' = "send"
            /\ UNCHANGED <<conn, transport, driver, pushing, emitting, sending>>
        BY <2>2, <3>3 DEF Translate
      <4>2. TaskTypes'
        BY <3>2, <4>1
      <4>3. Purposes'
        BY <3>2, <4>1
      <4>4. QED  BY <4>2, <4>3
    <3>4. CASE Head(inQ) = "connected"
      BY <2>2, <3>4 DEF Translate
    <3>5. CASE Head(inQ) \notin {"ack", "connected"}
      BY <2>2, <3>1, <3>5, Names DEF Translate
    <3>6. QED  BY <3>3, <3>4, <3>5
  <2>3. CASE Emit
    BY <2>3 DEF Emit
  <2>4. CASE TranslatorStops
    BY <2>4 DEF TranslatorStops
  <2>5. QED  BY <1>2, <2>1, <2>2, <2>3, <2>4 DEF TranslatorStep
<1>3. CASE DriverStep
  <2>1. CASE Handle
    <3>1. driver' \in {driver, "answer", "run"}
      BY <2>1, HandleDoes DEF OnIce
    <3>2. QED  BY <2>1, <3>1 DEF Handle
  <2>2. CASE TakeSignal
    <3>1. Head(signalQ) \in {"answer", "candidate"}
      BY <2>2, TailKeeps DEF TakeSignal
    <3>2. QED  BY <2>2, <3>1 DEF TakeSignal
  <2>3. CASE Answer \/ SendSignal \/ DriverEnds
    BY <2>3 DEF Answer, SendSignal, DriverEnds
  <2>4. QED  BY <1>3, <2>1, <2>2, <2>3 DEF DriverStep
<1>4. CASE ConnectStep
  <2>1. FirstMessages \in Seq(Messages) /\ FirstMessages # <<>>
    BY DEF FirstMessages, Messages
  <2>2. CASE Dial
    BY <2>2 DEF Dial
  <2>3. CASE AwaitConnected
    BY <2>1, <2>3 DEF AwaitConnected
  <2>4. CASE Ready
    BY <2>4 DEF Ready
  <2>5. QED  BY <1>4, <2>2, <2>3, <2>4 DEF ConnectStep
<1>5. CASE Gather \/ Kill \/ Command
  BY <1>5 DEF Gather, Kill, Command, taskVars
<1>6. CASE ServerSends \/ LinkDies \/ PeerChanges \/ UNCHANGED vars
  BY <1>6 DEF ServerSends, LinkDies, PeerChanges, vars, taskVars
<1>7. QED  BY <1>1, <1>2, <1>3, <1>4, <1>5, <1>6 DEF Next

\* Nothing is put into a full queue.
LEMMA QueuesStay == Types /\ [Next]_vars => QueueTypes'
<1> SUFFICES ASSUME Types, [Next]_vars
             PROVE  QueueTypes'
  OBVIOUS
<1> USE SignalingAssumption DEF Types, QueueTypes, Full
<1>1. CASE Read \/ Write \/ PingTimeout \/ TransportStops
  BY <1>1 DEF Read, Write, PingTimeout, TransportStops, queueVars
<1>2. CASE TakeOutbound
  <2>1. Tail(outQ) \in Seq(Messages) /\ Len(Tail(outQ)) <= QueueCap
    BY <1>2, TailKeeps DEF TakeOutbound
  <2>2. QED  BY <1>2, <2>1 DEF TakeOutbound
<1>3. CASE Push
  <2>1. Append(inQ, pushing) \in Seq(Events) /\ Len(Append(inQ, pushing)) <= QueueCap
    BY <1>3, AppendKeeps DEF Push, Purposes
  <2>2. QED  BY <1>3, <2>1 DEF Push
<1>4. CASE TranslatorSends
  <2>1. Head(todo) \in Messages
    BY <1>4, TailKeeps DEF TranslatorSends, TaskTypes, Purposes
  <2>2. ~Full(outQ) => Append(outQ, Head(todo)) \in Seq(Messages) /\ Len(Append(outQ, Head(todo))) <= QueueCap
    BY <2>1, AppendKeeps
  <2>3. QED  BY <1>4, <2>2 DEF TranslatorSends
<1>5. CASE Translate
  <2>1. Tail(inQ) \in Seq(Events) /\ Len(Tail(inQ)) <= QueueCap
    BY <1>5, TailKeeps DEF Translate
  <2>2. QED  BY <1>5, <2>1 DEF Translate
<1>6. CASE Emit
  <2>1. Append(typedQ, emitting) \in Seq(Events) /\ Len(Append(typedQ, emitting)) <= QueueCap
    BY <1>6, AppendKeeps DEF Emit, Purposes
  <2>2. QED  BY <1>6, <2>1 DEF Emit
<1>7. CASE TranslatorStops \/ DriverEnds
  BY <1>7 DEF TranslatorStops, DriverEnds, queueVars
<1>8. CASE Handle
  <2>1. Tail(typedQ) \in Seq(Events) /\ Len(Tail(typedQ)) <= QueueCap
    BY <1>8, TailKeeps DEF Handle
  <2>2. QED  BY <1>8, <2>1 DEF Handle
<1>9. CASE Answer \/ Gather
  <2>1. Len(signalQ) < SignalCap
    BY <1>9 DEF Answer, Gather
  <2>2. \A x \in {"answer", "candidate"} :
          /\ Append(signalQ, x) \in Seq({"answer", "candidate"})
          /\ Len(Append(signalQ, x)) <= SignalCap
    BY <2>1, AppendKeeps
  <2>3. QED  BY <1>9, <2>2 DEF Answer, Gather
<1>10. CASE TakeSignal
  <2>1. Tail(signalQ) \in Seq({"answer", "candidate"}) /\ Len(Tail(signalQ)) <= SignalCap
    BY <1>10, TailKeeps DEF TakeSignal
  <2>2. QED  BY <1>10, <2>1 DEF TakeSignal
<1>11. CASE SendSignal
  <2>1. sending \in Messages
    BY <1>11 DEF SendSignal, Purposes, Messages
  <2>2. Append(outQ, sending) \in Seq(Messages) /\ Len(Append(outQ, sending)) <= QueueCap
    BY <1>11, <2>1, AppendKeeps DEF SendSignal
  <2>3. QED  BY <1>11, <2>2 DEF SendSignal
<1>12. CASE Dial
  <2>1. <<"connect">> \in Seq(Messages) /\ Len(<<"connect">>) <= QueueCap
    BY DEF Messages
  <2>2. QED  BY <1>12, <2>1 DEF Dial
<1>13. CASE AwaitConnected
  <2>1. inQ # <<>> => Tail(inQ) \in Seq(Events) /\ Len(Tail(inQ)) <= QueueCap
    BY TailKeeps
  <2>2. QED  BY <1>13, <2>1 DEF AwaitConnected
<1>14. CASE Ready \/ Kill
  BY <1>14 DEF Ready, Kill, queueVars
<1>15. CASE Command
  <2>1. Append(outQ, "command") \in Seq(Messages) /\ Len(Append(outQ, "command")) <= QueueCap
    BY <1>15, AppendKeeps DEF Command, Messages
  <2>2. QED  BY <1>15, <2>1 DEF Command
<1>16. CASE ServerSends \/ LinkDies \/ PeerChanges \/ UNCHANGED vars
  BY <1>16 DEF ServerSends, LinkDies, PeerChanges, vars, queueVars
<1>17. QED
  BY <1>1, <1>2, <1>3, <1>4, <1>5, <1>6, <1>7, <1>8, <1>9, <1>10, <1>11, <1>12, <1>13, <1>14,
     <1>15, <1>16 DEF Next, TransportStep, TransportWorks, TranslatorStep, DriverStep, ConnectStep

\* The frames that the server can send.
LEMMA ServerFrames ==
  /\ \A n \in Plain \cup {"close"} : Text(n) \in Seq(Frames) /\ Len(Text(n)) = 1
  /\ \A n \in Binary : Bytes(n) \in Seq(Frames) /\ Len(Bytes(n)) = 2
<1>1. \A n \in Plain \cup {"close"} : [kind |-> "text", name |-> n] \in Frames
  BY DEF Frames
<1>2. \A n \in Binary : [kind |-> "header", name |-> n] \in Frames /\ [kind |-> "bytes", name |-> n] \in Frames
  BY DEF Frames
<1>3. QED  BY <1>1, <1>2, FramesOf

LEMMA NetStays == Types /\ [Next]_vars => NetTypes'
<1> SUFFICES ASSUME Types, [Next]_vars
             PROVE  NetTypes'
  OBVIOUS
<1> USE SignalingAssumption DEF Types, NetTypes
<1>1. CASE Read
  <2>1. Tail(net) \in Seq(Frames) /\ Len(Tail(net)) <= NetCap
    BY <1>1, TailKeeps DEF Read
  <2>2. QED  BY <1>1, <2>1 DEF Read
<1>2. CASE Write
  <2>1. [kind |-> "text", name |-> "connected"] \in Frames
    BY DEF Frames, Plain
  <2>2. Len(net) < NetCap =>
          /\ Append(net, [kind |-> "text", name |-> "connected"]) \in Seq(Frames)
          /\ Len(Append(net, [kind |-> "text", name |-> "connected"])) <= NetCap
    BY <2>1, AppendKeeps
  <2>3. QED  BY <1>2, <2>2 DEF Write, Receives
<1>3. CASE ServerSends
  <2>1. PICK f \in Seq(Frames) : net' = net \o f /\ Len(f) <= 2
    <3>1. {"ack", "nack", "ping", "disconnect", "close"} \subseteq Plain \cup {"close"}
      BY DEF Plain
    <3>2. {"offer", "ice", "status"} \subseteq Binary
      BY DEF Binary
    <3>3. PICK n : \/ net' = net \o Text(n) /\ n \in {"ack", "nack", "ping", "disconnect", "close"}
                   \/ net' = net \o Bytes(n) /\ n \in {"offer", "ice", "status"}
      <4>1. CASE \E ok \in BOOLEAN : net' = net \o Text(IF ok THEN "ack" ELSE "nack")
        BY <4>1
      <4>2. CASE net' = net \o Bytes("offer")
        BY <4>2
      <4>3. CASE net' = net \o Bytes("ice") \/ net' = net \o Bytes("status")
        BY <4>3
      <4>4. CASE net' = net \o Text("ping") \/ net' = net \o Text("disconnect") \/ net' = net \o Text("close")
        BY <4>4
      <4>5. QED  BY <1>3, <4>1, <4>2, <4>3, <4>4, Zenon DEF ServerSends, ServerDoes
    <3>4. CASE net' = net \o Text(n) /\ n \in Plain \cup {"close"}
      <4>1. Text(n) \in Seq(Frames) /\ Len(Text(n)) = 1
        BY <3>4, ServerFrames, Zenon
      <4>2. Len(Text(n)) <= 2
        BY <4>1
      <4>3. QED  BY <3>4, <4>1, <4>2, Zenon
    <3>5. CASE net' = net \o Bytes(n) /\ n \in Binary
      <4>1. Bytes(n) \in Seq(Frames) /\ Len(Bytes(n)) = 2
        BY <3>5, ServerFrames, Zenon
      <4>2. Len(Bytes(n)) <= 2
        BY <4>1
      <4>3. QED  BY <3>5, <4>1, <4>2, Zenon
    <3>6. QED  BY <3>1, <3>2, <3>3, <3>4, <3>5
  <2>2. Len(net) + 2 <= NetCap
    BY <1>3 DEF ServerSends
  <2>3. net \in Seq(Frames) /\ Len(net) \in Nat /\ Len(f) \in Nat
    BY <2>1
  <2>4. net' \in Seq(Frames) /\ Len(net') = Len(net) + Len(f)
    BY <2>1, <2>3, ConcatKeeps
  <2>5. Len(net') <= NetCap
    BY <2>1, <2>2, <2>3, <2>4, SMT
  <2>6. QED  BY <2>4, <2>5
<1>4. CASE TakeOutbound \/ Push \/ PingTimeout \/ TransportStops \/ TranslatorStep
  BY <1>4 DEF TakeOutbound, Push, PingTimeout, TransportStops, TranslatorStep, TranslatorSends,
              Translate, Emit, TranslatorStops, worldVars
<1>5. CASE DriverStep \/ ConnectStep
  BY <1>5 DEF DriverStep, Handle, Answer, TakeSignal, SendSignal, DriverEnds,
              ConnectStep, Dial, AwaitConnected, Ready, worldVars
<1>6. CASE Gather \/ Kill \/ Command \/ LinkDies \/ PeerChanges \/ UNCHANGED vars
  BY <1>6 DEF Gather, Kill, Command, LinkDies, PeerChanges, vars, worldVars
<1>7. QED  BY <1>1, <1>2, <1>3, <1>4, <1>5, <1>6 DEF Next, TransportStep, TransportWorks

LEMMA FlagsStay == Flags /\ [Next]_vars => Flags'
<1> SUFFICES ASSUME Flags, [Next]_vars
             PROVE  Flags'
  OBVIOUS
<1> USE DEF Flags
<1>1. CASE Read
  <2>1. pending' \in BOOLEAN
    BY <1>1, Zenon DEF Read
  <2>2. QED  BY <1>1, <2>1, Zenon DEF Read, mediaVars
<1>2. CASE TakeOutbound \/ Push \/ Write \/ PingTimeout \/ TransportStops \/ TranslatorStep
  BY <1>2, Zenon DEF TakeOutbound, Push, Write, PingTimeout, TransportStops, TranslatorStep,
              TranslatorSends, Translate, Emit, TranslatorStops, mediaVars
<1>3. CASE Handle
  <2>1. remote' \in {remote, TRUE} /\ local' \in {local, TRUE}
    BY <1>3, HandleDoes, Zenon DEF OnIce
  <2>2. remote' \in BOOLEAN /\ local' \in BOOLEAN
    BY <2>1, Zenon
  <2>3. QED  BY <1>3, <2>2, Zenon DEF Handle
<1>4. CASE Answer \/ TakeSignal \/ SendSignal \/ DriverEnds \/ ConnectStep
  BY <1>4, Zenon DEF Answer, TakeSignal, SendSignal, DriverEnds, ConnectStep, Dial, AwaitConnected,
              Ready, mediaVars
<1>5. CASE Kill
  <2>1. killed' \in BOOLEAN
    BY <1>5, Zenon DEF Kill
  <2>2. QED  BY <1>5, <2>1, Zenon DEF Kill, mediaVars
<1>6. CASE Gather \/ Command \/ ServerSends \/ LinkDies \/ PeerChanges \/ UNCHANGED vars
  BY <1>6, Zenon DEF Gather, Command, ServerSends, LinkDies, PeerChanges, vars, mediaVars
<1>7. QED
  BY <1>1, <1>2, <1>3, <1>4, <1>5, <1>6, Zenon DEF Next, TransportStep, TransportWorks, DriverStep

LEMMA MediaStays == MediaTypes /\ [Next]_vars => MediaTypes'
<1> SUFFICES ASSUME MediaTypes, [Next]_vars
             PROVE  MediaTypes'
  OBVIOUS
<1> USE SignalingAssumption DEF MediaTypes
<1>1. CASE TransportStep \/ TranslatorStep
  <2>1. UNCHANGED mediaVars
    BY <1>1 DEF TransportStep, TransportWorks, Read, TakeOutbound, Push, Write, PingTimeout,
                TransportStops, TranslatorStep, TranslatorSends, Translate, Emit, TranslatorStops
  <2>2. QED  BY <2>1 DEF mediaVars
<1>2. CASE Handle
  <2>1. UNCHANGED <<gathered, peer>>
    BY <1>2 DEF Handle
  <2>2. CASE UNCHANGED <<iceHeld, iceSeen, iceAdded>>
    BY <2>1, <2>2
  <2>3. CASE Drain /\ UNCHANGED iceSeen
    BY <2>1, <2>3 DEF Drain
  <2>4. CASE OnIce
    BY <2>1, <2>4 DEF OnIce
  <2>5. QED  BY <1>2, <2>2, <2>3, <2>4, HandleDoes
<1>3. CASE Answer \/ TakeSignal \/ SendSignal \/ ConnectStep
  <2>1. UNCHANGED mediaVars
    BY <1>3 DEF Answer, TakeSignal, SendSignal, ConnectStep, Dial, AwaitConnected, Ready
  <2>2. QED  BY <2>1 DEF mediaVars
<1>4. CASE DriverEnds
  BY <1>4 DEF DriverEnds
<1>5. CASE Gather
  BY <1>5 DEF Gather
<1>6. CASE Kill \/ Command \/ ServerSends \/ LinkDies \/ UNCHANGED vars
  <2>1. UNCHANGED mediaVars
    BY <1>6 DEF Kill, Command, ServerSends, LinkDies, vars
  <2>2. QED  BY <2>1 DEF mediaVars
<1>7. CASE PeerChanges
  BY <1>7 DEF PeerChanges
<1>8. QED  BY <1>1, <1>2, <1>3, <1>4, <1>5, <1>6, <1>7 DEF Next, DriverStep

LEMMA WorldStays == Types /\ WorldTypes /\ [Next]_vars => WorldTypes'
<1> SUFFICES ASSUME Types, WorldTypes, [Next]_vars
             PROVE  WorldTypes'
  OBVIOUS
<1> USE SignalingAssumption DEF WorldTypes
<1>1. CASE Read
  BY <1>1 DEF Read
<1>2. CASE TakeOutbound \/ Push \/ PingTimeout \/ TransportStops \/ TranslatorStep \/ DriverStep
        \/ ConnectStep \/ Gather \/ Kill \/ UNCHANGED vars
  <2>1. UNCHANGED worldVars
    BY <1>2 DEF TakeOutbound, Push, PingTimeout, TransportStops,
                TranslatorStep, TranslatorSends, Translate, Emit, TranslatorStops,
                DriverStep, Handle, Answer, TakeSignal, SendSignal, DriverEnds,
                ConnectStep, Dial, AwaitConnected, Ready, Gather, Kill, vars
  <2>2. QED  BY <2>1 DEF worldVars
<1>3. CASE Write
  <2>1. pushing \in Messages
    BY <1>3 DEF Write, Types, Purposes
  <2>2. early' \subseteq Messages
    BY <1>3, <2>1 DEF Write, Receives
  <2>3. server' \in [auth : {"no", "asked", "acked", "refused"}, ice : 0..MaxTraffic,
                     seen : SUBSET {"kickoff", "offer", "answer"}]
    <3>1. server.seen \in SUBSET {"kickoff", "offer", "answer"}
      OBVIOUS
    <3>2. \/ server' = server
          \/ \E a \in {"no", "asked", "acked", "refused"}, n \in SUBSET {"kickoff", "offer", "answer"} :
               server' = [server EXCEPT !.auth = a, !.seen = n]
      <4>1. CASE UNCHANGED server
        BY <4>1
      <4>2. CASE Receives(pushing)
        <5> DEFINE n == server.seen \cup ({pushing} \cap {"answer"})
                          \cup (IF server.auth = "acked" THEN {pushing} \cap {"kickoff"} ELSE {})
                   a == IF pushing = "auth" /\ server.auth = "no" THEN "asked" ELSE server.auth
        <5>1. n \in SUBSET {"kickoff", "offer", "answer"} /\ a \in {"no", "asked", "acked", "refused"}
          BY <3>1
        <5>2. server' = [server EXCEPT !.auth = a, !.seen = n]
          BY <4>2, Zenon DEF Receives
        <5> HIDE DEF n, a
        <5>3. QED  BY <5>1, <5>2
      <4>3. QED  BY <1>3, <4>1, <4>2 DEF Write
    <3>3. QED  BY <3>2
  <2>4. QED  BY <1>3, <2>2, <2>3 DEF Write
<1>4. CASE Command
  BY <1>4 DEF Command, MoreTraffic
<1>5. CASE ServerSends
  <2>1. server' \in [auth : {"no", "asked", "acked", "refused"}, ice : 0..MaxTraffic,
                     seen : SUBSET {"kickoff", "offer", "answer"}]
          /\ extra' \in 0..MaxTraffic
    <3>1. CASE server.auth = "asked" /\ \E ok \in BOOLEAN :
                 server' = [server EXCEPT !.auth = IF ok THEN "acked" ELSE "refused"] /\ extra' = extra
      BY <3>1
    <3>2. CASE /\ server' = [server EXCEPT !.seen = server.seen \cup {"offer"}]
               /\ extra' = extra \/ (MoreTraffic /\ extra' = extra + 1)
      BY <3>2 DEF MoreTraffic
    <3>3. CASE MoreTraffic /\ server' = [server EXCEPT !.ice = server.ice + 1] /\ extra' = extra
      BY <3>3 DEF MoreTraffic
    <3>4. CASE MoreTraffic /\ server' = server /\ extra' = extra + 1
      BY <3>4 DEF MoreTraffic
    <3>5. QED  BY <1>5, <3>1, <3>2, <3>3, <3>4, Zenon DEF ServerSends, ServerDoes
  <2>2. QED  BY <1>5, <2>1 DEF ServerSends
<1>6. CASE LinkDies
  BY <1>6 DEF LinkDies
<1>7. CASE PeerChanges
  BY <1>7 DEF PeerChanges, worldVars
<1>8. QED
  BY <1>1, <1>2, <1>3, <1>4, <1>5, <1>6, <1>7 DEF Next, TransportStep, TransportWorks

-----------------------------------------------------------------------------
(* Candidates on their way.  A task that is not sending has nothing in     *)
(* hand; the frames in flight are whole events, so that the correlator     *)
(* waits for an attachment exactly when one comes next; and before the     *)
(* CONNECT reply nothing of a session can have begun.                      *)

Hands ==
  /\ transport \in {"off", "run", "done"} => pushing = "none"
  /\ translator \in {"off", "run", "send"} => emitting = "none"

WholeEvents(frames) ==
  \A i \in DOMAIN frames :
    /\ frames[i].kind = "header" => i < Len(frames) /\ frames[i + 1].kind = "bytes"
    /\ frames[i].kind = "bytes" => i = 1 \/ frames[i - 1].kind = "header"

AttachmentNext(frames) == frames # <<>> /\ Head(frames).kind = "bytes"

Correlated ==
  /\ WholeEvents(net)
  /\ pending => AttachmentNext(net)
  /\ AttachmentNext(net) => pending

Unasked ==
  conn \in {"dial", "connecting"} =>
    /\ conn = "dial" => transport = "off"
    /\ translator = "off" /\ driver = "off"
    /\ outQ \in Seq({"connect"}) /\ pushing \notin {"auth", "kickoff"}
    /\ server.auth = "no" /\ "kickoff" \notin server.seen /\ server.ice = 0

LEMMA HandsStay == Types /\ Unasked /\ Hands /\ [Next]_vars => Hands'
<1> SUFFICES ASSUME Types, Unasked, Hands, [Next]_vars
             PROVE  Hands'
  OBVIOUS
<1> USE DEF Hands, Types, TaskTypes, Purposes
<1>1. CASE Read \/ TakeOutbound \/ Push \/ Write \/ PingTimeout \/ TransportStops
  <2>1. UNCHANGED <<translator, emitting>>
    BY <1>1 DEF Read, TakeOutbound, Push, Write, PingTimeout, TransportStops
  <2>2. transport' \in {"off", "run", "done"} => pushing' = "none"
    <3>1. CASE Read
      BY <3>1 DEF Read
    <3>2. CASE TakeOutbound \/ Push
      BY <3>2 DEF TakeOutbound, Push
    <3>3. CASE Write
      BY <3>3 DEF Write
    <3>4. CASE PingTimeout \/ TransportStops
      BY <3>4 DEF PingTimeout, TransportStops
    <3>5. QED  BY <1>1, <3>1, <3>2, <3>3, <3>4
  <2>3. QED  BY <2>1, <2>2
<1>2. CASE TranslatorStep
  <2>1. UNCHANGED <<transport, pushing>>
    BY <1>2 DEF TranslatorStep, TranslatorSends, Translate, Emit, TranslatorStops
  <2>2. CASE TranslatorSends
    BY <2>1, <2>2 DEF TranslatorSends
  <2>3. CASE Translate
    BY <2>1, <2>3 DEF Translate
  <2>4. CASE Emit \/ TranslatorStops
    BY <2>1, <2>4 DEF Emit, TranslatorStops
  <2>5. QED  BY <1>2, <2>2, <2>3, <2>4 DEF TranslatorStep
<1>3. CASE DriverStep
  BY <1>3 DEF DriverStep, Handle, Answer, TakeSignal, SendSignal, DriverEnds
<1>4. CASE Dial \/ Ready
  BY <1>4 DEF Dial, Ready, Unasked
<1>5. CASE AwaitConnected
  BY <1>5 DEF AwaitConnected, Unasked
<1>6. CASE Gather \/ Kill \/ Command \/ ServerSends \/ LinkDies \/ PeerChanges \/ UNCHANGED vars
  BY <1>6 DEF Gather, Kill, Command, ServerSends, LinkDies, PeerChanges, vars, taskVars
<1>7. QED  BY <1>1, <1>2, <1>3, <1>4, <1>5, <1>6 DEF Next, TransportStep, TransportWorks, ConnectStep

\* Frames of whole events, one more event, one frame less.
LEMMA WholeEventsGrow ==
  ASSUME NEW frames \in Seq(Frames), WholeEvents(frames), NEW n
  PROVE  /\ WholeEvents(frames \o Text(n)) /\ WholeEvents(frames \o Bytes(n))
         /\ WholeEvents(Append(frames, [kind |-> "text", name |-> n]))
<1>1. PICK m : m = Len(frames)
  OBVIOUS
<1>2. m \in Nat /\ DOMAIN frames = 1..m
  BY <1>1
<1>3. \A i \in 1..m : /\ frames[i].kind = "header" => i < m /\ frames[i + 1].kind = "bytes"
                      /\ frames[i].kind = "bytes" => i = 1 \/ frames[i - 1].kind = "header"
  BY <1>1, <1>2 DEF WholeEvents
<1>4. ASSUME NEW q, DOMAIN q = 1..(m + 1), Len(q) = m + 1,
             \A i \in 1..m : q[i] = frames[i], q[m + 1].kind = "text"
      PROVE  WholeEvents(q)
  <2> SUFFICES ASSUME NEW i \in 1..(m + 1)
               PROVE  /\ q[i].kind = "header" => i < Len(q) /\ q[i + 1].kind = "bytes"
                      /\ q[i].kind = "bytes" => i = 1 \/ q[i - 1].kind = "header"
    BY <1>4 DEF WholeEvents
  <2>1. CASE i = m + 1
    BY <1>4, <2>1
  <2>2. CASE i \in 1..m
    BY <1>2, <1>3, <1>4, <2>2
  <2>3. QED  BY <1>2, <2>1, <2>2
<1>5. ASSUME NEW q, DOMAIN q = 1..(m + 2), Len(q) = m + 2,
             \A i \in 1..m : q[i] = frames[i], q[m + 1].kind = "header", q[m + 2].kind = "bytes"
      PROVE  WholeEvents(q)
  <2> SUFFICES ASSUME NEW i \in 1..(m + 2)
               PROVE  /\ q[i].kind = "header" => i < Len(q) /\ q[i + 1].kind = "bytes"
                      /\ q[i].kind = "bytes" => i = 1 \/ q[i - 1].kind = "header"
    BY <1>5 DEF WholeEvents
  <2>1. CASE i = m + 1
    <3>1. i + 1 = m + 2 /\ i < Len(q)
      BY <1>2, <1>5, <2>1
    <3>2. q[i].kind = "header" /\ q[i + 1].kind = "bytes"
      BY <1>5, <2>1, <3>1
    <3>3. QED  BY <3>1, <3>2
  <2>2. CASE i = m + 2
    <3>1. i - 1 = m + 1
      BY <1>2, <2>2
    <3>2. q[i].kind = "bytes" /\ q[i - 1].kind = "header"
      BY <1>5, <2>2, <3>1
    <3>3. QED  BY <3>2
  <2>3. CASE i \in 1..m
    BY <1>2, <1>3, <1>5, <2>3
  <2>4. QED  BY <1>2, <2>1, <2>2, <2>3
<1>6. WholeEvents(Append(frames, [kind |-> "text", name |-> n]))
  <2> DEFINE q == Append(frames, [kind |-> "text", name |-> n])
  <2>1. Len(q) = m + 1 /\ DOMAIN q = 1..(m + 1)
    BY <1>1, <1>2
  <2>2. (\A i \in 1..m : q[i] = frames[i]) /\ q[m + 1] = [kind |-> "text", name |-> n]
    BY <1>1, <1>2
  <2> HIDE DEF q
  <2>3. q[m + 1].kind = "text"
    BY <2>2
  <2>4. WholeEvents(q)
    BY <1>4, <2>1, <2>2, <2>3
  <2>5. QED  BY <2>4 DEF q
<1>7. WholeEvents(frames \o Text(n))
  <2> DEFINE q == frames \o Text(n)
  <2>1. Len(q) = m + 1 /\ DOMAIN q = 1..(m + 1)
    BY <1>1, <1>2 DEF Text
  <2>2. (\A i \in 1..m : q[i] = frames[i]) /\ q[m + 1] = [kind |-> "text", name |-> n]
    BY <1>1, <1>2 DEF Text
  <2> HIDE DEF q
  <2>3. q[m + 1].kind = "text"
    BY <2>2
  <2>4. WholeEvents(q)
    BY <1>4, <2>1, <2>2, <2>3
  <2>5. QED  BY <2>4 DEF q
<1>8. WholeEvents(frames \o Bytes(n))
  <2> DEFINE q == frames \o Bytes(n)
  <2>1. Len(q) = m + 2 /\ DOMAIN q = 1..(m + 2)
    BY <1>1, <1>2 DEF Bytes
  <2>2. /\ \A i \in 1..m : q[i] = frames[i]
        /\ q[m + 1] = [kind |-> "header", name |-> n] /\ q[m + 2] = [kind |-> "bytes", name |-> n]
    BY <1>1, <1>2 DEF Bytes
  <2> HIDE DEF q
  <2>3. q[m + 1].kind = "header" /\ q[m + 2].kind = "bytes"
    BY <2>2
  <2>4. WholeEvents(q)
    BY <1>5, <2>1, <2>2, <2>3
  <2>5. QED  BY <2>4 DEF q
<1>9. QED  BY <1>6, <1>7, <1>8

\* More frames do not change what comes next, unless they bring it.
LEMMA NextStays ==
  ASSUME NEW frames \in Seq(Frames), NEW n
  PROVE  /\ AttachmentNext(frames \o Text(n)) <=> AttachmentNext(frames)
         /\ AttachmentNext(frames \o Bytes(n)) <=> AttachmentNext(frames)
         /\ AttachmentNext(Append(frames, [kind |-> "text", name |-> n])) <=> AttachmentNext(frames)
<1> DEFINE t == [kind |-> "text", name |-> n]
           h == [kind |-> "header", name |-> n]
<1>1. CASE frames = <<>>
  <2>1. t.kind # "bytes" /\ h.kind # "bytes"
    OBVIOUS
  <2> HIDE DEF t, h
  <2>2. /\ <<>> \o <<t>> = <<t>> /\ Append(<<>>, t) = <<t>>
        /\ \A b : <<>> \o <<h, b>> = <<h, b>>
    OBVIOUS
  <2>3. Head(<<t>>) = t /\ \A b : Head(<<h, b>>) = h
    OBVIOUS
  <2>4. QED  BY <1>1, <2>1, <2>2, <2>3 DEF AttachmentNext, Text, Bytes, t, h
<1>2. CASE frames # <<>>
  <2>1. ASSUME NEW r, NEW q, q = frames \o r, r \in Seq(Frames \cup {t, h, [kind |-> "bytes", name |-> n]})
        PROVE  q # <<>> /\ Head(q) = Head(frames)
    BY <1>2, <2>1
  <2>2. /\ Text(n) \in Seq(Frames \cup {t, h, [kind |-> "bytes", name |-> n]})
        /\ Bytes(n) \in Seq(Frames \cup {t, h, [kind |-> "bytes", name |-> n]})
    BY DEF Text, Bytes
  <2>3. Append(frames, t) # <<>> /\ Head(Append(frames, t)) = Head(frames)
    BY <1>2
  <2>4. QED  BY <1>2, <2>1, <2>2, <2>3 DEF AttachmentNext
<1>3. QED  BY <1>1, <1>2

LEMMA WholeEventsShrink ==
  ASSUME NEW frames \in Seq(Frames), WholeEvents(frames), frames # <<>>
  PROVE  /\ WholeEvents(Tail(frames))
         /\ Head(frames).kind = "header" <=> AttachmentNext(Tail(frames))
<1>1. PICK m : m = Len(frames)
  OBVIOUS
<1>2. /\ m \in Nat /\ m > 0 /\ DOMAIN frames = 1..m /\ Head(frames) = frames[1]
      /\ Len(Tail(frames)) = m - 1 /\ DOMAIN Tail(frames) = 1..(m - 1)
  BY <1>1
<1>3. \A i \in 1..m : /\ frames[i].kind = "header" => i < m /\ frames[i + 1].kind = "bytes"
                      /\ frames[i].kind = "bytes" => i = 1 \/ frames[i - 1].kind = "header"
  BY <1>1, <1>2 DEF WholeEvents
<1>4. \A i \in 1..(m - 1) : Tail(frames)[i] = frames[i + 1]
  BY <1>1, <1>2
<1>5. Tail(frames) # <<>> <=> m > 1
  <2> DEFINE q == Tail(frames)
  <2>1. q \in Seq(Frames)
    OBVIOUS
  <2>2. Len(q) = m - 1
    BY <1>2
  <2> HIDE DEF q
  <2>3. q = <<>> <=> Len(q) = 0
    BY <2>1
  <2>4. q # <<>> <=> m > 1
    BY <1>2, <2>2, <2>3
  <2>5. QED  BY <2>4 DEF q
<1>6. m > 1 => Head(Tail(frames)) = frames[2]
  BY <1>1, <1>2
<1>7. Head(frames).kind = "header" <=> Tail(frames) # <<>> /\ Head(Tail(frames)).kind = "bytes"
  <2>1. CASE m > 1
    <3>1. 1 \in 1..m /\ 2 \in 1..m /\ 1 + 1 = 2 /\ 2 - 1 = 1
      BY <1>2, <2>1
    <3>2. frames[1].kind = "header" => frames[2].kind = "bytes"
      BY <1>3, <3>1
    <3>3. frames[2].kind = "bytes" => frames[1].kind = "header"
      BY <1>3, <3>1
    <3>4. QED  BY <1>2, <1>5, <1>6, <2>1, <3>2, <3>3
  <2>2. CASE m = 1
    BY <1>2, <1>3, <1>5, <2>2
  <2>3. QED  BY <1>2, <2>1, <2>2
<1>8. WholeEvents(Tail(frames))
  <2> DEFINE q == Tail(frames)
  <2> SUFFICES ASSUME NEW i \in 1..(m - 1)
               PROVE  /\ q[i].kind = "header" => i < m - 1 /\ q[i + 1].kind = "bytes"
                      /\ q[i].kind = "bytes" => i = 1 \/ q[i - 1].kind = "header"
    BY <1>2 DEF WholeEvents
  <2>1. i + 1 \in 1..m /\ q[i] = frames[i + 1] /\ i \in Nat /\ (i + 1) - 1 = i
    BY <1>2, <1>4
  <2>2. ASSUME q[i].kind = "header"
        PROVE  i < m - 1 /\ q[i + 1].kind = "bytes"
    <3>1. i + 1 < m /\ frames[(i + 1) + 1].kind = "bytes"
      BY <1>3, <2>1, <2>2
    <3>2. i < m - 1 /\ i + 1 \in 1..(m - 1)
      BY <1>2, <2>1, <3>1
    <3>3. q[i + 1] = frames[(i + 1) + 1]
      BY <1>4, <3>2
    <3>4. QED  BY <3>1, <3>2, <3>3
  <2>3. ASSUME q[i].kind = "bytes", i # 1
        PROVE  q[i - 1].kind = "header"
    <3>1. frames[i].kind = "header"
      <4>1. frames[i + 1].kind = "bytes" /\ i + 1 # 1
        BY <1>2, <2>1, <2>3
      <4>2. frames[(i + 1) - 1].kind = "header"
        BY <1>3, <2>1, <4>1
      <4>3. QED  BY <2>1, <4>2
    <3>2. i - 1 \in 1..(m - 1) /\ (i - 1) + 1 = i
      BY <1>2, <2>1, <2>3
    <3>3. q[i - 1] = frames[i]
      BY <1>4, <3>2
    <3>4. QED  BY <3>1, <3>3
  <2>4. QED  BY <2>2, <2>3
<1>9. QED  BY <1>7, <1>8 DEF AttachmentNext

\* Before the CONNECT reply the server has not been asked for anything.
LEMMA UnaskedStays == Types /\ WorldTypes /\ Unasked /\ [Next]_vars => Unasked'
<1> SUFFICES ASSUME Types, WorldTypes, Unasked, [Next]_vars,
                    conn' \in {"dial", "connecting"}
             PROVE  /\ conn' = "dial" => transport' = "off"
                    /\ translator' = "off" /\ driver' = "off"
                    /\ outQ' \in Seq({"connect"}) /\ pushing' \notin {"auth", "kickoff"}
                    /\ server'.auth = "no" /\ "kickoff" \notin server'.seen /\ server'.ice = 0
  BY DEF Unasked
<1>1. /\ conn \in {"dial", "connecting"}
      /\ conn = "dial" => transport = "off"
      /\ translator = "off" /\ driver = "off"
      /\ outQ \in Seq({"connect"}) /\ pushing \notin {"auth", "kickoff"}
      /\ server.auth = "no" /\ "kickoff" \notin server.seen /\ server.ice = 0
  <2>1. conn \in {"dial", "connecting"}
    BY DEF Types, TaskTypes, Next, TransportStep, TransportWorks, Read, TakeOutbound, Push, Write, PingTimeout,
           TransportStops, TranslatorStep, TranslatorSends, Translate, Emit, TranslatorStops,
           DriverStep, Handle, Answer, TakeSignal, SendSignal, DriverEnds, ConnectStep, Dial,
           AwaitConnected, Ready, Gather, Kill, Command, ServerSends, LinkDies, PeerChanges,
           vars, taskVars
  <2>2. QED  BY <2>1 DEF Unasked
<1>2. CASE Read
  <2>1. Head(net) \in Frames
    BY <1>2, TailKeeps DEF Read, Types, NetTypes
  <2>2. pushing' \in {pushing, "pong", "closed", Head(net).name}
    BY <1>2 DEF Read
  <2>3. Head(net).name \notin {"auth", "kickoff"}
    BY <2>1 DEF Frames, Plain, Binary
  <2>4. UNCHANGED <<conn, translator, driver, outQ, server>> /\ transport = "run"
    BY <1>2 DEF Read, queueVars
  <2>5. QED  BY <1>1, <2>2, <2>3, <2>4
<1>3. CASE TakeOutbound
  <2>1. Head(outQ) = "connect" /\ Tail(outQ) \in Seq({"connect"})
    BY <1>1, <1>3, TailKeeps DEF TakeOutbound
  <2>2. QED  BY <1>1, <1>3, <2>1 DEF TakeOutbound, worldVars
<1>4. CASE Push \/ PingTimeout \/ TransportStops
  BY <1>1, <1>4 DEF Push, PingTimeout, PingOverdue, TransportStops, TransportAlive, queueVars, worldVars
<1>5. CASE Write
  <2>1. UNCHANGED <<conn, translator, driver, outQ>> /\ transport = "write"
        /\ pushing' \in {"none", "closed"}
    BY <1>5 DEF Write, queueVars
  <2>2. CASE UNCHANGED server
    BY <1>1, <2>1, <2>2
  <2>3. CASE Receives(pushing)
    <3>1. server' = [server EXCEPT !.auth = server.auth,
                                   !.seen = server.seen \cup ({pushing} \cap {"answer"}) \cup {}]
      BY <1>1, <2>3 DEF Receives
    <3>2. QED  BY <1>1, <2>1, <3>1 DEF WorldTypes
  <2>4. QED  BY <1>5, <2>2, <2>3 DEF Write
<1>6. CASE TranslatorStep \/ DriverStep
  BY <1>1, <1>6 DEF TranslatorStep, TranslatorSends, Translate, Emit, TranslatorStops,
                    DriverStep, Handle, Answer, TakeSignal, SendSignal, DriverEnds
<1>7. CASE ConnectStep
  <2>1. <<"connect">> \in Seq({"connect"})
    OBVIOUS
  <2>2. CASE Dial
    BY <1>1, <2>1, <2>2 DEF Dial, worldVars
  <2>3. CASE AwaitConnected
    BY <1>1, <2>3 DEF AwaitConnected, worldVars
  <2>4. CASE Ready
    BY <1>1, <2>4 DEF Ready
  <2>5. QED  BY <1>7, <2>2, <2>3, <2>4 DEF ConnectStep
<1>8. CASE Gather \/ Kill \/ Command \/ LinkDies \/ PeerChanges \/ UNCHANGED vars
  BY <1>1, <1>8 DEF Gather, Kill, GivesUp, Command, LinkDies, PeerChanges, vars, taskVars,
                    queueVars, worldVars
<1>9. CASE ServerSends
  BY <1>1, <1>9, Zenon DEF ServerSends, ServerDoes
<1>10. QED
  BY <1>2, <1>3, <1>4, <1>5, <1>6, <1>7, <1>8, <1>9 DEF Next, TransportStep, TransportWorks

\* The correlator keeps in step with the frames.
LEMMA CorrelatedStays == Types /\ Correlated /\ [Next]_vars => Correlated'
<1> SUFFICES ASSUME Types, Correlated, [Next]_vars
             PROVE  Correlated'
  OBVIOUS
<1>1. net \in Seq(Frames) /\ WholeEvents(net)
  BY DEF Types, NetTypes, Correlated
<1>2. CASE Read
  <2>1. /\ WholeEvents(Tail(net))
        /\ Head(net).kind = "header" <=> AttachmentNext(Tail(net))
        /\ net # <<>> /\ net' = Tail(net)
    BY <1>1, <1>2, WholeEventsShrink DEF Read
  <2>2. pending' = IF Head(net).kind = "text" THEN pending ELSE Head(net).kind = "header"
    BY <1>2, Zenon DEF Read
  <2>3. CASE Head(net).kind = "text"
    <3>1. ~AttachmentNext(net)
      BY <2>3 DEF AttachmentNext
    <3>2. pending' = pending /\ Head(net).kind # "header"
      BY <2>2, <2>3
    <3>3. QED  BY <2>1, <3>1, <3>2, Zenon DEF Correlated
  <2>4. CASE Head(net).kind # "text"
    <3>1. pending' = (Head(net).kind = "header")
      BY <2>2, <2>4, Zenon
    <3>2. QED  BY <2>1, <3>1, Zenon DEF Correlated
  <2>5. QED  BY <2>3, <2>4
<1>3. ASSUME NEW q, net' = q, pending' = pending, WholeEvents(q),
             AttachmentNext(q) <=> AttachmentNext(net)
      PROVE  Correlated'
  BY <1>3, Zenon DEF Correlated
<1>4. CASE Write
  <2>1. CASE net' = net
    BY <1>1, <1>3, <1>4, <2>1 DEF Write
  <2>2. CASE net' = Append(net, [kind |-> "text", name |-> "connected"])
    <3>1. pending' = pending
      BY <1>4, Zenon DEF Write
    <3>2. QED  BY <1>1, <1>3, <2>2, <3>1, WholeEventsGrow, NextStays
  <2>3. QED  BY <1>4, <2>1, <2>2, Zenon DEF Write, Receives
<1>5. CASE ServerSends
  <2>1. pending' = pending
    BY <1>5, Zenon DEF ServerSends
  <2>2. \E n : net' = net \o Text(n) \/ net' = net \o Bytes(n)
    BY <1>5, Zenon DEF ServerSends, ServerDoes
  <2>3. QED  BY <1>1, <1>3, <2>1, <2>2, WholeEventsGrow, NextStays
<1>6. CASE TakeOutbound \/ Push \/ PingTimeout \/ TransportStops \/ TranslatorStep \/ DriverStep
        \/ ConnectStep \/ Gather \/ Kill \/ Command \/ LinkDies \/ PeerChanges \/ UNCHANGED vars
  <2>1. net' = net
    BY <1>6 DEF TakeOutbound, Push, PingTimeout, TransportStops,
                TranslatorStep, TranslatorSends, Translate, Emit, TranslatorStops,
                DriverStep, Handle, Answer, TakeSignal, SendSignal, DriverEnds,
                ConnectStep, Dial, AwaitConnected, Ready, Gather, Kill, Command, LinkDies,
                PeerChanges, worldVars, vars
  <2>2. pending' = pending
    BY <1>6, Zenon DEF TakeOutbound, Push, PingTimeout, TransportStops,
                TranslatorStep, TranslatorSends, Translate, Emit, TranslatorStops,
                DriverStep, Handle, Answer, TakeSignal, SendSignal, DriverEnds,
                ConnectStep, Dial, AwaitConnected, Ready, Gather, Kill, Command, LinkDies,
                PeerChanges, vars
  <2>3. QED  BY <1>1, <1>3, <2>1, <2>2
<1>7. QED
  BY <1>2, <1>4, <1>5, <1>6 DEF Next, TransportStep, TransportWorks

\* What the server's frames add.
LEMMA AmongFrames ==
  ASSUME NEW frames \in Seq(Frames)
  PROVE  /\ \A n \in Plain \cup {"close"} :
              /\ Among(IceBytes, frames \o Text(n)) = Among(IceBytes, frames)
              /\ Among(IceBytes, Append(frames, [kind |-> "text", name |-> n])) = Among(IceBytes, frames)
         /\ \A n \in Binary : Among(IceBytes, frames \o Bytes(n)) = Among(IceBytes, frames) + InHand("ice", n)
<1>1. ASSUME NEW n \in Plain \cup {"close"}
      PROVE  /\ Among(IceBytes, frames \o Text(n)) = Among(IceBytes, frames)
             /\ Among(IceBytes, Append(frames, [kind |-> "text", name |-> n])) = Among(IceBytes, frames)
  <2> DEFINE t == [kind |-> "text", name |-> n]
  <2>1. t \in Frames /\ t # IceBytes
    BY DEF Frames, IceBytes
  <2> HIDE DEF t
  <2>2. frames \o <<t>> = Append(frames, t)
    BY <2>1
  <2>3. Among(IceBytes, Append(frames, t)) = Among(IceBytes, frames) + InHand(IceBytes, t)
    BY <2>1, AmongAppend
  <2>4. InHand(IceBytes, t) = 0 /\ Among(IceBytes, frames) \in Nat
    BY <2>1, AmongIsNumber DEF InHand
  <2>5. Among(IceBytes, Append(frames, t)) = Among(IceBytes, frames)
    BY <2>3, <2>4
  <2>6. QED  BY <2>2, <2>5 DEF Text, t
<1>2. ASSUME NEW n \in Binary
      PROVE  Among(IceBytes, frames \o Bytes(n)) = Among(IceBytes, frames) + InHand("ice", n)
  <2> DEFINE h == [kind |-> "header", name |-> n]
             b == [kind |-> "bytes", name |-> n]
  <2>1. h \in Frames /\ b \in Frames /\ h # IceBytes /\ (b = IceBytes <=> n = "ice")
    BY DEF Frames, IceBytes
  <2> HIDE DEF h, b
  <2>2. frames \o <<h, b>> = Append(Append(frames, h), b)
    BY <2>1
  <2>3. /\ Append(frames, h) \in Seq(Frames)
        /\ Among(IceBytes, Append(frames, h)) = Among(IceBytes, frames) + InHand(IceBytes, h)
    BY <2>1, AmongAppend, AppendKeeps
  <2>4. Among(IceBytes, Append(Append(frames, h), b))
          = Among(IceBytes, Append(frames, h)) + InHand(IceBytes, b)
    BY <2>1, <2>3, AmongAppend
  <2>5. /\ InHand(IceBytes, h) = 0 /\ InHand(IceBytes, b) = InHand("ice", n)
        /\ Among(IceBytes, frames) \in Nat
    BY <2>1, AmongIsNumber DEF InHand
  <2>6. Among(IceBytes, Append(Append(frames, h), b)) = Among(IceBytes, frames) + InHand("ice", n)
    BY <2>3, <2>4, <2>5
  <2>7. QED  BY <2>2, <2>6 DEF Bytes, h, b
<1>3. QED  BY <1>1, <1>2

\* A frame is read: what was in flight is in hand.
LEMMA ReadKeeps ==
  Types /\ Hands /\ Correlated /\ Read => InHand("ice", pushing') = InHand(IceBytes, Head(net))
<1> SUFFICES ASSUME Types, Hands, Correlated, Read
             PROVE  InHand("ice", pushing') = InHand(IceBytes, Head(net))
  OBVIOUS
<1> DEFINE f == Head(net)
<1>1. f \in Frames /\ net # <<>> /\ pushing = "none"
  BY TailKeeps DEF Read, Types, NetTypes, Hands
<1>2. IF ~Complete(f) THEN pushing' = pushing
      ELSE IF f.name = "ping" THEN pushing' = "pong"
      ELSE IF f.name = "close" THEN pushing' = "closed" ELSE pushing' = f.name
  BY Zenon DEF Read
<1>3. f.kind = "bytes" => pending
  BY <1>1, Zenon DEF Correlated, AttachmentNext
<1> HIDE DEF f
<1>4. CASE f.kind = "text"
  <2>1. f # IceBytes /\ f.name # "ice"
    BY <1>1, <1>4 DEF Frames, IceBytes, Plain, Binary
  <2>2. pushing' # "ice"
    BY <1>1, <1>2, <2>1
  <2>3. QED  BY <2>1, <2>2 DEF InHand, f
<1>5. CASE f.kind = "header"
  <2>1. f # IceBytes /\ f.name \notin {"ping", "close"}
    BY <1>1, <1>5 DEF Frames, IceBytes, Binary, Plain
  <2>2. ~Complete(f)
    BY <1>5, <2>1 DEF Complete
  <2>3. pushing' # "ice"
    BY <1>1, <1>2, <2>2
  <2>4. QED  BY <2>1, <2>3 DEF InHand, f
<1>6. CASE f.kind = "bytes"
  <2>1. (f = IceBytes <=> f.name = "ice") /\ f.name \notin {"ping", "close"}
    BY <1>1, <1>6 DEF Frames, IceBytes, Binary, Plain
  <2>2. Complete(f)
    BY <1>3, <1>6, Zenon DEF Complete
  <2>3. pushing' = f.name
    BY <1>2, <2>1, <2>2
  <2>4. QED  BY <2>1, <2>3 DEF InHand, f
<1>7. QED  BY <1>1, <1>4, <1>5, <1>6 DEF Frames

Numbers ==
  /\ Among(IceBytes, net) \in Nat /\ InHand("ice", pushing) \in Nat /\ Among("ice", inQ) \in Nat
  /\ InHand("ice", emitting) \in Nat /\ Among("ice", typedQ) \in Nat

LEMMA NumbersAre == Types => Numbers
<1> SUFFICES ASSUME Types PROVE Numbers
  OBVIOUS
<1>1. net \in Seq(Frames) /\ inQ \in Seq(Events) /\ typedQ \in Seq(Events)
  BY DEF Types, NetTypes, QueueTypes
<1>2. Among(IceBytes, net) \in Nat /\ Among("ice", inQ) \in Nat /\ Among("ice", typedQ) \in Nat
  BY <1>1, AmongIsNumber
<1>3. QED  BY <1>2 DEF Numbers, InHand

\* Every step leaves the sum of what is on its way and what the driver has seen alone,
\* but for the server's own.
LEMMA NoneLostStays ==
  Types /\ MediaTypes /\ WorldTypes /\ Hands /\ Correlated /\ Unasked /\ NoneLost /\ [Next]_vars
    => NoneLost'
<1> SUFFICES ASSUME Types, MediaTypes, WorldTypes, Hands, Correlated, Unasked, NoneLost,
                    [Next]_vars, translator' # "done"
             PROVE  server'.ice = iceSeen' + OnTheWay'
  BY DEF NoneLost
<1> USE DEF OnTheWay, IceBytes
<1>1. translator # "done"
  BY DEF Unasked, Next, TransportStep, TransportWorks, Read, TakeOutbound, Push, Write, PingTimeout,
         TransportStops, TranslatorStep, TranslatorSends, Translate, Emit, TranslatorStops,
         DriverStep, Handle, Answer, TakeSignal, SendSignal, DriverEnds, ConnectStep, Dial,
         AwaitConnected, Ready, Gather, Kill, Command, ServerSends, LinkDies, PeerChanges,
         vars, taskVars
<1>2. /\ server.ice = iceSeen + OnTheWay /\ Numbers /\ iceSeen \in Nat /\ server.ice \in Nat
  BY <1>1, NumbersAre DEF NoneLost, MediaTypes, WorldTypes
<1>3. /\ net \in Seq(Frames) /\ inQ \in Seq(Events) /\ typedQ \in Seq(Events)
      /\ outQ \in Seq(Messages)
  BY DEF Types, NetTypes, QueueTypes
<1> HIDE DEF OnTheWay, IceBytes
<1>4. OnTheWay = Among(IceBytes, net) + InHand("ice", pushing) + Among("ice", inQ)
                   + InHand("ice", emitting) + Among("ice", typedQ)
  BY Zenon DEF OnTheWay, IceBytes
<1>5. OnTheWay' = Among(IceBytes, net') + InHand("ice", pushing') + Among("ice", inQ')
                   + InHand("ice", emitting') + Among("ice", typedQ')
  BY Zenon DEF OnTheWay, IceBytes
<1>6. CASE Read
  <2>1. UNCHANGED <<server, iceSeen, inQ, emitting, typedQ>> /\ net' = Tail(net) /\ net # <<>>
        /\ pushing = "none"
    BY <1>6 DEF Read, queueVars, mediaVars, Hands
  <2>2. Among(IceBytes, net) = InHand(IceBytes, Head(net)) + Among(IceBytes, Tail(net))
    BY <1>3, <2>1, AmongTail
  <2>3. InHand("ice", pushing') = InHand(IceBytes, Head(net)) /\ InHand("ice", pushing) = 0
        /\ InHand(IceBytes, Head(net)) \in Nat
    BY <1>6, <2>1, ReadKeeps DEF InHand
  <2>4. Among(IceBytes, Tail(net)) \in Nat
    BY <1>3, <2>1, TailKeeps, AmongIsNumber
  <2>5. QED  BY <1>2, <1>4, <1>5, <2>1, <2>2, <2>3, <2>4 DEF Numbers
<1>7. CASE TakeOutbound
  <2>1. UNCHANGED <<server, iceSeen, net, inQ, emitting, typedQ>> /\ pushing = "none"
        /\ pushing' = Head(outQ) /\ outQ # <<>>
    BY <1>7 DEF TakeOutbound, mediaVars, worldVars, Hands
  <2>2. Head(outQ) # "ice"
    BY <1>3, <2>1, TailKeeps DEF Messages
  <2>3. InHand("ice", pushing) = 0 /\ InHand("ice", pushing') = 0
    BY <2>1, <2>2 DEF InHand
  <2>4. QED  BY <1>2, <1>4, <1>5, <2>1, <2>3
<1>8. CASE Push
  <2>1. UNCHANGED <<server, iceSeen, net, emitting, typedQ>> /\ inQ' = Append(inQ, pushing)
        /\ pushing' = "none" /\ pushing \in Events
    BY <1>8 DEF Push, mediaVars, worldVars, Types, Purposes
  <2>2. Among("ice", inQ') = Among("ice", inQ) + InHand("ice", pushing)
    BY <1>3, <2>1, AmongAppend
  <2>3. InHand("ice", pushing') = 0
    BY <2>1 DEF InHand
  <2>4. QED  BY <1>2, <1>4, <1>5, <2>1, <2>2, <2>3 DEF Numbers
<1>9. CASE Write
  <2>1. UNCHANGED <<iceSeen, inQ, emitting, typedQ>> /\ pushing \in Messages
        /\ pushing' \in {"none", "closed"}
    BY <1>9 DEF Write, mediaVars, queueVars, Types, Purposes
  <2>2. InHand("ice", pushing) = 0 /\ InHand("ice", pushing') = 0
    BY <2>1 DEF InHand, Messages
  <2>3. net' = net \/ net' = Append(net, [kind |-> "text", name |-> "connected"])
    BY <1>9, Zenon DEF Write, Receives
  <2>4. Among(IceBytes, net') = Among(IceBytes, net)
    <3>1. "connected" \in Plain \cup {"close"}
      BY DEF Plain
    <3>2. QED  BY <1>3, <2>3, <3>1, AmongFrames
  <2>5. server'.ice = server.ice
    <3>1. CASE UNCHANGED server
      BY <3>1
    <3>2. CASE Receives(pushing)
      BY <3>2 DEF Receives, WorldTypes
    <3>3. QED  BY <1>9, <3>1, <3>2, Zenon DEF Write
  <2>6. QED  BY <1>2, <1>4, <1>5, <2>1, <2>2, <2>4, <2>5
<1>10. CASE PingTimeout
  <2>1. UNCHANGED <<server, iceSeen, net, inQ, emitting, typedQ>> /\ pushing = "none"
        /\ pushing' = "closed"
    BY <1>10 DEF PingTimeout, PingOverdue, queueVars, mediaVars, worldVars, Hands
  <2>2. InHand("ice", pushing) = 0 /\ InHand("ice", pushing') = 0
    BY <2>1 DEF InHand
  <2>3. QED  BY <1>2, <1>4, <1>5, <2>1, <2>2
<1>11. CASE TransportStops \/ TranslatorStops
  BY <1>1, <1>11 DEF TransportStops, ConsumerGone, TranslatorStops
<1>12. CASE Translate
  <2>1. UNCHANGED <<server, iceSeen, net, pushing, typedQ>> /\ emitting = "none"
        /\ inQ # <<>> /\ inQ' = Tail(inQ)
    BY <1>12 DEF Translate, mediaVars, worldVars, Hands
  <2>2. Among("ice", inQ) = InHand("ice", Head(inQ)) + Among("ice", Tail(inQ))
    BY <1>3, <2>1, AmongTail
  <2>3. InHand("ice", emitting) = 0 /\ InHand("ice", Head(inQ)) \in Nat
    BY <2>1 DEF InHand
  <2>4. InHand("ice", emitting') = InHand("ice", Head(inQ))
    BY <1>12, <2>1 DEF Translate, InHand
  <2>5. Among("ice", Tail(inQ)) \in Nat
    BY <1>3, <2>1, TailKeeps, AmongIsNumber
  <2>6. /\ Among(IceBytes, net') = Among(IceBytes, net) /\ InHand("ice", pushing') = InHand("ice", pushing)
        /\ Among("ice", inQ') = Among("ice", Tail(inQ)) /\ Among("ice", typedQ') = Among("ice", typedQ)
    BY <2>1
  <2>7. OnTheWay' = OnTheWay
    BY <1>2, <1>4, <1>5, <2>2, <2>3, <2>4, <2>5, <2>6 DEF Numbers
  <2>8. QED  BY <1>2, <2>1, <2>7
<1>13. CASE Emit
  <2>1. UNCHANGED <<server, iceSeen, net, pushing, inQ>> /\ typedQ' = Append(typedQ, emitting)
        /\ emitting' = "none" /\ emitting \in Events
    BY <1>13 DEF Emit, mediaVars, worldVars, Types, Purposes
  <2>2. Among("ice", typedQ') = Among("ice", typedQ) + InHand("ice", emitting)
    BY <1>3, <2>1, AmongAppend
  <2>3. InHand("ice", emitting') = 0
    BY <2>1 DEF InHand
  <2>4. /\ Among(IceBytes, net') = Among(IceBytes, net) /\ InHand("ice", pushing') = InHand("ice", pushing)
        /\ Among("ice", inQ') = Among("ice", inQ)
    BY <2>1
  <2>5. OnTheWay' = OnTheWay
    BY <1>2, <1>4, <1>5, <2>2, <2>3, <2>4 DEF Numbers
  <2>6. QED  BY <1>2, <2>1, <2>5
<1>14. CASE Handle
  <2>1. UNCHANGED <<server, net, pushing, inQ, emitting>> /\ typedQ # <<>> /\ typedQ' = Tail(typedQ)
    BY <1>14 DEF Handle, worldVars
  <2>2. Among("ice", typedQ) = InHand("ice", Head(typedQ)) + Among("ice", Tail(typedQ))
    BY <1>3, <2>1, AmongTail
  <2>3. iceSeen' = iceSeen + InHand("ice", Head(typedQ)) /\ InHand("ice", Head(typedQ)) \in Nat
    <3>1. CASE Head(typedQ) # "ice" /\ iceSeen' = iceSeen
      BY <1>2, <3>1 DEF InHand
    <3>2. CASE Head(typedQ) = "ice" /\ OnIce
      BY <1>2, <3>2 DEF OnIce, InHand
    <3>3. QED  BY <1>14, <3>1, <3>2, HandleDoes
  <2>4. Among("ice", Tail(typedQ)) \in Nat
    BY <1>3, <2>1, TailKeeps, AmongIsNumber
  <2>5. OnTheWay = Among(IceBytes, net) + InHand("ice", pushing) + Among("ice", inQ)
                     + InHand("ice", emitting) + (InHand("ice", Head(typedQ)) + Among("ice", Tail(typedQ)))
    BY <1>4, <2>2
  <2>6. OnTheWay' = Among(IceBytes, net) + InHand("ice", pushing) + Among("ice", inQ)
                      + InHand("ice", emitting) + Among("ice", Tail(typedQ))
    BY <1>5, <2>1
  <2>7. server.ice = iceSeen' + OnTheWay'
    BY <1>2, <2>3, <2>4, <2>5, <2>6 DEF Numbers
  <2>8. QED  BY <2>1, <2>7
<1>15. CASE AwaitConnected
  <2>1. UNCHANGED <<server, iceSeen, net, pushing, emitting, typedQ>>
        /\ (inQ' = inQ \/ (inQ # <<>> /\ inQ' = Tail(inQ))) /\ conn = "connecting"
    BY <1>15 DEF AwaitConnected, mediaVars, worldVars
  <2>2. server.ice = 0 /\ Among("ice", inQ) = 0
    BY <1>2, <1>4, <2>1 DEF Unasked, Numbers
  <2>3. CASE inQ # <<>> /\ inQ' = Tail(inQ)
    <3>1. Among("ice", inQ) = InHand("ice", Head(inQ)) + Among("ice", Tail(inQ))
      BY <1>3, <2>3, AmongTail
    <3>2. Among("ice", Tail(inQ)) \in Nat /\ InHand("ice", Head(inQ)) \in Nat
      BY <1>3, <2>3, TailKeeps, AmongIsNumber DEF InHand
    <3>3. Among("ice", inQ') = Among("ice", inQ)
      BY <2>2, <2>3, <3>1, <3>2
    <3>4. QED  BY <1>2, <1>4, <1>5, <2>1, <3>3
  <2>4. CASE inQ' = inQ
    BY <1>2, <1>4, <1>5, <2>1, <2>4
  <2>5. QED  BY <2>1, <2>3, <2>4
<1>16. CASE ServerSends
  <2>1. UNCHANGED <<iceSeen, pushing, inQ, emitting, typedQ>>
    BY <1>16 DEF ServerSends, taskVars, queueVars, mediaVars
  <2>2. ASSUME NEW n \in Plain \cup {"close"}, net' = net \o Text(n), server'.ice = server.ice
        PROVE  server'.ice = iceSeen' + OnTheWay'
    <3>1. Among(IceBytes, net') = Among(IceBytes, net)
      BY <1>3, <2>2, AmongFrames
    <3>2. QED  BY <1>2, <1>4, <1>5, <2>1, <2>2, <3>1
  <2>3. ASSUME NEW n \in Binary, net' = net \o Bytes(n), server'.ice = server.ice + InHand("ice", n)
        PROVE  server'.ice = iceSeen' + OnTheWay'
    <3>1. Among(IceBytes, net') = Among(IceBytes, net) + InHand("ice", n) /\ InHand("ice", n) \in Nat
      BY <1>3, <2>3, AmongFrames DEF InHand
    <3>2. OnTheWay' = (Among(IceBytes, net) + InHand("ice", n)) + InHand("ice", pushing)
                        + Among("ice", inQ) + InHand("ice", emitting) + Among("ice", typedQ)
      BY <1>5, <2>1, <3>1
    <3>3. /\ OnTheWay' = OnTheWay + InHand("ice", n)
          /\ OnTheWay \in Nat /\ InHand("ice", n) \in Nat
      BY <1>2, <1>4, <3>1, <3>2 DEF Numbers
    <3>4. server'.ice = iceSeen + OnTheWay'
      BY <1>2, <2>3, <3>3
    <3>5. QED  BY <2>1, <3>4
  <2>4. \/ \E n \in Plain \cup {"close"} : net' = net \o Text(n) /\ server'.ice = server.ice
        \/ \E n \in Binary : net' = net \o Bytes(n) /\ server'.ice = server.ice + InHand("ice", n)
    <3>1. {"ack", "nack", "ping", "disconnect", "close"} \subseteq Plain \cup {"close"}
      BY DEF Plain
    <3>2. /\ {"offer", "ice", "status"} \subseteq Binary
          /\ \A n \in {"offer", "status"} : server.ice + InHand("ice", n) = server.ice
          /\ server.ice + InHand("ice", "ice") = server.ice + 1
      BY <1>2 DEF Binary, InHand
    <3>3. CASE \E ok \in BOOLEAN :
                 /\ server' = [server EXCEPT !.auth = IF ok THEN "acked" ELSE "refused"]
                 /\ net' = net \o Text(IF ok THEN "ack" ELSE "nack")
      BY <3>1, <3>3 DEF WorldTypes
    <3>4. CASE /\ server' = [server EXCEPT !.seen = server.seen \cup {"offer"}]
               /\ net' = net \o Bytes("offer")
      BY <3>2, <3>4 DEF WorldTypes
    <3>5. CASE server' = [server EXCEPT !.ice = server.ice + 1] /\ net' = net \o Bytes("ice")
      BY <3>2, <3>5 DEF WorldTypes
    <3>6. CASE /\ server' = server
               /\ \/ net' = net \o Text("ping") \/ net' = net \o Bytes("status")
                  \/ net' = net \o Text("disconnect") \/ net' = net \o Text("close")
      BY <3>1, <3>2, <3>6
    <3>7. QED  BY <1>16, <3>3, <3>4, <3>5, <3>6, Zenon DEF ServerSends, ServerDoes
  <2>5. QED  BY <2>2, <2>3, <2>4
<1>17. CASE TranslatorSends \/ Answer \/ TakeSignal \/ SendSignal \/ DriverEnds \/ Dial \/ Ready
         \/ Gather \/ Kill \/ Command \/ LinkDies \/ PeerChanges \/ UNCHANGED vars
  <2>1. UNCHANGED <<server, iceSeen, net, pushing, inQ, emitting, typedQ>>
    BY <1>17 DEF TranslatorSends, Answer, TakeSignal, SendSignal, DriverEnds, Dial, Ready,
                 Gather, Kill, Command, LinkDies, PeerChanges,
                 vars, taskVars, queueVars, mediaVars, worldVars
  <2>2. QED  BY <1>2, <1>4, <1>5, <2>1
<1>18. QED
  BY <1>6, <1>7, <1>8, <1>9, <1>10, <1>11, <1>12, <1>13, <1>14, <1>15, <1>16, <1>17
     DEF Next, TransportStep, TransportWorks, TranslatorStep, DriverStep, ConnectStep

\* Where candidates are held and handed over.
LEMMA HeldOrAddedStays == MediaTypes /\ HeldOrAdded /\ [Next]_vars => HeldOrAdded'
<1> SUFFICES ASSUME MediaTypes, HeldOrAdded, [Next]_vars
             PROVE  HeldOrAdded'
  OBVIOUS
<1> USE DEF HeldOrAdded, MediaTypes
<1>1. CASE TransportStep \/ TranslatorStep
  BY <1>1 DEF TransportStep, TransportWorks, Read, TakeOutbound, Push, Write, PingTimeout, TransportStops,
              TranslatorStep, TranslatorSends, Translate, Emit, TranslatorStops, mediaVars
<1>2. CASE Handle
  <2>1. CASE UNCHANGED <<remote, iceHeld, iceSeen, iceAdded>>
    BY <2>1
  <2>2. CASE Drain /\ UNCHANGED iceSeen
    BY <2>2 DEF Drain
  <2>3. CASE OnIce
    BY <2>3 DEF OnIce
  <2>4. QED  BY <1>2, <2>1, <2>2, <2>3, HandleDoes
<1>3. CASE Answer \/ TakeSignal \/ SendSignal \/ DriverEnds \/ ConnectStep
  BY <1>3 DEF Answer, TakeSignal, SendSignal, DriverEnds, ConnectStep, Dial, AwaitConnected,
              Ready, mediaVars
<1>4. CASE Gather \/ Kill \/ Command \/ ServerSends \/ LinkDies \/ PeerChanges \/ UNCHANGED vars
  BY <1>4 DEF Gather, Kill, Command, ServerSends, LinkDies, PeerChanges, vars, mediaVars
<1>5. QED  BY <1>1, <1>2, <1>3, <1>4 DEF Next, DriverStep

SignalingInv ==
  /\ Types /\ MediaTypes /\ WorldTypes
  /\ Hands /\ Correlated /\ Unasked
  /\ NoneLost /\ HeldOrAdded

LEMMA SignalingInitially == Init => SignalingInv /\ Flags
<1> SUFFICES ASSUME Init PROVE SignalingInv /\ Flags
  OBVIOUS
<1> USE SignalingAssumption DEF Init
<1>1. TaskTypes /\ Purposes
  BY DEF TaskTypes, Purposes
<1>2. QueueTypes /\ NetTypes
  BY DEF QueueTypes, NetTypes
<1>3. Flags
  BY Zenon DEF Flags
<1>4. MediaTypes /\ WorldTypes
  BY DEF MediaTypes, WorldTypes
<1>5. HeldOrAdded
  <2>1. iceSeen = 0 /\ iceAdded = 0 /\ iceHeld = 0
    OBVIOUS
  <2>2. QED  BY <2>1 DEF HeldOrAdded
<1>6. Hands
  BY DEF Hands
<1>7. Correlated
  <2>1. net = <<>> /\ DOMAIN <<>> = {}
    OBVIOUS
  <2>2. WholeEvents(net) /\ ~AttachmentNext(net)
    BY <2>1 DEF WholeEvents, AttachmentNext
  <2>3. ~pending
    BY Zenon DEF Init
  <2>4. QED  BY <2>2, <2>3, Zenon DEF Correlated
<1>8. Unasked
  BY DEF Unasked
<1>9. NoneLost
  <2>1. /\ net = <<>> /\ inQ = <<>> /\ typedQ = <<>> /\ pushing = "none" /\ emitting = "none"
        /\ iceSeen = 0 /\ server.ice = 0
    OBVIOUS
  <2>2. InHand("ice", "none") = 0
    BY DEF InHand
  <2>3. QED  BY <2>1, <2>2, AmongEmpty DEF NoneLost, OnTheWay
<1>10. QED
  BY <1>1, <1>2, <1>3, <1>4, <1>5, <1>6, <1>7, <1>8, <1>9 DEF SignalingInv, Types

(* SignalingCorrect: types, what every task has in hand, the frames on the *)
(* network and the candidates, as one inductive invariant.                 *)
THEOREM SignalingCorrect == Spec => [](SignalingInv /\ Flags)
<1>1. SignalingInv /\ [Next]_vars => SignalingInv'
  BY TasksStay, QueuesStay, NetStays, MediaStays, WorldStays, HandsStay, CorrelatedStays,
     UnaskedStays, NoneLostStays, HeldOrAddedStays
     DEF SignalingInv, Types
<1>2. QED  BY <1>1, SignalingInitially, FlagsStay, PTL DEF Spec

(* SignalingTypeCorrect: no queue ever holds more than its capacity, and   *)
(* every task has in hand what it may send.                                *)
THEOREM SignalingTypeCorrect == Spec => []TypeOK
<1>1. SignalingInv /\ Flags => TypeOK
  BY Zenon DEF SignalingInv, Flags, Types, TaskTypes, QueueTypes, NetTypes, MediaTypes, WorldTypes, TypeOK
<1>2. QED  BY <1>1, SignalingCorrect, PTL

(* CandidatesAreKept: no remote candidate is lost on its way through the   *)
(* correlator, the handshake and the queues, whatever their capacities,    *)
(* nor by the driver, whether it comes before the offer or after it.       *)
THEOREM CandidatesAreKept == Spec => []CandidatesKept
<1>1. SignalingInv => CandidatesKept
  BY DEF SignalingInv, CandidatesKept
<1>2. QED  BY <1>1, SignalingCorrect, PTL

-----------------------------------------------------------------------------
(* The session waits for the acknowledgement.  What the session sends is   *)
(* traced back to its cause: until the server acknowledges, nothing that   *)
(* only the acknowledgement or the offer can cause is in any queue, in any *)
(* task's hands or on the way.                                             *)

Gated == {"trigger", "kickoff", "answer", "candidate"}
Free == Messages \ Gated
FreeEvents == Events \ {"ack", "offer"}
FreeFrames == {f \in Frames : f.name \notin {"ack", "offer"}}

QuietTasks ==
  /\ todo \in Seq(Free)
  /\ pushing \notin Gated \cup {"ack", "offer"}
  /\ emitting \notin {"ack", "offer"}
  /\ driver \notin {"send", "answer"}

QuietQueues ==
  /\ outQ \in Seq(Free) /\ signalQ = <<>>
  /\ inQ \in Seq(FreeEvents) /\ typedQ \in Seq(FreeEvents)

QuietWorld == net \in Seq(FreeFrames) /\ "kickoff" \notin server.seen

Quiet == QuietTasks /\ QuietQueues /\ QuietWorld /\ ~local

Acked == server.auth = "acked"

GateInv == SessionGated /\ (Acked \/ Quiet)

\* An acknowledgement is for good, and nothing is early after it.
LEMMA AckedForGood ==
  SignalingInv /\ Acked /\ [Next]_vars => Acked' /\ early' = early
<1> SUFFICES ASSUME SignalingInv, Acked, [Next]_vars
             PROVE  Acked' /\ early' = early
  OBVIOUS
<1> USE DEF Acked, SignalingInv, WorldTypes
<1>1. CASE Read
  BY <1>1 DEF Read
<1>2. CASE TakeOutbound \/ Push \/ PingTimeout \/ TransportStops \/ TranslatorStep \/ DriverStep
        \/ ConnectStep \/ Gather \/ Kill \/ PeerChanges \/ UNCHANGED vars
  <2>1. UNCHANGED worldVars
    BY <1>2 DEF TakeOutbound, Push, PingTimeout, TransportStops,
                TranslatorStep, TranslatorSends, Translate, Emit, TranslatorStops,
                DriverStep, Handle, Answer, TakeSignal, SendSignal, DriverEnds,
                ConnectStep, Dial, AwaitConnected, Ready, Gather, Kill, PeerChanges, vars
  <2>2. QED  BY <2>1 DEF worldVars
<1>3. CASE Write
  BY <1>3 DEF Write, Receives
<1>4. CASE Command \/ LinkDies
  BY <1>4 DEF Command, LinkDies
<1>5. CASE ServerSends
  <2>1. early' = early
    BY <1>5 DEF ServerSends
  <2>2. \/ server' = server
        \/ server' = [server EXCEPT !.seen = server.seen \cup {"offer"}]
        \/ server' = [server EXCEPT !.ice = server.ice + 1]
    <3>1. server.auth # "asked"
      OBVIOUS
    <3>2. QED  BY <1>5, <3>1, Zenon DEF ServerSends, ServerDoes
  <2>3. server'.auth = server.auth
    BY <2>2
  <2>4. QED  BY <2>1, <2>3
<1>6. QED
  BY <1>1, <1>2, <1>3, <1>4, <1>5 DEF Next, TransportStep, TransportWorks

\* The tasks, as long as it is quiet.
LEMMA QuietTasksStay ==
  SignalingInv /\ Quiet /\ ~Acked /\ [Next]_vars => QuietTasks' /\ (local' = local)
<1> SUFFICES ASSUME SignalingInv, Quiet, ~Acked, [Next]_vars
             PROVE  QuietTasks' /\ (local' = local)
  OBVIOUS
<1> USE DEF Quiet, QuietTasks, QuietQueues, QuietWorld, SignalingInv, Types
<1>1. CASE Read
  <2>1. Head(net) \in FreeFrames
    BY <1>1, TailKeeps DEF Read
  <2>2. Head(net).name \notin {"ack", "offer"} /\ Head(net).name \notin Gated
    BY <2>1 DEF FreeFrames, Frames, Plain, Binary, Gated
  <2>3. pushing' \in {pushing, "pong", "closed", Head(net).name}
    BY <1>1 DEF Read
  <2>4. UNCHANGED <<todo, emitting, driver, local>>
    BY <1>1 DEF Read, mediaVars
  <2>5. QED  BY <2>2, <2>3, <2>4 DEF Gated
<1>2. CASE TakeOutbound
  <2>1. Head(outQ) \in Free
    BY <1>2, TailKeeps DEF TakeOutbound
  <2>2. QED  BY <1>2, <2>1 DEF TakeOutbound, Free, Messages, Gated, mediaVars
<1>3. CASE Push \/ Write \/ PingTimeout \/ TransportStops
  BY <1>3 DEF Push, Write, PingTimeout, TransportStops, Gated, mediaVars
<1>4. CASE TranslatorSends
  <2>1. Tail(todo) \in Seq(Free)
    BY <1>4, TailKeeps DEF TranslatorSends, Purposes
  <2>2. QED  BY <1>4, <2>1 DEF TranslatorSends, mediaVars
<1>5. CASE Translate
  <2>1. Head(inQ) \in FreeEvents
    BY <1>5, TailKeeps DEF Translate
  <2>2. QED  BY <1>5, <2>1 DEF Translate, FreeEvents, mediaVars
<1>6. CASE Emit \/ TranslatorStops
  <2>1. /\ emitting' = "none" /\ (todo' = todo \/ todo' = <<>>)
        /\ UNCHANGED <<pushing, driver, local>>
    BY <1>6 DEF Emit, TranslatorStops, mediaVars
  <2>2. <<>> \in Seq(Free)
    OBVIOUS
  <2>3. QED  BY <2>1, <2>2
<1>7. CASE Handle
  <2>1. Head(typedQ) \in FreeEvents
    BY <1>7, TailKeeps DEF Handle
  <2>2. local' = local /\ driver' = driver
    BY <2>1, <1>7, HandleDoes DEF FreeEvents, OnIce
  <2>3. QED  BY <1>7, <2>2 DEF Handle
<1>8. CASE Answer \/ TakeSignal \/ SendSignal \/ DriverEnds
  BY <1>8 DEF Answer, TakeSignal, SendSignal, DriverEnds
<1>9. CASE Dial \/ Ready
  BY <1>9 DEF Dial, Ready, mediaVars
<1>10. CASE AwaitConnected
  <2>1. FirstMessages \in Seq(Free)
    BY DEF FirstMessages, Free, Messages, Gated
  <2>2. QED  BY <1>10, <2>1 DEF AwaitConnected, mediaVars
<1>11. CASE Gather \/ Kill \/ Command
  BY <1>11 DEF Gather, Kill, Command, taskVars, mediaVars
<1>12. CASE ServerSends \/ LinkDies \/ PeerChanges \/ UNCHANGED vars
  BY <1>12 DEF ServerSends, LinkDies, PeerChanges, vars, taskVars, mediaVars
<1>13. QED
  BY <1>1, <1>2, <1>3, <1>4, <1>5, <1>6, <1>7, <1>8, <1>9, <1>10, <1>11, <1>12
     DEF Next, TransportStep, TransportWorks, TranslatorStep, DriverStep, ConnectStep

\* The queues, as long as it is quiet.
LEMMA QuietQueuesStay ==
  SignalingInv /\ Quiet /\ [Next]_vars => QuietQueues'
<1> SUFFICES ASSUME SignalingInv, Quiet, [Next]_vars
             PROVE  QuietQueues'
  OBVIOUS
<1> USE DEF Quiet, QuietTasks, QuietQueues, SignalingInv, Types
<1>1. CASE Read \/ Write \/ PingTimeout \/ TransportStops \/ TranslatorStops \/ DriverEnds
  BY <1>1 DEF Read, Write, PingTimeout, TransportStops, TranslatorStops, DriverEnds, queueVars
<1>2. CASE TakeOutbound
  <2>1. Tail(outQ) \in Seq(Free)
    BY <1>2, TailKeeps DEF TakeOutbound
  <2>2. QED  BY <1>2, <2>1 DEF TakeOutbound
<1>3. CASE Push
  <2>1. pushing \in FreeEvents
    BY <1>3 DEF Push, Purposes, FreeEvents
  <2>2. Append(inQ, pushing) \in Seq(FreeEvents)
    BY <2>1, AppendKeeps
  <2>3. QED  BY <1>3, <2>2 DEF Push
<1>4. CASE TranslatorSends
  <2>1. Append(outQ, Head(todo)) \in Seq(Free)
    BY <1>4, TailKeeps, AppendKeeps DEF TranslatorSends, Purposes
  <2>2. QED  BY <1>4, <2>1 DEF TranslatorSends
<1>5. CASE Translate \/ AwaitConnected
  <2>1. inQ # <<>> => Tail(inQ) \in Seq(FreeEvents)
    BY TailKeeps
  <2>2. QED  BY <1>5, <2>1 DEF Translate, AwaitConnected
<1>6. CASE Emit
  <2>1. emitting \in FreeEvents
    BY <1>6 DEF Emit, Purposes, FreeEvents
  <2>2. Append(typedQ, emitting) \in Seq(FreeEvents)
    BY <2>1, AppendKeeps
  <2>3. QED  BY <1>6, <2>2 DEF Emit
<1>7. CASE Handle
  <2>1. Tail(typedQ) \in Seq(FreeEvents)
    BY <1>7, TailKeeps DEF Handle
  <2>2. QED  BY <1>7, <2>1 DEF Handle
<1>8. CASE Answer \/ TakeSignal \/ SendSignal \/ Gather
  BY <1>8 DEF Answer, TakeSignal, SendSignal, Gather
<1>9. CASE Dial
  <2>1. <<"connect">> \in Seq(Free)
    BY DEF Free, Messages, Gated
  <2>2. QED  BY <1>9, <2>1 DEF Dial
<1>10. CASE Ready \/ Kill
  BY <1>10 DEF Ready, Kill, queueVars
<1>11. CASE Command
  <2>1. Append(outQ, "command") \in Seq(Free)
    BY AppendKeeps DEF Free, Messages, Gated
  <2>2. QED  BY <1>11, <2>1 DEF Command
<1>12. CASE ServerSends \/ LinkDies \/ PeerChanges \/ UNCHANGED vars
  BY <1>12 DEF ServerSends, LinkDies, PeerChanges, vars, queueVars
<1>13. QED
  BY <1>1, <1>2, <1>3, <1>4, <1>5, <1>6, <1>7, <1>8, <1>9, <1>10, <1>11, <1>12
     DEF Next, TransportStep, TransportWorks, TranslatorStep, DriverStep, ConnectStep

\* The network and what the server has seen, until it acknowledges.
LEMMA QuietWorldStays ==
  SignalingInv /\ SessionGated /\ Quiet /\ ~Acked /\ [Next]_vars
    => (QuietWorld' \/ Acked') /\ SessionGated'
<1> SUFFICES ASSUME SignalingInv, SessionGated, Quiet, ~Acked, [Next]_vars
             PROVE  (QuietWorld' \/ Acked') /\ SessionGated'
  OBVIOUS
<1> USE DEF Quiet, QuietTasks, QuietWorld, SignalingInv, Types, SessionGated
<1>1. CASE Read
  <2>1. Tail(net) \in Seq(FreeFrames)
    BY <1>1, TailKeeps DEF Read
  <2>2. QED  BY <1>1, <2>1 DEF Read
<1>2. CASE Write
  <2>1. pushing \in Free
    BY <1>2 DEF Write, Purposes, Free
  <2>2. [kind |-> "text", name |-> "connected"] \in FreeFrames
    BY DEF FreeFrames, Frames, Plain
  <2>3. Append(net, [kind |-> "text", name |-> "connected"]) \in Seq(FreeFrames)
    BY <2>2, AppendKeeps
  <2>4. CASE UNCHANGED <<server, early, net>>
    BY <2>4
  <2>5. CASE Receives(pushing)
    <3>1. net' \in Seq(FreeFrames)
      BY <2>3, <2>5 DEF Receives
    <3>2. early' \subseteq {"command"}
      BY <2>1, <2>5 DEF Receives, Free, Messages, Gated
    <3>3. server'.seen = server.seen \cup ({pushing} \cap {"answer"})
      BY <2>5 DEF Receives, Acked, WorldTypes
    <3>4. QED  BY <3>1, <3>2, <3>3
  <2>6. QED  BY <1>2, <2>4, <2>5 DEF Write
<1>3. CASE TakeOutbound \/ Push \/ PingTimeout \/ TransportStops \/ TranslatorStep \/ DriverStep
        \/ ConnectStep \/ Gather \/ Kill \/ PeerChanges \/ UNCHANGED vars
  <2>1. UNCHANGED worldVars
    BY <1>3 DEF TakeOutbound, Push, PingTimeout, TransportStops,
                TranslatorStep, TranslatorSends, Translate, Emit, TranslatorStops,
                DriverStep, Handle, Answer, TakeSignal, SendSignal, DriverEnds,
                ConnectStep, Dial, AwaitConnected, Ready, Gather, Kill, PeerChanges, vars
  <2>2. QED  BY <2>1 DEF worldVars
<1>4. CASE Command \/ LinkDies
  BY <1>4 DEF Command, LinkDies
<1>5. CASE ServerSends
  <2>1. early' = early
    BY <1>5 DEF ServerSends
  <2>2. CASE server.auth = "asked" /\ \E ok \in BOOLEAN :
               /\ server' = [server EXCEPT !.auth = IF ok THEN "acked" ELSE "refused"]
               /\ net' = net \o Text(IF ok THEN "ack" ELSE "nack")
    <3>1. CASE server' = [server EXCEPT !.auth = "acked"]
      BY <2>1, <3>1 DEF Acked, WorldTypes
    <3>2. CASE server' = [server EXCEPT !.auth = "refused"] /\ net' = net \o Text("nack")
      <4>1. Text("nack") \in Seq(FreeFrames)
        BY FramesOf DEF FreeFrames, Frames, Plain
      <4>2. net' \in Seq(FreeFrames)
        BY <3>2, <4>1, ConcatKeeps
      <4>3. server'.seen = server.seen
        BY <3>2 DEF WorldTypes
      <4>4. QED  BY <2>1, <4>2, <4>3
    <3>3. QED  BY <2>2, <3>1, <3>2
  <2>3. CASE /\ server' = server
             /\ \/ net' = net \o Text("ping") \/ net' = net \o Bytes("status")
                \/ net' = net \o Text("disconnect") \/ net' = net \o Text("close")
    <3>1. /\ Text("ping") \in Seq(FreeFrames) /\ Text("disconnect") \in Seq(FreeFrames)
          /\ Text("close") \in Seq(FreeFrames) /\ Bytes("status") \in Seq(FreeFrames)
      BY FramesOf DEF FreeFrames, Frames, Plain, Binary
    <3>2. \A q \in Seq(FreeFrames) : net \o q \in Seq(FreeFrames)
      BY ConcatKeeps
    <3>3. net' \in Seq(FreeFrames)
      <4>1. \E q \in Seq(FreeFrames) : net' = net \o q
        BY <2>3, <3>1, Zenon
      <4>2. QED  BY <3>2, <4>1
    <3>4. QED  BY <2>1, <2>3, <3>3
  <2>4. QED  BY <1>5, <2>2, <2>3, Zenon DEF ServerSends, ServerDoes
<1>6. QED
  BY <1>1, <1>2, <1>3, <1>4, <1>5 DEF Next, TransportStep, TransportWorks

(* SessionIsGated: the server never sees a trigger, the kick-off, the      *)
(* answer or a candidate before it has acknowledged the authentication.    *)
THEOREM SessionIsGated == Spec => []SessionGated
<1>1. Init => GateInv
  <2>1. Init => QuietTasks /\ QuietQueues /\ QuietWorld
    BY DEF Init, QuietTasks, QuietQueues, QuietWorld, Gated
  <2>2. Init => ~local
    BY Zenon DEF Init
  <2>3. Init => SessionGated
    BY DEF Init, SessionGated
  <2>4. QED  BY <2>1, <2>2, <2>3 DEF GateInv, Quiet
<1>2. SignalingInv /\ GateInv /\ [Next]_vars => GateInv'
  <2>1. CASE Acked
    BY <2>1, AckedForGood DEF GateInv, SessionGated
  <2>2. CASE ~Acked
    <3>1. SignalingInv /\ GateInv /\ [Next]_vars => Quiet /\ SessionGated
      BY <2>2, Zenon DEF GateInv
    <3>2. QED
      BY <2>2, <3>1, QuietTasksStay, QuietQueuesStay, QuietWorldStays, Zenon DEF GateInv, Quiet
  <2>3. QED  BY <2>1, <2>2
<1>3. GateInv => SessionGated
  BY DEF GateInv
<1>4. QED  BY <1>1, <1>2, <1>3, SignalingCorrect, PTL DEF Spec
=============================================================================
