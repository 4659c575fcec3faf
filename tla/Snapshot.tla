------------------------------ MODULE Snapshot ------------------------------
(***************************************************************************)
(* The snapshot worker, the consumer task that it starts on the broadcast  *)
(* of the camera's RTP packets, and the reassembler of H.264 units that    *)
(* the consumer feeds (src/snapshot/mod.rs, src/snapshot/h264.rs).         *)
(*                                                                         *)
(* A picture is sent as three packets: the parameter sets together         *)
(* (STAP-A) and the key frame in two fragments (FU-A).  Packets are        *)
(* numbered modulo Numbers, so that a packet's number says what it is.  Of *)
(* a captured IDR the model keeps whether it is whole, and its connection. *)
(***************************************************************************)
EXTENDS Integers, Sequences

CONSTANTS
  SnapshotOn,      \* whether the interval is not zero
  Pictures,        \* the sequence numbers wrap after this many pictures
  Backlog,         \* capacity of the broadcast channel (256 in the code)
  Flight,          \* bound: packets on their way from the camera
  MaxConnections   \* bound: connections to the camera

ASSUME SnapshotAssumption ==
  /\ SnapshotOn \subseteq BOOLEAN
  /\ Pictures \in Nat /\ Pictures >= 4
  /\ Backlog \in Nat \ {0} /\ Flight \in Nat \ {0}
  /\ MaxConnections \in Nat

VARIABLES
  worker,      \* run(): on, or off because the interval is zero
  noticed,     \* a state change that run() has not looked at
  consumer,    \* the JoinHandle current_session: none, running or finished
  tuned,       \* the broadcast that the consumer receives
  backlog,     \* packets it has not received yet
  lagging,     \* the ring overran it
  partial,     \* Reassembler::fu_a_buf, empty for None; its last packet is last_seq
  latest,      \* LatestParams: SPS and PPS there or not, IDR, and connection of the IDR
  shown,       \* connection of the picture published last
  streaming,   \* supervisor: the state is Streaming, and it holds a broadcast channel
  sender,      \* number of its latest broadcast channel
  linked,      \* a session with the camera is up and sends to that channel
  connection,  \* connections made to the camera
  next,        \* number of the camera's next packet
  flight,      \* packets on their way
  calm         \* nothing is lost any more, the connection neither

workerVars == <<worker, noticed, consumer, latest, shown>>
consumerVars == <<tuned, backlog, lagging, partial>>
linkVars == <<streaming, sender, linked>>
cameraVars == <<linkVars, connection, next, flight, calm>>
snapshotVars == <<workerVars, consumerVars, cameraVars>>

Numbers == 3 * Pictures

\* Bound: the camera has not used up the numbers (65536 in RTP) before the consumer has
\* received a packet, although it sends Flight + 1 and begins anew on every connection.
ASSUME NumbersAssumption == MaxConnections * (Flight + 4) + Flight <= Numbers

After(n) == (n + 1) % Numbers
Ahead(n, m) == (n - m) % Numbers
Packets == [number : 0..(Numbers - 1), connection : 1..MaxConnections]
IsParameters(p) == p.number % 3 = 0
IsStart(p) == p.number % 3 = 1

SnapshotTypeOK ==
  /\ worker \in {"off", "on"}
  /\ noticed \in BOOLEAN /\ lagging \in BOOLEAN /\ calm \in BOOLEAN
  /\ consumer \in {"none", "running", "finished"}
  /\ tuned \in 0..MaxConnections
  /\ backlog \in Seq(Packets) /\ Len(backlog) <= Backlog
  /\ partial \in Seq(Packets)
  /\ latest \in [parameters : {"none", "some"}, idr : {"none", "whole", "broken"},
                of : 0..MaxConnections]
  /\ shown \in 0..MaxConnections /\ connection \in 0..MaxConnections
  /\ streaming \in BOOLEAN /\ sender \in 0..MaxConnections /\ linked \in BOOLEAN
  /\ next \in 0..(Numbers - 1)
  /\ flight \subseteq Packets

NoParams == [parameters |-> "none", idr |-> "none", of |-> 0]

SnapshotInit ==
  /\ worker \in {IF on THEN "on" ELSE "off" : on \in SnapshotOn}
  /\ noticed = FALSE /\ consumer = "none" /\ tuned = 0
  /\ backlog = <<>> /\ lagging = FALSE /\ partial = <<>>
  /\ latest = NoParams /\ shown = 0
  /\ streaming = FALSE /\ sender = 0 /\ linked = FALSE
  /\ connection = 0 /\ next = 0 /\ flight = {} /\ calm = FALSE

-----------------------------------------------------------------------------
\* Mutant: a consumer that has finished is not replaced.
StartOnce == consumer = "none"

NeedsConsumer == consumer # "running"

\* The top of run()'s loop looks at the supervisor: start a consumer, or abort it and
\* forget what it has captured.  One that is just storing an IDR may do so after all.
Look ==
  IF streaming THEN
    /\ IF NeedsConsumer
         THEN /\ consumer' = "running" /\ tuned' = sender
              /\ backlog' = <<>> /\ lagging' = FALSE /\ partial' = <<>>
         ELSE UNCHANGED <<consumer, consumerVars>>
    /\ UNCHANGED latest
  ELSE IF consumer # "none" THEN
    /\ consumer' = "none"
    /\ latest' \in {NoParams, [latest EXCEPT !.parameters = "none"]}
    /\ tuned' = 0 /\ backlog' = <<>> /\ lagging' = FALSE /\ partial' = <<>>
  ELSE UNCHANGED <<consumer, latest, consumerVars>>

\* state_rx.changed(): several changes are seen as one.
Changed ==
  /\ worker = "on" /\ noticed
  /\ noticed' = FALSE
  /\ Look
  /\ UNCHANGED <<worker, shown, cameraVars>>

\* The interval is over: a complete triple is decoded and published.
Tick ==
  /\ worker = "on"
  /\ shown' = IF streaming /\ latest.parameters # "none" /\ latest.idr # "none"
               THEN latest.of ELSE shown
  /\ Look
  /\ UNCHANGED <<worker, noticed, cameraVars>>

-----------------------------------------------------------------------------
\* Mutant: a gap in the sequence numbers is not looked for.
KeptBlindly(p) == partial

\* push(): a gap costs the unit in progress.
Kept(p) ==
  IF partial # <<>> /\ p.number # After(partial[Len(partial)].number) THEN <<>> ELSE partial

Whole(nal) == nal[2] = [nal[1] EXCEPT !.number = After(nal[1].number)]

\* consume_rtp() receives a packet.
Receive ==
  /\ consumer = "running" /\ ~lagging /\ backlog # <<>>
  /\ LET p == Head(backlog) IN
       /\ IF IsParameters(p)
            THEN latest' = [latest EXCEPT !.parameters = "some"] /\ partial' = Kept(p)
          ELSE IF IsStart(p)
            THEN partial' = <<p>> /\ UNCHANGED latest
          ELSE /\ partial' = <<>>
               /\ latest' = IF Kept(p) = <<>> THEN latest
                            ELSE [latest EXCEPT
                              !.idr = IF Whole(Append(Kept(p), p)) THEN "whole" ELSE "broken",
                              !.of = p.connection]
  /\ backlog' = Tail(backlog)
  /\ UNCHANGED <<worker, noticed, consumer, shown, tuned, lagging, cameraVars>>

\* RecvError::Lagged: a new reassembler.
Lag ==
  /\ consumer = "running" /\ lagging
  /\ lagging' = FALSE /\ partial' = <<>>
  /\ UNCHANGED <<workerVars, tuned, backlog, cameraVars>>

\* RecvError::Closed: the supervisor has given this broadcast up.
Finish ==
  /\ consumer = "running" /\ ~lagging /\ backlog = <<>>
  /\ tuned # sender \/ ~streaming
  /\ consumer' = "finished"
  /\ UNCHANGED <<worker, noticed, latest, shown, consumerVars, cameraVars>>

-----------------------------------------------------------------------------
(* The supervisor.  A connection begins with a packet that does not        *)
(* continue the numbers of the one before.                                 *)
NewConnection ==
  /\ connection < MaxConnections
  /\ linked' = TRUE /\ connection' = connection + 1
  /\ next' = 3 * ((next \div 3 + 1) % Pictures)
  /\ flight' = {} /\ noticed' = TRUE
  /\ UNCHANGED <<worker, consumer, latest, shown, consumerVars, calm>>

\* subscribe() connects, with a new broadcast channel.
Connects == ~streaming /\ streaming' = TRUE /\ sender' = sender + 1 /\ NewConnection

\* The connection is lost by itself.  The state stays Streaming; nobody is told but the
\* watchdog, which backs off.
LinkLost ==
  /\ linked /\ ~calm
  /\ linked' = FALSE /\ flight' = {}
  /\ UNCHANGED <<workerVars, consumerVars, streaming, sender, connection, next, calm>>

\* The watchdog has connected again, to the same channel.
Reconnects == streaming /\ ~linked /\ NewConnection /\ UNCHANGED <<streaming, sender>>

\* The session is torn down, whether or not it was alive; the channel closes.
Teardown ==
  /\ streaming /\ ~calm
  /\ streaming' = FALSE /\ linked' = FALSE
  /\ flight' = {} /\ noticed' = TRUE
  /\ UNCHANGED <<worker, consumer, latest, shown, consumerVars, sender, connection, next, calm>>

\* The broadcast channel takes a packet; a full ring overwrites the oldest.
Broadcast(p) ==
  /\ IF consumer = "running" /\ tuned = sender
       THEN /\ lagging' = (lagging \/ Len(backlog) = Backlog)
            /\ backlog' = Append(IF Len(backlog) = Backlog THEN Tail(backlog) ELSE backlog, p)
       ELSE UNCHANGED <<lagging, backlog>>

\* The camera sends its next packet; when all is calm it arrives at once and the
\* consumer keeps up with it.
CameraSends ==
  /\ linked
  /\ LET p == [number |-> next, connection |-> connection] IN
       IF calm THEN backlog = <<>> /\ Broadcast(p) /\ UNCHANGED flight
               ELSE /\ \A q \in flight : Ahead(next, q.number) <= Flight
                    /\ flight' = flight \cup {p} /\ UNCHANGED <<lagging, backlog>>
  /\ next' = After(next)
  /\ UNCHANGED <<workerVars, tuned, partial, linkVars, connection, calm>>

\* Packets arrive in any order and more than once.
Arrives ==
  /\ ~calm
  /\ \E p \in flight, again \in BOOLEAN :
       /\ Broadcast(p)
       /\ flight' = IF again THEN flight ELSE flight \ {p}
  /\ UNCHANGED <<workerVars, tuned, partial, linkVars, connection, next, calm>>

\* Packets are lost, but never a whole cycle of numbers: the one before is on its way.
Lost ==
  /\ ~calm
  /\ \E p, q \in flight : p.number = After(q.number) /\ flight' = flight \ {p}
  /\ UNCHANGED <<workerVars, consumerVars, linkVars, connection, next, calm>>

\* From here on the connection stays and nothing is lost.
Calms ==
  /\ ~calm /\ linked /\ flight = {}
  /\ calm' = TRUE
  /\ UNCHANGED <<workerVars, consumerVars, linkVars, connection, next, flight>>

WorkerStep == Changed \/ Tick
ConsumerStep == Receive \/ Lag \/ Finish

SnapshotNext ==
  /\ worker # "off"
  /\ \/ WorkerStep \/ ConsumerStep
     \/ Connects \/ LinkLost \/ Reconnects \/ Teardown
     \/ CameraSends \/ Arrives \/ Lost \/ Calms

SnapshotSpec == SnapshotInit /\ [][SnapshotNext]_snapshotVars

\* The tasks run, and a camera that is connected sends.
SnapshotFairness ==
  /\ WF_snapshotVars(Changed) /\ WF_snapshotVars(Tick)
  /\ WF_snapshotVars(ConsumerStep)
  /\ WF_snapshotVars(calm /\ CameraSends)

-----------------------------------------------------------------------------
(* WholeNals: a key frame that may be decoded is made of the fragments of  *)
(* one picture of one connection, all of them and in their order, although *)
(* packets are lost, repeated and reordered on the way, the ring overruns  *)
(* the consumer, sequence numbers wrap, and the consumer survives a        *)
(* reconnect that the worker did not see (h264.rs:59).                     *)
WholeNals == latest.idr # "broken"

(* SnapshotRecovers: when the camera stays and the network calms down, the *)
(* pictures that are published become those of the current connection and  *)
(* stay so, whichever state changes run() has missed, though its consumer  *)
(* may have ended behind its back (snapshot/mod.rs:56).                    *)
SnapshotRecovers ==
  <>[](worker # "off" /\ calm) => <>[](shown = connection)
=============================================================================
