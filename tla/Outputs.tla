------------------------------ MODULE Outputs ------------------------------
(***************************************************************************)
(* The consumers of the camera: RTSP connections, the snapshot worker and  *)
(* the MQTT hub (Cmd::Serve in src/main.rs starts them side by side).  They *)
(* share nothing that any of them writes except MQTT's request queue,      *)
(* where the hub's model has the snapshots as a publisher.  One run checks *)
(* them in the configurations that have one of them at work: a proxy with  *)
(* neither broker nor snapshots that serves viewers, one that takes        *)
(* snapshots, and one that talks to the broker.                            *)
(***************************************************************************)
EXTENDS Rtsp, Snapshot, Mqtt

vars == <<rtspVars, snapshotVars, mqttVars>>

TypeOK == RtspTypeOK /\ SnapshotTypeOK /\ MqttTypeOK

\* Bound: the parts are not combined.
OnePart == worker = "off" \/ loop = "off"

Init == RtspInit /\ SnapshotInit /\ MqttInit /\ OnePart

Next ==
  \/ worker = "off" /\ loop = "off" /\ RtspNext /\ UNCHANGED <<snapshotVars, mqttVars>>
  \/ SnapshotNext /\ UNCHANGED <<rtspVars, mqttVars>>
  \/ MqttNext /\ UNCHANGED <<rtspVars, snapshotVars>>

Spec == Init /\ [][Next]_vars

FairSpec == Spec /\ RtspFairness /\ SnapshotFairness /\ MqttFairness
=============================================================================
