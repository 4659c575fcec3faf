---------------------------- MODULE SharedCamera ----------------------------
(***************************************************************************)
(* What the supervisor promises (src/supervisor/mod.rs): one camera that   *)
(* any number of viewers share.  It is brought up only when somebody is    *)
(* there, on a channel that whoever reads keeps until they let go of it;   *)
(* when the camera's session ends by itself a new one is brought up behind *)
(* the same channel, and never while the old one still runs; and it is     *)
(* closed only when nobody is left.  Who connects, who waits for whom, the *)
(* events, timers and watchdogs are the supervisor's own affair.           *)
(***************************************************************************)
CONSTANTS
  Viewers,  \* calls of subscribe(); a channel bears the name of the call that opened it
  None      \* no channel

VARIABLES
  users,    \* who has asked for the camera and has not been given back
  reads,    \* the channel each of them reads
  phase,    \* what the supervisor says of the session
  channel,  \* the channel of the session
  link      \* the session with the camera behind it: none, up, or ended by itself

cameraVars == <<users, reads, phase, channel, link>>

Init ==
  /\ users = {} /\ reads = [v \in Viewers |-> None]
  /\ phase = "Idle" /\ channel = None /\ link = "none"

\* Somebody asks for the camera, and goes away again after letting go of it.
Arrive(v) ==
  /\ v \notin users
  /\ users' = users \cup {v}
  /\ UNCHANGED <<reads, phase, channel, link>>

Depart(v) ==
  /\ v \in users /\ reads[v] = None
  /\ users' = users \ {v}
  /\ UNCHANGED <<reads, phase, channel, link>>

\* The camera is brought up, or it turns out that it cannot be.
Begin ==
  /\ phase = "Idle" /\ users # {}
  /\ phase' = "Connecting"
  /\ UNCHANGED <<users, reads, channel, link>>

Open(v) ==
  /\ phase = "Connecting" /\ v \in users
  /\ phase' = "Streaming" /\ channel' = v /\ link' \in {"up", "ended"}
  /\ UNCHANGED <<users, reads>>

GiveUp ==
  /\ phase = "Connecting"
  /\ phase' = "Idle"
  /\ UNCHANGED <<users, reads, channel, link>>

\* subscribe() returns a Subscription, and the caller drops it.
Take(v) ==
  /\ phase = "Streaming" /\ v \in users /\ reads[v] = None
  /\ reads' = [reads EXCEPT ![v] = channel]
  /\ UNCHANGED <<users, phase, channel, link>>

Release(v) ==
  /\ reads[v] # None
  /\ reads' = [reads EXCEPT ![v] = None]
  /\ UNCHANGED <<users, phase, channel, link>>

\* The session ends by itself, that is seen, and there is a new one.
Lose == link = "up" /\ link' = "ended" /\ UNCHANGED <<users, reads, phase, channel>>

Notice == link = "ended" /\ link' = "none" /\ UNCHANGED <<users, reads, phase, channel>>

Renew ==
  /\ phase = "Streaming" /\ link = "none"
  /\ link' \in {"up", "ended"}
  /\ UNCHANGED <<users, reads, phase, channel>>

\* Nobody is left.
Close ==
  /\ phase = "Streaming" /\ users = {}
  /\ phase' = "Idle" /\ channel' = None /\ link' = "none"
  /\ UNCHANGED <<users, reads>>

Next ==
  \/ \E v \in Viewers : Arrive(v) \/ Depart(v) \/ Open(v) \/ Take(v) \/ Release(v)
  \/ Begin \/ GiveUp \/ Lose \/ Notice \/ Renew \/ Close

Spec == Init /\ [][Next]_cameraVars
=============================================================================
