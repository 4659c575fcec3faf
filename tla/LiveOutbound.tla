---------------------------- MODULE LiveOutbound ----------------------------
(***************************************************************************)
(* The registry of the live signaling channel (src/live_outbound.rs), as   *)
(* WebRtcFactory::connect() and the Joiner it returns as StopHandle keep   *)
(* it (src/supervisor/webrtc_factory.rs), composed with the Supervisor.    *)
(*                                                                         *)
(* connect() registers the outbound of its signaling channel long before   *)
(* it returns.  Every Joiner that is dropped spawns a task that clears the *)
(* registry, whoever registered there last.  A Joiner is dropped when      *)
(* connect() fails after the registration, when the watchdog replaces the  *)
(* StopHandle by a new one, when it discards a stale one, and at teardown. *)
(***************************************************************************)
EXTENDS Supervisor

CONSTANT MaxClears  \* bound: clearing tasks that are spawned and have not run

ASSUME MaxClearsAssumption == MaxClears \in Nat \ {0}

VARIABLES
  live,        \* None, or the channel whose session's outbound is registered
  registered,  \* the channels whose connect() under way has registered
  clears       \* the number of clearing tasks that have not run yet

liveVars == <<live, registered, clears>>
allVars == <<vars, live, registered, clears>>

LiveTypeOK ==
  /\ live \in Viewers \cup {None}
  /\ registered \subseteq Viewers
  /\ clears \in 0..MaxClears

LiveInit ==
  /\ Init
  /\ live = None
  /\ registered = {}
  /\ clears = 0

-----------------------------------------------------------------------------
\* A connect() is under way on channel c, from subscribe() or the watchdog.
Attempting(c) == pc[c] = "connecting" \/ wd[c] = "connecting"

\* Mutant: a Joiner that does not clear.
DropsNothing(n) == UNCHANGED clears

\* Dropping n Joiners spawns n clearing tasks.
Drops(n) ==
  /\ clears + n <= MaxClears
  /\ clears' = clears + n

\* connect(): signaling is up, its outbound is registered.
Register(c) ==
  /\ Attempting(c)
  /\ c \notin registered
  /\ live' = c
  /\ registered' = registered \cup {c}
  /\ UNCHANGED <<vars, clears>>

\* connect() returns a session: the media is ready.
LiveConnectOk(c) ==
  /\ c \in registered
  /\ ConnectOk(c) \/ WdConnectOk(c)
  /\ registered' = registered \ {c}
  /\ UNCHANGED <<live, clears>>

\* connect() fails, before it registered or while it waits for the media; in
\* the latter case the early return drops the Joiner.
LiveConnectErr(c) ==
  /\ ConnectErr(c) \/ WdConnectErr(c)
  /\ Drops(IF c \in registered THEN 1 ELSE 0)
  /\ registered' = registered \ {c}
  /\ UNCHANGED live

\* The watchdog drops a Joiner either way: the one it replaces, or the stale one.
LiveWdInstall(c) ==
  /\ WdInstall(c)
  /\ Drops(1)
  /\ UNCHANGED <<live, registered>>

\* teardown_session() drops the Joiner in `stop`, if it goes that far.
LiveTeardown(t) ==
  /\ Teardown(t)
  /\ Drops(IF stop # None /\ stop' = None THEN 1 ELSE 0)
  /\ UNCHANGED <<live, registered>>

\* Mutant: a clearing that no drop accounts for.
ClearUnasked ==
  /\ clears' = clears - 1
  /\ live' = None
  /\ UNCHANGED <<vars, registered>>

\* A clearing task gets the registry's lock.
Clear ==
  /\ clears > 0
  /\ clears' = clears - 1
  /\ live' = None
  /\ UNCHANGED <<vars, registered>>

\* The steps of the Supervisor that the registry has no part in.
Unrelated ==
  /\ \/ \E v \in Viewers : Count(v) \/ ViewerStep(v) \/ Leave(v)
     \/ EventLoop
     \/ \E t \in Viewers : TimerExpires(t)
     \/ \E c \in Viewers : WdLocalStep(c) \/ SessionEnds(c)
     \/ Refill
     \/ AuthFails
  /\ UNCHANGED liveVars

LiveNext ==
  \/ \E c \in Viewers :
       \/ Register(c) \/ LiveConnectOk(c) \/ LiveConnectErr(c)
       \/ LiveWdInstall(c) \/ LiveTeardown(c)
  \/ Clear
  \/ Unrelated

LiveSpec == LiveInit /\ [][LiveNext]_allVars

-----------------------------------------------------------------------------
\* Nothing that concerns the registry is under way.
Settled ==
  /\ clears = 0
  /\ registered = {}
  /\ \A c \in Viewers : pc[c] # "connected" /\ wd[c] # "connected"

\* Once things have settled, whatever is registered belongs to the session that
\* is installed: a command never goes to a session that was torn down, replaced
\* or discarded, in whatever order connects, drops and clearing tasks ran.
LiveIsInstalled == Settled /\ live # None => stop = live

\* "Populated on every successful connect; cleared on session tear-down."
\* Once things have settled, a session that is up has its outbound registered.
\* Violated: after a reconnect the old Joiner's clearing task removes the
\* outbound of the new session.
SessionUpIsLive ==
  Settled /\ state = "Streaming" /\ sess[rtp_tx] = "up" => live = rtp_tx
=============================================================================
