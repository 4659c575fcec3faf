------------------------- MODULE LiveOutboundProofs -------------------------
(***************************************************************************)
(* Proofs about LiveOutbound: composing the Supervisor with the registry   *)
(* takes nothing away from what is proved of it, and the registry never    *)
(* settles on a session that is gone.                                      *)
(***************************************************************************)
EXTENDS LiveOutbound, SupervisorProofs

\* A step of the composition is a step of the Supervisor, or leaves it alone.
LEMMA LiveStepIsStep == [LiveNext]_allVars => [Next]_vars
<1> SUFFICES ASSUME [LiveNext]_allVars PROVE [Next]_vars
  OBVIOUS
<1>1. ASSUME NEW c \in Viewers, Register(c) PROVE UNCHANGED vars
  BY <1>1 DEF Register
<1>2. ASSUME NEW c \in Viewers,
             LiveConnectOk(c) \/ LiveConnectErr(c) \/ LiveWdInstall(c) \/ LiveTeardown(c)
      PROVE Next
  BY <1>2 DEF LiveConnectOk, LiveConnectErr, LiveWdInstall, LiveTeardown, Next, ConnectReturns,
    WdConnectReturns, WdStep, TimerStep
<1>3. CASE Clear
  BY <1>3 DEF Clear
<1>4. CASE Unrelated
  BY <1>4 DEF Unrelated, Next, TimerStep, WdStep
<1>5. CASE UNCHANGED allVars
  BY <1>5 DEF allVars
<1> QED
  BY <1>1, <1>2, <1>3, <1>4, <1>5 DEF LiveNext

\* The composition implements the Supervisor, so that every invariant proved of
\* the Supervisor holds of a Supervisor that runs on WebRtcFactory.
THEOREM LiveImplementsSupervisor == LiveSpec => Spec
<1>1. LiveInit => Init
  BY DEF LiveInit
<1> QED
  BY <1>1, LiveStepIsStep, PTL DEF LiveSpec, Spec

-----------------------------------------------------------------------------
\* The registry and its clearing tasks stay in their domains.
THEOREM LiveTypeCorrect == LiveSpec => []LiveTypeOK
<1>1. LiveInit => LiveTypeOK
  BY MaxClearsAssumption DEF LiveInit, LiveTypeOK
<1>2. LiveTypeOK /\ [LiveNext]_allVars => LiveTypeOK'
  <2> SUFFICES ASSUME LiveTypeOK, [LiveNext]_allVars PROVE LiveTypeOK'
    OBVIOUS
  <2> USE MaxClearsAssumption DEF LiveTypeOK, Drops
  <2>1. ASSUME NEW c \in Viewers, Register(c) \/ LiveConnectOk(c) PROVE LiveTypeOK'
    BY <2>1 DEF Register, LiveConnectOk
  <2>2. ASSUME NEW c \in Viewers, LiveConnectErr(c) PROVE LiveTypeOK'
    BY <2>2 DEF LiveConnectErr
  <2>3. ASSUME NEW c \in Viewers, LiveWdInstall(c) \/ LiveTeardown(c) PROVE LiveTypeOK'
    BY <2>3 DEF LiveWdInstall, LiveTeardown
  <2>4. CASE Clear
    BY <2>4 DEF Clear
  <2>5. CASE Unrelated \/ UNCHANGED allVars
    BY <2>5 DEF Unrelated, liveVars, allVars
  <2> QED
    BY <2>1, <2>2, <2>3, <2>4, <2>5 DEF LiveNext
<1> QED
  BY <1>1, <1>2, PTL DEF LiveSpec

-----------------------------------------------------------------------------
(***************************************************************************)
(* While no clearing task is pending, what is registered has a Joiner that *)
(* has not been dropped: in connect(), in the hands of whoever called it,  *)
(* or installed.                                                           *)
(***************************************************************************)

HasJoiner(c) == c \in registered \/ pc[c] = "connected" \/ wd[c] = "connected" \/ stop = c

LiveHasJoiner == clears = 0 /\ live # None => HasJoiner(live)

\* The Supervisor's own steps do not take a Joiner away.
LEMMA UnrelatedKeepsJoiner ==
  ASSUME CountInv, SessionInv, NEW c \in Viewers, Unrelated, HasJoiner(c)
  PROVE  HasJoiner(c)'
<1> USE DEF HasJoiner, sessionVars, wdVars, timerVars, liveVars, Goto, WdGoto
<1>0. pc \in [Viewers -> PcStates] /\ wd \in [Viewers -> WdStates] /\ registered' = registered
  BY DEF CountInv, TypeOK, Unrelated
<1>1. ASSUME NEW v \in Viewers, Install(v) PROVE HasJoiner(c)'
  <2>1. stop = None /\ \A u \in Viewers : pc[u] = "connected" => u = v
    BY <1>1 DEF Install, SessionInv, SessionConsistent, OneConnector, Connectors
  <2>2. stop' = v /\ (wd[c] = "connected" /\ c # v => wd'[c] = "connected")
    BY <1>0, <1>1 DEF Install
  <2> QED
    BY <1>0, <2>1, <2>2, NoneAssumption
<1>2. ASSUME NEW v \in Viewers, Count(v) \/ Attach(v) \/ RejectNoBudget(v) \/ JoinConnecting(v)
      PROVE HasJoiner(c)'
  BY <1>0, <1>2 DEF Count, Free, Attach, RejectNoBudget, JoinConnecting
<1>3. ASSUME NEW v \in Viewers,
             JoinStreaming(v) \/ SubscribeWatch(v) \/ CheckWatch(v) \/ Subscribe(v) \/ Panic(v)
      PROVE HasJoiner(c)'
  BY <1>0, <1>3 DEF JoinStreaming, SubscribeWatch, CheckWatch, Subscribe, Panic
<1>4. ASSUME NEW v \in Viewers, StartConnect(v) \/ RollBack(v) PROVE HasJoiner(c)'
  BY <1>0, <1>4 DEF StartConnect, RollBack, Publish, Woken
<1>5. ASSUME NEW v \in Viewers, Detach(v) \/ Leave(v) PROVE HasJoiner(c)'
  BY <1>0, <1>5 DEF Detach, Leave
<1>6. ASSUME EventLoop \/ Refill \/ AuthFails PROVE HasJoiner(c)'
  BY <1>0, <1>6 DEF EventLoop, OnAttached, OnDetached, Refill, AuthFails
<1>7. ASSUME NEW t \in Viewers, TimerExpires(t) PROVE HasJoiner(c)'
  BY <1>0, <1>7 DEF TimerExpires
<1>8. ASSUME NEW d \in Viewers, WdLocalStep(d) \/ SessionEnds(d) PROVE HasJoiner(c)'
  BY <1>0, <1>8 DEF WdLocalStep, WdStopped, WdEnded, WdSleep, WdWake, WdAttempt, SessionEnds
<1> QED
  BY <1>1, <1>2, <1>3, <1>4, <1>5, <1>6, <1>7, <1>8 DEF Unrelated, ViewerStep

\* Every step keeps the registry's entry backed by a Joiner.
LEMMA LiveStep ==
  ASSUME CountInv, SessionInv, LiveTypeOK, LiveHasJoiner, [LiveNext]_allVars
  PROVE  LiveHasJoiner'
<1>0. /\ pc \in [Viewers -> PcStates] /\ wd \in [Viewers -> WdStates]
      /\ clears \in Nat /\ live \in Viewers \cup {None}
  BY MaxClearsAssumption DEF CountInv, TypeOK, LiveTypeOK
<1> USE DEF LiveHasJoiner, HasJoiner, Drops
<1>1. ASSUME NEW c \in Viewers, Register(c) PROVE LiveHasJoiner'
  BY <1>0, <1>1 DEF Register, vars
<1>2. ASSUME NEW c \in Viewers, LiveConnectOk(c) PROVE LiveHasJoiner'
  BY <1>0, <1>2 DEF LiveConnectOk, ConnectOk, WdConnectOk, Goto, WdGoto, sessionVars
<1>3. ASSUME NEW c \in Viewers, LiveConnectErr(c) PROVE LiveHasJoiner'
  BY <1>0, <1>3 DEF LiveConnectErr, ConnectErr, WdConnectErr, Goto, WdGoto, sessionVars
<1>4. ASSUME NEW c \in Viewers, LiveWdInstall(c) PROVE LiveHasJoiner'
  BY <1>0, <1>4 DEF LiveWdInstall
<1>5. ASSUME NEW t \in Viewers, LiveTeardown(t) PROVE LiveHasJoiner'
  <2>1. CASE stop # None /\ stop' = None
    BY <1>0, <1>5, <2>1 DEF LiveTeardown
  <2>2. CASE ~(stop # None /\ stop' = None)
    <3>1. /\ live' = live /\ registered' = registered /\ clears' = clears /\ wd' = wd
          /\ stop' = stop
      BY <1>0, <1>5, <2>2 DEF LiveTeardown, Teardown, wdVars, sessionVars
    <3>2. \A u \in Viewers : pc[u] = "connected" => pc'[u] = "connected"
      BY <1>5 DEF LiveTeardown, Teardown, Publish, Woken, sessionVars
    <3> QED
      BY <1>0, <3>1, <3>2
  <2> QED
    BY <2>1, <2>2
<1>6. CASE Clear
  BY <1>6 DEF Clear
<1>7. CASE Unrelated
  <2>1. live' = live /\ clears' = clears
    BY <1>7 DEF Unrelated, liveVars
  <2> HIDE DEF HasJoiner
  <2>2. ASSUME clears = 0, live # None PROVE HasJoiner(live)'
    <3>1. PICK c \in Viewers : c = live
      BY <1>0, <2>2
    <3>2. HasJoiner(c)'
      BY <1>7, <2>2, <3>1, UnrelatedKeepsJoiner
    <3> QED
      BY <2>1, <3>1, <3>2 DEF HasJoiner
  <2> QED
    BY <2>1, <2>2
<1>8. CASE UNCHANGED allVars
  BY <1>8 DEF allVars, vars
<1> QED
  BY <1>1, <1>2, <1>3, <1>4, <1>5, <1>6, <1>7, <1>8 DEF LiveNext

\* Once nothing is under way, what the registry holds belongs to the session
\* that is installed, for any number of viewers, watchdogs and clearing tasks.
THEOREM LiveSettlesOnInstalled == LiveSpec => []LiveIsInstalled
<1>1. LiveInit => LiveHasJoiner
  BY DEF LiveInit, LiveHasJoiner
<1>2. LiveHasJoiner /\ LiveTypeOK => LiveIsInstalled
  BY DEF LiveHasJoiner, HasJoiner, LiveTypeOK, LiveIsInstalled, Settled
<1> QED
  BY <1>1, <1>2, LiveStep, LiveImplementsSupervisor, SessionInvariant, LiveTypeCorrect, PTL
  DEF LiveSpec

\* Registering outbounds and clearing them takes nothing from what viewers are
\* promised: with the registry composed in, the supervisor still shares its
\* camera.
THEOREM LiveSharesCamera == LiveSpec => SharesCamera
  BY LiveImplementsSupervisor, SupervisorSharesCamera, PTL
=============================================================================
