----------------------------- MODULE AuthProofs -----------------------------
(***************************************************************************)
(* Proofs about Auth, for any number of callers, every capacity and every  *)
(* period of the limiter.                                                  *)
(***************************************************************************)
EXTENDS Auth, RateLimiterProofs

-----------------------------------------------------------------------------
(* The limiter inside: every step of Auth is one of the limiter's or none. *)

LEMMA OutcomesAreOutcomes ==
  ASSUME NEW r
  PROVE  OutcomesOf(r) \subseteq Outcomes
  BY DEF OutcomesOf, Outcomes

LEMMA StepsLimiter == [Next]_vars => [LimiterNext]_limiterVars
<1> SUFFICES ASSUME [Next]_vars
             PROVE  [LimiterNext]_limiterVars
  OBVIOUS
<1>1. ASSUME NEW c \in Callers, Progress(c)
      PROVE  LimiterNext \/ UNCHANGED limiterVars
  <2>1. ASSUME Answered(c)
        PROVE  LimiterNext
    BY <2>1, OutcomesAreOutcomes DEF Answered, LimiterNext
  <2>2. CASE SendRequest(c) \/ ParkRequest(c)
    BY <2>2 DEF SendRequest, ParkRequest, LimiterNext
  <2>3. CASE NewTokens(c) \/ RefreshRejected(c) \/ RequestFails(c)
    BY <2>1, <2>3 DEF NewTokens, RefreshRejected, RequestFails
  <2>4. CASE ApiReturns(c)
    <3>1. PICK outcome \in Outcomes : Complete(c, outcome)
      <4>1. (IF trouble THEN Outcomes ELSE {"Success"}) \subseteq Outcomes
        BY DEF Outcomes
      <4>2. QED  BY <2>4, <4>1 DEF ApiReturns
    <3>2. QED  BY <3>1 DEF LimiterNext
  <2>5. CASE Call(c) \/ ServerRefresh(c) \/ ServerExchange(c) \/ GetPage(c) \/ FollowChain(c)
    BY <2>5 DEF Call, ServerRefresh, ServerExchange, GetPage, FollowChain
  <2>6. QED  BY <1>1, <2>2, <2>3, <2>4, <2>5 DEF Progress
<1>2. ASSUME NEW c \in Callers, Lock(c) \/ LoadFails(c)
      PROVE  UNCHANGED limiterVars
  BY <1>2 DEF Lock, LoadFails
<1>3. CASE (ReadTokens /\ UNCHANGED authVars) \/ (Elapse /\ UNCHANGED authVars) \/ Restart
  BY <1>3 DEF LimiterNext, Restart
<1>4. CASE Expire \/ Revoke \/ Trouble
  BY <1>4 DEF Expire, Revoke, Trouble
<1>5. CASE UNCHANGED vars
  BY <1>5 DEF vars
<1>6. QED  BY <1>1, <1>2, <1>3, <1>4, <1>5 DEF Next

(* AuthUsesLimiter: the callers of the auth orchestrator and the API use   *)
(* the limiter of rate_limit.rs as its own specification says.             *)
THEOREM AuthUsesLimiter == Spec => LimiterSpec
<1>1. Init => LimiterInit
  BY DEF Init
<1>2. QED  BY <1>1, StepsLimiter, PTL DEF Spec, LimiterSpec

(* AuthBurstIsBounded: in any stretch of time at most one request more     *)
(* than the capacity and what the time earned fails or is unanswered,      *)
(* whatever refreshes, logins and restarts happen.                         *)
THEOREM AuthBurstIsBounded == Spec => []BoundedBurst
<1>1. QED  BY AuthUsesLimiter, BurstIsBounded, PTL

-----------------------------------------------------------------------------
(* Types *)

LEMMA Kinds ==
  /\ NewToken \in Token /\ NewToken.refresh = "current"
  /\ None \notin Token /\ Rejected \notin Token /\ Failed \notin Token
  /\ None # Rejected /\ None # Failed /\ Rejected # Failed /\ None \notin Callers
<1>1. NewToken \in Token /\ NewToken.refresh = "current"
  BY DEF NewToken, Token
<1>2. QED  BY <1>1, ReplyAssumption

\* What becomes of stored tokens.
LEMMA SpendStored ==
  ASSUME NEW t \in Stored
  PROVE  /\ Spend(t) \in Stored
         /\ Spend(t) = None <=> t = None
  BY Kinds DEF Spend, Stored, Token

LEMMA AgeStored ==
  ASSUME NEW t \in Token
  PROVE  /\ [t EXCEPT !.access = "old"] \in Token
         /\ [t EXCEPT !.access = "old"].refresh = t.refresh
  BY DEF Token

\* TypeOK without the limiter, in two parts.
PlacesOK ==
  /\ pc \in [Callers -> PcStates]
  /\ holder \in Callers \cup {None}
  /\ mem \in Stored
  /\ disk \in Stored
  /\ reply \in [Callers -> Token \cup {None, Rejected, Failed}]

FlagsOK == failed \in BOOLEAN /\ trouble \in BOOLEAN /\ lost \in BOOLEAN

\* The flags are only ever set to truth values.
LEMMA FlagsStay == FlagsOK /\ [Next]_vars => FlagsOK'
<1> SUFFICES ASSUME FlagsOK, [Next]_vars
             PROVE  FlagsOK'
  OBVIOUS
<1> USE DEF FlagsOK
<1>1. ASSUME NEW c \in Callers, Progress(c) \/ Lock(c) \/ LoadFails(c)
      PROVE  FlagsOK'
  <2>1. CASE NewTokens(c)
    <3>1. PICK saved \in {TRUE, ~trouble} : lost' = ~saved
      BY <2>1, Zenon DEF NewTokens, Install
    <3>2. lost' \in BOOLEAN
      BY <3>1, Zenon
    <3>3. QED  BY <2>1, <3>2, Zenon DEF NewTokens
  <2>2. CASE FollowChain(c)
    <3>1. failed' = failed \/ failed' \in {failed, TRUE}
      BY <2>2, Zenon DEF FollowChain
    <3>2. failed' \in BOOLEAN
      BY <3>1, Zenon
    <3>3. QED  BY <2>2, <3>2, Zenon DEF FollowChain
  <2>3. CASE ServerRefresh(c)
    <3>1. lost' = lost \/ lost' = TRUE
      BY <2>3, Zenon DEF ServerRefresh
    <3>2. lost' \in BOOLEAN
      BY <3>1, Zenon
    <3>3. QED  BY <2>3, <3>2, Zenon DEF ServerRefresh
  <2>4. CASE Call(c) \/ Lock(c) \/ LoadFails(c) \/ SendRequest(c) \/ ParkRequest(c)
    BY <2>4, Zenon DEF Call, Lock, LoadFails, SendRequest, ParkRequest, authVars
  <2>5. CASE ServerExchange(c) \/ RefreshRejected(c) \/ RequestFails(c) \/ GetPage(c) \/ ApiReturns(c)
    BY <2>5, Zenon DEF ServerExchange, RefreshRejected, RequestFails, GetPage, ApiReturns
  <2>6. QED  BY <1>1, <2>1, <2>2, <2>3, <2>4, <2>5, Zenon DEF Progress
<1>2. CASE (ReadTokens /\ UNCHANGED authVars) \/ (Elapse /\ UNCHANGED authVars) \/ UNCHANGED vars
  BY <1>2, Zenon DEF authVars, vars
<1>3. CASE Expire
  BY <1>3, Zenon DEF Expire
<1>4. CASE Revoke
  <2>1. lost' \in BOOLEAN
    BY <1>4, Zenon DEF Revoke
  <2>2. QED  BY <1>4, <2>1, Zenon DEF Revoke
<1>5. CASE Trouble
  <2>1. trouble' \in BOOLEAN
    BY <1>5, Zenon DEF Trouble
  <2>2. QED  BY <1>5, <2>1, Zenon DEF Trouble
<1>6. CASE Restart
  <2>1. failed' = FALSE /\ lost' = (lost \/ (disk # None /\ disk.refresh = "spent")) /\ trouble' = trouble
    BY <1>6, Zenon DEF Restart
  <2>2. lost' \in BOOLEAN /\ failed' \in BOOLEAN
    BY <2>1, Zenon
  <2>3. QED  BY <2>1, <2>2, Zenon
<1>7. QED  BY <1>1, <1>2, <1>3, <1>4, <1>5, <1>6, Zenon DEF Next

\* PlacesOK is inductive.
LEMMA PlacesStay == PlacesOK /\ [Next]_vars => PlacesOK'
<1> SUFFICES ASSUME PlacesOK, [Next]_vars
             PROVE  PlacesOK'
  OBVIOUS
<1> USE Kinds DEF PlacesOK, PcStates
<1>1. ASSUME NEW c \in Callers, Progress(c)
      PROVE  PlacesOK'
  <2>1. CASE Call(c) \/ GetPage(c) \/ FollowChain(c)
    BY <2>1 DEF Call, GetPage, FollowChain, Goto, Return
  <2>2. CASE SendRequest(c) \/ ParkRequest(c)
    BY <2>2 DEF SendRequest, ParkRequest, authVars
  <2>3. CASE ServerRefresh(c)
    BY <2>3, SpendStored DEF ServerRefresh, Reply
  <2>4. CASE ServerExchange(c)
    BY <2>4 DEF ServerExchange, Reply
  <2>5. CASE NewTokens(c)
    <3>1. reply[c] \in Stored
      BY <2>5 DEF NewTokens, Stored
    <3>2. QED  BY <2>5, <3>1 DEF NewTokens, Install, Return, Goto, Answered, Reply
  <2>6. CASE RefreshRejected(c) \/ RequestFails(c)
    BY <2>6 DEF RefreshRejected, RequestFails, FallBack, Return, Goto, Answered, Reply
  <2>7. CASE ApiReturns(c)
    BY <2>7 DEF ApiReturns, Goto
  <2>8. QED  BY <1>1, <2>1, <2>2, <2>3, <2>4, <2>5, <2>6, <2>7 DEF Progress
<1>2. ASSUME NEW c \in Callers, Lock(c) \/ LoadFails(c)
      PROVE  PlacesOK'
  BY <1>2 DEF Lock, LoadFails, Return, Goto
<1>3. CASE (ReadTokens /\ UNCHANGED authVars) \/ (Elapse /\ UNCHANGED authVars) \/ UNCHANGED vars \/ Trouble
  BY <1>3 DEF authVars, vars, Trouble
<1>4. CASE Expire
  BY <1>4, AgeStored DEF Expire, Stored
<1>5. CASE Revoke
  BY <1>5, SpendStored DEF Revoke
<1>6. CASE Restart
  BY <1>6 DEF Restart, Stored
<1>7. QED  BY <1>1, <1>2, <1>3, <1>4, <1>5, <1>6 DEF Next

(* AuthTypeCorrect: the orchestrator, its store and the limiter stay in    *)
(* their domains.                                                          *)
THEOREM AuthTypeCorrect == Spec => []TypeOK
<1>1. Init => PlacesOK /\ FlagsOK
  <2>1. Init => PlacesOK
    BY Kinds DEF Init, PlacesOK, PcStates, Stored
  <2>2. Init => FlagsOK
    BY Zenon DEF Init, FlagsOK
  <2>3. QED  BY <2>1, <2>2
<1>2. LimiterInv /\ PlacesOK /\ FlagsOK => TypeOK
  BY Zenon DEF LimiterInv, PlacesOK, FlagsOK, TypeOK
<1>3. Spec => []LimiterInv
  BY AuthUsesLimiter, LimiterCorrect, PTL
<1>4. QED  BY <1>1, <1>2, <1>3, PlacesStay, FlagsStay, PTL DEF Spec

-----------------------------------------------------------------------------
(* The saved tokens are the used ones *)

LEMMA MatchStays == PlacesOK /\ MemoryMatchesDisk /\ [Next]_vars => MemoryMatchesDisk'
<1> SUFFICES ASSUME PlacesOK, MemoryMatchesDisk, [Next]_vars
             PROVE  MemoryMatchesDisk'
  OBVIOUS
<1> USE Kinds DEF MemoryMatchesDisk
<1>1. ASSUME NEW c \in Callers, Progress(c)
      PROVE  MemoryMatchesDisk'
  <2>1. CASE Call(c) \/ GetPage(c) \/ FollowChain(c) \/ ApiReturns(c)
    BY <2>1 DEF Call, GetPage, FollowChain, ApiReturns
  <2>2. CASE SendRequest(c) \/ ParkRequest(c) \/ ServerExchange(c)
    BY <2>2 DEF SendRequest, ParkRequest, ServerExchange, authVars
  <2>3. CASE ServerRefresh(c)
    BY <2>3, SpendStored DEF ServerRefresh, PlacesOK
  <2>4. CASE NewTokens(c)
    BY <2>4 DEF NewTokens, Install
  <2>5. CASE RefreshRejected(c) \/ RequestFails(c)
    BY <2>5 DEF RefreshRejected, RequestFails
  <2>6. QED  BY <1>1, <2>1, <2>2, <2>3, <2>4, <2>5 DEF Progress
<1>2. ASSUME NEW c \in Callers, Lock(c) \/ LoadFails(c)
      PROVE  MemoryMatchesDisk'
  BY <1>2 DEF Lock, LoadFails
<1>3. CASE (ReadTokens /\ UNCHANGED authVars) \/ (Elapse /\ UNCHANGED authVars) \/ UNCHANGED vars \/ Trouble
  BY <1>3 DEF authVars, vars, Trouble
<1>4. CASE Expire \/ Revoke \/ Restart
  BY <1>4, SpendStored DEF Expire, Revoke, Restart, PlacesOK
<1>5. QED  BY <1>1, <1>2, <1>3, <1>4 DEF Next

(* MemoryIsDisk: no refused refresh, failed save or restart makes the      *)
(* tokens in use differ from the saved ones.                               *)
THEOREM MemoryIsDisk == Spec => []MemoryMatchesDisk
<1>1. Init => PlacesOK /\ MemoryMatchesDisk
  BY Kinds DEF Init, PlacesOK, PcStates, Stored, MemoryMatchesDisk
<1>2. QED  BY <1>1, PlacesStay, MatchStays, PTL DEF Spec

-----------------------------------------------------------------------------
(* The login is used only after a loss.  LoginOnlyAfterLoss is not         *)
(* inductive: a refresh that is refused must itself be the effect of a     *)
(* loss, so a spent refresh token needs an explanation, which is a loss or *)
(* the answer that the holder of the mutex has not yet looked at.          *)

Locked == {"refresh", "page", "chain", "exchange"}

MutexHeld == \A c \in Callers : pc[c] \in Locked => holder = c
RefreshHasToken == \A c \in Callers : pc[c] = "refresh" => mem # None
ReplyIsAwaited == \A c \in Callers : pc[c] \notin {"refresh", "exchange"} => reply[c] = None
AnswersAreNew == \A c \in Callers : reply[c] \in Token => reply[c].refresh = "current"
RejectedIsLost == \A c \in Callers : pc[c] = "refresh" /\ reply[c] = Rejected => lost

Answering == \E c \in Callers : pc[c] = "refresh" /\ reply[c] \in Token
SpentIsExplained == disk # None /\ disk.refresh = "spent" => lost \/ Answering

Holding == MutexHeld /\ RefreshHasToken /\ ReplyIsAwaited /\ AnswersAreNew

LoginInv ==
  PlacesOK /\ FlagsOK /\ MemoryMatchesDisk
    /\ Holding /\ RejectedIsLost /\ SpentIsExplained /\ LoginOnlyAfterLoss

\* Who holds the mutex, who waits for a reply, and what a reply may be.
LEMMA HoldingStays == PlacesOK /\ Holding /\ [Next]_vars => Holding'
<1> SUFFICES ASSUME PlacesOK, Holding, [Next]_vars
             PROVE  Holding'
  OBVIOUS
<1> USE Kinds DEF PlacesOK, PcStates, Holding, MutexHeld, RefreshHasToken, ReplyIsAwaited,
                  AnswersAreNew, Locked
<1>1. ASSUME NEW c \in Callers, Progress(c)
      PROVE  Holding'
  <2>1. CASE Call(c)
    BY <2>1 DEF Call, Goto
  <2>2. CASE SendRequest(c) \/ ParkRequest(c)
    BY <2>2 DEF SendRequest, ParkRequest, authVars
  <2>3. CASE ServerRefresh(c)
    BY <2>3, SpendStored DEF ServerRefresh, Reply
  <2>4. CASE ServerExchange(c)
    BY <2>4 DEF ServerExchange, Reply
  <2>5. CASE NewTokens(c)
    <3>1. mem # None => mem' # None
      BY <2>5 DEF NewTokens, Install
    <3>2. QED  BY <2>5, <3>1 DEF NewTokens, Return, Goto, Answered, Reply
  <2>6. CASE RefreshRejected(c)
    BY <2>6 DEF RefreshRejected, FallBack, Goto, Answered, Reply
  <2>7. CASE RequestFails(c)
    BY <2>7 DEF RequestFails, Return, Goto, Answered, Reply
  <2>8. CASE GetPage(c)
    BY <2>8 DEF GetPage, Return, Goto
  <2>9. CASE FollowChain(c)
    BY <2>9 DEF FollowChain, Return, Goto
  <2>10. CASE ApiReturns(c)
    BY <2>10 DEF ApiReturns, Goto
  <2>11. QED
    BY <1>1, <2>1, <2>2, <2>3, <2>4, <2>5, <2>6, <2>7, <2>8, <2>9, <2>10 DEF Progress
<1>2. ASSUME NEW c \in Callers, Lock(c)
      PROVE  Holding'
  BY <1>2 DEF Lock, MayLock, Return, Goto
<1>3. ASSUME NEW c \in Callers, LoadFails(c)
      PROVE  Holding'
  BY <1>3 DEF LoadFails, MayLock, Return, Goto
<1>4. CASE (ReadTokens /\ UNCHANGED authVars) \/ (Elapse /\ UNCHANGED authVars) \/ UNCHANGED vars \/ Trouble
  BY <1>4 DEF authVars, vars, Trouble
<1>5. CASE Expire
  BY <1>5, AgeStored DEF Expire, Stored
<1>6. CASE Revoke
  BY <1>6, SpendStored DEF Revoke
<1>7. CASE Restart
  BY <1>7 DEF Restart
<1>8. QED  BY <1>1, <1>2, <1>3, <1>4, <1>5, <1>6, <1>7 DEF Next

\* Spent tokens, refusals and logins are explained by a loss.
LEMMA LossStays ==
  LoginInv /\ [Next]_vars => (RejectedIsLost /\ SpentIsExplained /\ LoginOnlyAfterLoss)'
<1> SUFFICES ASSUME LoginInv, [Next]_vars
             PROVE  (RejectedIsLost /\ SpentIsExplained /\ LoginOnlyAfterLoss)'
  OBVIOUS
<1> USE Kinds DEF LoginInv, PlacesOK, PcStates, FlagsOK, Holding, MutexHeld, RefreshHasToken,
                  ReplyIsAwaited, AnswersAreNew, Locked, RejectedIsLost, SpentIsExplained,
                  Answering, LoginOnlyAfterLoss, MemoryMatchesDisk
<1>1. ASSUME NEW c \in Callers, Progress(c)
      PROVE  (RejectedIsLost /\ SpentIsExplained /\ LoginOnlyAfterLoss)'
  <2>1. CASE Call(c)
    BY <2>1 DEF Call, Goto
  <2>2. CASE SendRequest(c) \/ ParkRequest(c)
    BY <2>2 DEF SendRequest, ParkRequest, authVars
  <2>3. CASE ServerRefresh(c)
    BY <2>3, SpendStored DEF ServerRefresh, Reply
  <2>4. CASE ServerExchange(c)
    BY <2>4 DEF ServerExchange, Reply
  <2>5. CASE NewTokens(c)
    <3>1. PICK saved \in {TRUE, ~trouble} :
            Install(reply[c], saved) /\ Return(c, IF saved THEN "api" ELSE "err")
      BY <2>5, Zenon DEF NewTokens
    <3>2. saved \in BOOLEAN
      BY <3>1
    <3>3. reply[c] \in Token /\ reply[c].refresh = "current" /\ pc[c] \in {"refresh", "exchange"}
      BY <2>5 DEF NewTokens
    <3>4. QED  BY <2>5, <3>1, <3>2, <3>3 DEF NewTokens, Install, Return, Goto, Answered, Reply
  <2>6. CASE RefreshRejected(c)
    BY <2>6 DEF RefreshRejected, FallBack, Goto, Answered, Reply
  <2>7. CASE RequestFails(c)
    BY <2>7 DEF RequestFails, Return, Goto, Answered, Reply
  <2>8. CASE GetPage(c)
    BY <2>8 DEF GetPage, Return, Goto
  <2>9. CASE FollowChain(c)
    BY <2>9 DEF FollowChain, Return, Goto
  <2>10. CASE ApiReturns(c)
    BY <2>10 DEF ApiReturns, Goto
  <2>11. QED
    BY <1>1, <2>1, <2>2, <2>3, <2>4, <2>5, <2>6, <2>7, <2>8, <2>9, <2>10 DEF Progress
<1>2. ASSUME NEW c \in Callers, Lock(c)
      PROVE  (RejectedIsLost /\ SpentIsExplained /\ LoginOnlyAfterLoss)'
  BY <1>2 DEF Lock, MayLock, Return, Goto
<1>3. ASSUME NEW c \in Callers, LoadFails(c)
      PROVE  (RejectedIsLost /\ SpentIsExplained /\ LoginOnlyAfterLoss)'
  BY <1>3 DEF LoadFails, MayLock, Return, Goto
<1>4. CASE (ReadTokens /\ UNCHANGED authVars) \/ (Elapse /\ UNCHANGED authVars) \/ UNCHANGED vars \/ Trouble
  BY <1>4 DEF authVars, vars, Trouble
<1>5. CASE Expire
  BY <1>5, AgeStored DEF Expire, Stored
<1>6. CASE Revoke
  BY <1>6 DEF Revoke
<1>7. CASE Restart
  BY <1>7 DEF Restart
<1>8. QED  BY <1>1, <1>2, <1>3, <1>4, <1>5, <1>6, <1>7 DEF Next

(* LoginIsLastResort: the password login, which passes by the limiter, is  *)
(* tried only with nothing stored or after a fault cost the stored refresh *)
(* token; concurrent callers never spend each other's.                     *)
THEOREM LoginIsLastResort == Spec => []LoginOnlyAfterLoss
<1>1. Init => LoginInv
  <2>1. Init => PlacesOK /\ MemoryMatchesDisk
    BY Kinds DEF Init, PlacesOK, PcStates, Stored, MemoryMatchesDisk
  <2>2. Init => FlagsOK
    BY Zenon DEF Init, FlagsOK
  <2>3. Init => Holding /\ RejectedIsLost /\ SpentIsExplained /\ LoginOnlyAfterLoss
    BY Kinds DEF Init, Holding, MutexHeld, RefreshHasToken, ReplyIsAwaited, AnswersAreNew, Locked,
                 RejectedIsLost, SpentIsExplained, LoginOnlyAfterLoss
  <2>4. QED  BY <2>1, <2>2, <2>3 DEF LoginInv
<1>2. LoginInv /\ [Next]_vars => LoginInv'
  BY PlacesStay, FlagsStay, MatchStays, HoldingStays, LossStays, Zenon DEF LoginInv
<1>3. LoginInv => LoginOnlyAfterLoss
  BY DEF LoginInv
<1>4. QED  BY <1>1, <1>2, <1>3, PTL DEF Spec
=============================================================================
