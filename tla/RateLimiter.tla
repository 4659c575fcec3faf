---------------------------- MODULE RateLimiter ----------------------------
(***************************************************************************)
(* The token bucket in front of every HTTPS request (src/rate_limit.rs)    *)
(* and the client that takes a permit, sends and reports the outcome       *)
(* (PrusaClient::send in src/prusa/client.rs).                             *)
(*                                                                         *)
(* Time is counted in ticks; the bucket's clock stops counting where more  *)
(* time makes no difference.  A caller that finds no token computes how    *)
(* long to sleep and looks again only afterwards; nobody wakes it earlier. *)
(***************************************************************************)
EXTENDS Integers

CONSTANTS
  Callers,       \* tasks that send requests
  Cap,           \* capacity of the bucket
  RefillPeriod   \* ticks that earn one token

ASSUME LimiterAssumption == Cap \in Nat \ {0} /\ RefillPeriod \in Nat \ {0}

VARIABLES
  tokens,   \* Inner::tokens
  elapsed,  \* time since Inner::last_refill, saturated
  permits,  \* callers that hold a Permit: their request is in flight
  nap,      \* remaining sleep of every caller
  credit    \* history: what an ideal bucket of Cap + 1 tokens would hold, in ticks

limiterVars == <<tokens, elapsed, permits, nap, credit>>

Outcomes == {"Success", "ClientError", "ServerOrNetworkError"}

Least(a, b) == IF a < b THEN a ELSE b
FullCredit == RefillPeriod * (Cap + 1)
MaxElapsed == RefillPeriod * Cap

LimiterTypeOK ==
  /\ tokens \in 0..Cap
  /\ elapsed \in 0..MaxElapsed
  /\ permits \subseteq Callers
  /\ nap \in [Callers -> 0..RefillPeriod]
  /\ credit \in Int /\ credit <= FullCredit

LimiterInit ==
  /\ tokens = Cap
  /\ elapsed = 0
  /\ permits = {}
  /\ nap = [c \in Callers |-> 0]
  /\ credit = FullCredit

-----------------------------------------------------------------------------
\* tick() refills only a bucket that is not full, and only then restarts the clock.
Due == elapsed >= RefillPeriod /\ tokens < Cap

\* Mutant: the bucket is filled beyond its capacity.
TickedUncapped ==
  IF Due THEN tokens + elapsed \div RefillPeriod ELSE tokens

Ticked ==
  IF Due THEN Least(tokens + elapsed \div RefillPeriod, Cap) ELSE tokens

TickedElapsed == IF Due THEN 0 ELSE elapsed

\* acquire() finds a token.
Acquire(c) ==
  /\ c \notin permits
  /\ nap[c] = 0
  /\ Ticked > 0
  /\ tokens' = Ticked - 1
  /\ elapsed' = TickedElapsed
  /\ permits' = permits \cup {c}
  /\ credit' = credit - RefillPeriod
  /\ UNCHANGED nap

\* acquire() finds none and sleeps for the rest of the period.
Park(c) ==
  /\ c \notin permits
  /\ nap[c] = 0
  /\ Ticked = 0
  /\ nap' = [nap EXCEPT ![c] = RefillPeriod - elapsed]
  /\ UNCHANGED <<tokens, elapsed, permits, credit>>

\* Permit::complete(): every outcome but the last gives the token back.
Complete(c, outcome) ==
  /\ c \in permits
  /\ permits' = permits \ {c}
  /\ IF outcome = "ServerOrNetworkError"
       THEN UNCHANGED <<tokens, credit>>
       ELSE /\ tokens' = Least(tokens + 1, Cap)
            /\ credit' = Least(credit + RefillPeriod, FullCredit)
  /\ UNCHANGED <<elapsed, nap>>

\* tokens(), read by the metrics emitter, refills too.
ReadTokens ==
  /\ Due
  /\ tokens' = Ticked
  /\ elapsed' = TickedElapsed
  /\ UNCHANGED <<permits, nap, credit>>

\* A tick of the clock.
Elapse ==
  /\ elapsed' = Least(elapsed + 1, MaxElapsed)
  /\ nap' = [c \in Callers |-> IF nap[c] > 0 THEN nap[c] - 1 ELSE 0]
  /\ credit' = Least(credit + 1, FullCredit)
  /\ UNCHANGED <<tokens, permits>>

\* The process starts again with a new limiter.
LimiterRestart ==
  /\ tokens' = Cap
  /\ elapsed' = 0
  /\ permits' = {}
  /\ nap' = [c \in Callers |-> 0]
  /\ credit' = FullCredit

LimiterNext ==
  \/ \E c \in Callers :
       \/ Acquire(c) \/ Park(c)
       \/ \E outcome \in Outcomes : Complete(c, outcome)
  \/ ReadTokens
  \/ Elapse
  \/ LimiterRestart

LimiterSpec == LimiterInit /\ [][LimiterNext]_limiterVars

-----------------------------------------------------------------------------
(* BoundedBurst: in any stretch of L ticks at most Cap + 1 + L/RefillPeriod *)
(* requests fail or are still unanswered.  The one above the documented     *)
(* capacity is the idle time that a full bucket banks, because tick() does  *)
(* not restart its clock while it is full.                                  *)
BoundedBurst == credit >= 0
=============================================================================
