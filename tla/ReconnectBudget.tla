-------------------------- MODULE ReconnectBudget --------------------------
(***************************************************************************)
(* The reconnect budget (src/reconnect_budget.rs).  Nothing runs when a    *)
(* token falls due: every operation first calls refill(), which credits    *)
(* what the time since last_refill has earned and moves last_refill on.    *)
(* The module shows that this is the bucket of TokenBucket, whenever and   *)
(* however often the operations are called, and that wait_time() tells a   *)
(* caller exactly when the next token is due.                              *)
(*                                                                         *)
(* Time is counted in ticks.  Instants are modelled by their age: since is *)
(* last_refill.elapsed().                                                  *)
(***************************************************************************)
EXTENDS Integers

CONSTANTS
  Capacity,  \* capacity
  Period,    \* refill_period, in ticks
  MaxSince   \* bound: the longest time without a call of refill()

ASSUME CapacityAssumption == Capacity \in Nat \ {0}
ASSUME PeriodAssumption == Period \in Nat \ {0}
ASSUME MaxSinceAssumption == MaxSince \in Nat

VARIABLES
  tokens,  \* tokens
  since,   \* last_refill.elapsed()
  sleep,   \* what is left of the wait that wait_time() last returned
  alone,   \* no outcome was recorded since wait_time() last returned
  call     \* interface: what happened last; every step turns it

vars == <<tokens, since, sleep, alone, call>>

Ops == {"new", "time", "query", "failure", "success"}

\* Every variable stays in its domain; in particular no caller is ever told to
\* wait for longer than one refill period.
TypeOK ==
  /\ tokens \in 0..Capacity
  /\ since \in 0..MaxSince
  /\ sleep \in 0..Period
  /\ alone \in BOOLEAN
  /\ call \in [op : Ops, turn : {0, 1}]

\* new(); no caller has asked yet.
Init ==
  /\ tokens = Capacity
  /\ since = 0
  /\ sleep = 0
  /\ alone = FALSE
  /\ call = [op |-> "new", turn |-> 0]

Called(op) == call' = [op |-> op, turn |-> 1 - call.turn]

AtMost(n, bound) == IF n < bound THEN n ELSE bound

-----------------------------------------------------------------------------
\* Mutant: the remainder is lost with every refill.
RefillFromNow(t, s) ==
  LET earned == AtMost(s \div Period, Capacity)
  IN  [tokens |-> AtMost(t + earned, Capacity),
       since |-> IF earned > 0 \/ t >= Capacity THEN 0 ELSE s]

\* Mutant: the sum is not capped.
RefillUncapped(t, s) == [tokens |-> t + s \div Period, since |-> s % Period]

\* refill(): what it makes of tokens t and a last_refill s ticks ago.  A full
\* bucket restarts the clock, one still below capacity keeps the remainder.
Refill(t, s) ==
  LET earned == AtMost(s \div Period, Capacity)
  IN  [tokens |-> AtMost(t + earned, Capacity),
       since |-> IF t + earned >= Capacity THEN 0 ELSE s - earned * Period]

Refilled == Refill(tokens, since)

\* Mutant: the whole period, wherever in it the bucket is.
WaitWholePeriod == IF Refilled.tokens > 0 THEN 0 ELSE Period

\* What wait_time() returns.
Wait ==
  IF Refilled.tokens > 0 THEN 0
  ELSE IF Refilled.since < Period THEN Period - Refilled.since ELSE 0

\* wait_time()
WaitTime ==
  /\ Called("query")
  /\ tokens' = Refilled.tokens
  /\ since' = Refilled.since
  /\ sleep' = Wait
  /\ alone' = TRUE

\* record_success()
RecordSuccess ==
  /\ Called("success")
  /\ tokens' = AtMost(Refilled.tokens + 1, Capacity)
  /\ since' = Refilled.since
  /\ alone' = FALSE
  /\ UNCHANGED sleep

\* record_failure()
RecordFailure ==
  /\ Called("failure")
  /\ tokens' = IF Refilled.tokens > 0 THEN Refilled.tokens - 1 ELSE 0
  /\ since' = Refilled.since
  /\ alone' = FALSE
  /\ UNCHANGED sleep

\* tokens(), which the metrics emitter and the log line after every attempt
\* call at any time.
Tokens ==
  /\ Called("query")
  /\ tokens' = Refilled.tokens
  /\ since' = Refilled.since
  /\ UNCHANGED <<sleep, alone>>

\* Time passes, for the bucket and for the caller that sleeps.
Tick ==
  /\ since < MaxSince
  /\ Called("time")
  /\ since' = since + 1
  /\ sleep' = IF sleep > 0 THEN sleep - 1 ELSE 0
  /\ UNCHANGED <<tokens, alone>>

Next == WaitTime \/ RecordSuccess \/ RecordFailure \/ Tokens \/ Tick

Spec == Init /\ [][Next]_vars

-----------------------------------------------------------------------------
\* The tokens a caller would find.
Available == Refilled.tokens

\* "How long until the next attempt is allowed; zero if one is allowed now."
\* A caller that sleeps for what wait_time() returned finds a token when the
\* sleep ends and would have found none before, however often others call
\* tokens() in between, as long as no attempt's outcome is recorded.
WaitIsExact == alone => (sleep = 0 <=> Available > 0)

\* The bucket as its callers see it: what refill() would make of it now.
Bucket == INSTANCE TokenBucket
            WITH level <- Refilled.tokens,
                 age <- IF Refilled.tokens = Capacity THEN 0 ELSE Refilled.since

\* The lazy refill is the bucket that the clock refills: calls that come late,
\* early or often neither lose nor gain a token, nor progress towards one.
ImplementsTokenBucket == Bucket!Spec
=============================================================================
