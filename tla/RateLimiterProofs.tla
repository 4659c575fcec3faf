------------------------- MODULE RateLimiterProofs -------------------------
(***************************************************************************)
(* Proofs about RateLimiter, for every capacity, every period and any set  *)
(* of callers.                                                             *)
(***************************************************************************)
EXTENDS RateLimiter, TLAPS

\* What the bucket and its clock are worth, in ticks: the idle time of a bucket that
\* is not full can only fill it, that of a full one pays for one more token.
Worth(t, e) ==
  IF t = Cap THEN Least(RefillPeriod * t + e, FullCredit)
             ELSE Least(RefillPeriod * t + e, MaxElapsed)

\* The real bucket never holds more than the ideal one.
CreditCovers == credit >= Worth(tokens, elapsed)

LimiterInv == LimiterTypeOK /\ CreditCovers

-----------------------------------------------------------------------------
\* Multiplying by the period: one more, comparison, and whole periods.
LEMMA PeriodTimes ==
  ASSUME NEW a \in Nat, NEW b \in Nat
  PROVE  /\ RefillPeriod * a \in Nat
         /\ RefillPeriod * (a + 1) = RefillPeriod * a + RefillPeriod
         /\ RefillPeriod * (a + b) = RefillPeriod * a + RefillPeriod * b
         /\ a <= b => RefillPeriod * a <= RefillPeriod * b
  BY LimiterAssumption

LEMMA WholePeriods ==
  ASSUME NEW e \in Nat
  PROVE  /\ e \div RefillPeriod \in Nat
         /\ RefillPeriod * (e \div RefillPeriod) <= e
         /\ e >= RefillPeriod => e \div RefillPeriod >= 1
  BY LimiterAssumption

\* The result of tick() and what it costs: a refilled bucket is worth what it was.
LEMMA TickKeepsWorth ==
  ASSUME tokens \in 0..Cap, elapsed \in 0..MaxElapsed
  PROVE  /\ Ticked \in 0..Cap
         /\ TickedElapsed \in 0..MaxElapsed
         /\ Worth(Ticked, TickedElapsed) <= Worth(tokens, elapsed)
         /\ Ticked = 0 => elapsed < RefillPeriod
         /\ Ticked < Cap => TickedElapsed < RefillPeriod
<1>1. tokens \in Nat /\ elapsed \in Nat /\ Cap \in Nat /\ Cap > 0 /\ RefillPeriod \in Nat /\ RefillPeriod > 0
  BY LimiterAssumption, PeriodTimes DEF MaxElapsed
<1>2. CASE ~Due
  <2>1. Ticked = tokens /\ TickedElapsed = elapsed
    BY <1>2 DEF Ticked, TickedElapsed
  <2>2. tokens < Cap => elapsed < RefillPeriod
    BY <1>1, <1>2 DEF Due
  <2>3. Worth(tokens, elapsed) \in Int
    BY <1>1, PeriodTimes DEF Worth, Least, FullCredit, MaxElapsed
  <2>4. QED  BY <1>1, <2>1, <2>2, <2>3
<1>3. CASE Due
  <2>1. PICK q \in Nat : q = elapsed \div RefillPeriod
    BY <1>1, WholePeriods
  <2>2. q >= 1 /\ RefillPeriod * q <= elapsed /\ tokens < Cap
    BY <1>1, <1>3, <2>1, WholePeriods DEF Due
  <2>3. Ticked = Least(tokens + q, Cap) /\ TickedElapsed = 0
    BY <1>3, <2>1 DEF Ticked, TickedElapsed
  <2>4. Ticked \in 1..Cap /\ Ticked <= tokens + q
    BY <1>1, <2>2, <2>3 DEF Least
  <2>5. RefillPeriod * Ticked \in Nat /\ RefillPeriod * Ticked <= MaxElapsed
    BY <1>1, <2>4, PeriodTimes DEF MaxElapsed
  <2>6. RefillPeriod * Ticked <= RefillPeriod * tokens + elapsed
    <3>1. RefillPeriod * Ticked <= RefillPeriod * (tokens + q)
      BY <1>1, <2>4, PeriodTimes
    <3>2. RefillPeriod * (tokens + q) = RefillPeriod * tokens + RefillPeriod * q
      BY <1>1, PeriodTimes
    <3>3. RefillPeriod * q \in Nat /\ RefillPeriod * tokens \in Nat
      BY <1>1, PeriodTimes
    <3>4. RefillPeriod * (tokens + q) \in Nat
      BY <3>2, <3>3
    <3>5. QED  BY <1>1, <3>1, <3>2, <3>3, <3>4, <2>2, <2>5
  <2>7. Worth(Ticked, TickedElapsed) = RefillPeriod * Ticked
    <3>1. MaxElapsed <= FullCredit /\ MaxElapsed \in Nat /\ FullCredit \in Nat
      BY <1>1, PeriodTimes DEF MaxElapsed, FullCredit
    <3>2. QED  BY <3>1, <2>3, <2>5 DEF Worth, Least
  <2>8. Worth(tokens, elapsed) = Least(RefillPeriod * tokens + elapsed, MaxElapsed)
    BY <1>1, <2>2 DEF Worth
  <2>9. RefillPeriod * Ticked <= Least(RefillPeriod * tokens + elapsed, MaxElapsed)
    BY <2>5, <2>6 DEF Least
  <2>10. QED  BY <1>1, <2>3, <2>4, <2>7, <2>8, <2>9, PeriodTimes DEF MaxElapsed
<1>4. QED  BY <1>2, <1>3

-----------------------------------------------------------------------------
(* LimiterInv is inductive. *)

LEMMA Sizes == MaxElapsed \in Nat /\ FullCredit = MaxElapsed + RefillPeriod /\ FullCredit \in Nat
  BY LimiterAssumption, PeriodTimes DEF MaxElapsed, FullCredit

\* The worth of a bucket is between nothing and that of a full one.
LEMMA WorthBounds ==
  ASSUME NEW t \in 0..Cap, NEW e \in 0..MaxElapsed
  PROVE  /\ Worth(t, e) \in Nat
         /\ Worth(t, e) <= FullCredit
         /\ FullCredit = MaxElapsed + RefillPeriod
         /\ MaxElapsed \in Nat
  BY LimiterAssumption, PeriodTimes DEF Worth, Least, FullCredit, MaxElapsed

\* Taking a token after a tick costs a period.
LEMMA SpendWorth ==
  ASSUME NEW t \in 1..Cap, NEW e \in 0..MaxElapsed, t < Cap => e < RefillPeriod
  PROVE  Worth(t - 1, e) <= Worth(t, e) - RefillPeriod
<1>1. PICK s \in 0..Cap : s = t - 1
  BY LimiterAssumption
<1>2. t = s + 1 /\ s \in Nat /\ e \in Nat /\ s # Cap
  BY <1>1, WorthBounds, LimiterAssumption
<1>3. PICK m \in Nat : m = RefillPeriod * s /\ RefillPeriod * t = m + RefillPeriod
  BY <1>2, PeriodTimes
<1>4. Worth(s, e) = Least(m + e, MaxElapsed)
  BY <1>2, <1>3 DEF Worth
<1>5. CASE t = Cap
  <2>1. Worth(t, e) = Least(m + RefillPeriod + e, FullCredit)
    BY <1>3, <1>5 DEF Worth
  <2>2. QED  BY <1>1, <1>2, <1>4, <2>1, WorthBounds, LimiterAssumption DEF Least
<1>6. CASE t < Cap
  <2>1. Worth(t, e) = Least(m + RefillPeriod + e, MaxElapsed)
    BY <1>3, <1>6 DEF Worth
  <2>2. m + RefillPeriod + RefillPeriod <= MaxElapsed
    <3>1. RefillPeriod * (t + 1) <= RefillPeriod * Cap
      BY <1>6, PeriodTimes, LimiterAssumption
    <3>2. RefillPeriod * (t + 1) = m + RefillPeriod + RefillPeriod
      BY <1>3, PeriodTimes
    <3>3. QED  BY <3>1, <3>2 DEF MaxElapsed
  <2>3. QED  BY <1>1, <1>2, <1>4, <1>6, <2>1, <2>2, WorthBounds, LimiterAssumption DEF Least
<1>7. QED  BY <1>5, <1>6, LimiterAssumption

\* A token given back is worth a period at most.
LEMMA RefundWorth ==
  ASSUME NEW t \in 0..Cap, NEW e \in 0..MaxElapsed
  PROVE  Worth(Least(t + 1, Cap), e) <= Worth(t, e) + RefillPeriod
<1>1. PICK m \in Nat : m = RefillPeriod * t /\ RefillPeriod * (t + 1) = m + RefillPeriod
  BY PeriodTimes
<1>2. CASE t = Cap
  BY <1>2, WorthBounds, LimiterAssumption DEF Least
<1>3. CASE t < Cap
  <2>1. Least(t + 1, Cap) = t + 1 /\ t + 1 \in 0..Cap
    BY <1>3, LimiterAssumption DEF Least
  <2>2. Worth(t, e) = Least(m + e, MaxElapsed)
    BY <1>1, <1>3 DEF Worth
  <2>3. CASE t + 1 = Cap
    <3>1. Worth(t + 1, e) = Least(m + RefillPeriod + e, FullCredit)
      BY <1>1, <2>3 DEF Worth
    <3>2. QED  BY <2>1, <2>2, <3>1, WorthBounds, LimiterAssumption DEF Least
  <2>4. CASE t + 1 # Cap
    <3>1. Worth(t + 1, e) = Least(m + RefillPeriod + e, MaxElapsed)
      BY <1>1, <2>4 DEF Worth
    <3>2. QED  BY <2>1, <2>2, <3>1, WorthBounds, LimiterAssumption DEF Least
  <2>5. QED  BY <2>3, <2>4
<1>4. QED  BY <1>2, <1>3, LimiterAssumption

\* A tick of the clock is worth a tick at most.
LEMMA ElapseWorth ==
  ASSUME NEW t \in 0..Cap, NEW e \in 0..MaxElapsed
  PROVE  Worth(t, Least(e + 1, MaxElapsed)) <= Worth(t, e) + 1
<1>1. PICK m \in Nat : m = RefillPeriod * t
  BY PeriodTimes
<1>2. e \in Nat /\ MaxElapsed \in Nat /\ FullCredit \in Nat
  BY Sizes
<1>3. CASE e + 1 < MaxElapsed
  BY <1>1, <1>2, <1>3 DEF Worth, Least
<1>4. CASE e + 1 >= MaxElapsed
  <2>1. Least(e + 1, MaxElapsed) = MaxElapsed /\ MaxElapsed <= e + 1
    BY <1>2, <1>4 DEF Least
  <2>2. QED  BY <1>1, <1>2, <2>1 DEF Worth, Least
<1>5. QED  BY <1>2, <1>3, <1>4

LEMMA LimiterInitially == LimiterInit => LimiterInv
<1>1. 0 \in 0..MaxElapsed /\ FullCredit \in Nat
  BY Sizes
<1>2. Cap \in 0..Cap
  BY LimiterAssumption
<1>3. Worth(Cap, 0) <= FullCredit
  BY <1>1, <1>2, WorthBounds
<1>4. QED  BY <1>1, <1>3, LimiterAssumption DEF LimiterInit, LimiterInv, LimiterTypeOK, CreditCovers

LEMMA LimiterInductive == LimiterInv /\ [LimiterNext]_limiterVars => LimiterInv'
<1> SUFFICES ASSUME LimiterInv, [LimiterNext]_limiterVars
             PROVE  LimiterInv'
  OBVIOUS
<1> USE DEF LimiterInv, CreditCovers
<1>1. /\ tokens \in 0..Cap /\ elapsed \in 0..MaxElapsed /\ permits \subseteq Callers
      /\ nap \in [Callers -> 0..RefillPeriod] /\ credit \in Int /\ credit <= FullCredit
      /\ Cap \in Nat /\ Cap > 0 /\ RefillPeriod \in Nat /\ RefillPeriod > 0
  BY LimiterAssumption DEF LimiterTypeOK
<1>2. PICK w \in Nat : w = Worth(tokens, elapsed) /\ w <= FullCredit /\ credit >= w
  BY <1>1, WorthBounds
<1>3. FullCredit \in Nat /\ MaxElapsed \in Nat
  BY <1>1, WorthBounds
<1>4. ASSUME NEW c \in Callers, Acquire(c)
      PROVE  LimiterInv'
  <2>1. PICK t \in 1..Cap : t = Ticked
    BY <1>1, <1>4, TickKeepsWorth DEF Acquire
  <2>2. PICK e \in 0..MaxElapsed : e = TickedElapsed /\ (t < Cap => e < RefillPeriod)
    BY <1>1, <2>1, TickKeepsWorth
  <2>3. Worth(t - 1, e) <= Worth(t, e) - RefillPeriod
    BY <2>2, SpendWorth
  <2>4. Worth(t, e) <= w
    BY <1>1, <1>2, <2>1, <2>2, TickKeepsWorth
  <2>5. tokens' = t - 1 /\ elapsed' = e /\ credit' = credit - RefillPeriod
    BY <1>4, <2>1, <2>2 DEF Acquire
  <2>6. tokens' \in 0..Cap /\ elapsed' \in 0..MaxElapsed
    BY <1>1, <2>5
  <2>7. Worth(tokens', elapsed') <= credit'
    <3>1. Worth(t - 1, e) \in Nat /\ Worth(t, e) \in Nat
      BY <1>1, <2>5, <2>6, WorthBounds
    <3>2. QED  BY <1>1, <1>2, <2>3, <2>4, <2>5, <3>1
  <2>8. credit' \in Int /\ credit' <= FullCredit
    BY <1>1, <1>3, <2>5
  <2>9. permits' \subseteq Callers /\ nap' \in [Callers -> 0..RefillPeriod]
    BY <1>1, <1>4 DEF Acquire
  <2>10. QED  BY <2>6, <2>7, <2>8, <2>9 DEF LimiterTypeOK, Worth
<1>5. ASSUME NEW c \in Callers, Park(c)
      PROVE  LimiterInv'
  <2>1. RefillPeriod - elapsed \in 0..RefillPeriod
    BY <1>1, <1>5, TickKeepsWorth DEF Park
  <2>2. nap' \in [Callers -> 0..RefillPeriod]
    BY <1>1, <1>5, <2>1 DEF Park
  <2>3. QED  BY <1>1, <1>5, <2>2 DEF Park, LimiterTypeOK, Worth
<1>6. ASSUME NEW c \in Callers, NEW outcome \in Outcomes, Complete(c, outcome)
      PROVE  LimiterInv'
  <2>1. permits' \subseteq Callers /\ elapsed' = elapsed /\ nap' = nap
    BY <1>1, <1>6 DEF Complete
  <2>2. CASE outcome = "ServerOrNetworkError"
    BY <1>1, <1>6, <2>1, <2>2 DEF Complete, LimiterTypeOK, Worth
  <2>3. CASE outcome # "ServerOrNetworkError"
    <3>1. tokens' = Least(tokens + 1, Cap) /\ credit' = Least(credit + RefillPeriod, FullCredit)
      BY <1>6, <2>3 DEF Complete
    <3>2. tokens' \in 0..Cap /\ credit' \in Int /\ credit' <= FullCredit
      BY <1>1, <1>3, <3>1 DEF Least
    <3>3. Worth(tokens', elapsed') <= w + RefillPeriod
      BY <1>1, <1>2, <2>1, <3>1, RefundWorth
    <3>4. Worth(tokens', elapsed') \in Nat /\ Worth(tokens', elapsed') <= FullCredit
      BY <1>1, <2>1, <3>2, WorthBounds
    <3>5. credit' >= Worth(tokens', elapsed')
      BY <1>1, <1>2, <1>3, <3>1, <3>3, <3>4 DEF Least
    <3>6. QED  BY <1>1, <2>1, <3>2, <3>5 DEF LimiterTypeOK, Worth
  <2>4. QED  BY <2>2, <2>3
<1>7. CASE ReadTokens
  <2>1. tokens' = Ticked /\ elapsed' = TickedElapsed
    BY <1>7 DEF ReadTokens
  <2>2. tokens' \in 0..Cap /\ elapsed' \in 0..MaxElapsed
    BY <1>1, <2>1, TickKeepsWorth
  <2>3. Worth(tokens', elapsed') <= w
    BY <1>1, <1>2, <2>1, TickKeepsWorth
  <2>4. Worth(tokens', elapsed') \in Nat
    BY <2>2, WorthBounds
  <2>5. QED  BY <1>1, <1>2, <1>7, <2>2, <2>3, <2>4 DEF ReadTokens, LimiterTypeOK, Worth
<1>8. CASE Elapse
  <2>1. tokens' = tokens /\ elapsed' = Least(elapsed + 1, MaxElapsed) /\ permits' = permits
          /\ credit' = Least(credit + 1, FullCredit)
    BY <1>8 DEF Elapse
  <2>2. elapsed' \in 0..MaxElapsed /\ credit' \in Int /\ credit' <= FullCredit
    BY <1>1, <1>3, <2>1 DEF Least
  <2>3. Worth(tokens', elapsed') <= w + 1
    BY <1>1, <1>2, <2>1, ElapseWorth
  <2>4. Worth(tokens', elapsed') \in Nat /\ Worth(tokens', elapsed') <= FullCredit
    BY <1>1, <2>1, <2>2, WorthBounds
  <2>5. credit' >= Worth(tokens', elapsed')
    BY <1>1, <1>2, <1>3, <2>1, <2>3, <2>4 DEF Least
  <2>6. nap' \in [Callers -> 0..RefillPeriod]
    <3>1. ASSUME NEW c \in Callers
          PROVE  (IF nap[c] > 0 THEN nap[c] - 1 ELSE 0) \in 0..RefillPeriod
      BY <1>1
    <3>2. QED  BY <1>8, <3>1 DEF Elapse
  <2>7. QED  BY <1>1, <2>1, <2>2, <2>5, <2>6 DEF LimiterTypeOK, Worth
<1>9. CASE LimiterRestart
  <2>1. tokens' = Cap /\ elapsed' = 0 /\ permits' = {} /\ credit' = FullCredit
    BY <1>9 DEF LimiterRestart
  <2>2. nap' \in [Callers -> 0..RefillPeriod]
    BY <1>1, <1>9 DEF LimiterRestart
  <2>3. Worth(tokens', elapsed') <= FullCredit
    BY <1>1, <1>3, <2>1, WorthBounds
  <2>4. QED  BY <1>1, <1>3, <2>1, <2>2, <2>3 DEF LimiterTypeOK, Worth
<1>10. CASE UNCHANGED limiterVars
  BY <1>10 DEF limiterVars, LimiterTypeOK, Worth
<1>11. QED  BY <1>4, <1>5, <1>6, <1>7, <1>8, <1>9, <1>10 DEF LimiterNext

-----------------------------------------------------------------------------
(* LimiterCorrect: the limiter of rate_limit.rs never holds more than its  *)
(* capacity, nobody sleeps longer than a period, and the stored time       *)
(* stays in its range.                                                     *)
THEOREM LimiterCorrect == LimiterSpec => []LimiterInv
<1>1. QED  BY LimiterInitially, LimiterInductive, PTL DEF LimiterSpec

\* Real credit behind every token: what BoundedBurst follows from.
LEMMA CreditIsThere == LimiterInv => BoundedBurst
<1> SUFFICES ASSUME LimiterInv PROVE BoundedBurst
  OBVIOUS
<1>1. Worth(tokens, elapsed) \in Nat /\ credit \in Int /\ credit >= Worth(tokens, elapsed)
  BY WorthBounds DEF LimiterInv, LimiterTypeOK, CreditCovers
<1>2. QED  BY <1>1 DEF BoundedBurst

(* BurstIsBounded: in any stretch of time at most one request more than    *)
(* the capacity and what the time earned fails or is unanswered.           *)
THEOREM BurstIsBounded == LimiterSpec => []BoundedBurst
<1>1. QED  BY LimiterCorrect, CreditIsThere, PTL
=============================================================================
