----------------------- MODULE ReconnectBudgetProofs -----------------------
(***************************************************************************)
(* Proofs about ReconnectBudget, for every capacity and every period.      *)
(***************************************************************************)
EXTENDS ReconnectBudget, TLAPS

(***************************************************************************)
(* refill()                                                                *)
(***************************************************************************)

\* Integer division, as refill() uses it to count whole periods.
LEMMA DivBounds ==
  ASSUME NEW n \in Nat, NEW p \in Nat \ {0}
  PROVE  /\ n \div p \in Nat
         /\ (n \div p) * p <= n
         /\ n < (n \div p) * p + p
  OBVIOUS

\* The number of whole periods in n is the only one with these bounds.
LEMMA DivUnique ==
  ASSUME NEW n \in Nat, NEW p \in Nat \ {0}, NEW q \in Nat,
         q * p <= n, n < q * p + p
  PROVE  n \div p = q
  OBVIOUS

\* refill() by its result: with q whole periods in s, either t + q fills the
\* bucket, or q tokens are credited and the remainder of s is kept.
LEMMA RefillResult ==
  ASSUME NEW t \in 0..Capacity, NEW s \in Nat
  PROVE  \E q \in Nat :
           /\ q = s \div Period
           /\ q * Period <= s
           /\ s < q * Period + Period
           /\ t + q >= Capacity => Refill(t, s) = [tokens |-> Capacity, since |-> 0]
           /\ t + q < Capacity =>
                Refill(t, s) = [tokens |-> t + q, since |-> s - q * Period]
<1> DEFINE q == s \div Period
<1>1. q \in Nat /\ q * Period <= s /\ s < q * Period + Period
  BY DivBounds, PeriodAssumption
<1>2. t + q >= Capacity => Refill(t, s) = [tokens |-> Capacity, since |-> 0]
  BY <1>1, CapacityAssumption DEF Refill, AtMost
<1>3. t + q < Capacity => Refill(t, s) = [tokens |-> t + q, since |-> s - q * Period]
  BY <1>1, CapacityAssumption DEF Refill, AtMost
<1>4. QED  BY <1>1, <1>2, <1>3

\* After refill() the bucket holds at most its capacity and less than a period
\* is pending, none at all in a full bucket.
LEMMA RefillBounds ==
  ASSUME NEW t \in 0..Capacity, NEW s \in Nat
  PROVE  /\ Refill(t, s).tokens \in 0..Capacity
         /\ Refill(t, s).since \in 0..s
         /\ Refill(t, s).since < Period
         /\ Refill(t, s).tokens = Capacity => Refill(t, s).since = 0
<1>1. PICK q \in Nat :
           /\ q = s \div Period
           /\ q * Period <= s
           /\ s < q * Period + Period
           /\ t + q >= Capacity => Refill(t, s) = [tokens |-> Capacity, since |-> 0]
           /\ t + q < Capacity =>
                Refill(t, s) = [tokens |-> t + q, since |-> s - q * Period]
  BY RefillResult
<1>2. PICK r \in Nat : r = q * Period
  BY PeriodAssumption
<1>3. CASE t + q >= Capacity
  BY <1>1, <1>3, CapacityAssumption, PeriodAssumption
<1>4. CASE t + q < Capacity
  <2>1. Refill(t, s) = [tokens |-> t + q, since |-> s - r]
    BY <1>1, <1>2, <1>4
  <2>2. r <= s /\ s < r + Period
    BY <1>1, <1>2
  <2> HIDE <1>1
  <2>3. QED  BY <2>1, <2>2, <1>4, CapacityAssumption, PeriodAssumption
<1>5. QED  BY <1>3, <1>4, <1>1, CapacityAssumption

\* Below a period refill() changes nothing that its callers can see.
LEMMA RefillNothing ==
  ASSUME NEW t \in 0..Capacity, NEW s \in Nat, s < Period
  PROVE  Refill(t, s) = [tokens |-> t, since |-> IF t = Capacity THEN 0 ELSE s]
<1>1. s \div Period = 0
  BY DivUnique, PeriodAssumption
<1>2. QED  BY <1>1, CapacityAssumption, PeriodAssumption DEF Refill, AtMost

\* One tick more: nothing, a step towards the next token, or the next token.
LEMMA RefillTick ==
  ASSUME NEW t \in 0..Capacity, NEW s \in Nat, NEW n \in Nat, n = s + 1
  PROVE  LET r == Refill(t, s)
         IN  Refill(t, n) =
               IF r.tokens = Capacity THEN r
               ELSE IF r.since = Period - 1 THEN [tokens |-> r.tokens + 1, since |-> 0]
               ELSE [tokens |-> r.tokens, since |-> r.since + 1]
<1>1. PICK q \in Nat :
           /\ q = s \div Period
           /\ q * Period <= s
           /\ s < q * Period + Period
           /\ t + q >= Capacity => Refill(t, s) = [tokens |-> Capacity, since |-> 0]
           /\ t + q < Capacity =>
                Refill(t, s) = [tokens |-> t + q, since |-> s - q * Period]
  BY RefillResult
<1>2. PICK u \in Nat :
           /\ u = n \div Period
           /\ u * Period <= n
           /\ n < u * Period + Period
           /\ t + u >= Capacity => Refill(t, n) = [tokens |-> Capacity, since |-> 0]
           /\ t + u < Capacity =>
                Refill(t, n) = [tokens |-> t + u, since |-> n - u * Period]
  BY RefillResult
<1>3. PICK r \in Nat : r = q * Period
  BY PeriodAssumption
<1>4. r <= s /\ s < r + Period
  BY <1>1, <1>3
<1>5. CASE n = r + Period
  <2>1. (q + 1) * Period = r + Period
    BY <1>3, PeriodAssumption
  <2>2. u = q + 1
    <3>1. (q + 1) \in Nat
      OBVIOUS
    <3>2. (q + 1) * Period <= n /\ n < (q + 1) * Period + Period
      BY <2>1, <1>5, PeriodAssumption
    <3>3. n \div Period = q + 1
      BY <3>1, <3>2, DivUnique, PeriodAssumption
    <3>4. QED  BY <3>3, <1>2
  <2>3. CASE t + q >= Capacity
    BY <1>1, <1>2, <2>2, <2>3, CapacityAssumption
  <2>4. CASE t + q < Capacity
    <3>1. Refill(t, s) = [tokens |-> t + q, since |-> s - r]
      BY <1>1, <1>3, <2>4
    <3>2. s - r = Period - 1
      BY <1>5, PeriodAssumption
    <3>3. Refill(t, n) = [tokens |-> t + q + 1, since |-> 0]
      <4>1. n - u * Period = 0
        BY <2>1, <2>2, <1>5, PeriodAssumption
      <4>2. CASE t + u >= Capacity
        <5>1. t + q + 1 = Capacity
          BY <4>2, <2>2, <2>4, CapacityAssumption
        <5>2. QED  BY <5>1, <4>2, <1>2
      <4>3. CASE t + u < Capacity
        <5>1. t + u = t + q + 1
          BY <2>2
        <5>2. Refill(t, n) = [tokens |-> t + u, since |-> n - u * Period]
          BY <1>2, <4>3
        <5>3. QED  BY <5>1, <5>2, <4>1
      <4>4. QED  BY <4>2, <4>3, CapacityAssumption
    <3>4. QED  BY <3>1, <3>2, <3>3, <2>4, CapacityAssumption
  <2>5. QED  BY <2>3, <2>4, CapacityAssumption
<1>6. CASE n < r + Period
  <2>1. u = q
    <3>2. q * Period <= n /\ n < q * Period + Period
      BY <1>3, <1>4, <1>6, PeriodAssumption
    <3>3. n \div Period = q
      BY <3>2, DivUnique, PeriodAssumption
    <3>4. QED  BY <3>3, <1>2
  <2>2. CASE t + q >= Capacity
    BY <1>1, <1>2, <2>1, <2>2, CapacityAssumption
  <2>3. CASE t + q < Capacity
    <3>1. Refill(t, s) = [tokens |-> t + q, since |-> s - r]
      BY <1>1, <1>3, <2>3
    <3>2. Refill(t, n) = [tokens |-> t + q, since |-> n - r]
      BY <1>2, <1>3, <2>1, <2>3
    <3>3. s - r # Period - 1 /\ n - r = s - r + 1
      BY <1>6, PeriodAssumption
    <3>4. QED  BY <3>1, <3>2, <3>3, <2>3, CapacityAssumption
  <2>4. QED  BY <2>2, <2>3, CapacityAssumption
<1>7. QED  BY <1>4, <1>5, <1>6, PeriodAssumption

(***************************************************************************)
(* The inductive invariant of the waiting caller.  While nothing was       *)
(* recorded, either it was told to go ahead and there still is a token, or *)
(* it sleeps and the bucket is empty with exactly the sleep still to go to *)
(* the next token.                                                         *)
(***************************************************************************)
WaitInv ==
  alone => \/ sleep = 0 /\ Refilled.tokens > 0
           \/ sleep > 0 /\ Refilled.tokens = 0 /\ Refilled.since + sleep = Period

IInv == TypeOK /\ WaitInv

\* Every step of Next turns the interface variable.
LEMMA CalledType ==
  ASSUME TypeOK, NEW op \in Ops, Called(op)
  PROVE  call' \in [op : Ops, turn : {0, 1}]
<1>1. call.turn \in {0, 1}
  BY DEF TypeOK
<1>2. 1 - call.turn \in {0, 1}
  BY <1>1
<1>3. QED  BY <1>2 DEF Called

\* What one tick does to the bucket as a caller would find it.
LEMMA TickRefilled ==
  ASSUME TypeOK, Tick
  PROVE  Refilled' =
           IF Refilled.tokens = Capacity THEN Refilled
           ELSE IF Refilled.since = Period - 1
             THEN [tokens |-> Refilled.tokens + 1, since |-> 0]
           ELSE [tokens |-> Refilled.tokens, since |-> Refilled.since + 1]
<1>1. since \in Nat /\ since' \in Nat /\ since' = since + 1 /\ tokens' = tokens
  BY MaxSinceAssumption DEF TypeOK, Tick
<1>2. tokens \in 0..Capacity
  BY DEF TypeOK
<1>3. QED  BY <1>1, <1>2, RefillTick DEF Refilled

\* RefillBounds, for the bucket in its current state.
LEMMA RefilledBounds ==
  ASSUME TypeOK
  PROVE  /\ Refilled.tokens \in 0..Capacity
         /\ Refilled.since \in 0..MaxSince
         /\ Refilled.since < Period
         /\ Refilled.tokens = Capacity => Refilled.since = 0
<1>1. tokens \in 0..Capacity /\ since \in Nat /\ since <= MaxSince
  BY MaxSinceAssumption DEF TypeOK
<1>2. PICK t, s : t = Refilled.tokens /\ s = Refilled.since
  OBVIOUS
<1>3. t \in 0..Capacity /\ s \in 0..since /\ s < Period /\ (t = Capacity => s = 0)
  BY <1>1, <1>2, RefillBounds DEF Refilled
<1>4. QED  BY <1>1, <1>2, <1>3, MaxSinceAssumption

\* An operation that leaves t tokens and the refilled clock: what the next
\* caller finds.
LEMMA StoreRefilled ==
  ASSUME TypeOK, NEW t \in 0..Capacity, tokens' = t, since' = Refilled.since
  PROVE  Refilled' = [tokens |-> t,
                      since |-> IF t = Capacity THEN 0 ELSE Refilled.since]
<1>1. Refilled.since \in Nat /\ Refilled.since < Period
  BY RefilledBounds, MaxSinceAssumption
<1>2. Refilled' = Refill(t, Refilled.since)
  BY DEF Refilled
<1>3. QED  BY <1>1, <1>2, RefillNothing

\* wait_time() and tokens() change nothing that a caller can see.
LEMMA RefillIsInvisible ==
  ASSUME TypeOK, tokens' = Refilled.tokens, since' = Refilled.since
  PROVE  Refilled' = Refilled
<1>1. PICK t \in 0..Capacity : t = Refilled.tokens
  BY RefilledBounds
<1>2. Refilled' = [tokens |-> t, since |-> IF t = Capacity THEN 0 ELSE Refilled.since]
  BY <1>1, StoreRefilled
<1>3. Refilled = [tokens |-> Refilled.tokens, since |-> Refilled.since]
  BY DEF Refilled, Refill
<1>4. t = Capacity => Refilled.since = 0
  BY <1>1, RefilledBounds
<1>5. QED  BY <1>1, <1>2, <1>3, <1>4

\* A new bucket, which nobody waits for, satisfies the invariant.
LEMMA InitInv == Init => IInv
<1> SUFFICES ASSUME Init PROVE IInv
  OBVIOUS
<1>1. ~alone /\ alone \in BOOLEAN
  BY Zenon DEF Init
<1>2. tokens \in 0..Capacity /\ since \in 0..MaxSince /\ sleep \in 0..Period
  BY CapacityAssumption, PeriodAssumption, MaxSinceAssumption DEF Init
<1>3. call \in [op : Ops, turn : {0, 1}]
  BY DEF Init, Ops
<1>4. QED  BY <1>1, <1>2, <1>3, Zenon DEF IInv, TypeOK, WaitInv

\* Every operation and the passing of time preserve it.
LEMMA NextInv == IInv /\ [Next]_vars => IInv'
<1> SUFFICES ASSUME IInv, [Next]_vars PROVE IInv'
  OBVIOUS
<1> USE CapacityAssumption, PeriodAssumption, MaxSinceAssumption
<1>0. TypeOK /\ WaitInv
  BY DEF IInv
<1>1. PICK t, s : t = Refilled.tokens /\ s = Refilled.since
  OBVIOUS
<1>2. t \in 0..Capacity /\ s \in 0..MaxSince /\ s < Period
  BY <1>0, <1>1, RefilledBounds
<1>3. CASE WaitTime
  <2>0. call' \in [op : Ops, turn : {0, 1}]
    <3>1. "query" \in Ops /\ Called("query")
      BY <1>3 DEF WaitTime, Ops
    <3>2. QED  BY <1>0, <3>1, CalledType
  <2>1. tokens' = t /\ since' = s /\ alone' = TRUE
    BY <1>1, <1>3 DEF WaitTime
  <2>2. sleep' = IF t > 0 THEN 0 ELSE Period - s
    BY <1>1, <1>2, <1>3 DEF WaitTime, Wait
  <2>3. Refilled' = Refilled
    BY <1>0, <1>1, <2>1, RefillIsInvisible
  <2>4. TypeOK'
    BY <1>2, <2>0, <2>1, <2>2 DEF TypeOK
  <2>5. WaitInv'
    BY <1>1, <1>2, <2>2, <2>3 DEF WaitInv
  <2>6. QED  BY <2>4, <2>5 DEF IInv
<1>4. CASE RecordSuccess
  <2>0. call' \in [op : Ops, turn : {0, 1}]
    <3>1. "success" \in Ops /\ Called("success")
      BY <1>4 DEF RecordSuccess, Ops
    <3>2. QED  BY <1>0, <3>1, CalledType
  <2>1. ~alone' /\ alone' \in BOOLEAN
    BY <1>4, Zenon DEF RecordSuccess
  <2>2. tokens' \in 0..Capacity /\ since' \in 0..MaxSince
    BY <1>1, <1>2, <1>4 DEF RecordSuccess, AtMost
  <2>3. sleep' \in 0..Period
    BY <1>0, <1>4 DEF TypeOK, RecordSuccess
  <2>4. QED  BY <2>0, <2>1, <2>2, <2>3, Zenon DEF IInv, TypeOK, WaitInv
<1>5. CASE RecordFailure
  <2>0. call' \in [op : Ops, turn : {0, 1}]
    <3>1. "failure" \in Ops /\ Called("failure")
      BY <1>5 DEF RecordFailure, Ops
    <3>2. QED  BY <1>0, <3>1, CalledType
  <2>1. ~alone' /\ alone' \in BOOLEAN
    BY <1>5, Zenon DEF RecordFailure
  <2>2. tokens' \in 0..Capacity /\ since' \in 0..MaxSince
    BY <1>1, <1>2, <1>5 DEF RecordFailure
  <2>3. sleep' \in 0..Period
    BY <1>0, <1>5 DEF TypeOK, RecordFailure
  <2>4. QED  BY <2>0, <2>1, <2>2, <2>3, Zenon DEF IInv, TypeOK, WaitInv
<1>6. CASE Tokens
  <2>0. call' \in [op : Ops, turn : {0, 1}]
    <3>1. "query" \in Ops /\ Called("query")
      BY <1>6 DEF Tokens, Ops
    <3>2. QED  BY <1>0, <3>1, CalledType
  <2>1. tokens' = t /\ since' = s /\ sleep' = sleep /\ alone' = alone
    BY <1>1, <1>6 DEF Tokens
  <2>2. Refilled' = Refilled
    BY <1>0, <1>1, <2>1, RefillIsInvisible
  <2>3. TypeOK'
    BY <1>0, <1>2, <2>0, <2>1 DEF TypeOK
  <2>4. QED  BY <1>0, <2>1, <2>2, <2>3 DEF IInv, WaitInv
<1>7. CASE Tick
  <2>0. call' \in [op : Ops, turn : {0, 1}]
    <3>1. "time" \in Ops /\ Called("time")
      BY <1>7 DEF Tick, Ops
    <3>2. QED  BY <1>0, <3>1, CalledType
  <2>1. TypeOK'
    BY <1>0, <1>7, <2>0 DEF TypeOK, Tick
  <2>2. Refilled' = IF t = Capacity THEN Refilled
                    ELSE IF s = Period - 1 THEN [tokens |-> t + 1, since |-> 0]
                    ELSE [tokens |-> t, since |-> s + 1]
    BY <1>0, <1>1, <1>7, TickRefilled
  <2>3. alone' = alone /\ sleep' = IF sleep > 0 THEN sleep - 1 ELSE 0
    BY <1>7 DEF Tick
  <2>4. sleep \in 0..Period
    BY <1>0 DEF TypeOK
  <2>5. WaitInv'
    <3> SUFFICES ASSUME alone' PROVE WaitInv'
      BY DEF WaitInv
    <3>1. \/ sleep = 0 /\ t > 0
          \/ sleep > 0 /\ t = 0 /\ s + sleep = Period
      BY <1>0, <1>1, <2>3 DEF WaitInv
    <3>2. PICK t1, s1 : t1 = Refilled'.tokens /\ s1 = Refilled'.since
      OBVIOUS
    <3>3. CASE t = Capacity
      <4>1. t1 = t
        BY <1>1, <2>2, <3>2, <3>3
      <4>2. QED  BY <1>2, <2>3, <3>1, <3>2, <3>3, <4>1 DEF WaitInv
    <3>4. CASE t # Capacity /\ s = Period - 1
      <4>1. t1 = t + 1
        BY <2>2, <3>2, <3>4
      <4>2. sleep' = 0
        BY <1>2, <2>3, <2>4, <3>1, <3>4
      <4>3. QED  BY <1>2, <3>2, <4>1, <4>2 DEF WaitInv
    <3>5. CASE t # Capacity /\ s # Period - 1
      <4>1. t1 = t /\ s1 = s + 1
        BY <2>2, <3>2, <3>5
      <4>2. QED  BY <1>2, <2>3, <2>4, <3>1, <3>2, <3>5, <4>1 DEF WaitInv
    <3>6. QED  BY <3>3, <3>4, <3>5
  <2>6. QED  BY <2>1, <2>5 DEF IInv
<1>8. CASE UNCHANGED vars
  <2>1. Refilled' = Refilled
    BY <1>8 DEF vars, Refilled
  <2>2. QED  BY <1>0, <1>8, <2>1 DEF vars, IInv, TypeOK, WaitInv
<1>9. QED  BY <1>3, <1>4, <1>5, <1>6, <1>7, <1>8 DEF Next

\* The inductive invariant holds throughout.
THEOREM BudgetInvariant == Spec => []IInv
  BY InitInv, NextInv, PTL DEF Spec

\* The bucket never exceeds its capacity, never goes below zero, and never makes
\* a caller wait for longer than a period.
THEOREM BudgetTypeCorrect == Spec => []TypeOK
<1>1. IInv => TypeOK  BY DEF IInv
<1>2. QED  BY <1>1, BudgetInvariant, PTL

\* A caller that slept for what wait_time() returned finds a token, and would
\* have found none before.
THEOREM WaitTimeIsExact == Spec => []WaitIsExact
<1>1. IInv => WaitIsExact
  <2> SUFFICES ASSUME IInv, alone PROVE sleep = 0 <=> Available > 0
    BY DEF WaitIsExact
  <2>1. Refilled.tokens \in 0..Capacity /\ sleep \in 0..Period
    BY RefilledBounds DEF IInv, TypeOK
  <2>2. QED  BY <2>1, CapacityAssumption, PeriodAssumption DEF IInv, WaitInv, Available
<1>2. QED  BY <1>1, BudgetInvariant, PTL

(***************************************************************************)
(* Refinement                                                              *)
(***************************************************************************)

\* Every step of the lazy bucket is one of the bucket that the clock refills, or
\* none at all.
THEOREM LazyRefillImplementsTokenBucket == Spec => ImplementsTokenBucket
<1> USE CapacityAssumption, PeriodAssumption, MaxSinceAssumption
<1>1. Init => Bucket!Init
  <2> SUFFICES ASSUME Init PROVE Bucket!Init
    OBVIOUS
  <2>1. tokens = Capacity /\ since = 0 /\ call = [op |-> "new", turn |-> 0]
    BY DEF Init
  <2>2. Refilled = [tokens |-> Capacity, since |-> 0]
    BY <2>1, RefillNothing DEF Refilled
  <2>3. QED  BY <2>1, <2>2 DEF Bucket!Init
<1>2. IInv /\ [Next]_vars =>
        [Bucket!Next]_<<Refilled.tokens,
                        IF Refilled.tokens = Capacity THEN 0 ELSE Refilled.since, call>>
  <2> SUFFICES ASSUME IInv, [Next]_vars
               PROVE  [Bucket!Next]_<<Refilled.tokens,
                        IF Refilled.tokens = Capacity THEN 0 ELSE Refilled.since, call>>
    OBVIOUS
  <2>0. TypeOK
    BY DEF IInv
  <2>1. PICK t, s : t = Refilled.tokens /\ s = Refilled.since
    OBVIOUS
  <2>2. t \in 0..Capacity /\ s \in 0..MaxSince /\ s < Period /\ (t = Capacity => s = 0)
    BY <2>0, <2>1, RefilledBounds
  <2>3. CASE WaitTime
    <3>1. Refilled' = Refilled
      BY <2>0, <2>3, RefillIsInvisible DEF WaitTime
    <3>2. Bucket!Query
      BY <2>3, <3>1 DEF WaitTime, Called, Bucket!Query, Bucket!Called
    <3>3. QED  BY <3>2 DEF Bucket!Next
  <2>4. CASE RecordSuccess
    <3>1. PICK t1 \in 0..Capacity : t1 = IF t < Capacity THEN t + 1 ELSE Capacity
      BY <2>2
    <3>2. tokens' = t1 /\ since' = Refilled.since
      BY <2>1, <2>2, <2>4, <3>1 DEF RecordSuccess, AtMost
    <3>3. Refilled' = [tokens |-> t1, since |-> IF t1 = Capacity THEN 0 ELSE s]
      BY <2>0, <2>1, <3>2, StoreRefilled
    <3>4. Bucket!Earn
      BY <2>1, <2>2, <2>4, <3>1, <3>3 DEF Bucket!Earn, Bucket!Called, RecordSuccess, Called
    <3>5. QED  BY <3>4 DEF Bucket!Next
  <2>5. CASE RecordFailure
    <3>1. PICK t1 \in 0..Capacity : t1 = IF t > 0 THEN t - 1 ELSE 0
      BY <2>2
    <3>2. tokens' = t1 /\ since' = Refilled.since
      BY <2>1, <2>2, <2>5, <3>1 DEF RecordFailure
    <3>3. Refilled' = [tokens |-> t1, since |-> IF t1 = Capacity THEN 0 ELSE s]
      BY <2>0, <2>1, <3>2, StoreRefilled
    <3>4. Bucket!Spend
      BY <2>1, <2>2, <2>5, <3>1, <3>3 DEF Bucket!Spend, Bucket!Called, RecordFailure, Called
    <3>5. QED  BY <3>4 DEF Bucket!Next
  <2>6. CASE Tokens
    <3>1. Refilled' = Refilled
      BY <2>0, <2>6, RefillIsInvisible DEF Tokens
    <3>2. Bucket!Query
      BY <2>6, <3>1 DEF Tokens, Called, Bucket!Query, Bucket!Called
    <3>3. QED  BY <3>2 DEF Bucket!Next
  <2>7. CASE Tick
    <3>1. Refilled' = IF t = Capacity THEN Refilled
                      ELSE IF s = Period - 1 THEN [tokens |-> t + 1, since |-> 0]
                      ELSE [tokens |-> t, since |-> s + 1]
      BY <2>0, <2>1, <2>7, TickRefilled
    <3>2. Bucket!Called("time")
      BY <2>7 DEF Tick, Called, Bucket!Called
    <3>3. Bucket!Elapse
      <4>1. CASE t = Capacity
        BY <2>1, <3>1, <3>2, <4>1 DEF Bucket!Elapse
      <4>2. CASE t # Capacity
        BY <2>1, <2>2, <3>1, <3>2, <4>2 DEF Bucket!Elapse
      <4>3. QED  BY <4>1, <4>2
    <3>4. QED  BY <3>3 DEF Bucket!Next
  <2>8. CASE UNCHANGED vars
    <3>1. Refilled' = Refilled
      BY <2>8 DEF vars, Refilled
    <3>2. QED  BY <2>8, <3>1 DEF vars
  <2>9. QED  BY <2>3, <2>4, <2>5, <2>6, <2>7, <2>8 DEF Next
<1>3. QED  BY <1>1, <1>2, BudgetInvariant, PTL DEF Spec, ImplementsTokenBucket, Bucket!Spec
=============================================================================
