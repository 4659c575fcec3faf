---------------------------- MODULE TokenBucket ----------------------------
(***************************************************************************)
(* What the reconnect budget promises (the header of                       *)
(* src/reconnect_budget.rs), with time made explicit: a bucket that is     *)
(* refilled by the clock, one token each time it has been below its        *)
(* capacity for a whole period.                                            *)
(***************************************************************************)
EXTENDS Integers

CONSTANTS Capacity, Period

VARIABLES
  level,  \* tokens in the bucket
  age,    \* time towards the next token
  call    \* interface: what happened last; every step turns it

Ops == {"new", "time", "query", "failure", "success"}

Called(op) == call' = [op |-> op, turn |-> 1 - call.turn]

Init ==
  /\ level = Capacity
  /\ age = 0
  /\ call = [op |-> "new", turn |-> 0]

\* Time passes.  A full bucket does not accrue.
Elapse ==
  /\ Called("time")
  /\ IF level = Capacity
       THEN UNCHANGED <<level, age>>
     ELSE IF age = Period - 1
       THEN level' = level + 1 /\ age' = 0
       ELSE age' = age + 1 /\ UNCHANGED level

\* Somebody looks.
Query ==
  /\ Called("query")
  /\ UNCHANGED <<level, age>>

\* A failed attempt spends a token, if there is one.
Spend ==
  /\ Called("failure")
  /\ level' = IF level > 0 THEN level - 1 ELSE 0
  /\ UNCHANGED age

\* A successful attempt earns one back; a full bucket has no progress to keep.
Earn ==
  /\ Called("success")
  /\ level' = IF level < Capacity THEN level + 1 ELSE Capacity
  /\ age' = IF level' = Capacity THEN 0 ELSE age

Next == Elapse \/ Query \/ Spend \/ Earn

Spec == Init /\ [][Next]_<<level, age, call>>
=============================================================================
