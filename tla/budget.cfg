\* Four tokens, a period of five ticks, and idle times of up to six periods,
\* which is more than it takes to fill an empty bucket.
SPECIFICATION Spec
CONSTANTS
  Capacity = 4
  Period = 5
  MaxSince = 30
INVARIANTS
  TypeOK
  WaitIsExact
PROPERTIES
  ImplementsTokenBucket
