\* A user at two addresses and an anonymous client; two requests in three milliseconds.
CONSTANTS
  Callers <- Mixed
  NoUser = NoUser
  u1 = u1
  a1 = a1
  a2 = a2
  Ttl = 3
  Limit = 2
  Second = 2
  MaxTime = 8
  MaxRequests = 5
  NoKey = NoKey
  NoAnswer = NoAnswer
SPECIFICATION Spec
INVARIANTS
  TypeOK
  BurstBound
PROPERTIES
  HeadersAreKept
  RetryAfterIsEnough
CHECK_DEADLOCK FALSE
