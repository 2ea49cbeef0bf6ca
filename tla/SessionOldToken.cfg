\* A replaced token, accepted from the cache.
CONSTANTS
  Requests = {r1, r2, r3, r4}
  Users = {u1}
  Passwords = {p1}
  Ops <- TokenOps
  CacheEnabled = TRUE
  Overlap = TRUE
  MaxFaults = 0
  NoUser = NoUser
  NoPassword = NoPassword
  Social = Social
  BadToken = BadToken
  NoToken = NoToken
  Empty = Empty
  NoRow = NoRow
  NoCall = NoCall
  NoReply = NoReply
SPECIFICATION Spec
SYMMETRY Symmetry
INVARIANTS
  OldTokenDies
CHECK_DEADLOCK FALSE
