\* Five requests that do not overlap, with the cache; one fault.
CONSTANTS
  Requests = {r1, r2, r3, r4, r5}
  Users = {u1}
  Passwords = {p1}
  Ops <- TokenOps
  CacheEnabled = TRUE
  Overlap = FALSE
  MaxFaults = 1
  NoUser = NoUser
  NoPassword = NoPassword
  Social = Social
  BadToken = BadToken
  NoToken = NoToken
  Empty = Empty
  NoRow = NoRow
  NoCall = NoCall
  NoReply = NoReply
SPECIFICATION Spec
SYMMETRY Symmetry
INVARIANTS
  CacheIsCurrent
  OldTokenDies
  NewTokenWorks
PROPERTIES
  ImplementsSessionContract
CHECK_DEADLOCK FALSE
