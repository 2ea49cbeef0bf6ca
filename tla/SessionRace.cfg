\* Four requests of any kind on two accounts, overlapping; one fault.
CONSTANTS
  Requests = {r1, r2, r3, r4}
  Users = {u1, u2}
  Passwords = {p1}
  Ops <- AllOps
  CacheEnabled = TRUE
  Overlap = TRUE
  MaxFaults = 1
  NoUser = NoUser
  NoPassword = NoPassword
  Social = Social
  BadToken = BadToken
  NoToken = NoToken
  Empty = Empty
  NoRow = NoRow
  NoCall = NoCall
  NoReply = NoReply
SPECIFICATION Spec
SYMMETRY Symmetry
INVARIANTS
  TypeOK
  JoinedAccountIsMine
  SomebodyHoldsTheSession
  CacheHoldsOnlyStored
PROPERTIES
  ImplementsSessionContract
CHECK_DEADLOCK FALSE
