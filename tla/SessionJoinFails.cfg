\* A join whose second statement fails.
CONSTANTS
  Requests = {r1, r2}
  Users = {u1}
  Passwords = {p1}
  Ops <- AccountOps
  CacheEnabled = TRUE
  Overlap = TRUE
  MaxFaults = 1
  NoUser = NoUser
  NoPassword = NoPassword
  Social = Social
  BadToken = BadToken
  NoToken = NoToken
  Empty = Empty
  NoRow = NoRow
  NoCall = NoCall
  NoReply = NoReply
SPECIFICATION Spec
SYMMETRY Symmetry
PROPERTIES
  FailedJoinLeavesNoAccount
CHECK_DEADLOCK FALSE
