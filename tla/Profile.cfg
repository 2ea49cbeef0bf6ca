\* Four requests of two users for two nicknames, overlapping; one fault.
CONSTANTS
  Requests = {r1, r2, r3, r4}
  Users = {u1, u2}
  Nicknames = {n1, n2}
  MaxFaults = 1
  NoName = NoName
  Old = Old
  Absent = Absent
  Empty = Empty
  NoCall = NoCall
  NoReply = NoReply
SPECIFICATION Spec
SYMMETRY Symmetry
INVARIANTS
  TypeOK
  ProfilesMatchAnswers
  AbsenceIsTransient
PROPERTIES
  ReadShowsTheRow
CHECK_DEADLOCK FALSE
