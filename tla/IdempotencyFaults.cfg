\* One key, three requests on two servers, two faults, two lives of the key.
CONSTANTS
  Requests = {r1, r2, r3}
  Servers = {s1, s2}
  Users = {u1}
  Keys = {k1}
  NoUser = nobody
  NoKey = nokey
  BadKey = badkey
  u1 = u1
  k1 = k1
  Methods <- MCMethods
  Paths <- MCPaths
  Calls <- OneKey
  HttpStatuses = {400}
  MaxLife = 2
  MaxFaults = 2
  PromptHandlers = TRUE
  NoCall = NoCall
  NoRecord = NoRecord
  NoOutcome = NoOutcome
  NoReply = NoReply
  NoServer = NoServer
SPECIFICATION Spec
SYMMETRY Symmetry
INVARIANTS
  TypeOK
  AnsweredIsStored
  PendingIsOwned
  AtMostOncePerLife
  ReplaysTheRunOfItsLife
PROPERTIES
  CompletedIsFinal
  ImplementsContract
CHECK_DEADLOCK FALSE
