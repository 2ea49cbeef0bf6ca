\* A graceful shutdown with one request in flight.
CONSTANTS
  Requests = {r1, r2}
  Servers = {s1}
  Users = {u1}
  Keys = {k1}
  NoUser = nobody
  NoKey = nokey
  BadKey = badkey
  u1 = u1
  k1 = k1
  Methods <- MCMethods
  Paths <- MCPaths
  Calls <- OneKey
  HttpStatuses = {400}
  MaxLife = 1
  MaxFaults = 1
  PromptHandlers = TRUE
  NoCall = NoCall
  NoRecord = NoRecord
  NoOutcome = NoOutcome
  NoReply = NoReply
  NoServer = NoServer
SPECIFICATION Spec
INVARIANTS
  ShutdownStoresAnswers
CHECK_DEADLOCK FALSE
