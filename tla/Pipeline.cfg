\* Three requests of two accounts on one server, one fault, two lives of the key,
\* and handlers that may outlive the TTL of their lock.
CONSTANTS
  Requests = {r1, r2, r3}
  Servers = {s1}
  Users = {u1, u2}
  Keys = {k1}
  Posts = {p1}
  NoUser = nobody
  NoKey = nokey
  BadKey = badkey
  NoId = noid
  u1 = u1
  u2 = u2
  k1 = k1
  p1 = p1
  nobody = nobody
  nokey = nokey
  badkey = badkey
  noid = noid
  Clear = Clear
  AuthorOf <- MCAuthorOf
  RoleOf <- MCRoleOf
  OldIds <- MCOldIds
  Sends <- MCSends
  Methods <- MCMethods
  Paths <- MCPaths
  Calls <- MCCalls
  HttpStatuses = {400}
  MaxLife = 2
  MaxFaults = 1
  PromptHandlers = FALSE
  NoCall = NoCall
  NoRecord = NoRecord
  NoOutcome = NoOutcome
  NoReply = NoReply
  NoServer = NoServer
  NoHandler = NoHandler
  NoSend = NoSend
SPECIFICATION PSpec
SYMMETRY PSymmetry
INVARIANTS
  PTypeOK
  EffectOncePerKey
  AnswersAreMine
  SuccessWasDone
  ShownIdsComeBack
  ReplayHasARun
CHECK_DEADLOCK FALSE
