\* Three requests that write posts or read pages, two lists among them; two posts to begin with.
CONSTANTS
  Requests = {r1, r2, r3}
  Users = {u1, u2}
  Ops <- PageOps
  MaxPage = 3
  Asked = {1, 3}
  OldPosts = 2
  OldLikes = 0
  MaxPosts = 3
  Take = 2
  Nameless = {}
  MaxLists = 2
  MaxFaults = 0
  All = All
  Old = Old
  NoCall = NoCall
  NoReply = NoReply
SPECIFICATION Spec
SYMMETRY Symmetry
INVARIANTS
  PageWasTrue
  TotalWasTrue
  QuietFeedIsExact
CHECK_DEADLOCK FALSE
