\* Four requests that write posts and likes or read one post, by two users; one fault.
CONSTANTS
  Requests = {r1, r2, r3, r4}
  Users = {u1, u2}
  Ops <- WriteOps
  MaxPage = 1
  Asked = {1}
  OldPosts = 1
  OldLikes = 0
  MaxPosts = 2
  Take = 2
  Nameless = {u1}
  MaxLists = 0
  MaxFaults = 1
  All = All
  Old = Old
  NoCall = NoCall
  NoReply = NoReply
SPECIFICATION Spec
SYMMETRY RequestSymmetry
INVARIANTS
  TypeOK
  LikesHavePosts
  LikesMatchAnswers
  HiddenByALike
PROPERTIES
  OnlyTheOwnerWrites
CHECK_DEADLOCK FALSE
