----------------------------- MODULE BlogProps -----------------------------
(***************************************************************************)
(* What Blog is checked for.                                               *)
(***************************************************************************)
EXTENDS Blog

Places == {"idle", "write", "check", "post", "lookup", "select", "keep", "count",
           "keepCount", "likes", "done"}
PageReads == [page : Pages, list : SUBSET Posts, count : Nat, total : Nat]

\* Every variable has its type.
TypeOK ==
  /\ pc \in [Requests -> Places]
  /\ call \in [Requests -> CallType \cup {NoCall}]
  /\ got \in [Requests -> PageReads]
  /\ posts \subseteq Posts
  /\ lastId \in OldPosts..MaxPosts
  /\ likes \subseteq Ids \X Users
  /\ lists \in [Feeds -> [Pages -> SUBSET (SUBSET Posts)]]
  /\ counts \in [Feeds -> [Pages -> SUBSET Nat]]
  /\ reply \in [Requests -> Codes \cup {NoReply}]
  /\ faults \in 0..MaxFaults
  /\ posts \in past /\ past \subseteq SUBSET Posts

\* However a like races with the deletion of its post, no like is left without
\* one, and so no read of the likes meets a post that is gone.
LikesHavePosts == \A l \in likes : Exists(l[1])

Accepted(op, id, u) ==
  {r \in Requests : reply[r] = "SUCCESS" /\ call[r].op = op
                    /\ call[r].id = id /\ call[r].user = u}

\* The unlikes that may have reached the table, answered or not.
Unlikes(id, u) ==
  {r \in Requests : reply[r] \in {"SUCCESS", "COMMON_INTERNAL_ERROR"}
                    /\ call[r].op = "unlike" /\ call[r].id = id /\ call[r].user = u}

\* One like per user and post (INV-8), told by the answers: a like that was
\* accepted is in the table until an unlike of that user, and a second one is
\* accepted only after such an unlike, though both of them saw no like before.
LikesMatchAnswers ==
  \A id \in Ids, u \in Users :
    LET accepted == Accepted("like", id, u) IN
    /\ accepted # {} /\ Unlikes(id, u) = {} => <<id, u>> \in likes
    /\ Cardinality(accepted) <= Cardinality(Unlikes(id, u)) + 1

\* A like needs no profile and a read needs one for every like, so a user without a
\* profile can take a post from all its readers; only by having liked that very
\* post, though, whichever request of whom came in between.
HiddenByALike ==
  OldLikes = 0 =>
    \A r \in Requests : reply[r] = "USER_INFO_NOT_FOUND" /\ call[r].op = "read" =>
      \E q \in Requests :
        /\ reply[q] \in {"SUCCESS", "COMMON_INTERNAL_ERROR"}
        /\ call[q].op = "like" /\ call[q].id = call[r].id /\ call[q].user \in Nameless

\* A post changes or goes only by a request of its owner for that very post
\* (INV-6): neither a request of another user nor one of no effect touches it.
OnlyTheOwnerWrites ==
  [][\A p \in posts : p \notin posts' =>
       \E r \in Requests :
         /\ pc[r] = "write" /\ pc'[r] = "done"
         /\ call[r].op \in {"patch", "delete"}
         /\ call[r].id = p.id /\ call[r].user = p.owner]_vars

Shown(r) == reply[r] = "SUCCESS" /\ call[r].op = "list"

\* The pages of a feed: its posts from the newest on, Take to a page.
PageNumber(p, rows) == Cardinality(Newer(p, rows)) \div Take + 1
TruePage(table, feed, page) ==
  {p \in InFeed(table, feed) : PageNumber(p, InFeed(table, feed)) = page}

\* What a client is shown for page n of a feed was page n of that feed, or the last
\* page by the total beside it when that is less, at some moment and with the texts of
\* that moment, whatever the cache, the expiry of its entries and the turn to the last
\* page made of it; and the page number in the answer is that page's.
PageWasTrue ==
  \A r \in Requests : Shown(r) =>
    LET page == AdjustedPage(call[r].page, got[r].total) IN
    /\ AdjustedPage(got[r].page, got[r].total) = page
    /\ \E table \in past : got[r].list = TruePage(table, call[r].user, page)

\* The total beside it was that feed's number of posts at some moment, though it
\* may have been inferred from a list and need not be of the same moment.
TotalWasTrue ==
  \A r \in Requests : Shown(r) =>
    \E table \in past : got[r].total = Cardinality(InFeed(table, call[r].user))

\* A feed that never changed is answered exactly, whatever is written to others: its
\* number of posts, and the page asked for, or the last one when that is past it.
QuietFeedIsExact ==
  \A r \in Requests :
    Shown(r) /\ (\A table \in past : InFeed(table, call[r].user) = InFeed(posts, call[r].user)) =>
      LET n == Cardinality(InFeed(posts, call[r].user)) IN
      /\ got[r].total = n
      /\ got[r].list = TruePage(posts, call[r].user, AdjustedPage(call[r].page, n))
=============================================================================
