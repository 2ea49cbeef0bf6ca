--------------------------- MODULE PipelineProps ---------------------------
(***************************************************************************)
(* What Pipeline is checked for, and ReplayHasARun of IdempotencyProps,    *)
(* with the kinds of call the routes really make.                          *)
(***************************************************************************)
EXTENDS Pipeline, IdempotencyProps

\* Every variable of the pipeline has its type.
PTypeOK ==
  /\ stage \in [Requests -> {"new", "throttle", "in", "refused", "dead"}]
  /\ sent \in [Requests -> Sends \cup {NoSend}]
  /\ at \in [Requests -> Servers \cup {NoServer}]
  /\ header \in [Requests -> Users \cup {NoUser}]
  /\ acted \in [Requests -> Handlers \cup {NoHandler}]

Acted(r) == acted[r] # NoHandler

\* A write of an account with an Idempotency-Key, as the client sees it.
Keyed(m) ==
  /\ m.key \in Keys
  /\ m.route \notin Public /\ HttpMethod(m.route) \notin SAFE_METHODS

\* While a key is remembered, the handlers do at most one of the writes an
\* account sends with it: in terms of what clients send, so that the guard has to
\* hand the account of the token on to the interceptor, before it runs
\* (app.module.ts:74-91).
EffectOncePerKey ==
  \A r, p \in Requests :
    /\ r # p /\ Acted(r) /\ Acted(p)
    /\ Keyed(sent[r]) /\ Keyed(sent[p])
    /\ sent[r].refresh = sent[p].refresh /\ sent[r].key = sent[p].key
    => born[r] # born[p]

\* What a handler answered one client reaches another one only if both sent the
\* refresh token of one account, one key and one request; the answers of public
\* routes, which hold tokens, reach nobody else, whatever key is sent along.
AnswersAreMine ==
  \A r, p \in Requests :
    reply[r] # NoReply /\ reply[r].run = {p} /\ r # p =>
      /\ sent[r].route \notin Public /\ sent[r].route = sent[p].route
      /\ sent[r].refresh = sent[p].refresh
      /\ sent[r].key = sent[p].key /\ sent[r].id = sent[p].id

\* A client that hears SUCCESS, live or replayed, knows it is done: a handler was
\* called for the account of its token, the route and the post it asked for.
\* (Nothing compares the bodies: the contents written may be those of another
\* request with the key.)
SuccessWasDone ==
  \A r \in Requests :
    reply[r] # NoReply /\ reply[r].code = "SUCCESS" =>
      \E p \in Requests :
        /\ reply[r].run = {p} /\ Acted(p)
        /\ acted[p] =
             Arguments(sent[r], IF sent[r].route \in Public THEN NoUser
                                ELSE sent[r].refresh)

\* Ids go round: an id out of a response of PostController, sent back in a path,
\* is never refused as undecryptable, and what the handler is called with for it
\* is a post, or an author, that the response was about.
ShownIdsComeBack ==
  \A r, p \in Requests :
    sent[r] # NoSend /\ sent[r].id \in ShownTo(p) =>
      /\ outcome[r] # NoOutcome /\ ~Acted(r) => outcome[r] = BadArgument
      /\ Acted(r) =>
           \E dto \in Result(acted[p]).top \cup Result(acted[p]).items :
             acted[r].value \in {dto.postId.value, dto.postUid.value}
=============================================================================
