-------------------------- MODULE SessionContract --------------------------
(***************************************************************************)
(* What accounts and sessions promise to clients, without a cache, a       *)
(* process or an await: an account is created once and keeps its password; *)
(* its session holds one refresh token, replaced in one step by a request  *)
(* that may do so, whose tokens its client gets only afterwards; a request *)
(* that is refused has stored no token, and there is a reason in the row at*)
(* that moment, or a failure that answers for this refusal alone.          *)
(*                                                                         *)
(* Fresh: tokens are compared with the row.  Serial: nothing comes between *)
(* the comparison and the new token.  Session implements this.             *)
(***************************************************************************)
EXTENDS Integers

CONSTANTS Requests, Users, Fresh, Serial,
          Social, BadToken, NoToken, NoRow, NoCall, NoReply

VARIABLES
  asked,    \* what each client asks
  row,      \* each account: its password and the token of its session
  issued,   \* the tokens that have been in a row, each with its user
  told,     \* what each client was told
  failures  \* failures so far

cvars == <<asked, row, issued, told, failures>>

Fails   == failures' = failures + 1
MayFail == UNCHANGED failures \/ Fails

Issued == {t \in Requests : \E u \in Users : <<t, u>> \in issued}
Handed == {t \in Requests : told[t] = "TOKENS"}

Tell(r, a) == told[r] = NoReply /\ told' = [told EXCEPT ![r] = a]
TellFailure(r) == Fails /\ Tell(r, "COMMON_INTERNAL_ERROR")

\* A request acts for the user it names or the one its refresh token was for.
ActsFor(r, u) == u = asked[r].user \/ <<asked[r].refresh, u>> \in issued

TokenRefusal(c) == IF c.op = "use" THEN "AUTH_UNAUTHORIZED" ELSE "AUTH_INVALID_REFRESH_TOKEN"
Incomplete(c) == c.op \in {"refresh", "use"}
                   /\ BadToken \in {c.refresh} \cup IF c.op = "use" THEN {c.access} ELSE {}

CInit ==
  /\ asked = [r \in Requests |-> NoCall]
  /\ row = [u \in Users |-> NoRow]
  /\ issued = {}
  /\ told = [r \in Requests |-> NoReply]
  /\ failures = 0

\* Clients present tokens they were given.
Ask(r) ==
  LET c == asked'[r] IN
  /\ asked[r] = NoCall /\ c # NoCall
  /\ asked' = [asked EXCEPT ![r] = c]
  /\ {c.access, c.refresh} \subseteq Handed \cup {BadToken}
  /\ UNCHANGED told \/ (Incomplete(c) /\ Tell(r, TokenRefusal(c)))
  /\ UNCHANGED <<row, issued, failures>>

Create(r, u) ==
  /\ asked[r] # NoCall /\ asked[r].op \in {"join", "oauth"} /\ asked[r].user = u
  /\ row[u] = NoRow /\ told[r] = NoReply
  /\ row' = [row EXCEPT ![u] =
       [password |-> IF asked[r].op = "join" THEN asked[r].password ELSE Social,
        refreshToken |-> NoToken]]
  /\ (UNCHANGED <<told, failures>>) \/ TellFailure(r)
  /\ UNCHANGED <<asked, issued>>

MayRotate(r, u) ==
  /\ asked[r].op # "use" /\ ActsFor(r, u) /\ row[u] # NoRow
  /\ asked[r].op \in {"join", "login"} => row[u].password = asked[r].password
  /\ asked[r].op = "refresh" /\ Serial => row[u].refreshToken = asked[r].refresh

Rotate(r, u) ==
  /\ asked[r] # NoCall /\ MayRotate(r, u) /\ r \notin Issued /\ told[r] = NoReply
  /\ row' = [row EXCEPT ![u].refreshToken = r]
  /\ issued' = issued \cup {<<r, u>>}
  /\ (UNCHANGED <<told, failures>>) \/ TellFailure(r)
  /\ UNCHANGED asked

Hand(r) ==
  /\ r \in Issued /\ Tell(r, "TOKENS")
  /\ UNCHANGED <<asked, row, issued, failures>>

Pass(r, u) ==
  /\ asked[r] # NoCall /\ asked[r].op = "use" /\ Tell(r, "PASS")
  /\ asked[r].access \in Issued /\ <<asked[r].refresh, u>> \in issued
  /\ Fresh => row[u].refreshToken = asked[r].refresh
  /\ MayFail /\ UNCHANGED <<asked, row, issued>>

\* What speaks against a request of user u.  An insert that loses a race is told
\* of an internal error.
Reason(r, u, a) ==
  LET op == asked[r].op IN
  \/ a = "USER_ALREADY_EXISTS" /\ op = "join" /\ row[u] # NoRow
  \/ a = "COMMON_INTERNAL_ERROR" /\ op \in {"join", "oauth"} /\ row[u] # NoRow
  \/ a = "USER_NOT_FOUND" /\ op = "login" /\ row[u] = NoRow
  \/ /\ a = "AUTH_INVALID_PASSWORD" /\ op = "login"
     /\ row[u] # NoRow /\ row[u].password # asked[r].password
  \/ /\ a = TokenRefusal(asked[r]) /\ op \in {"refresh", "use"}
     /\ Fresh => row[u].refreshToken # asked[r].refresh

Refuse(r) ==
  LET a == told'[r] IN
  /\ asked[r] # NoCall /\ Tell(r, a) /\ r \notin Issued
  /\ \/ \E u \in Users : ActsFor(r, u) /\ Reason(r, u, a) /\ MayFail
     \/ Incomplete(asked[r]) /\ a = TokenRefusal(asked[r]) /\ MayFail
     \/ Fails /\ a = "COMMON_INTERNAL_ERROR"
     \/ Fails /\ asked[r].op \in {"refresh", "use"} /\ a = TokenRefusal(asked[r])
  /\ UNCHANGED <<asked, row, issued>>

\* A failure nobody hears of.
Fail == Fails /\ UNCHANGED <<asked, row, issued, told>>

CNext ==
  \/ \E r \in Requests : Ask(r) \/ Hand(r) \/ Refuse(r)
  \/ \E r \in Requests, u \in Users : Create(r, u) \/ Rotate(r, u) \/ Pass(r, u)
  \/ Fail

CSpec == CInit /\ [][CNext]_cvars
=============================================================================
