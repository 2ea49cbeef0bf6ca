------------------------ MODULE IdempotencyContract ------------------------
(***************************************************************************)
(* What an Idempotency-Key promises to clients, without servers, Redis or  *)
(* failures: while a slot (a user and a key) is remembered, one request    *)
(* alone may run for it; the answer of a slot is fixed once, by the run    *)
(* that owns it; every other request with that key hears the same answer   *)
(* or is refused, and a request that is refused never runs, before or      *)
(* after: its client may send it again.  Idempotency implements this.      *)
(***************************************************************************)
CONSTANTS Requests, Slots, Codes, Refusals, NoReply

VARIABLES
  slot,   \* each slot: its owner (a set of at most one request), state and code
  ran,    \* the requests that may have had an effect
  heard   \* what each client was told: a code and the run it comes from

cvars == <<slot, ran, heard>>

Free          == [owner |-> {}, state |-> "free", code |-> NoReply]
Open(o)       == [owner |-> o, state |-> "open", code |-> NoReply]
Settled(r, c) == [owner |-> {r}, state |-> "settled", code |-> c]

Tell(r, code, run) ==
  /\ heard[r] = NoReply
  /\ heard' = [heard EXCEPT ![r] = [code |-> code, run |-> run]]

CInit ==
  /\ slot  = [k \in Slots |-> Free]
  /\ ran   = {}
  /\ heard = [r \in Requests |-> NoReply]

\* A request without a key runs and answers for itself.
Bypass(r) ==
  /\ r \notin ran /\ ran' = ran \cup {r}
  /\ \E c \in Codes : Tell(r, c, {r})
  /\ UNCHANGED slot

\* A request becomes the owner of a slot nobody owns.
Claim(r, k) ==
  /\ slot[k] = Free /\ r \notin ran /\ heard[r] = NoReply
  /\ slot' = [slot EXCEPT ![k] = Open({r})]
  /\ ran' = ran \cup {r}
  /\ UNCHANGED heard

\* A request that has done nothing is refused; at worst it leaves a slot taken,
\* with no owner.
Refuse(r) ==
  /\ r \notin ran
  /\ \E c \in Refusals : Tell(r, c, {})
  /\ \/ UNCHANGED slot
     \/ \E k \in Slots : slot[k] = Free /\ slot' = [slot EXCEPT ![k] = Open({})]
  /\ UNCHANGED ran

\* The owner fixes the answer of its slot.
Settle(r, k) ==
  /\ slot[k] = Open({r}) /\ heard[r] = NoReply
  /\ \E c \in Codes : slot' = [slot EXCEPT ![k] = Settled(r, c)]
  /\ UNCHANGED <<ran, heard>>

\* A request that ran answers its client: as it settled, if it settled.
AnswerOwn(r) ==
  /\ r \in ran
  /\ \E c \in Codes :
        /\ \A k \in Slots :
              slot[k].owner = {r} /\ slot[k].state = "settled" => slot[k].code = c
        /\ Tell(r, c, {r})
  /\ UNCHANGED <<slot, ran>>

\* Another request with the same key hears the answer of the slot.
Replay(r, k) ==
  /\ r \notin ran
  /\ slot[k].state = "settled"
  /\ Tell(r, slot[k].code, slot[k].owner)
  /\ UNCHANGED <<slot, ran>>

Forget(k) ==
  /\ slot' = [slot EXCEPT ![k] = Free]
  /\ UNCHANGED <<ran, heard>>

CNext ==
  \/ \E r \in Requests : Bypass(r) \/ Refuse(r) \/ AnswerOwn(r)
  \/ \E r \in Requests, k \in Slots : Claim(r, k) \/ Settle(r, k) \/ Replay(r, k)
  \/ \E k \in Slots : Forget(k)

CSpec == CInit /\ [][CNext]_cvars
=============================================================================
