-------------------------- MODULE ThrottlerProofs ---------------------------
(***************************************************************************)
(* The types of Throttler, what its headers promise and how large a burst  *)
(* gets through, for every limit, window and set of callers.               *)
(***************************************************************************)
EXTENDS ThrottlerProps, FiniteSetTheorems, TLAPS

USE LimitsAssumption, BoundsAssumption, ModelValuesAssumption

\* A key is there until its end, and a counter does not outlive a running block.
KeysInv ==
  \A k \in Trackers :
    /\ counter[k] # NoKey => now <= counter[k].end /\ counter[k].end <= now + Ttl
    /\ block[k] # NoKey => now <= block[k]
    /\ counter[k] # NoKey /\ Blocked(k) => counter[k].end <= block[k]

\* What an answer said still bounds the keys behind it: a refusal the block, or
\* nothing is left of both keys; a permission the counter.
AnswerInv ==
  \A k \in Trackers : answer[k] # NoAnswer =>
    /\ answer[k].blocked =>
         \/ counter[k] = NoKey /\ block[k] = NoKey
         \/ /\ block[k] # NoKey /\ block[k] <= answer[k].until
            /\ counter[k] # NoKey => counter[k].end <= block[k]
    /\ ~answer[k].blocked =>
         /\ ~Blocked(k)
         /\ counter[k] # NoKey =>
              /\ counter[k].hits = Limit - answer[k].remaining
              /\ counter[k].end <= answer[k].until

IInv == TypeOK /\ KeysInv /\ AnswerInv

-----------------------------------------------------------------------------
\* Rounding up to seconds never names an earlier instant.
LEMMA RoundsUp ==
  ASSUME NEW ms \in Nat, now \in Nat
  PROVE  FromNow(ms) \in Nat /\ FromNow(ms) >= now + ms
<1> DEFINE q == (ms + Second - 1) \div Second
           r == (ms + Second - 1) % Second
<1>1. Second \in Nat \ {0}
  OBVIOUS
<1>2. q \in Nat /\ r \in 0..(Second - 1) /\ ms + Second - 1 = Second * q + r
  BY <1>1
<1>3. Second * q \in Nat /\ q * Second = Second * q
  BY <1>1, <1>2
<1>4. FromNow(ms) = now + q * Second
  BY DEF FromNow
<1> HIDE DEF q, r
<1>5. QED BY <1>1, <1>2, <1>3, <1>4

\* What a run of the script does to the keys of its tracker, and what it answers.
Refuses(k) ==
  /\ Blocked(k) /\ counter'[k] = counter[k] /\ block'[k] = block[k]
  /\ Reply(k).blocked /\ Reply(k).until >= block[k]
Blocks(k) ==
  /\ ~Blocked(k) /\ Hits(k) > Limit
  /\ counter'[k] = [hits |-> Hits(k), end |-> End(k)] /\ block'[k] = now + Ttl
  /\ Reply(k).blocked /\ Reply(k).until >= now + Ttl
Permits(k) ==
  /\ ~Blocked(k) /\ Hits(k) <= Limit
  /\ counter'[k] = [hits |-> Hits(k), end |-> End(k)] /\ block'[k] = block[k]
  /\ ~Reply(k).blocked /\ Reply(k).remaining = Limit - Hits(k)
  /\ Reply(k).until >= End(k)

LEMMA KeyTypes ==
  ASSUME TypeOK, KeysInv, NEW k \in Trackers
  PROVE  /\ now \in Nat /\ Hits(k) \in Nat \ {0} /\ End(k) \in Nat
         /\ now < End(k) /\ End(k) <= now + Ttl
         /\ Blocked(k) => block[k] \in Nat /\ block[k] > now
         /\ counter[k] # NoKey => counter[k] \in Counters
<1>1. now \in Nat /\ counter[k] \in Counters \cup {NoKey} /\ block[k] \in Nat \cup {NoKey}
  BY DEF TypeOK, Time
<1>2. QED BY <1>1 DEF Hits, End, Running, Blocked, KeysInv, Counters

LEMMA RunEffect ==
  ASSUME TypeOK, KeysInv, NEW c \in Callers, Run(c), NEW k \in Trackers, k = Tracker(c)
  PROVE  /\ now' = now
         /\ \A j \in Trackers \ {k} : counter'[j] = counter[j] /\ block'[j] = block[j]
         /\ Refuses(k) \/ Blocks(k) \/ Permits(k)
         /\ Reply(k) \in Answers
<1> USE KeyTypes
<1>1. now' = now /\ Eval(k)
  BY DEF Run
<1>2. counter \in [Trackers -> Counters \cup {NoKey}] /\ block \in [Trackers -> Nat \cup {NoKey}]
  BY DEF TypeOK
<1>3. CASE Blocked(k)
  <2>1. block[k] - now \in Nat /\ Reply(k) = Refusal(block[k] - now)
    BY <1>3 DEF Reply
  <2>2. FromNow(block[k] - now) \in Nat /\ FromNow(block[k] - now) >= block[k]
    BY <1>3, <2>1, RoundsUp
  <2>3. Reply(k) \in Answers /\ Refuses(k)
    BY <1>1, <1>3, <2>1, <2>2 DEF Refusal, Answers, Refuses, Eval
  <2>4. QED BY <1>1, <1>3, <2>3 DEF Eval
<1>4. CASE ~Blocked(k) /\ Hits(k) > Limit
  <2>1. Reply(k) = Refusal(Ttl) /\ Ttl \in Nat
    BY <1>4 DEF Reply, OverLimit, BlockDuration
  <2>2. FromNow(Ttl) \in Nat /\ FromNow(Ttl) >= now + Ttl
    BY <2>1, RoundsUp
  <2>3. /\ counter' = [counter EXCEPT ![k] = [hits |-> Hits(k), end |-> End(k)]]
        /\ block' = [block EXCEPT ![k] = now + Ttl]
    BY <1>1, <1>4 DEF Eval, Count, OverLimit, BlockDuration
  <2>4. Reply(k) \in Answers /\ Blocks(k)
    BY <1>2, <1>4, <2>1, <2>2, <2>3 DEF Refusal, Answers, Blocks
  <2>5. QED BY <1>1, <1>2, <2>3, <2>4
<1>5. CASE ~Blocked(k) /\ ~(Hits(k) > Limit)
  <2>1. End(k) - now \in Nat
    BY DEF End, Running
  <2>2. Reply(k) = Permission(Limit - Hits(k), End(k) - now)
    BY <1>5 DEF Reply, OverLimit
  <2>3. FromNow(End(k) - now) \in Nat /\ FromNow(End(k) - now) >= End(k)
    BY <2>1, RoundsUp
  <2>4. /\ counter' = [counter EXCEPT ![k] = [hits |-> Hits(k), end |-> End(k)]]
        /\ block' = block
    BY <1>1, <1>5 DEF Eval, Count, OverLimit
  <2>5. Limit - Hits(k) \in 0..Limit /\ Hits(k) <= Limit
    BY <1>5
  <2>6. Reply(k) \in Answers /\ Permits(k)
    BY <1>2, <1>5, <2>2, <2>3, <2>4, <2>5 DEF Permission, Answers, Permits
  <2>7. QED BY <1>1, <1>2, <2>4, <2>6
<1>6. QED BY <1>3, <1>4, <1>5

-----------------------------------------------------------------------------
LEMMA TypesStep ==
  ASSUME IInv, [Next]_vars
  PROVE  TypeOK'
<1> USE DEF IInv, TypeOK
<1>1. ASSUME NEW c \in Callers, Run(c),
             answer' = [answer EXCEPT ![Tracker(c)] = Reply(Tracker(c))]
             \/ answer' = [answer EXCEPT ![Tracker(c)] = NoAnswer]
      PROVE  TypeOK'
  <2> DEFINE k == Tracker(c)
  <2>1. k \in Trackers
    BY DEF Trackers
  <2> HIDE DEF k
  <2>2. Reply(k) \in Answers /\ now' = now
    BY <1>1, <2>1, RunEffect DEF k
  <2>3. counter' \in [Trackers -> Counters \cup {NoKey}] /\ block' \in [Trackers -> Nat \cup {NoKey}]
    <3>1. Hits(k) \in Nat \ {0} /\ End(k) \in Nat /\ now + BlockDuration \in Nat
      BY <2>1, KeyTypes DEF BlockDuration
    <3>2. [hits |-> Hits(k), end |-> End(k)] \in Counters
      BY <3>1 DEF Counters
    <3>3. Eval(k)
      BY <1>1 DEF Run, k
    <3>4. QED BY <3>1, <3>2, <3>3 DEF Eval, Count
  <2>4. requests' \in 0..MaxRequests
        /\ passed' \subseteq [caller : Callers, at : Time, nr : 0..MaxRequests]
    BY <1>1 DEF Run, Pass
  <2>5. answer' \in [Trackers -> Answers \cup {NoAnswer}]
    BY <1>1, <2>2 DEF k
  <2>6. QED BY <2>2, <2>3, <2>4, <2>5
<1>2. CASE Tick
  BY <1>2 DEF Tick, Time
<1>3. CASE UNCHANGED vars
  BY <1>3 DEF vars
<1>4. QED BY <1>1, <1>2, <1>3 DEF Next, Request, LoseAnswer

LEMMA KeysStep ==
  ASSUME IInv, [Next]_vars
  PROVE  KeysInv'
<1> USE DEF IInv
<1>1. ASSUME NEW c \in Callers, Run(c) PROVE KeysInv'
  <2> DEFINE k == Tracker(c)
  <2>1. k \in Trackers
    BY DEF Trackers
  <2> HIDE DEF k
  <2>2. ASSUME NEW j \in Trackers PROVE KeysInv!(j)'
    <3>1. CASE j # k
      BY <1>1, <2>1, <2>2, <3>1, RunEffect DEF k, KeysInv, Blocked
    <3>2. CASE j = k
      <4>1. now' = now /\ (Refuses(k) \/ Blocks(k) \/ Permits(k))
        BY <1>1, <2>1, RunEffect DEF k
      <4>2. now \in Nat /\ now <= End(k) /\ End(k) <= now + Ttl
        BY <2>1, KeyTypes
      <4>3. block[k] \in Nat \cup {NoKey} /\ now + Ttl \in Nat
        BY <2>1, <4>2 DEF TypeOK
      <4>4. CASE Refuses(k)
        BY <2>1, <3>2, <4>1, <4>4 DEF KeysInv, Refuses, Blocked
      <4>5. CASE Blocks(k)
        BY <3>2, <4>1, <4>2, <4>3, <4>5 DEF Blocks, Blocked
      <4>6. CASE Permits(k)
        BY <2>1, <3>2, <4>1, <4>2, <4>3, <4>6 DEF KeysInv, Permits, Blocked
      <4>7. QED BY <4>1, <4>4, <4>5, <4>6
    <3>3. QED BY <3>1, <3>2
  <2>3. QED BY <2>2 DEF KeysInv
<1>2. CASE Tick
  BY <1>2, KeyTypes DEF Tick, KeysInv, TypeOK, Counters, Time, Blocked
<1>3. CASE UNCHANGED vars
  BY <1>3 DEF vars, KeysInv, Blocked
<1>4. QED BY <1>1, <1>2, <1>3 DEF Next, Request, LoseAnswer

LEMMA AnswerStep ==
  ASSUME IInv, [Next]_vars
  PROVE  AnswerInv'
<1> USE DEF IInv
<1>1. ASSUME NEW c \in Callers, Request(c) \/ LoseAnswer(c) PROVE AnswerInv'
  <2> DEFINE k == Tracker(c)
  <2>1. k \in Trackers
    BY DEF Trackers
  <2> HIDE DEF k
  <2>2. Run(c)
    BY <1>1 DEF Request, LoseAnswer
  <2>3. ASSUME NEW j \in Trackers, answer'[j] # NoAnswer PROVE AnswerInv!(j)'
    <3>1. CASE j # k
      <4>1. answer'[j] = answer[j] /\ counter'[j] = counter[j] /\ block'[j] = block[j] /\ now' = now
        BY <1>1, <2>1, <2>2, <2>3, <3>1, RunEffect DEF k, Request, LoseAnswer, TypeOK
      <4>2. QED BY <2>3, <4>1 DEF AnswerInv, Blocked
    <3>2. CASE j = k
      <4>1. answer'[k] = Reply(k) /\ Reply(k) \in Answers
        BY <1>1, <2>1, <2>2, <2>3, <3>2, RunEffect DEF k, Request, LoseAnswer, TypeOK
      <4>2. now' = now /\ (Refuses(k) \/ Blocks(k) \/ Permits(k))
        BY <2>1, <2>2, RunEffect DEF k
      <4>3. CASE Refuses(k)
        BY <2>1, <3>2, <4>1, <4>2, <4>3 DEF KeysInv, Refuses, Blocked
      <4>4. CASE Blocks(k)
        <5>1. End(k) <= now + Ttl
          BY <2>1, KeyTypes
        <5>2. now + Ttl # NoKey
          BY DEF TypeOK, Time
        <5>3. QED BY <3>2, <4>1, <4>2, <4>4, <5>1, <5>2 DEF Blocks
      <4>5. CASE Permits(k)
        <5>1. Hits(k) = Limit - Reply(k).remaining
          BY <2>1, <4>5, KeyTypes DEF Permits
        <5>2. QED BY <3>2, <4>1, <4>2, <4>5, <5>1 DEF Permits, Blocked
      <4>6. QED BY <4>2, <4>3, <4>4, <4>5
    <3>3. QED BY <3>1, <3>2
  <2>4. QED BY <2>3 DEF AnswerInv
<1>2. CASE Tick
  BY <1>2, KeyTypes DEF Tick, KeysInv, AnswerInv, TypeOK, Counters, Time, Blocked
<1>3. CASE UNCHANGED vars
  BY <1>3 DEF vars, AnswerInv, Blocked
<1>4. QED BY <1>1, <1>2, <1>3 DEF Next

THEOREM Inductive == Spec => []IInv
<1>1. Init => IInv
  BY DEF Init, IInv, TypeOK, KeysInv, AnswerInv, Time
<1>2. IInv /\ [Next]_vars => IInv'
  BY TypesStep, KeysStep, AnswerStep DEF IInv
<1>3. QED BY <1>1, <1>2, PTL DEF Spec

\* Every variable keeps its type.
THEOREM TypeCorrect == Spec => []TypeOK
<1>1. IInv => TypeOK
  BY DEF IInv
<1>2. QED BY Inductive, <1>1, PTL

-----------------------------------------------------------------------------
\* A request after the time a refusal named is let through.
THEOREM WaitingIsEnough == Spec => RetryAfterIsEnough
<1>1. ASSUME IInv, IInv', NEW c \in Callers, Request(c)
      PROVE  LET said == answer[Tracker(c)]
             IN  said # NoAnswer /\ said.blocked /\ now > said.until
                 => ~answer'[Tracker(c)].blocked
  <2> DEFINE k == Tracker(c)
  <2>1. k \in Trackers /\ Run(c) /\ answer'[k] = Reply(k)
    BY <1>1 DEF Trackers, Request, IInv, TypeOK
  <2> HIDE DEF k
  <2> SUFFICES ASSUME answer[k] # NoAnswer, answer[k].blocked, now > answer[k].until
               PROVE  ~Reply(k).blocked
    BY <2>1 DEF k
  <2>2. answer[k].until \in Nat /\ now \in Nat /\ block[k] \in Nat \cup {NoKey}
    BY <1>1, <2>1 DEF IInv, TypeOK, Answers, Time
  <2>3. counter[k] = NoKey /\ block[k] = NoKey
    BY <1>1, <2>1, <2>2 DEF IInv, KeysInv, AnswerInv
  <2>4. ~Blocked(k) /\ Hits(k) = 1
    BY <2>3 DEF Blocked, Hits
  <2>5. Refuses(k) \/ Blocks(k) \/ Permits(k)
    BY <1>1, <2>1, RunEffect DEF k, IInv
  <2>6. QED BY <2>4, <2>5 DEF Refuses, Blocks, Permits
<1>2. IInv /\ IInv' /\ [Next]_vars =>
        [\A c \in Callers :
           LET said == answer[Tracker(c)]
           IN  Request(c) /\ said # NoAnswer /\ said.blocked /\ now > said.until
               => ~answer'[Tracker(c)].blocked]_vars
  BY <1>1
<1>3. QED BY Inductive, <1>2, PTL DEF Spec, RetryAfterIsEnough

\* The remaining requests of an answer are there, and all of them after its reset.
THEOREM PromisesKept == Spec => HeadersAreKept
<1>1. ASSUME IInv, NEW c \in Callers, Request(c)
      PROVE  LET said == answer[Tracker(c)]
                 says == answer'[Tracker(c)]
             IN  said # NoAnswer /\ ~said.blocked =>
                   /\ said.remaining > 0 => ~says.blocked /\ says.remaining >= said.remaining - 1
                   /\ now > said.until => says.remaining = Limit - 1
  <2> DEFINE k == Tracker(c)
  <2>1. k \in Trackers /\ Run(c) /\ answer'[k] = Reply(k)
    BY <1>1 DEF Trackers, Request, IInv, TypeOK
  <2> HIDE DEF k
  <2> SUFFICES ASSUME answer[k] # NoAnswer, ~answer[k].blocked
               PROVE  /\ answer[k].remaining > 0 =>
                           ~Reply(k).blocked /\ Reply(k).remaining >= answer[k].remaining - 1
                      /\ now > answer[k].until => Reply(k).remaining = Limit - 1
    BY <2>1 DEF k
  <2>2. /\ answer[k].until \in Nat /\ answer[k].remaining \in 0..Limit /\ now \in Nat
        /\ counter[k] # NoKey => counter[k].hits \in Nat /\ counter[k].end \in Nat
    BY <1>1, <2>1 DEF IInv, TypeOK, Answers, Time, Counters
  <2>3. ~Blocked(k) /\ (Blocks(k) \/ Permits(k))
    BY <1>1, <2>1, RunEffect DEF k, IInv, AnswerInv, Refuses
  <2>4. \/ Hits(k) = 1
        \/ Hits(k) = 1 + Limit - answer[k].remaining /\ now <= answer[k].until
    BY <1>1, <2>1, <2>2 DEF IInv, AnswerInv, KeysInv, Hits
  <2>5. QED BY <2>2, <2>3, <2>4 DEF Blocks, Permits
<1>2. IInv /\ [Next]_vars =>
        [\A c \in Callers :
           LET said == answer[Tracker(c)]
               says == answer'[Tracker(c)]
           IN  Request(c) /\ said # NoAnswer /\ ~said.blocked =>
                 /\ said.remaining > 0 => ~says.blocked /\ says.remaining >= said.remaining - 1
                 /\ now > said.until => says.remaining = Limit - 1]_vars
  BY <1>1
<1>3. QED BY Inductive, <1>2, PTL DEF Spec, HeadersAreKept
-----------------------------------------------------------------------------
\* How large a burst gets through.

\* The passes of a tracker, and those before, from and after an instant.
Of(k)        == {p \in passed : Tracker(p.caller) = k}
Before(k, s) == {p \in Of(k) : p.at < s}
From(k, s)   == {p \in Of(k) : p.at >= s}
After(k, s)  == {p \in Of(k) : p.at > s}

\* The counter of k began at s: its hits count what passed from then on, the first
\* of them at s itself, and what is left of its predecessors lacks their first.
BeganAt(k, s) ==
  /\ s <= now /\ s + Ttl <= counter[k].end
  /\ Cardinality(Before(k, s)) <= Limit - 1
  /\ Cardinality(From(k, s)) <= counter[k].hits /\ Cardinality(From(k, s)) <= Limit
  /\ Cardinality(After(k, s)) <= counter[k].hits - 1
  /\ Cardinality(After(k, s)) <= Limit - 1

PassesInv == IsFiniteSet(passed) /\ \A p \in passed : p.at <= now
CountsInv ==
  \A k \in Trackers :
    /\ counter[k] = NoKey =>
         Cardinality(Of(k)) <= Limit - 1 /\ \A p \in Of(k) : p.at < now
    /\ counter[k] # NoKey => \E s \in Time : BeganAt(k, s)

BurstInv == PassesInv /\ CountsInv

LEMMA Smaller ==
  ASSUME NEW S, NEW T, S \subseteq T, IsFiniteSet(T)
  PROVE  IsFiniteSet(S) /\ Cardinality(S) <= Cardinality(T)
         /\ Cardinality(S) \in Nat /\ Cardinality(T) \in Nat
BY FS_Subset, FS_CardinalityType

LEMMA OneMore ==
  ASSUME NEW S, NEW T, NEW x, S \subseteq T \cup {x}, IsFiniteSet(T)
  PROVE  IsFiniteSet(S) /\ Cardinality(S) <= Cardinality(T) + 1
         /\ Cardinality(S) \in Nat /\ Cardinality(T) \in Nat
<1>1. IsFiniteSet(T \cup {x}) /\ Cardinality(T \cup {x}) <= Cardinality(T) + 1
  <2>1. Cardinality(T) \in Nat
    BY FS_CardinalityType
  <2>2. IsFiniteSet(T \cup {x}) /\ Cardinality(T \cup {x}) \in {Cardinality(T), Cardinality(T) + 1}
    BY FS_AddElement
  <2>3. QED BY <2>1, <2>2
<1>2. IsFiniteSet(S) /\ Cardinality(S) <= Cardinality(T \cup {x})
  BY <1>1, FS_Subset
<1>3. Cardinality(S) \in Nat /\ Cardinality(T) \in Nat /\ Cardinality(T \cup {x}) \in Nat
  BY <1>1, <1>2, FS_CardinalityType
<1>4. QED BY <1>1, <1>2, <1>3

\* All the sets of passes are finite.
LEMMA PassesAreFinite ==
  ASSUME PassesInv, NEW k, NEW s
  PROVE  /\ IsFiniteSet(Of(k)) /\ Cardinality(Of(k)) \in Nat
         /\ IsFiniteSet(Before(k, s)) /\ Cardinality(Before(k, s)) \in Nat
         /\ IsFiniteSet(From(k, s)) /\ Cardinality(From(k, s)) \in Nat
         /\ IsFiniteSet(After(k, s)) /\ Cardinality(After(k, s)) \in Nat
<1>1. Of(k) \subseteq passed /\ Before(k, s) \subseteq passed
      /\ From(k, s) \subseteq passed /\ After(k, s) \subseteq passed
  BY DEF Of, Before, From, After
<1>2. QED BY <1>1, Smaller DEF PassesInv

\* The tracker of a request that passes: its counter begins, or goes on.
LEMMA PassCounts ==
  ASSUME IInv, BurstInv, NEW c \in Callers, NEW k \in Trackers, k = Tracker(c),
         Permits(k), now' = now, passed' = passed \cup {Pass(c)}
  PROVE  \E s \in Time : BeganAt(k, s)'
<1> DEFINE x == Pass(c)
<1>0. x.at = now /\ now \in Nat /\ Of(k)' = Of(k) \cup {x}
  BY DEF Pass, Of, IInv, TypeOK, Time
<1>1. counter'[k] = [hits |-> Hits(k), end |-> End(k)] /\ Hits(k) <= Limit
      /\ Hits(k) \in Nat /\ End(k) \in Nat
  BY KeyTypes DEF Permits, IInv
<1> HIDE DEF x
<1>2. CASE counter[k] = NoKey
  <2>1. Hits(k) = 1 /\ End(k) = now + Ttl
    BY <1>2 DEF Hits, End, Running
  <2>2. Cardinality(Of(k)) <= Limit - 1 /\ \A p \in Of(k) : p.at < now /\ p.at \in Nat
    BY <1>2 DEF BurstInv, CountsInv, Of, IInv, TypeOK, Time
  <2>3. Before(k, now)' = Of(k) /\ From(k, now)' = {x} /\ After(k, now)' = {}
    BY <1>0, <2>2 DEF Before, From, After
  <2>4. Cardinality(Before(k, now)') <= Limit - 1 /\ Cardinality(From(k, now)') = 1
        /\ Cardinality(After(k, now)') = 0
    BY <2>2, <2>3, FS_Singleton, FS_EmptySet
  <2>5. BeganAt(k, now)'
    BY <1>0, <1>1, <2>1, <2>4 DEF BeganAt
  <2>6. QED BY <2>5 DEF IInv, TypeOK
<1>3. CASE counter[k] # NoKey
  <2>1. PICK s \in Time : BeganAt(k, s)
    BY <1>3 DEF BurstInv, CountsInv
  <2>2. Hits(k) = counter[k].hits + 1 /\ counter[k].hits \in Nat /\ counter[k].end \in Nat
    BY <1>3, KeyTypes DEF IInv, Hits, Counters
  <2>3. s + Ttl <= End(k) /\ s \in Nat
    BY <1>0, <1>3, <2>1, <2>2 DEF BeganAt, End, Running, Time
  <2>4. Before(k, s)' = Before(k, s) /\ From(k, s)' \subseteq From(k, s) \cup {x}
        /\ After(k, s)' \subseteq After(k, s) \cup {x}
    BY <1>0, <2>1, <2>3 DEF Before, From, After, BeganAt
  <2>5. /\ Cardinality(Before(k, s)') = Cardinality(Before(k, s))
        /\ Cardinality(From(k, s)') <= Cardinality(From(k, s)) + 1
        /\ Cardinality(After(k, s)') <= Cardinality(After(k, s)) + 1
        /\ Cardinality(From(k, s)) \in Nat /\ Cardinality(From(k, s)') \in Nat
        /\ Cardinality(After(k, s)) \in Nat /\ Cardinality(After(k, s)') \in Nat
    BY <2>4, OneMore, PassesAreFinite DEF BurstInv
  <2>6. Cardinality(From(k, s)') <= Hits(k) /\ Cardinality(After(k, s)') <= Hits(k) - 1
    BY <2>1, <2>2, <2>5 DEF BeganAt
  <2>7. BeganAt(k, s)'
    BY <1>1, <2>1, <2>3, <2>5, <2>6 DEF BeganAt
  <2>8. QED BY <2>7
<1>4. QED BY <1>2, <1>3

\* A hit that passes nothing: the passes stay, hits and end only grow.
LEMMA BlockCounts ==
  ASSUME IInv, BurstInv, NEW k \in Trackers, Blocks(k), now' = now, passed' = passed
  PROVE  \E s \in Time : BeganAt(k, s)'
<1>1. counter[k] # NoKey
  BY DEF Blocks, Hits
<1>2. PICK s \in Time : BeganAt(k, s)
  BY <1>1 DEF BurstInv, CountsInv
<1>3. counter'[k] = [hits |-> counter[k].hits + 1, end |-> End(k)]
      /\ counter[k].hits \in Nat /\ counter[k].end \in Nat /\ End(k) \in Nat /\ now \in Nat
  BY <1>1, KeyTypes DEF IInv, Hits, Counters, Blocks
<1>4. s + Ttl <= End(k) /\ s \in Nat
  BY <1>1, <1>2, <1>3 DEF BeganAt, End, Running, Time
<1>5. Before(k, s)' = Before(k, s) /\ From(k, s)' = From(k, s) /\ After(k, s)' = After(k, s)
  BY DEF Before, From, After, Of
<1>6. Cardinality(From(k, s)) \in Nat /\ Cardinality(After(k, s)) \in Nat
  BY PassesAreFinite DEF BurstInv
<1>7. BeganAt(k, s)'
  BY <1>2, <1>3, <1>4, <1>5, <1>6 DEF BeganAt
<1>8. QED BY <1>7

LEMMA RunBurst ==
  ASSUME IInv, BurstInv, NEW c \in Callers, Run(c)
  PROVE  BurstInv'
<1> DEFINE k == Tracker(c)
<1>1. k \in Trackers
  BY DEF Trackers
<1> HIDE DEF k
<1>2. now' = now /\ (Refuses(k) \/ Blocks(k) \/ Permits(k))
      /\ \A j \in Trackers \ {k} : counter'[j] = counter[j]
  BY <1>1, RunEffect DEF k, IInv
<1>3. passed' = IF Permits(k) THEN passed \cup {Pass(c)} ELSE passed
  BY <1>2 DEF Run, k, Refuses, Blocks, Permits
<1>4. PassesInv'
  <2>1. Pass(c).at = now /\ now \in Nat
    BY DEF Pass, IInv, TypeOK, Time
  <2>2. QED BY <1>2, <1>3, <2>1, FS_AddElement DEF BurstInv, PassesInv
<1>5. ASSUME NEW j \in Trackers, j # k \/ Refuses(k)
      PROVE  CountsInv!(j)'
  <2>1. counter'[j] = counter[j] /\ Of(j)' = Of(j)
    <3>1. Pass(c).caller = c
      BY DEF Pass
    <3>2. QED BY <1>2, <1>3, <1>5, <3>1 DEF Of, Refuses, Permits, k
  <2>2. ASSUME NEW s \in Time
        PROVE  BeganAt(j, s)' = BeganAt(j, s)
    <3>1. Before(j, s)' = Before(j, s) /\ From(j, s)' = From(j, s) /\ After(j, s)' = After(j, s)
      BY <2>1 DEF Before, From, After
    <3>2. QED BY <1>2, <2>1, <3>1 DEF BeganAt
  <2>3. QED BY <1>2, <2>1, <2>2 DEF BurstInv, CountsInv
<1>6. CASE Permits(k)
  <2>1. counter'[k] # NoKey
    BY <1>1, <1>6, KeyTypes DEF Permits, IInv, Counters
  <2>2. \E s \in Time : BeganAt(k, s)'
    BY <1>1, <1>2, <1>3, <1>6, PassCounts DEF k
  <2>3. QED BY <1>4, <1>5, <2>1, <2>2 DEF BurstInv, CountsInv
<1>7. CASE Blocks(k)
  <2>1. counter'[k] # NoKey
    BY <1>1, <1>7, KeyTypes DEF Blocks, IInv, Counters
  <2>2. \E s \in Time : BeganAt(k, s)'
    BY <1>1, <1>2, <1>3, <1>7, BlockCounts DEF Blocks, Permits
  <2>3. QED BY <1>4, <1>5, <2>1, <2>2 DEF BurstInv, CountsInv
<1>8. CASE Refuses(k)
  BY <1>4, <1>5, <1>8 DEF BurstInv, CountsInv
<1>9. QED BY <1>2, <1>6, <1>7, <1>8

LEMMA TickBurst ==
  ASSUME IInv, BurstInv, Tick
  PROVE  BurstInv'
<1>1. now \in Nat /\ now' = now + 1 /\ passed' = {p \in passed : p.at >= now' - Ttl}
      /\ \A p \in passed : p.at \in Nat
  BY DEF Tick, IInv, TypeOK, Time
<1>2. PassesInv'
  <2>1. passed' \subseteq passed
    BY <1>1
  <2>2. IsFiniteSet(passed')
    BY <2>1, Smaller DEF BurstInv, PassesInv
  <2>3. QED BY <1>1, <2>1, <2>2 DEF BurstInv, PassesInv
<1>3. ASSUME NEW k \in Trackers PROVE CountsInv!(k)'
  <2>1. Of(k)' = {p \in Of(k) : p.at >= now' - Ttl}
    BY <1>1 DEF Of
  <2>2. CASE counter[k] = NoKey
    <3>1. counter'[k] = NoKey
      BY <2>2 DEF Tick
    <3>2. Cardinality(Of(k)') <= Cardinality(Of(k)) /\ Cardinality(Of(k)') \in Nat
          /\ Cardinality(Of(k)) \in Nat
      BY <2>1, Smaller, PassesAreFinite DEF BurstInv
    <3>3. Cardinality(Of(k)) <= Limit - 1 /\ \A p \in Of(k) : p.at < now
      BY <2>2 DEF BurstInv, CountsInv
    <3>4. \A p \in Of(k)' : p.at < now'
      BY <1>1, <2>1, <3>3 DEF Of
    <3>5. QED BY <3>1, <3>2, <3>3, <3>4
  <2>3. ASSUME NEW s \in Time, counter[k] # NoKey, BeganAt(k, s)
        PROVE  CountsInv!(k)'
    <3>1. s \in Nat /\ counter[k].end \in Nat /\ counter[k].hits \in Nat
      BY <2>3, KeyTypes DEF Time, Counters, IInv
    <3>2. CASE counter[k].end = now
      <4>1. counter'[k] = NoKey
        BY <3>2 DEF Tick
      <4>2. Of(k)' \subseteq After(k, s)
        BY <1>1, <2>1, <2>3, <3>1, <3>2 DEF BeganAt, After, Of
      <4>3. Cardinality(Of(k)') <= Cardinality(After(k, s)) /\ Cardinality(Of(k)') \in Nat
            /\ Cardinality(After(k, s)) \in Nat
        BY <4>2, Smaller, PassesAreFinite DEF BurstInv
      <4>4. \A p \in Of(k)' : p.at < now'
        BY <1>1, <2>1 DEF Of, BurstInv, PassesInv
      <4>5. QED BY <2>3, <4>1, <4>3, <4>4 DEF BeganAt
    <3>3. CASE counter[k].end # now
      <4>1. counter'[k] = counter[k]
        BY <2>3, <3>3 DEF Tick
      <4>2. Before(k, s)' \subseteq Before(k, s) /\ From(k, s)' \subseteq From(k, s)
            /\ After(k, s)' \subseteq After(k, s)
        BY <2>1 DEF Before, From, After
      <4>3. /\ Cardinality(Before(k, s)') <= Cardinality(Before(k, s))
            /\ Cardinality(From(k, s)') <= Cardinality(From(k, s))
            /\ Cardinality(After(k, s)') <= Cardinality(After(k, s))
            /\ Cardinality(Before(k, s)') \in Nat /\ Cardinality(Before(k, s)) \in Nat
            /\ Cardinality(From(k, s)') \in Nat /\ Cardinality(From(k, s)) \in Nat
            /\ Cardinality(After(k, s)') \in Nat /\ Cardinality(After(k, s)) \in Nat
        BY <4>2, Smaller, PassesAreFinite DEF BurstInv
      <4>4. BeganAt(k, s)'
        BY <1>1, <2>3, <3>1, <4>1, <4>3 DEF BeganAt
      <4>5. QED BY <2>3, <4>1, <4>4
    <3>4. QED BY <3>2, <3>3
  <2>4. QED BY <2>2, <2>3 DEF BurstInv, CountsInv
<1>4. QED BY <1>2, <1>3 DEF BurstInv, CountsInv

\* What passed of one client is what passed of its tracker, in two parts.
LEMMA BurstIsBounded ==
  ASSUME IInv, BurstInv
  PROVE  BurstBound
<1> SUFFICES ASSUME NEW c \in Callers
             PROVE  Passed(SameClient(c)) <= 2 * Limit - 1
  BY DEF BurstBound
<1> DEFINE k == Tracker(c)
           P == {p \in passed : p.caller \in SameClient(c)}
<1>1. k \in Trackers /\ P \subseteq Of(k)
  BY DEF Trackers, Of, SameClient, Tracker
<1>2. Cardinality(P) <= Cardinality(Of(k)) /\ Cardinality(P) \in Nat
      /\ Cardinality(Of(k)) \in Nat
  BY <1>1, Smaller, PassesAreFinite DEF BurstInv
<1>3. Cardinality(Of(k)) <= 2 * Limit - 1
  <2>1. CASE counter[k] = NoKey
    BY <1>1, <1>2, <2>1 DEF BurstInv, CountsInv
  <2>2. ASSUME NEW s \in Time, BeganAt(k, s)
        PROVE  Cardinality(Of(k)) <= 2 * Limit - 1
    <3>1. Of(k) = Before(k, s) \cup From(k, s) /\ Before(k, s) \cap From(k, s) = {}
      BY DEF Before, From, Of, IInv, TypeOK, Time
    <3>2. Cardinality(Of(k)) = Cardinality(Before(k, s)) + Cardinality(From(k, s))
      <4>1. Cardinality(Before(k, s) \cap From(k, s)) = 0
        BY <3>1, FS_EmptySet
      <4>2. IsFiniteSet(Before(k, s)) /\ IsFiniteSet(From(k, s))
            /\ Cardinality(Before(k, s)) \in Nat /\ Cardinality(From(k, s)) \in Nat
        BY PassesAreFinite DEF BurstInv
      <4>3. Cardinality(Before(k, s) \cup From(k, s))
              = Cardinality(Before(k, s)) + Cardinality(From(k, s))
                - Cardinality(Before(k, s) \cap From(k, s))
        BY <4>2, FS_Union
      <4> HIDE DEF k
      <4>4. QED BY <3>1, <4>1, <4>2, <4>3
    <3>3. QED
      BY <2>2, <3>2, PassesAreFinite DEF BeganAt, BurstInv
  <2>3. QED BY <1>1, <2>1, <2>2 DEF BurstInv, CountsInv
<1>4. QED BY <1>2, <1>3 DEF Passed

\* No client gets more than 2*Limit - 1 requests through in a window's length, for
\* every limit, window, number of requests and set of callers.
THEOREM BurstsAreBounded == Spec => []BurstBound
<1>1. Init => BurstInv
  <2> SUFFICES ASSUME Init PROVE BurstInv
    OBVIOUS
  <2>1. passed = {} /\ IsFiniteSet(passed)
    BY FS_EmptySet DEF Init
  <2>2. \A k \in Trackers : counter[k] = NoKey /\ Of(k) = {}
    BY <2>1 DEF Init, Of
  <2>3. PassesInv
    BY <2>1 DEF PassesInv
  <2>4. CountsInv
    <3>1. Cardinality({}) = 0
      BY FS_EmptySet
    <3>2. ASSUME NEW k \in Trackers PROVE CountsInv!(k)
      <4>1. Of(k) = {}
        BY <2>2
      <4>2. Cardinality(Of(k)) = 0
        BY <3>1, <4>1
      <4>3. Cardinality(Of(k)) <= Limit - 1
        BY <4>2
      <4>4. QED BY <2>2, <4>1, <4>3
    <3>3. QED BY <3>2 DEF CountsInv
  <2>5. QED BY <2>3, <2>4 DEF BurstInv
<1>2. IInv /\ BurstInv /\ [Next]_vars => BurstInv'
  <2>1. BurstInv /\ UNCHANGED vars => BurstInv'
    BY DEF BurstInv, PassesInv, CountsInv, BeganAt, Before, From, After, Of, vars
  <2>2. QED BY <2>1, RunBurst, TickBurst DEF Next, Request, LoseAnswer
<1>3. QED BY Inductive, BurstIsBounded, <1>1, <1>2, PTL DEF Spec
=============================================================================
