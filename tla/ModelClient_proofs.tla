-------------------------- MODULE ModelClient_proofs --------------------------
(***************************************************************************)
(* Proofs about ModelClient for every set of calls and every threshold,    *)
(* cooldown and lifetime: the breaker's counters, the calls and the cache.   *)
(***************************************************************************)
EXTENDS ModelClient, TLAPS

-----------------------------------------------------------------------------
(* The breaker.  It is open from the Threshold-th failure it counts; while   *)
(* it is closed, no failure it counts is older than the last success.       *)

BreakerInv ==
    /\ open \in BOOLEAN
    /\ failures \in Nat
    /\ streak \in 0..Threshold
    /\ open <=> failures >= Threshold
    /\ ~open => failures <= streak
    /\ open => streak = Threshold

\* At the start the breaker is closed and has counted nothing.
LEMMA BreakerInit == Init => BreakerInv
<1> SUFFICES ASSUME Init
             PROVE  BreakerInv
  OBVIOUS
<1>1. open = FALSE /\ failures = 0 /\ streak = 0
  BY DEF Init
<1>2. failures \in Nat /\ streak \in 0..Threshold /\ ~(failures >= Threshold) /\ failures <= streak
  BY <1>1, ModelClientAssumption
<1> QED
  BY <1>1, <1>2, Zenon DEF BreakerInv

\* Every step keeps the breaker's counters related, in whatever order the calls
\* record their results.
LEMMA BreakerNext == BreakerInv /\ [Next]_vars => BreakerInv'
<1> SUFFICES ASSUME BreakerInv, [Next]_vars
             PROVE  BreakerInv'
  OBVIOUS
<1> USE ModelClientAssumption
<1>1. CASE UNCHANGED <<open, failures, streak>>
  BY <1>1 DEF BreakerInv
<1>2. ASSUME NEW c \in Callers, RecordFailure(c)
      PROVE  BreakerInv'
  <2>1. failures' = failures + 1
    BY <1>2 DEF RecordFailure
  <2>2. streak' = IF streak < Threshold THEN streak + 1 ELSE streak
    BY <1>2 DEF RecordFailure
  <2>3. streak' \in 0..Threshold /\ failures' \in Nat
    BY <2>1, <2>2 DEF BreakerInv
  <2>4. CASE failures' >= Threshold
    <3>1. open' = TRUE
      BY <1>2, <2>4 DEF RecordFailure
    <3>2. streak' = Threshold
      BY <2>1, <2>2, <2>4 DEF BreakerInv
    <3> QED
      BY <2>3, <2>4, <3>1, <3>2, Zenon DEF BreakerInv
  <2>5. CASE ~(failures' >= Threshold)
    <3>1. open' = open
      BY <1>2, <2>5 DEF RecordFailure
    <3>2. ~open /\ failures' <= streak'
      BY <2>1, <2>2, <2>3, <2>5 DEF BreakerInv
    <3> QED
      BY <2>3, <2>5, <3>1, <3>2, Zenon DEF BreakerInv
  <2> QED
    BY <2>4, <2>5
<1>3. ASSUME NEW c \in Callers, RecordSuccess(c)
      PROVE  BreakerInv'
  <2>1. open' = FALSE /\ failures' = 0 /\ streak' = 0
    BY <1>3 DEF RecordSuccess
  <2>2. ~(failures' >= Threshold) /\ failures' <= streak'
    BY <2>1
  <2>3. failures' \in Nat /\ streak' \in 0..Threshold
    BY <2>1
  <2> QED
    BY <2>1, <2>2, <2>3, Zenon DEF BreakerInv
<1>4. ASSUME NEW c \in Callers, AdmitCooled(c)
      PROVE  BreakerInv'
  <2>1. open' = FALSE /\ failures' = 0 /\ streak' = streak
    BY <1>4 DEF AdmitCooled
  <2>2. ~(failures' >= Threshold) /\ failures' <= streak'
    BY <2>1 DEF BreakerInv
  <2>3. failures' \in Nat /\ streak' \in 0..Threshold
    BY <2>1 DEF BreakerInv
  <2> QED
    BY <2>1, <2>2, <2>3, Zenon DEF BreakerInv
<1>5. CASE Tick
  BY <1>1, <1>5 DEF Tick
<1>6. ASSUME NEW c \in Callers, Begin(c) \/ Cancel(c)
      PROVE  BreakerInv'
  BY <1>1, <1>6 DEF Begin, Cancel, breaker
<1>7. ASSUME NEW c \in Callers, Step(c)
      PROVE  BreakerInv'
  <2>1. CASE MakeCache(c) \/ Hit(c) \/ Miss(c) \/ Put(c)
    BY <1>1, <2>1 DEF MakeCache, Hit, Miss, Put, breaker
  <2>2. CASE AdmitClosed(c) \/ Refuse(c)
    BY <1>1, <2>2 DEF AdmitClosed, Refuse, breaker
  <2>3. CASE \E answer \in Answers : Answer(c, answer)
    BY <1>1, <2>3 DEF Answer, breaker
  <2>4. CASE Fail(c) \/ Retry(c) \/ Wake(c) \/ Abort(c)
    BY <1>1, <2>4 DEF Fail, Retry, Wake, Abort, breaker
  <2>5. CASE Accept(c) \/ Judge(c)
    BY <1>1, <2>5 DEF Accept, Judge, breaker
  <2> QED
    BY <1>2, <1>3, <1>4, <1>7, <2>1, <2>2, <2>3, <2>4, <2>5 DEF Step
<1>8. CASE UNCHANGED vars
  BY <1>1, <1>8 DEF vars, breaker
<1> QED
  BY <1>5, <1>6, <1>7, <1>8 DEF Next

\* An open breaker has seen Threshold failures and no success since
\* (circuitModel.recordFailure, recordSuccess).
THEOREM BreakerOpensOnStreak == Spec => []OpenAfterStreak
<1>1. BreakerInv => OpenAfterStreak
  BY DEF BreakerInv, OpenAfterStreak
<1> QED
  BY <1>1, BreakerInit, BreakerNext, PTL DEF Spec

-----------------------------------------------------------------------------
(* The calls and the cache.  What a call is about to store it was given in  *)
(* this round; what the cache holds is a complete answer to the messages   *)
(* it is filed under.                                                       *)

\* The local state of a call between two steps.
CallRule(ask, c, q) ==
    /\ q.pc \in {"success", "put"} => q.got.by = c /\ q.got.round = q.round
    /\ q.pc = "judge" =>
          /\ q.got.by \in Callers
          /\ Sent(ask[q.got.by]) = Sent(ask[c])
          /\ Id(q.got) # <<c, q.round>> => q.got.answer # "broken" /\ q.got.age <= Ttl

Filed(ask, k, response) ==
    response # Nothing =>
        /\ response.by \in Callers
        /\ cacheKey(ask[response.by]) = k
        /\ response.answer # "broken"

CallInv ==
    /\ asks \in [Callers -> Request]
    /\ made \in BOOLEAN
    /\ cooled \in Nat
    /\ cache \in [Key -> Responses]
    /\ call \in [Callers -> Calls]
    /\ \A c \in Callers : CallRule(asks, c, call[c])
    /\ \A k \in Key : Filed(asks, k, cache[k])

\* The empty entry, and a call that was not made yet.
LEMMA Empty ==
    /\ Nothing \in Responses
    /\ Unborn \in Calls
    /\ \A c : CallRule(asks, c, Unborn)
    /\ asks \in [Callers -> Request] => \A c \in Callers : KeyOf(c) \in Key
BY DEF Nothing, Responses, Unborn, Calls, CallRule, Key, KeyOf

\* The messages determine the tools: the system prompts of the two kinds differ, so
\* a key that leaves the tools out tells the requests of this program apart.
LEMMA KeyDetermines ==
    ASSUME NEW p \in Request, NEW q \in Request, cacheKey(p) = cacheKey(q)
    PROVE  Sent(p) = Sent(q)
BY DEF cacheKey, Sent, Request

\* At the start no call was made and the cache is empty.
LEMMA CallInit == Init => CallInv
<1> SUFFICES ASSUME Init
             PROVE  CallInv
  OBVIOUS
<1>1. asks \in [Callers -> Request] /\ made \in BOOLEAN /\ cooled \in Nat
  BY ModelClientAssumption DEF Init
<1>2. cache \in [Key -> Responses] /\ \A k \in Key : Filed(asks, k, cache[k])
  BY Empty DEF Init, Filed
<1>3. call \in [Callers -> Calls] /\ \A c \in Callers : CallRule(asks, c, call[c])
  BY Empty DEF Init
<1> QED
  BY <1>1, <1>2, <1>3 DEF CallInv

\* A call goes on, the cache stays as it is.
LEMMA CallStep ==
    ASSUME CallInv, NEW c \in Callers, NEW q \in Calls, CallRule(asks, c, q), Continue(c, q),
           made' \in BOOLEAN, cooled' \in Nat,
           UNCHANGED <<asks, cache>>
    PROVE  CallInv'
BY DEF CallInv, Continue

\* A round that fails is followed by the next one, or by none.
LEMMA NextRoundType ==
    ASSUME CallInv, NEW c \in Callers
    PROVE  /\ NextRound(c) \in Calls
           /\ NextRound(c).pc \in {"lookup", "failed"}
<1> DEFINE q == call[c]
           n == q.round + 1
           a == [q EXCEPT !.pc = "lookup", !.round = n]
           b == [q EXCEPT !.pc = "failed"]
<1>1. q \in Calls /\ n \in Nat
  <2>1. q \in Calls
    BY DEF CallInv
  <2> QED
    BY <2>1 DEF Calls
<1>4. NextRound(c) = a \/ NextRound(c) = b
  BY DEF NextRound
<1> HIDE DEF n, q
<1>2. a \in Calls /\ a.pc = "lookup"
  BY <1>1 DEF Calls
<1>3. b \in Calls /\ b.pc = "failed"
  BY <1>1 DEF Calls
<1> QED
  BY <1>2, <1>3, <1>4

\* A call that only moves to a step at which nothing is asked of what it holds.
LEMMA CallGoto ==
    ASSUME CallInv, NEW c \in Callers, made' \in BOOLEAN, cooled' \in Nat, UNCHANGED <<asks, cache>>,
           NEW pc \in {"make", "lookup", "admit", "wait", "sleep", "failure", "done", "failed"},
           Goto(c, pc)
    PROVE  CallInv'
<1> DEFINE q == [call[c] EXCEPT !.pc = pc]
<1>1. q \in Calls /\ q.pc = pc
  BY DEF CallInv, Calls
<1>2. CallRule(asks, c, q)
  BY <1>1 DEF CallRule
<1>3. Continue(c, q)
  BY DEF Goto
<1> HIDE DEF q
<1> QED
  BY <1>1, <1>2, <1>3, CallStep

\* Every step keeps what the calls and the cache hold, action by action.
LEMMA CallNext == CallInv /\ [Next]_vars => CallInv'
<1> SUFFICES ASSUME CallInv, [Next]_vars
             PROVE  CallInv'
  OBVIOUS
<1> USE ModelClientAssumption
<1>1. CASE UNCHANGED vars
  BY <1>1 DEF vars, breaker, CallInv
<1>2. CASE Tick
  <2>1. asks' = asks /\ cooled' \in Nat /\ made' \in BOOLEAN
    BY <1>2 DEF Tick, CallInv
  <2>2. ASSUME NEW k \in Key
        PROVE  cache'[k] \in Responses /\ Filed(asks, k, cache'[k])
    <3> DEFINE r == cache[k]
               old == [r EXCEPT !.age = @ + 1]
    <3>1. r \in Responses /\ Filed(asks, k, r)
      BY DEF CallInv
    <3>2. cache'[k] = IF r # Nothing /\ r.age <= Ttl THEN old ELSE r
      BY <1>2 DEF Tick, Older
    <3>3. old \in Responses /\ old.by = r.by /\ old.answer = r.answer
      BY <3>1 DEF Responses
    <3> HIDE DEF old
    <3> QED
      BY <3>1, <3>2, <3>3 DEF Filed
  <2>3. cache' \in [Key -> Responses]
    BY <1>2, <2>2 DEF Tick
  <2>4. ASSUME NEW c \in Callers
        PROVE  call'[c] \in Calls /\ CallRule(asks, c, call'[c])
    <3> DEFINE n == IF call[c].rest > 0 THEN call[c].rest - 1 ELSE 0
               q == [call[c] EXCEPT !.rest = n]
    <3>1. n \in Nat
      BY DEF CallInv, Calls
    <3>2. call'[c] = q
      BY <1>2 DEF Tick
    <3>3. call[c] \in Calls /\ CallRule(asks, c, call[c])
      BY DEF CallInv
    <3> HIDE DEF n
    <3>4. /\ q \in Calls /\ q.pc = call[c].pc /\ q.got = call[c].got /\ q.round = call[c].round
      BY <3>1, <3>3 DEF Calls
    <3> HIDE DEF q
    <3> QED
      BY <3>2, <3>3, <3>4 DEF CallRule
  <2>5. call' \in [Callers -> Calls]
    BY <1>2, <2>4 DEF Tick
  <2> QED
    BY <2>1, <2>2, <2>3, <2>4, <2>5 DEF CallInv
<1>3. ASSUME NEW c \in Callers, Begin(c)
      PROVE  CallInv'
  <2> DEFINE pc == IF made THEN "lookup" ELSE "make"
             q == [call[c] EXCEPT !.pc = pc, !.round = 1]
  <2>1. pc \in {"lookup", "make"}
    OBVIOUS
  <2>2. Continue(c, q) /\ UNCHANGED <<asks, made, cooled, cache>>
    BY <1>3 DEF Begin, breaker
  <2> HIDE DEF pc
  <2>3. q \in Calls /\ q.pc = pc
    BY <2>1 DEF CallInv, Calls
  <2> HIDE DEF q
  <2>4. CallRule(asks, c, q)
    BY <2>1, <2>3 DEF CallRule
  <2> QED
    BY <2>2, <2>3, <2>4, CallStep DEF CallInv
<1>4. ASSUME NEW c \in Callers, Cancel(c)
      PROVE  CallInv'
  <2> DEFINE q == [call[c] EXCEPT !.live = FALSE]
  <2>1. Continue(c, q) /\ UNCHANGED <<asks, made, cooled, cache>>
    BY <1>4 DEF Cancel, breaker
  <2>2. call[c] \in Calls /\ CallRule(asks, c, call[c])
    BY DEF CallInv
  <2>3. q \in Calls /\ q.pc = call[c].pc /\ q.got = call[c].got /\ q.round = call[c].round
    BY <2>2 DEF Calls
  <2> HIDE DEF q
  <2>4. CallRule(asks, c, q)
    BY <2>2, <2>3 DEF CallRule
  <2> QED
    BY <2>1, <2>3, <2>4, CallStep DEF CallInv
<1>5. ASSUME NEW c \in Callers, MakeCache(c)
      PROVE  CallInv'
  <2> DEFINE q == [call[c] EXCEPT !.pc = "lookup"]
  <2>1. q \in Calls /\ q.pc = "lookup"
    BY DEF CallInv, Calls
  <2>2. CallRule(asks, c, q)
    BY <2>1 DEF CallRule
  <2>3. call' = [call EXCEPT ![c] = q] /\ made' = TRUE /\ UNCHANGED <<asks, cooled>>
    BY <1>5 DEF MakeCache, Goto, Continue, breaker
  <2>4. cache' = [k \in Key |-> Nothing]
    BY <1>5 DEF MakeCache
  <2>5. cache' \in [Key -> Responses] /\ \A k \in Key : Filed(asks, k, cache'[k])
    BY <2>4, Empty DEF Filed
  <2> HIDE DEF q
  <2> QED
    BY <2>1, <2>2, <2>3, <2>5 DEF CallInv
<1>6. ASSUME NEW c \in Callers, Hit(c)
      PROVE  CallInv'
  <2> DEFINE r == cache[KeyOf(c)]
             q == [call[c] EXCEPT !.pc = "judge", !.got = r]
  <2>1. KeyOf(c) \in Key
    BY Empty DEF CallInv
  <2>2. r \in Responses /\ Filed(asks, KeyOf(c), r) /\ r # Nothing /\ r.age <= Ttl
    BY <1>6, <2>1 DEF CallInv, Hit, Fresh
  <2>3. Continue(c, q) /\ UNCHANGED <<asks, made, cooled, cache>>
    BY <1>6 DEF Hit, breaker
  <2> HIDE DEF r
  <2>4. q \in Calls /\ q.pc = "judge" /\ q.got = r
    BY <2>2 DEF CallInv, Calls
  <2> HIDE DEF q
  <2>5. CallRule(asks, c, q)
    <3>1. r.by \in Callers /\ cacheKey(asks[r.by]) = cacheKey(asks[c]) /\ r.answer # "broken"
      BY <2>2 DEF Filed, KeyOf
    <3>2. Sent(asks[r.by]) = Sent(asks[c])
      BY <3>1, KeyDetermines DEF CallInv
    <3> QED
      BY <2>2, <2>4, <3>1, <3>2 DEF CallRule
  <2> QED
    BY <2>3, <2>4, <2>5, CallStep DEF CallInv
<1>7. ASSUME NEW c \in Callers, Miss(c)
      PROVE  CallInv'
  <2> DEFINE q == [call[c] EXCEPT !.pc = "admit"]
  <2>1. q \in Calls /\ q.pc = "admit"
    BY DEF CallInv, Calls
  <2>2. CallRule(asks, c, q)
    BY <2>1 DEF CallRule
  <2>3. call' = [call EXCEPT ![c] = q] /\ UNCHANGED <<asks, made, cooled>>
    BY <1>7 DEF Miss, Goto, Continue, breaker
  <2>4. cache' = [cache EXCEPT ![KeyOf(c)] = Nothing]
    BY <1>7 DEF Miss
  <2>5. cache' \in [Key -> Responses] /\ \A k \in Key : Filed(asks, k, cache'[k])
    BY <2>4, Empty DEF Filed, CallInv
  <2> HIDE DEF q
  <2> QED
    BY <2>1, <2>2, <2>3, <2>5 DEF CallInv
<1>8. ASSUME NEW c \in Callers, Put(c)
      PROVE  CallInv'
  <2> DEFINE g == call[c].got
             q == [call[c] EXCEPT !.pc = "judge"]
  <2>1. call[c] \in Calls /\ g.by = c /\ g.round = call[c].round
    BY <1>8 DEF CallInv, CallRule, Put, At
  <2>2. q \in Calls /\ q.pc = "judge" /\ q.got = g /\ q.round = call[c].round
    BY <2>1 DEF Calls
  <2>3. call' = [call EXCEPT ![c] = q] /\ UNCHANGED <<asks, made, cooled>>
    BY <1>8 DEF Put, Goto, Continue, breaker
  <2>4. g \in Responses /\ (Store(c) => g.answer # "broken")
    BY <2>1 DEF Calls, Store
  <2>5. cache' = cache \/ (Store(c) /\ cache' = [cache EXCEPT ![KeyOf(c)] = g])
    BY <1>8 DEF Put
  <2> HIDE DEF g, q
  <2>6. CallRule(asks, c, q)
    BY <2>1, <2>2 DEF CallRule, Id
  <2>7. cache' \in [Key -> Responses] /\ \A k \in Key : Filed(asks, k, cache'[k])
    BY <2>1, <2>4, <2>5, Empty DEF Filed, CallInv, KeyOf
  <2> QED
    BY <2>2, <2>3, <2>6, <2>7 DEF CallInv
<1>9. ASSUME NEW c \in Callers, AdmitClosed(c) \/ AdmitCooled(c)
      PROVE  CallInv'
  <2> DEFINE q == [call[c] EXCEPT !.pc = "wait", !.tried = 1, !.delay = 1]
  <2>1. q \in Calls /\ q.pc = "wait"
    <3>1. call[c] \in Calls
      BY DEF CallInv
    <3> QED
      BY <3>1 DEF Calls
  <2>2. Continue(c, q) /\ UNCHANGED <<asks, made, cooled, cache>>
    BY <1>9 DEF AdmitClosed, AdmitCooled, Enter, breaker
  <2> HIDE DEF q
  <2>3. CallRule(asks, c, q)
    BY <2>1 DEF CallRule
  <2> QED
    BY <2>1, <2>2, <2>3, CallStep DEF CallInv
<1>10. ASSUME NEW c \in Callers, Refuse(c) \/ RecordFailure(c)
       PROVE  CallInv'
  <2>1. Continue(c, NextRound(c)) /\ UNCHANGED <<asks, made, cache>>
    BY <1>10 DEF Refuse, RecordFailure
  <2>2. cooled' \in Nat
    BY <1>10 DEF Refuse, RecordFailure, breaker, CallInv
  <2>3. CallRule(asks, c, NextRound(c))
    BY NextRoundType DEF CallRule
  <2> QED
    BY <2>1, <2>2, <2>3, NextRoundType, CallStep DEF CallInv
<1>11. ASSUME NEW c \in Callers, RecordSuccess(c)
       PROVE  CallInv'
  <2> DEFINE q == [call[c] EXCEPT !.pc = "put"]
  <2>1. Continue(c, q) /\ UNCHANGED <<asks, made, cooled, cache>>
    BY <1>11 DEF RecordSuccess, Goto
  <2>2. call[c] \in Calls /\ CallRule(asks, c, call[c]) /\ call[c].pc = "success"
    BY <1>11 DEF CallInv, RecordSuccess, At
  <2>3. q \in Calls /\ q.pc = "put" /\ q.got = call[c].got /\ q.round = call[c].round
    BY <2>2 DEF Calls
  <2> HIDE DEF q
  <2>4. CallRule(asks, c, q)
    BY <2>2, <2>3 DEF CallRule
  <2> QED
    BY <2>1, <2>3, <2>4, CallStep DEF CallInv
<1>12. ASSUME NEW c \in Callers, NEW answer \in Answers, Answer(c, answer)
       PROVE  CallInv'
  <2> DEFINE g == [by |-> c, round |-> call[c].round, answer |-> answer, age |-> 0]
             q == [call[c] EXCEPT !.pc = "success", !.got = g]
  <2>1. call[c] \in Calls
    BY DEF CallInv
  <2>2. g \in Responses /\ g.by = c /\ g.round = call[c].round
    BY <2>1 DEF Responses, Calls
  <2>3. Continue(c, q) /\ UNCHANGED <<asks, made, cooled, cache>>
    BY <1>12 DEF Answer, breaker
  <2> HIDE DEF g
  <2>4. q \in Calls /\ q.pc = "success" /\ q.got = g /\ q.round = call[c].round
    BY <2>1, <2>2 DEF Calls
  <2> HIDE DEF q
  <2>5. CallRule(asks, c, q)
    BY <2>2, <2>4 DEF CallRule
  <2> QED
    BY <2>3, <2>4, <2>5, CallStep DEF CallInv
<1>13. ASSUME NEW c \in Callers, Retry(c)
       PROVE  CallInv'
  <2> DEFINE d == call[c].delay
             n == 2 * call[c].delay
             q == [call[c] EXCEPT !.pc = "sleep", !.rest = d, !.delay = n]
  <2>2. Continue(c, q) /\ UNCHANGED <<asks, made, cooled, cache>>
    BY <1>13 DEF Retry, breaker
  <2>4. call[c] \in Calls
    BY DEF CallInv
  <2>5. d \in Nat /\ n \in Nat
    BY <2>4 DEF Calls
  <2> HIDE DEF d, n
  <2>1. q \in Calls /\ q.pc = "sleep"
    BY <2>4, <2>5 DEF Calls
  <2> HIDE DEF q
  <2>3. CallRule(asks, c, q)
    BY <2>1 DEF CallRule
  <2> QED
    BY <2>1, <2>2, <2>3, CallStep DEF CallInv
<1>14. ASSUME NEW c \in Callers, Wake(c)
       PROVE  CallInv'
  <2> DEFINE n == call[c].tried + 1
             q == [call[c] EXCEPT !.pc = "wait", !.tried = n]
  <2>2. Continue(c, q) /\ UNCHANGED <<asks, made, cooled, cache>>
    BY <1>14 DEF Wake, breaker
  <2>4. call[c] \in Calls
    BY DEF CallInv
  <2>5. n \in Nat
    BY <2>4 DEF Calls
  <2> HIDE DEF n
  <2>1. q \in Calls /\ q.pc = "wait"
    BY <2>4, <2>5 DEF Calls
  <2> HIDE DEF q
  <2>3. CallRule(asks, c, q)
    BY <2>1 DEF CallRule
  <2> QED
    BY <2>1, <2>2, <2>3, CallStep DEF CallInv
<1>15. ASSUME NEW c \in Callers, Fail(c) \/ Abort(c) \/ Accept(c)
       PROVE  CallInv'
  <2>1. UNCHANGED <<asks, made, cooled, cache>> /\ (Goto(c, "failure") \/ Goto(c, "done"))
    BY <1>15 DEF Fail, Abort, Accept, breaker
  <2> QED
    BY <2>1, CallGoto DEF CallInv
<1>16. ASSUME NEW c \in Callers, Judge(c)
       PROVE  CallInv'
  <2> DEFINE n == NextRound(c)
             more == n.refused \cup {Id(call[c].got)}
             q == [n EXCEPT !.refused = more]
  <2>1. Continue(c, q) /\ UNCHANGED <<asks, made, cooled, cache>>
    BY <1>16 DEF Judge, breaker
  <2>2. n \in Calls /\ n.pc \in {"lookup", "failed"}
    BY NextRoundType
  <2>3. Id(call[c].got) \in (Callers \cup {"none"}) \X Nat
    BY DEF CallInv, Calls, Responses, Id
  <2> HIDE DEF n
  <2>4. q \in Calls /\ q.pc = n.pc
    BY <2>2, <2>3 DEF Calls
  <2> HIDE DEF q
  <2>5. CallRule(asks, c, q)
    BY <2>2, <2>4 DEF CallRule
  <2> QED
    BY <2>1, <2>4, <2>5, CallStep DEF CallInv
<1> QED
  BY <1>1, <1>2, <1>3, <1>4, <1>5, <1>6, <1>7, <1>8, <1>9, <1>10, <1>11, <1>12, <1>13, <1>14,
     <1>15, <1>16, Zenon DEF Next, Step

\* Every variable has its type, and the breaker is open from the Threshold-th
\* counted failure on (circuitModel.recordFailure).
THEOREM TypeCorrect == Spec => []TypeOK
<1>1. BreakerInv /\ CallInv => TypeOK
  <2> SUFFICES ASSUME BreakerInv, CallInv
               PROVE  TypeOK
    OBVIOUS
  <2>1. open = (failures >= Threshold)
    <3>1. open \in BOOLEAN /\ (open <=> failures >= Threshold)
      BY DEF BreakerInv
    <3>2. CASE open
      <4>1. open = TRUE
        BY <3>1, <3>2
      <4>2. (failures >= Threshold) = TRUE
        BY <3>1, <3>2
      <4> QED
        BY <4>1, <4>2, Zenon
    <3>3. CASE ~open
      <4>1. open = FALSE
        BY <3>1, <3>3
      <4>2. (failures >= Threshold) = FALSE
        BY <3>1, <3>3
      <4> QED
        BY <4>1, <4>2, Zenon
    <3> QED
      BY <3>2, <3>3
  <2> QED
    BY <2>1, Zenon DEF BreakerInv, CallInv, TypeOK
<1> QED
  BY <1>1, BreakerInit, BreakerNext, CallInit, CallNext, PTL DEF Spec

\* What a call is served is an answer to the messages and the tools it sends, its own
\* or a complete one from the cache that had not expired (cacheModel.get, put), for
\* any requests the calls make; the tools are not in the key (cacheKey).
THEOREM ServesCurrent == Spec => []ServedIsCurrent
<1>1. CallInv => ServedIsCurrent
  BY DEF CallInv, CallRule, ServedIsCurrent, At
<1> QED
  BY <1>1, CallInit, CallNext, PTL DEF Spec

=============================================================================
