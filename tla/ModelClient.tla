----------------------------- MODULE ModelClient -----------------------------
(***************************************************************************)
(* The model client of internal/agent/llm.go (cache, circuit breaker and   *)
(* retries around an external model) and generateYAML of tools.go, which   *)
(* asks it again when the validator refuses an answer.                     *)
(*                                                                         *)
(* Calls share the cache and the breaker, each under its own mutex; a      *)
(* critical section is one action.  Between two sections other calls run.  *)
(* Time passes in ticks: a timer counts the ticks since it was started and *)
(* stops once it has expired, so no bound on time is needed.               *)
(***************************************************************************)
EXTENDS Naturals

CONSTANTS
    Callers,        \* the calls of a run, each made once
    Texts,          \* what generations describe and users write, with what goes before
    Asks,           \* the requests the calls may make, as functions of the call
    Rounds,         \* the rounds of generateYAML, 3
    Retries,        \* LLM_RETRY
    Threshold,      \* LLM_CIRCUIT_THRESHOLD
    Cooldown,       \* LLM_CIRCUIT_COOLDOWN, in ticks
    Ttl,            \* LLM_CACHE_TTL, in ticks; 0 leaves the cache out
    Outcomes,       \* what the external model may return
    MayCancel       \* whether clients disconnect

\* The validator refuses a bad answer; a broken one is a stream that fails after
\* its first response.
Answers == {"good", "bad", "broken"}

Request == [kind : {"generate", "chat"}, text : Texts]

ASSUME ModelClientAssumption ==
    /\ Asks \subseteq [Callers -> Request]
    /\ Rounds \in Nat \ {0}
    /\ Retries \in Nat
    /\ Threshold \in Nat \ {0}
    /\ Cooldown \in Nat
    /\ Ttl \in Nat
    /\ Outcomes \subseteq Answers \cup {"retryable", "fatal"}
    /\ MayCancel \in BOOLEAN

VARIABLES
    asks,                       \* the request of each call
    open, failures, cooled,     \* circuitModel: open, failures, and the ticks
                                \* since cooldownUntil was last set
    made, cache,                \* cacheModel: whether the map exists; its entries
    call,                       \* the local state of the calls
    streak                      \* history: failures recorded since a success

breaker == <<open, failures, cooled>>
vars == <<asks, breaker, made, cache, call, streak>>

\* What goes to the model: the messages, which begin with the system prompt of the
\* kind (callConfigLLM, Orchestrator.systemPrompt), and the tool declarations, which
\* only a chat turn carries.
Sent(request) ==
    [messages |-> <<request.kind, request.text>>, tools |-> request.kind = "chat"]

\* Mutant of cacheKey: the system prompt is left out.
cacheKeyText(request) == Sent(request).messages[2]

cacheKey(request) == Sent(request).messages

Key == {cacheKey(request) : request \in Request}
KeyOf(c) == cacheKey(asks[c])
RoundsOf(c) == IF asks[c].kind = "generate" THEN Rounds ELSE 1

\* A response, named by the call and the round that asked for it, and the ticks
\* since the cache stored it.
Responses ==
    [by : Callers \cup {"none"}, round : Nat, answer : Answers \cup {"none"},
     age : Nat]
Nothing == [by |-> "none", round |-> 0, answer |-> "none", age |-> 0]
Id(response) == <<response.by, response.round>>

\* tried counts the requests of the retry loop, delay is the backoff and rest
\* what is left of the sleep; got is the response at hand, refused names those the validator
\* turned down; live is the request context.
Unborn == [pc |-> "idle", round |-> 0, tried |-> 0, delay |-> 1, rest |-> 0,
           got |-> Nothing, refused |-> {}, live |-> TRUE]

Init ==
    /\ asks \in Asks
    /\ open = FALSE
    /\ failures = 0
    /\ cooled = 0
    /\ made = FALSE
    /\ cache = [k \in Key |-> Nothing]
    /\ call = [c \in Callers |-> Unborn]
    /\ streak = 0

At(c, pc) == call[c].pc = pc
Continue(c, q) == call' = [call EXCEPT ![c] = q]
Goto(c, pc) == Continue(c, [call[c] EXCEPT !.pc = pc])

\* A loop that does not count its rounds.
NextRoundUncounted(c) == [call[c] EXCEPT !.pc = "lookup"]

\* A round that fails, for whatever reason, is followed by the next one; the
\* error of the last is returned.
NextRound(c) ==
    LET q == call[c]
    IN IF q.round < RoundsOf(c)
       THEN [q EXCEPT !.pc = "lookup", !.round = @ + 1]
       ELSE [q EXCEPT !.pc = "failed"]

-----------------------------------------------------------------------------
(* cacheModel.GenerateContent.  The first test of the map runs outside the  *)
(* mutex: a call that saw no map makes one, over the entries of another.    *)

Begin(c) ==
    /\ At(c, "idle")
    /\ Continue(c, [call[c] EXCEPT !.pc = IF made THEN "lookup" ELSE "make",
                                   !.round = 1])
    /\ UNCHANGED <<asks, breaker, made, cache, streak>>

MakeCache(c) ==
    /\ At(c, "make")
    /\ made' = TRUE
    /\ cache' = [k \in Key |-> Nothing]
    /\ Goto(c, "lookup")
    /\ UNCHANGED <<asks, breaker, streak>>

\* Entries that never expire.
FreshForever(key) == cache[key] # Nothing

\* time.Now() is not after expireAt.
Fresh(key) == cache[key] # Nothing /\ cache[key].age <= Ttl

Hit(c) ==
    /\ At(c, "lookup")
    /\ Fresh(KeyOf(c))
    /\ Continue(c, [call[c] EXCEPT !.pc = "judge", !.got = cache[KeyOf(c)]])
    /\ UNCHANGED <<asks, breaker, made, cache, streak>>

Miss(c) ==
    /\ At(c, "lookup")
    /\ ~Fresh(KeyOf(c))
    /\ cache' = [cache EXCEPT ![KeyOf(c)] = Nothing]
    /\ Goto(c, "admit")
    /\ UNCHANGED <<asks, breaker, made, streak>>

\* Only a single, complete response is stored.
Store(c) == Ttl > 0 /\ call[c].got.answer # "broken"

Put(c) ==
    /\ At(c, "put")
    /\ cache' = IF Store(c) THEN [cache EXCEPT ![KeyOf(c)] = call[c].got]
                ELSE cache
    /\ Goto(c, "judge")
    /\ UNCHANGED <<asks, breaker, made, streak>>

-----------------------------------------------------------------------------
(* circuitModel.GenerateContent                                             *)

Enter(c) ==
    Continue(c, [call[c] EXCEPT !.pc = "wait", !.tried = 1, !.delay = 1])

AdmitClosed(c) ==
    /\ At(c, "admit")
    /\ ~open
    /\ Enter(c)
    /\ UNCHANGED <<asks, breaker, made, cache, streak>>

AdmitCooled(c) ==
    /\ At(c, "admit")
    /\ open
    /\ cooled > Cooldown
    /\ open' = FALSE
    /\ failures' = 0
    /\ Enter(c)
    /\ UNCHANGED <<asks, cooled, made, cache, streak>>

\* ErrCircuitOpen.
Refuse(c) ==
    /\ At(c, "admit")
    /\ open
    /\ cooled <= Cooldown
    /\ Continue(c, NextRound(c))
    /\ UNCHANGED <<asks, breaker, made, cache, streak>>

RecordFailure(c) ==
    /\ At(c, "failure")
    /\ failures' = failures + 1
    /\ IF failures' >= Threshold
       THEN open' = TRUE /\ cooled' = 0
       ELSE UNCHANGED <<open, cooled>>
    /\ streak' = IF streak < Threshold THEN streak + 1 ELSE streak
    /\ Continue(c, NextRound(c))
    /\ UNCHANGED <<asks, made, cache>>

\* A success that leaves the earlier failures counted.
RecordSuccessForgetful(c) ==
    /\ At(c, "success")
    /\ open' = FALSE
    /\ streak' = 0
    /\ Goto(c, "put")
    /\ UNCHANGED <<asks, failures, cooled, made, cache>>

RecordSuccess(c) ==
    /\ At(c, "success")
    /\ open' = FALSE
    /\ failures' = 0
    /\ streak' = 0
    /\ Goto(c, "put")
    /\ UNCHANGED <<asks, cooled, made, cache>>

-----------------------------------------------------------------------------
(* retryModel.GenerateContent and what the external model does.             *)

\* attempt < maxRetries.
RetriesLeft(c) == call[c].tried <= Retries

Answer(c, answer) ==
    /\ At(c, "wait")
    /\ answer \in Outcomes \cap Answers
    /\ Continue(c, [call[c] EXCEPT !.pc = "success",
                        !.got = [by |-> c, round |-> call[c].round,
                                 answer |-> answer, age |-> 0]])
    /\ UNCHANGED <<asks, breaker, made, cache, streak>>

Fail(c) ==
    /\ At(c, "wait")
    /\ \/ "fatal" \in Outcomes
       \/ "retryable" \in Outcomes /\ ~RetriesLeft(c)
    /\ Goto(c, "failure")
    /\ UNCHANGED <<asks, breaker, made, cache, streak>>

Retry(c) ==
    /\ At(c, "wait")
    /\ "retryable" \in Outcomes
    /\ RetriesLeft(c)
    /\ Continue(c, [call[c] EXCEPT !.pc = "sleep", !.rest = call[c].delay,
                                   !.delay = 2 * @])
    /\ UNCHANGED <<asks, breaker, made, cache, streak>>

Wake(c) ==
    /\ At(c, "sleep")
    /\ call[c].rest = 0
    /\ Continue(c, [call[c] EXCEPT !.pc = "wait", !.tried = @ + 1])
    /\ UNCHANGED <<asks, breaker, made, cache, streak>>

\* The request context is cancelled: the client library returns an error, and
\* a sleep ends with ctx.Err().
Abort(c) ==
    /\ At(c, "wait") \/ At(c, "sleep")
    /\ ~call[c].live
    /\ Goto(c, "failure")
    /\ UNCHANGED <<asks, breaker, made, cache, streak>>

-----------------------------------------------------------------------------
(* generateYAML and the environment                                         *)

Accept(c) ==
    /\ At(c, "judge")
    /\ call[c].got.answer = "good"
    /\ Goto(c, "done")
    /\ UNCHANGED <<asks, breaker, made, cache, streak>>

Judge(c) ==
    /\ At(c, "judge")
    /\ call[c].got.answer # "good"
    /\ Continue(c, [NextRound(c) EXCEPT !.refused = @ \cup {Id(call[c].got)}])
    /\ UNCHANGED <<asks, breaker, made, cache, streak>>

Cancel(c) ==
    /\ MayCancel
    /\ call[c].live
    /\ call[c].pc \notin {"idle", "done", "failed"}
    /\ Continue(c, [call[c] EXCEPT !.live = FALSE])
    /\ UNCHANGED <<asks, breaker, made, cache, streak>>

Older(response) ==
    IF response # Nothing /\ response.age <= Ttl
    THEN [response EXCEPT !.age = @ + 1]
    ELSE response

Tick ==
    /\ cooled' = IF open /\ cooled <= Cooldown THEN cooled + 1 ELSE cooled
    /\ cache' = [k \in Key |-> Older(cache[k])]
    /\ call' = [c \in Callers |->
                   [call[c] EXCEPT !.rest = IF @ > 0 THEN @ - 1 ELSE 0]]
    /\ UNCHANGED <<asks, open, failures, made, streak>>

Step(c) ==
    \/ MakeCache(c) \/ Hit(c) \/ Miss(c) \/ Put(c)
    \/ AdmitClosed(c) \/ AdmitCooled(c) \/ Refuse(c)
    \/ RecordFailure(c) \/ RecordSuccess(c)
    \/ (\E answer \in Answers : Answer(c, answer))
    \/ Fail(c) \/ Retry(c) \/ Wake(c) \/ Abort(c)
    \/ Accept(c) \/ Judge(c)

Next == Tick \/ \E c \in Callers : Begin(c) \/ Step(c) \/ Cancel(c)

Spec == Init /\ [][Next]_vars

\* The HTTP client of the model has a timeout, so a request is answered.
FairSpec == Spec /\ WF_vars(Tick) /\ \A c \in Callers : WF_vars(Step(c))

-----------------------------------------------------------------------------

Calls ==
    [pc : {"idle", "make", "lookup", "admit", "wait", "sleep", "failure",
           "success", "put", "judge", "done", "failed"},
     round : Nat, tried : Nat, delay : Nat, rest : Nat,
     got : Responses,
     refused : SUBSET ((Callers \cup {"none"}) \X Nat), live : BOOLEAN]

\* The values of the breaker, the cache and the calls; in particular the breaker
\* is open from the Threshold-th failure on (circuitModel.recordFailure) and a
\* closed one is below it.
TypeOK ==
    /\ asks \in [Callers -> Request]
    /\ open \in BOOLEAN
    /\ failures \in Nat
    /\ open = (failures >= Threshold)
    /\ cooled \in Nat
    /\ made \in BOOLEAN
    /\ cache \in [Key -> Responses]
    /\ call \in [Callers -> Calls]
    /\ streak \in 0..Threshold

\* The breaker opens on consecutive failures only: whenever it is open, at least
\* Threshold failures have been recorded since the last success, in whatever
\* order the concurrent calls record their results (circuitModel, llm.go:140).
OpenAfterStreak == open => streak = Threshold

\* What a call holds is an answer the model gave to the same messages with the same
\* tools, although the cache tells requests apart by their messages alone (cacheKey,
\* whose comment speaks of the tools too): no generation is served a chat turn's
\* answer, nor one to another text.  An answer that another round asked for came out
\* of the cache, and was complete and no older than Ttl when it was looked up
\* (cacheModel.get, put).
ServedIsCurrent ==
    \A c \in Callers : At(c, "judge") =>
        LET got == call[c].got
        IN /\ Sent(asks[got.by]) = Sent(asks[c])
           /\ Id(got) # <<c, call[c].round>> => got.answer # "broken" /\ got.age <= Ttl

\* Every call returns, whatever the model answers and however the calls queue
\* behind the breaker and the backoff (generateYAML, retryModel).
CallsReturn ==
    \A c \in Callers : At(c, "lookup") ~> At(c, "done") \/ At(c, "failed")

\* tools.go:391 "校验失败自动重试": after an answer was refused the model is asked
\* again, so that no call is given the same answer twice.
RetryAsksAgain ==
    \A c \in Callers : At(c, "judge") => Id(call[c].got) \notin call[c].refused

=============================================================================
