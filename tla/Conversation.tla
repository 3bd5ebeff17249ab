---------------------------- MODULE Conversation ----------------------------
(***************************************************************************)
(* A conversation with the assistant: POST /chat (internal/api and the     *)
(* orchestrator of internal/agent), the message table it writes, and the   *)
(* page that shows it (web/src/pages/AssistantPage.tsx).                   *)
(*                                                                         *)
(* A turn is one POST /chat, run by a goroutine of its own; each of its    *)
(* statements is an action.  The page is one thread of callbacks; what it  *)
(* asks the server for is answered later, from the table as it is by then. *)
(* The query cache it uses keeps one result and at most one request for    *)
(* each session.  A message is named by its id, its place in the table.    *)
(***************************************************************************)
EXTENDS Naturals, SequencesExt

CONSTANTS
    Session,        \* session ids
    History,        \* the messages of earlier visits
    Turn,           \* the turns of a run, each made at most once
    Elsewhere,      \* those of other clients
    Limit,          \* the page size, 50
    PromptLimit,    \* how much history a prompt carries, 20
    MaxSwitches,    \* how often the user changes the session
    MaxFaults       \* how many statements fail

None == 0

ASSUME ConversationAssumption ==
    /\ History \in Seq([session : Session, role : {"user", "assistant"}, turn : {None}])
    /\ Elsewhere \subseteq Turn
    /\ {Limit, PromptLimit} \subseteq Nat \ {0}
    /\ None \notin Session \cup Turn

VARIABLES
    messages,   \* chat_messages, as [session, role, turn]
    sessions,   \* chat_sessions
    runs,       \* runs[t]: the status of the turn's row in agent_runs
    turn,       \* the local state of the turns' handlers
    current,    \* page: the session shown
    older,      \* page: the messages that loadOlder has fetched
    cache,      \* page: the last result of each session's query
    fetch,      \* page: the request of that query that is under way
    load,       \* page: the request of loadOlder
    chat,       \* page: the turn it waits for
    closure,    \* page: the session that onSuccess saw, while it awaits the tasks
    swapped,    \* history: whether the session changed under older messages
    switches, faults

server == <<messages, sessions, runs, turn>>
page == <<current, older, cache, fetch, load, chat, closure, swapped, switches>>
vars == <<server, page, faults>>

-----------------------------------------------------------------------------
(* ListMessages.                                                            *)

Ids(s) == {i \in DOMAIN messages : messages[i].session = s}
Newest(ids) == {i \in ids : Cardinality({j \in ids : j > i}) < Limit}

\* ORDER BY id: the n-th message listed is the one that n - 1 of them precede.
Ascending(ids) ==
    [n \in 1 .. Cardinality(ids) |->
        CHOOSE i \in ids : Cardinality({j \in ids : j < i}) = n - 1]

\* Mutant of Before: the cursor's message is returned once more.
BeforeInclusive(s, cursor) == Ascending(Newest({i \in Ids(s) : i <= cursor}))

Window(s) == Ascending(Newest(Ids(s)))

Before(s, cursor) == Ascending(Newest({i \in Ids(s) : i < cursor}))

Total(s) == Cardinality(Ids(s))

-----------------------------------------------------------------------------
(* The server: Handlers.Chat and Orchestrator.Chat.                         *)

NoTurn == [pc |-> "idle", session |-> None, prompt |-> <<>>, answer |-> "none"]

NoResult == [items |-> <<>>, total |-> 0, known |-> FALSE]
NoFetch == [pc |-> "no", items |-> <<>>, total |-> 0]
NoClosure == [waits |-> FALSE, session |-> None]
NoLoad == [session |-> None, cursor |-> 0, served |-> FALSE, items |-> <<>>]

Init ==
    /\ messages = History
    /\ sessions = {History[i].session : i \in DOMAIN History}
    /\ runs = [t \in Turn |-> "none"]
    /\ turn = [t \in Turn |-> NoTurn]
    /\ current \in sessions \cup {None}     \* a link may name the session
    /\ older = <<>>
    /\ cache = [s \in Session |-> NoResult]
    /\ fetch = [s \in Session |-> IF s = current THEN [NoFetch EXCEPT !.pc = "sent"] ELSE NoFetch]
    /\ load = NoLoad
    /\ chat = None
    /\ closure = NoClosure
    /\ swapped = FALSE
    /\ switches = 0
    /\ faults = 0

Ok == UNCHANGED faults
Fails == faults < MaxFaults /\ faults' = faults + 1

At(t, pc) == turn[t].pc = pc
Goto(t, pc) == turn' = [turn EXCEPT ![t].pc = pc]
Return(t, answer) == turn' = [turn EXCEPT ![t].pc = "end", ![t].answer = answer]
\* Leaving Orchestrator.Chat runs the deferred UpdateAgentRun.
Leave(t, answer) == turn' = [turn EXCEPT ![t].pc = "update", ![t].answer = answer]

Message(t, role) == [session |-> turn[t].session, role |-> role, turn |-> t]
\* Mutant of Recent: one message too many.
RecentPlusOne(seq, n) == SubSeq(seq, IF Len(seq) > n THEN Len(seq) - n ELSE 1, Len(seq))

\* The last n of a history.
Recent(seq, n) == SubSeq(seq, IF Len(seq) > n THEN Len(seq) - n + 1 ELSE 1, Len(seq))

\* resolveSession: the session with its messages, before the question is
\* appended; no id makes a new session.
ResolveSession(t) ==
    /\ At(t, "resolve")
    /\ \/ /\ Ok
          /\ turn[t].session = None
          /\ \E s \in Session \ sessions :
                /\ sessions' = sessions \cup {s}
                /\ turn' = [turn EXCEPT ![t].pc = "append", ![t].session = s]
       \/ /\ Ok
          /\ turn[t].session # None
          /\ turn' = [turn EXCEPT ![t].pc = "append",
                          ![t].prompt = Recent(Ascending(Ids(turn[t].session)), PromptLimit)]
          /\ UNCHANGED sessions
       \/ Fails /\ Return(t, "error") /\ UNCHANGED sessions
    /\ UNCHANGED <<messages, runs, page>>

\* Mutant of AppendQuestion: the history is read after the question is stored.
AppendThenRead(t) ==
    LET id == Len(messages) + 1 IN
    /\ At(t, "append") /\ Ok
    /\ messages' = Append(messages, Message(t, "user"))
    /\ runs' = [runs EXCEPT ![t] = "running"]
    /\ turn' = [turn EXCEPT ![t].pc = "model",
                    ![t].prompt = Append(Recent(Append(@, id), PromptLimit), id)]
    /\ UNCHANGED <<sessions, page>>

\* The question is stored, the row of agent_runs is made, which no other turn
\* reads, and buildMessages puts the question behind the history.
AppendQuestion(t) ==
    /\ At(t, "append")
    /\ \/ /\ Ok
          /\ messages' = Append(messages, Message(t, "user"))
          /\ runs' = [runs EXCEPT ![t] = "running"]
          /\ turn' = [turn EXCEPT ![t].pc = "model",
                          ![t].prompt = Append(@, Len(messages) + 1)]
       \/ Fails /\ Return(t, "error") /\ UNCHANGED <<messages, runs>>
       \/ /\ Fails
          /\ messages' = Append(messages, Message(t, "user"))
          /\ Return(t, "error")
          /\ UNCHANGED runs
    /\ UNCHANGED <<sessions, page>>

\* The loop of at most maxIterations rounds ends in an error, in a text, or in
\* the notice that the rounds are used up; its tool calls write other tables.
AskModel(t) ==
    /\ At(t, "model")
    /\ Ok
    /\ Leave(t, "error") \/ Leave(t, "notice") \/ Goto(t, "reply")
    /\ UNCHANGED <<messages, sessions, runs, page>>

\* AppendMessage of the answer; its error is ignored.
StoreReply(t) ==
    /\ At(t, "reply")
    /\ \/ Ok /\ messages' = Append(messages, Message(t, "assistant"))
       \/ Fails /\ UNCHANGED messages
    /\ Leave(t, "reply")
    /\ UNCHANGED <<sessions, runs, page>>

\* Mutant of UpdateRun: an error leaves the status as it was.
UpdateRunDone(t) ==
    /\ At(t, "update") /\ Ok
    /\ runs' = [runs EXCEPT ![t] = IF turn[t].answer = "error" THEN @ ELSE "done"]
    /\ Goto(t, "end")
    /\ UNCHANGED <<messages, sessions, page>>

UpdateRun(t) ==
    /\ At(t, "update")
    /\ \/ Ok /\ runs' = [runs EXCEPT ![t] = IF turn[t].answer = "error" THEN "failed" ELSE "done"]
       \/ Fails /\ UNCHANGED runs
    /\ Goto(t, "end")
    /\ UNCHANGED <<messages, sessions, page>>

\* Another client, a second tab or the API, sends a message.
OtherClient(t) ==
    /\ t \in Elsewhere /\ At(t, "idle")
    /\ \E s \in sessions :
          turn' = [turn EXCEPT ![t].pc = "resolve", ![t].session = s]
    /\ UNCHANGED <<messages, sessions, runs, page, faults>>

Serve(t) == \/ ResolveSession(t) \/ AppendQuestion(t) \/ AskModel(t) \/ StoreReply(t) \/ UpdateRun(t)

-----------------------------------------------------------------------------
(* The page's query (external: the query cache).  The server counts the     *)
(* session's messages, then reads the window.                               *)

Request(s, f) == IF f[s].pc = "no" THEN [f EXCEPT ![s].pc = "sent"] ELSE f

\* invalidateQueries: an observed query is asked again, and the answer to an
\* earlier request is dropped, unless it would be the first.
Invalidate(s) ==
    fetch' = IF s # current' THEN fetch
             ELSE IF cache[s].known THEN [fetch EXCEPT ![s] = [NoFetch EXCEPT !.pc = "sent"]]
             ELSE Request(s, fetch)

CountMessages(s) ==
    /\ fetch[s].pc = "sent"
    /\ fetch' = [fetch EXCEPT ![s].pc = "counted", ![s].total = Total(s)]
    /\ UNCHANGED <<server, current, older, cache, load, chat, closure, swapped, switches, faults>>

ReadMessages(s) ==
    /\ fetch[s].pc = "counted"
    /\ fetch' = [fetch EXCEPT ![s].pc = "read", ![s].items = Window(s)]
    /\ UNCHANGED <<server, current, older, cache, load, chat, closure, swapped, switches, faults>>

ShowMessages(s) ==
    /\ fetch[s].pc = "read"
    /\ cache' = [cache EXCEPT ![s] = [items |-> fetch[s].items, total |-> fetch[s].total,
                                      known |-> TRUE]]
    /\ fetch' = [fetch EXCEPT ![s] = NoFetch]
    /\ UNCHANGED <<server, current, older, load, chat, closure, swapped, switches, faults>>

-----------------------------------------------------------------------------
(* The page.                                                                *)

Displayed == IF current = None THEN <<>> ELSE older \o cache[current].items
HasOlder == current # None /\ cache[current].known /\ cache[current].total > Len(Displayed)

Show(s) ==
    /\ switches < MaxSwitches
    /\ switches' = switches + 1
    /\ current' = s
    /\ fetch' = IF s = current THEN fetch ELSE Request(s, fetch)
    /\ swapped' = (swapped \/ load # NoLoad)

PickSession == \E s \in sessions :
    /\ Show(s)
    /\ older' = <<>>
    /\ UNCHANGED <<server, cache, load, chat, closure, faults>>

\* A link or the browser's back button: the URL's session becomes the current
\* one, and what loadOlder fetched stays.
FollowLink == \E s \in sessions \ {current} :
    /\ switches < MaxSwitches
    /\ switches' = switches + 1
    /\ current' = s
    /\ fetch' = Request(s, fetch)
    /\ swapped' = (swapped \/ load # NoLoad \/ older # <<>>)
    /\ UNCHANGED <<server, older, cache, load, chat, closure, faults>>

\* The request and its answer are one step: nobody else knows the new id.
NewSession == \E s \in Session \ sessions :
    /\ sessions' = sessions \cup {s}
    /\ Show(s)
    /\ older' = <<>>
    /\ UNCHANGED <<messages, runs, turn, cache, load, chat, closure, faults>>

\* Mutant of LoadOlder: the cursor is the first message of the tail window.
LoadOlderFromTail ==
    /\ HasOlder /\ load = NoLoad /\ Displayed # <<>>
    /\ load' = [NoLoad EXCEPT !.session = current, !.cursor = cache[current].items[1]]
    /\ UNCHANGED <<server, current, older, cache, fetch, chat, closure, swapped, switches, faults>>

\* The cursor is the first message displayed.
LoadOlder ==
    /\ HasOlder /\ load = NoLoad /\ Displayed # <<>>
    /\ load' = [NoLoad EXCEPT !.session = current, !.cursor = Displayed[1]]
    /\ UNCHANGED <<server, current, older, cache, fetch, chat, closure, swapped, switches, faults>>

ServeOlder ==
    /\ load # NoLoad /\ ~load.served
    /\ \/ /\ Ok
          /\ load' = [load EXCEPT !.served = TRUE, !.items = Before(load.session, load.cursor)]
       \/ Fails /\ load' = NoLoad
    /\ UNCHANGED <<server, current, older, cache, fetch, chat, closure, swapped, switches>>

\* The page is put before what is displayed by then.
ShowOlder ==
    /\ load.served
    /\ older' = load.items \o older
    /\ load' = NoLoad
    /\ UNCHANGED <<server, current, cache, fetch, chat, closure, swapped, switches, faults>>

Send(t) ==
    /\ t \notin Elsewhere /\ At(t, "idle")
    /\ chat = None
    /\ chat' = t
    /\ turn' = [turn EXCEPT ![t].pc = "resolve", ![t].session = current]
    /\ UNCHANGED <<messages, sessions, runs, current, older, cache, fetch, load, closure,
                   swapped, switches, faults>>

\* The answer arrives and names tasks: onSuccess fetches up to three of them, one
\* after the other, and goes on with the currentId of the render it began in.
AwaitTasks(t) ==
    /\ chat = t /\ At(t, "end") /\ ~closure.waits
    /\ turn[t].answer = "reply"
    /\ closure' = [waits |-> TRUE, session |-> current]
    /\ UNCHANGED <<server, current, older, cache, fetch, load, chat, swapped, switches, faults>>

Seen == IF closure.waits THEN closure.session ELSE current

\* Once the tasks are there, or at once when none is named: if onSuccess saw no
\* session the page shows the turn's, whatever it shows by now, and the query is
\* invalidated; an error only sets the banner.
ShowAnswer(t) ==
    /\ chat = t /\ At(t, "end")
    /\ chat' = None
    /\ closure' = NoClosure
    /\ IF turn[t].answer = "error"
       THEN UNCHANGED <<current, fetch>>
       ELSE /\ current' = IF Seen = None THEN turn[t].session ELSE current
            /\ Invalidate(turn[t].session)
    /\ swapped' = (swapped \/ (current' # current /\ (load # NoLoad \/ older # <<>>)))
    /\ UNCHANGED <<server, older, cache, load, switches, faults>>

Respond == \/ \E s \in Session : CountMessages(s) \/ ReadMessages(s) \/ ShowMessages(s)
           \/ ServeOlder \/ ShowOlder
           \/ \E t \in Turn : AwaitTasks(t) \/ ShowAnswer(t)

Next ==
    \/ \E t \in Turn : Serve(t) \/ OtherClient(t) \/ Send(t)
    \/ Respond
    \/ PickSession \/ FollowLink \/ NewSession \/ LoadOlder

Spec == Init /\ [][Next]_vars

-----------------------------------------------------------------------------
(* Properties.                                                              *)

ListsOK(seq) == \A i \in DOMAIN seq : seq[i] \in DOMAIN messages

\* Every variable has its type, and no list names a message that is not stored.
TypeOK ==
    /\ \A i \in DOMAIN messages :
          messages[i] \in [session : Session, role : {"user", "assistant"}, turn : Turn \cup {None}]
    /\ sessions \subseteq Session
    /\ runs \in [Turn -> {"none", "running", "done", "failed"}]
    /\ \A t \in Turn :
          /\ turn[t].pc \in {"idle", "resolve", "append", "model", "reply", "update", "end"}
          /\ turn[t].session \in Session \cup {None}
          /\ turn[t].answer \in {"none", "error", "notice", "reply"}
          /\ ListsOK(turn[t].prompt) /\ Len(turn[t].prompt) <= PromptLimit + 1
    /\ current \in sessions \cup {None}
    /\ \A s \in Session : ListsOK(cache[s].items) /\ ListsOK(fetch[s].items)
    /\ ListsOK(older) /\ ListsOK(load.items)
    /\ chat \in Turn \cup {None}
    /\ closure \in [waits : BOOLEAN, session : Session \cup {None}]

Contiguous(seq, s) ==
    \A id \in Ids(s) : (\E i, j \in DOMAIN seq : seq[i] < id /\ id < seq[j]) =>
        \E i \in DOMAIN seq : seq[i] = id

\* The prompt ends with the question and has it once, although the question is
\* stored before the prompt is built; before it comes an unbroken stretch of the
\* same session, whatever other turns write meanwhile (Chat, buildMessages).
PromptHasQuestionOnce ==
    \A t \in Turn : At(t, "model") =>
        LET prompt == turn[t].prompt
            n == Len(prompt)
        IN /\ messages[prompt[n]] = Message(t, "user")
           /\ \A i, j \in 1 .. n : i < j => prompt[i] < prompt[j]
           /\ \A i \in 1 .. n : messages[prompt[i]].session = turn[t].session
           /\ Contiguous(SubSeq(prompt, 1, n - 1), turn[t].session)

HasAnswer(t) == Message(t, "assistant") \in Range(messages)

\* The record of a finished turn and the conversation do not contradict what the
\* client was told, whichever statements fail: the run is done after a reply or the
\* notice that maxIterations is reached, failed after an error, and left running, or
\* never recorded, only by a failed statement.  A stored answer was returned; a
\* returned reply is stored unless a statement failed, but the notice never is
\* (Orchestrator.Chat: the deferred UpdateAgentRun, the appends and the last return).
RunTellsOutcome ==
    \A t \in Turn : At(t, "end") =>
        /\ runs[t] = "done" => turn[t].answer \in {"reply", "notice"}
        /\ runs[t] = "failed" => turn[t].answer = "error"
        /\ runs[t] = "none" => turn[t].answer = "error"
        /\ runs[t] \in {"none", "running"} => faults > 0
        /\ HasAnswer(t) => turn[t].answer = "reply"
        /\ turn[t].answer = "reply" /\ faults = 0 => HasAnswer(t)

\* As long as the session is not changed under older messages or their request, as a
\* link or an answer that arrives late may do, the page shows each message once, in
\* order, and of its session only, although the tail window and the older pages are
\* fetched at different times.
DisplayedInOrder ==
    ~swapped => LET d == Displayed IN
        /\ \A i, j \in DOMAIN d : i < j => d[i] < d[j]
        /\ \A i \in DOMAIN d : messages[d[i]].session = current

Quiet ==
    /\ current # None /\ chat = None
    /\ \A t \in Turn : turn[t].pc \in {"idle", "end"}
    /\ \A s \in Session : fetch[s] = NoFetch
    /\ cache[current].total = Total(current) /\ cache[current].items = Window(current)

\* Once nothing is under way the button for older messages is there exactly when
\* messages are missing: HasOlder compares two counts made at different times, and
\* each page starts at a cursor taken from what was displayed when it was asked for.
HasOlderIsTrue ==
    Quiet /\ load = NoLoad /\ ~swapped =>
        (HasOlder <=> Range(Displayed) # Ids(current))

\* What the page shows of a session's past is true: its messages in order, and
\* whether there are more (AssistantPage.tsx's displayed and hasOlder).
DisplayIsTrue == DisplayedInOrder /\ HasOlderIsTrue

\* "The tail window, with older pages accumulated before it" (the comment on
\* olderMessages): what is displayed has no hole.
NoHole == ~swapped => Contiguous(Displayed, current)

=============================================================================
