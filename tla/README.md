# Cadenza: TLA+ models, model checks and proofs

Cadenza manages a fleet of OpenTelemetry collectors. An assistant (or an editor,
or a git repository) produces a collector configuration; a *task* carries it
through approval; the OpAMP server pushes it to the collectors and waits for
evidence that they run it. This directory holds formal models of that core: TLA+
modules translated from the Go and TypeScript sources, TLC configurations that
check them on small instances, and TLAPS proofs for every value of the constants.

`PROJECT.json` is the index: components, runs, the source lines each definition
translates, what is known to go wrong (`findings`), what could (`hazards`), and
the proved theorems. Line numbers below are those of the modelled commit.

## 1. Inventory

### 1.1 Components

| Component | Source | State | Operations |
|---|---|---|---|
| Task service | `internal/task/task.go` | rows of `tasks`, `task_events` | Create, Approve, Reject, SetStatus, Transition |
| Task handlers and dispatch | `internal/agent/tools.go`, `internal/api/apply.go`, `handlers.go`, `router.go` | the locals of each request; `audit_logs`, `config_versions` | generate, optimize, upgrade, apply, rollback (version or git), apply_config, approve, reject; DispatchApprove |
| OpAMP server and registry | `internal/opampserver/*.go` | maps from uid to record, connection, capabilities, acknowledged hash, reported configuration; the queue of pending configurations; rows of `collectors` | onMessage, onConnectionClose, onMessageResponseError, PushConfig, SendRestart, MarkOffline |
| Dispatch confirmation | `internal/agent/confirm.go`, `subset.go` | none of its own | pushAndConfirm, waitConfirm, configSubset |
| Model client | `internal/agent/llm.go` | response cache, circuit breaker | cache lookup and store, admission, recording results, retry with backoff; the validation rounds of generateYAML |
| Conversation | `internal/agent/orchestrator.go`, `internal/api/handlers.go`, `sessions.go` | `chat_sessions`, `chat_messages`, `agent_runs` | POST /chat, keyset paging of messages |
| Assistant page | `web/src/pages/AssistantPage.tsx` | current session, older pages, query cache | send, pickSession, newSession, loadOlder, the URL effects |
| Line diff | `internal/diff/diff.go`, `web/src/lib/diff.ts` | none | Unified, printed and read again by the task page |
| Statistics | `internal/api/stats.go` | none | computeOpsStats, overview counters |
| Store and listings | `internal/store/*.go` | the tables | statements; filters, order and pages of the lists |
| REST authentication | `internal/api/auth.go`, `system.go`, `web/src/app/auth.tsx`, `pages/LoginPage.tsx` | map from tokens to user and expiry; the cookie; what the page believes | middleware, login, logout, me, system/info; the page's start, login and logout |
| Git source | `internal/gitsource/gitsource.go`, `internal/api/git.go`, `apply.go`, `handlers.go` | a cached status; the repository itself is external | git/status, git/commits, git/file, apply and rollback from git |
| Validator | `internal/validator/validator.go` | none | Validate, Hash |
| MCP adapter, configuration, start-up, static files, demo data, other pages, scripts | see `PROJECT.json` | little or none | |

### 1.2 Interactions

* A REST or MCP request runs in a goroutine of its own and calls the handlers,
  which call the task service and the store. **No lock and no database
  transaction spans two statements**: requests meet in the tables only.
* Dispatch calls `PushConfig` and then polls the registry, which the connection
  goroutines of the OpAMP server write. A registry method holds the registry's
  lock; nothing holds it between two calls. `Get` hands out a pointer.
* A message from an agent updates registry and table and takes a queued
  configuration with it in its response.
* Generation goes through cache, then retries, then breaker, then the model;
  all requests share cache and breaker.
* Everything under `/api` passes the session middleware; the handler takes the
  actor of its audit records from the request's context. Git endpoints run two or
  three git commands per answer, each a process of its own.
* The page asks for the tail window of a session through a query cache, keeps
  older pages of its own and joins the two when it renders.

### 1.3 What is hard

* *Read, check, write.* The service reads a row, checks the transition on its
  copy and writes the whole row back without comparing.
* *Stale copies.* SaveContent, setTaskError and recordConfigVersion write back
  something they read before another statement.
* *Partial failure.* A dispatch is a dozen statements and pushes; each may fail,
  the client may leave (the statements use its context), the server may stop.
* *Delivery.* A configuration may go out at once, with a response, or after the
  next report; connections break unnoticed, overlap and come back.
* *Late answers.* Acknowledgements, breaker results and page fetches arrive
  after the state they are about has changed; a callback goes on with what it saw
  before it awaited something.
* *Ignored errors.* The registry upserts and marks without looking at what the store
  answers; the assistant returns a reply whether or not it could be stored.
* *Two looks at one thing.* Content and commit of a git task are read by two
  commands, a status by three; a session is looked up and evicted under two locks.
* *Unanswered requests.* The page decides from `auth/me` and `system/info`, either
  of which may be lost, whether the console needs a login at all.
* *Boundaries.* Hunk headers, nearest ranks, half-open periods, page offsets.

### 1.4 What makes the parts correct

* Tasks: only validated, approved content is pushed; one content per task; a
  dispatch leaves an audit trail and versions to roll back to; a task moves along
  the transition table; applying ends.
* OpAMP: a push is delivered at most once and, unless replaced, at all; the last
  one wins; a confirmation is evidence; what is known of a collector is kept, or comes
  back when the store has lost it.
* Model client: the breaker opens on consecutive failures only; the cache serves
  what the same messages with the same tools were answered; every call returns.
* Conversation: the prompt has the question once; run record and table do not
  contradict what the client was told; the page shows each message once, in order and without holes.
* Authentication: an ended session stays out; nobody is logged out by a late
  answer; the page never takes an unreachable server for an open one; audits
  and decisions name the user, not what the request says.
* Git source: a task's content is that of its commit; a status is recent.
* Functions: the diff applies, is minimal and is shown whole; the subset test neither confirms
  too much nor too little; figures are measured, never invented; lists lose
  nothing.

## 2. Modules

| Module | Models | Used by |
|---|---|---|
| `TaskStatus` | statuses and the transition table (`task.go`) | `TaskLifecycle`, `TaskStateMachine`, `EventLog` |
| `TaskStateMachine` | abstract specification: what the service promises of statuses | refined by `TaskLifecycle` |
| `TaskLifecycle` | requests, task service, handlers, dispatch, tables | `MCTaskLifecycle`, `TaskLifecycle_proofs`; `TaskDispatch_proofs` builds on the latter, `TaskRows_proofs` on that |
| `OpAMPServer` | registry, connections, queue, dispatch with confirmation, agents | `MCOpAMPServer`, `OpAMPServer_proofs` |
| `Delivery` | abstract specification: what `PushConfig` promises of a dispatch | refined by `OpAMPServer` |
| `WebAuth` | sessions, middleware, login handlers, the page that starts up, logs in and out | `WebRequests` |
| `GitSource` | status with its cache, commits, file, apply and rollback from git; the repository | `WebRequests` |
| `WebRequests` | the two together: a request that is let in runs as a call | `MCWebRequests`, `WebRequests_proofs` |
| `ModelClient` | cache, breaker, retries, validation rounds | `MCModelClient`, `ModelClient_proofs` |
| `Conversation` | POST /chat, message table, paging, the page | `MCConversation`, `Conversation_proofs` |
| `UnifiedDiff`, `ConfigSubset` | pure functions | `MCCalculations` |
| `OpsStats` | pure functions: the figures of the statistics | `EventLog` |
| `EventLog` | the status events as the task service records them, any of which may be missing from the window, and what the statistics make of them | `MCCalculations`, `Calculations_proofs` |
| `Listings` | pure functions: filters, orders and pages of the five lists | `ListReading` |
| `ListReading` | a reader who turns the pages of a list while rows are added and sessions used | `MCCalculations`, `Calculations_proofs` |

How the models read:

* **Requests are program counters.** In `TaskLifecycle` `req[r].pc` names the
  next statement a request sends to the store, the model or the OpAMP server.
  Each statement is one action, with everything the handler computes until the
  next one; so requests interleave where the code can. `AfterOk`, `AfterError`,
  `AfterCreate`, `AfterApproval`, `AfterTarget` and `AfterNote` are the handlers'
  continuations, including `markTaskFailed`. A failing statement is a fault of
  kind "store", a refused push "push", a client that leaves "cancel" (its
  statements fail from then on), a stop of the server "crash". `pushed` and
  `granted` record what was handed to `PushConfig` and which request wrote which
  approval.
* **A refused statement is a fault.** In `OpAMPServer` the kind "store" makes any
  read or write of a row fail where the code drops the error: `OnMessage` takes the row
  for absent, `Upsert`, `MarkOffline` and `WriteRow` leave it as it was, and a version
  that cannot be stored ends `recordConfigVersion`. `failed` remembers the reads and the
  offline marks that this hit.
* **Registry calls are actions.** In `OpAMPServer` `hand[k]` is the goroutine of
  connection `k`, `job[p]` the dispatch `p`. `Read` and `Detach` model the shared
  pointer: what a dispatch got from `Get` aliases the registry's record until
  `Upsert` replaces it. A hash is named by the configuration it is of. Agents
  and network are external: `Connect`, `Receive`, `Drop`, `Silence`, `Reports`.
* **A dispatch has a fate.** `OpAMPServer` implements `Delivery` under the mapping
  `Promise`: a dispatch is new, accepted (in a queue, a response or on the wire),
  delivered or gone, and may only go when a later one has replaced it or something
  broke.
* **A request and its call.** `WebRequests` lets `Enter` start a `GitSource` call
  of the same name when the middleware has let a `WebAuth` request through, for the
  actor of that request, and `Leave` end both. Each git command is one action; the
  repository may change between any two (`RepoChanges`). `Decide` is
  an approve or reject request: `approverOf` says whom it is attributed to, given the
  name in its body, and `decided` records both (what the decision does to the task is
  `TaskLifecycle`'s). `late`, `moved`, `stale`
  are history: the session had ended when the request was sent, the ref was moved
  while the call ran, how long ago HEAD stood for a commit.
* **Ticks.** `ModelClient` counts cooldown, cache lifetime and backoff in ticks,
  `GitSource` the age of the cached status and the time a command takes.
* **A call and what it sends.** In `ModelClient` a call makes a `Request`, a text
  for a generation or for a chat turn; `Sent` is what goes to the model, messages and
  tool declarations, and `cacheKey` what the cache files the answer under.
* **A callback has a closure.** In `Conversation` `AwaitTasks` is the part of
  `onSuccess` before its awaits and `ShowAnswer` the part after; `closure` keeps the
  session the first part saw, while the user may do anything but send.
* **The query cache is external.** `Conversation` models it as the page uses it:
  one result and at most one request per session, invalidated after a turn. A
  request is answered in three steps (count, read, arrive) because the server
  counts and reads in two statements.
* **Functions are questions.** A state of `MCCalculations` is a question put to
  the diff or the subset test, or a state of `EventLog` or of `ListReading`;
  invariants compare the answer with a reference definition kept in the module that
  is asked. A list is a function from places to rows, and a row's place is the number
  of rows before it: an order, as SQL has it, instead of a sorting procedure.

Definitions called "Mutant of X" are plausible bugs. None is part of a
specification: each takes X's place when the properties are tested, and the
property it is paired with in `PROJECT.json` then fails.

## 3. Runs

Every run stops where the modelled requests, pushes, turns or questions are used
up, so `CHECK_DEADLOCK FALSE` is set: the server then waits for input that the
instance does not have. That nothing gets stuck *before* that is what the liveness
properties say. `WebRequests` is the exception: a page can always send again, and
TLC checks that it never deadlocks.

| Run | Question | Result |
|---|---|---|
| `LifecycleRace` | one task, made in five ways, approved twice and rejected by overlapping requests, one push may fail | holds |
| `LifecycleSerial` | every operation one at a time, one failed statement or push, disconnect or crash anywhere; refinement of `TaskStateMachine`, liveness | holds |
| `LifecycleTerminalRace` | "a terminal status moves no further" under overlapping requests | **violated** |
| `OpAMPWebSocket` | two connections of one agent, a dispatch with confirmation and restart command, a broken connection | holds |
| `OpAMPDelivery` | a polling agent, dispatches, a shutdown, silences, broken connections, restarts: statements the store refuses: refinement of `Delivery`, full state, descriptions survive or return, the silent go offline | holds |
| `WebRequests` | the console in a browser behind the middleware, tasks from a git repository that changes, decisions, the cached status: who gets in, who acts, what a task contains, how old a status is, liveness of the start | holds |
| `OpAMPLostQueue` | "queued, and delivered with the first report" when a send fails | **violated** |
| `ModelCalls` | two generations or chat turns over shared cache and breaker, clients may leave | holds |
| `ModelReplay` | "retried when validation fails" | **violated** |
| `ConversationPage` | the page's turn and another client's, an answer that awaits its tasks, two sessions, older pages, one failure | holds |
| `ConversationHole` | "tail window plus older pages, without upper limit" | **violated** |
| `Calculations` | the pure functions over bounded inputs | holds |

### 3.1 Bounds and why they are enough

* `LifecycleRace`: one task, because requests meet only in the row of a task;
  four requests, one to create, two to approve, one to reject, of which three may
  be in flight (`MaxActive`): a race needs a reader and a writer, and a third
  request to see the damage. Two earlier versions and a document the validator
  refuses, so that a wrong content can be told from the right one, and a target
  without collectors. The two approvals are symmetric.
* `LifecycleSerial`: two tasks, a group of two collectors (a push may fail half
  way), every operation, `MaxFaults = 1`: no statement of the code promises
  anything about two failures.
* `OpAMPWebSocket`: an agent, because every map of the registry is keyed by collector;
  two connections, because the interesting overlap is one dying and one coming up.
  `OpAMPDelivery` runs six *scenes*, each with its own connections, dispatches and
  faults: two dispatches, one to overtake the other, to an agent that polls and to one
  with a WebSocket; three faults without a dispatch, so that a restart follows an
  offline marking that follows a broken connection; one dispatch with one fault,
  polled and not; one dispatch with a restart and a refused statement, so that the row
  a dispatch rewrites may be one that could not be read. Two dispatches *and* three
  faults at once are out of TLC's reach. `MaxWire = 2` bounds messages in transit.
* `WebRequests` runs ten *plans*. Five are about the page and its sessions, with two
  requests under way, two tokens and two or three kinds of events each: logout meets
  each of expiry, restart, loss and reload, and the last three meet in pairs; expiry,
  which only adds to what logout does to a session, meets logout alone. Their data
  requests are `git/commits` of a ref git refuses, the shortest call. `TaskPlan` makes
  tasks from a branch, HEAD and a commit while a branch moves, one request at a time,
  since calls that create tasks share nothing but the tables. `StatusPlan` has two
  overlapping status requests, a move and time; without protection, since the cache
  does not know who asks. The three `DecidePlans` decide tasks with and without a name
  in the body: while sessions expire, while the page logs out, and without protection.
  `CacheTTL = 2` and `CmdTimeout = 1` let an entry age and a command take a tick. The
  theorems of section 4 hold for all plans, those that mix everything included.
* `ModelCalls`: two callers who make the same generation, or a generation and a chat
  turn over one text, or chat turns over two (`Pairs`), so that they share breaker and
  cache entry, or must not share the entry; a threshold of two, one retry, two rounds.
* `ConversationPage`: a window of two over three older messages, so that there is
  an older page and a turn (two messages) replaces the whole window; two sessions, so that
  an answer of a new one arrives while the old one and its older page are shown.
* `Calculations`: texts of up to five lines over two different lines, with one context
  line and a cell limit that some of them exceed, so that hunks touch, overlap and
  stand apart; YAML trees of depth two; histories of six events of two tasks, of which
  any may be missing; samples of six durations; tables of three rows with three
  milliseconds to the second, read in pages of one, two (the default) and three. Lines
  that begin with dashes or plus signs (`MarkedTexts`) make texts of up to two lines.
  The page tables of sessions, collectors and versions have up to three rows
  (`MaxRows`), one of which may be added between two pages; `MaxUses = 4` bounds the
  chat messages that move a session to the front.

### 3.2 Fairness

* `TaskLifecycle`: weak fairness of every request's step. A goroutine runs on and
  every wait of a handler has a time limit (store timeouts, HTTP timeout of the
  model, confirmation timeout). Arrivals, disconnects and crashes are not fair.
* `OpAMPServer`: weak fairness of handlers, dispatches and of an agent's reading
  and reporting; strong fairness of connecting again (an OpAMP client retries
  for ever, while the connection may be cut in between), and of `MarkOffline`, which
  a ticker calls; an agent that has been shut down does fall silent. Faults are not
  fair.
* `WebRequests`: weak fairness of each request's progress, from the network through
  middleware, handler and git commands (each has a time limit) to the page that
  reads the answer; a lost request ends as an error in the browser. Clicks, reloads,
  expiry, losses, moves, time and restarts are not fair.
* `ModelClient`: weak fairness of each call's step and of time; the model's HTTP
  client has a timeout, so a request is answered, with an error at worst.

### 3.3 What the violations show

* `LifecycleTerminalRace`: two requests read `awaiting_approval`; both pass
  `CanTransition`; the second write turns a rejected task into an applying one or
  the reverse. What still holds is in `LifecycleRace`: nothing unapproved is
  pushed, both dispatches of a doubly approved task carry the same content, and
  an approval that starts after the rejection is refused.
* `OpAMPLostQueue`: `takePending` empties the queue before the response is
  written; `onMessageResponseError` only logs.
* `ModelReplay`: the cache is filled before the answer is validated and its key is
  the messages alone, which `generateYAML` does not change between rounds; so
  the retry gets the answer that was just refused.
* `ConversationHole`: a turn moves the tail window on by two; the messages that
  leave it are not in the older pages that were fetched before.

### 3.4 Seen in the models, and not listed as findings

Where a document says otherwise it is quoted; the properties name these cases as
exceptions where they would be in the way. No run of their own is spent on them.

* A task can stay in `applying`: after a crash or disconnect, in the upgrade
  branch, when the version lookup of a rollback fails, when a generated task
  lost its content, and when `markTaskFailed` fails too.
* `handleGenerateConfig` stores the content with a row read before; a rejection in
  between is overwritten and the task awaits approval again.
* `MetadataKept` fails when two connections of one agent overlap or a dispatch runs,
  because `recordConfigVersion` and `onMessage` upsert what they read before. With one
  connection and no dispatch one case is left, and the property names it: the row
  cannot be read (`server.go:117` drops the error), so nothing is backfilled and the
  empty record is written over what is stored. In every case the `ReportFullState`
  flag brings hostname and version back (`FullStateArrives`).
* A close handler that finishes after a reconnection unbinds the live connection
  until the agent's next report.
* Over a WebSocket an older configuration may be delivered after a newer one. After a
  failed send the older one is queued. Without any failure, one that is queued while
  the agent is not bound yet is taken into the response to the first report, and one
  dispatched before that response is written goes out ahead of it. No document
  promises an order; `Delivery` asks for it where the code keeps it, of collectors
  that poll.
* The breaker does not remember being half open: several probes pass after the
  cooldown, a success that started before it opened closes it, and requests
  whose client left count as failures of the model.
* Older pages, or a pending request for them, end up above another session in three
  ways: `FollowLink` (the URL effect) drops none; `pickSession` and `newSession` drop what
  is shown but not a `loadOlder` in flight (`AssistantPage.tsx:144`); and a chat answer
  that arrives late sets the session it was asked in (line 119, from the closure, after up
  to three awaited `getTask` calls), also away from the one the user has picked since. The
  comment of line 173 says "切换会话重置已加载的历史页". `swapped` remembers them; the
  page properties except these and nothing else.
* A turn that reaches `maxIterations` answers with a notice (`orchestrator.go:105`) that
  is never stored, and a reply whose append fails (line 87) is returned all the same:
  the conversation then lacks what the client was told. A run whose update fails stays
  `running`. `RunTellsOutcome` says which of these may happen when.
* The comment of `llm.go:300` says that the cache key includes the tool declarations;
  lines 302-306 build it from the messages alone. No run can show a wrong answer: the
  requests with tools and those without begin with different system prompts, so no two
  requests of this program have the same messages and different tools (`ServedIsCurrent`
  compares both; the lemma `KeyDetermines` is the reason). A new caller would need the
  tools in the key.
* Two equal texts of more than 2000 lines are shown as a full replacement.
* A task that failed before it was applied is measured as a dispatch from its
  first event.
* A reader who stops at `total` may stop one row early, since total and page are
  two statements; under a status filter, decisions between two pages move rows
  over the page edge.

OpAMP:

* An agent that is gone before a restart keeps its status: `MarkOffline` walks the
  registry in memory, which starts empty (`registry.go:164`). `recordConfigVersion`
  writes back a row it read before `MarkOffline` set it offline (`tools.go:735`).
  A mark that the store refuses (`registry.go:170` ignores the error) is not tried again,
  as the collector is offline in memory by then; the row says `online` until it reports.
  `docs/test-plan.md:83` says "离线检测 | 停止 collector 后（>90s）状态变 offline";
  `SilentGoesOffline` excepts the three.
* Other refused upserts (`registry.go:63`) leave the row as it was, behind the memory,
  until the next message writes it.

Git:

* ShowFile and Resolve are two commands. A commit in between, of a branch or HEAD,
  gives the task the old content under the new commit. `docs/design-gitops.md:51`
  says of `git_commit`: "该任务下发的 commit sha". `TraceableContent` excepts a ref
  that was moved between the two, and nothing else.
* A status may be older than the 10 s of `docs/design-gitops.md:44` by the time limits
  of three commands, because it is read in the first and stamped after the last, also
  over a newer entry of a faster request. `StatusIsRecent` states the bound that holds.
* `docs/design-gitops.md:74` says "缺省用 `GIT_REF`"; an apply without `git_ref` takes
  its content from the request and never asks git.

Authentication and pages:

* A 401 in the middle of a session only shows an error. `docs/web-frontend-prd.md:68`
  says "401 | 登出并回登录页", and `docs/design-web-p0.md:113` the same; only the
  page's start looks at it.
* When the logout request is lost the page forgets the user, while the session and
  the cookie live on; a reload is logged in again.
* With two tabs of one browser, the late answer to a logout in one clears the cookie
  of a login made since then in the other, whose session stays in the map until it
  expires. One page is enough for it: the menu item stays enabled while a logout is
  under way (`AppShell.tsx:41-52`), so a second may be asked, and its answer may
  arrive after the next login. `LoginHolds` says what holds of every login, that its
  session stays in the map, and of cookie and shown user only of one that began when
  no logout was under way (`alone`).
* The two MCP tools that decide a task take the approver from their arguments
  (`tools.go:574-577`), and so does the chat. `OnlyUserActs` is about the REST requests,
  whose body `approverOf` overrules with the logged-in user.
* `parseUnified` skips every line that begins with `--- ` or `+++ `, to drop the file
  headers: a removed line that begins with `-- ` and an added one that begins with
  `++ ` are not shown. `PageShowsDiff` excepts them.
* The version list calls the newest row current (`CollectorDetailPage.tsx:83`) and
  bars its rollback. Rows are written for pushes that were not confirmed, too, and by
  overlapping dispatches in an order of their own.
* The base of a task's diff is a snapshot (`tools.go:344`): of two open tasks for a
  target the second shows a diff against what the first has replaced.
* A session that is used while the list is read moves to its top, past the page the
  reader is at; `PagesMissNothing` is about rows that stayed as they were.
* Demo data is written row by row, and skipped when there is any collector
  (`demo.go:82`): a start cut short leaves half of it for good.

## 4. Proofs

TLAPS checks these for all values of the constants that satisfy the named
assumptions of the modules: any number of requests, tasks, collectors, agents,
connections, tokens, branches, sessions and turns, and any faults. The constants that
bound a run (`MaxActive`, `MaxFaults`, `MaxWire`, `MaxMoves`, `MaxRows`, `MaxUses`,
`MaxEvents`, `MaxSample`, `Scenes`, `Plans`) stay arbitrary. Three hypotheses that some
theorems have of their own (`MaxActive = 1`, `OneConnection`, `Sequential`) are in the
table.

| Module | Theorem | States |
|---|---|---|
| `TaskLifecycle_proofs` | `TypeCorrect` | `Spec => []TypeOK` |
| | `ValidatedOnly` | `Spec => []OnlyValidated` |
| | `ApprovalGate` | `Spec => []DispatchNeedsApproval` |
| `TaskDispatch_proofs` | `AuditedDispatch` | `Spec => []DispatchIsAudited` |
| | `RejectionHolds` | `Spec => []NoDispatchAfterRejection` |
| | `DoneRecorded` | `Spec => []DoneIsRecorded` |
| `TaskRows_proofs` | `OneContent` | `Spec => []OneContentPerTask` |
| | `RowsEvolve` | `Spec => [][Evolves(tasks, tasks')]_vars` |
| | `SerialRefinement` | `Spec => ImplementsStateMachine`, if `MaxActive = 1` |
| | `EventsComplete` | `Spec => []EventsTellStatus`, if `MaxActive = 1` |
| | `TerminalHolds` | `Spec => TerminalStable`, if `MaxActive = 1` |
| `OpAMPServer_proofs` | `TypeCorrect` | `Spec => []TypeOK` |
| | `DeadNotBound` | `Spec => []NoDeadBinding` |
| | `ConfirmationHolds` | `Spec => []ConfirmedWasRun` |
| | `NeverTwice` | `Spec => []DeliveredAtMostOnce` |
| | `PromiseKept` | `Spec => Promise!Safety`, if `Sequential` |
| | `MetadataSurvives` | `Spec => MetadataKept`, if `OneConnection` |
| `ModelClient_proofs` | `TypeCorrect` | `Spec => []TypeOK` |
| | `BreakerOpensOnStreak` | `Spec => []OpenAfterStreak` |
| | `ServesCurrent` | `Spec => []ServedIsCurrent` |
| `Conversation_proofs` | `TypeCorrect` | `Spec => []TypeOK` |
| | `OutcomeTold` | `Spec => []RunTellsOutcome` |
| | `PromptBuilt` | `Spec => []PromptHasQuestionOnce` |
| | `DisplayTrue` | `Spec => []DisplayIsTrue` |
| `WebRequests_proofs` | `TypeCorrect` | `Spec => []TypeOK` |
| | `OnlyUser` | `Spec => []OnlyUserActs` |
| | `LoginKept` | `Spec => []LoginHolds` |
| | `SilentlyOpenNever` | `Spec => []NeverSilentlyOpen` |
| | `Traceable` | `Spec => []TraceableContent` |
| | `StatusRecent` | `Spec => []StatusIsRecent` |
| `Calculations_proofs` | `TimeFollowed` | `ListSpec => []ListsFollowTime` |
| | `NothingMissed` | `ListSpec => []PagesMissNothing` |
| | `FiguresMeasured` | `LogSpec => []FiguresAreMeasured` |

The invariants behind them are theorems or lemmas ending in `Invariance`. The
subsections say what each adds to its property, and why the property needs it.

### 4.1 Task handlers

Assumption `LifecycleAssumption`: `MayDo`, `Members` and the initial versions have
their types, valid documents are documents, `NoYaml` is none.

**What is pushed is valid and approved** (`Inv`). Whether it is depends on what the
request did many statements earlier, so `Inv` says of each request what holds at its
program counter (`PointOK`): a request about to push holds a valid document; one that
dispatches a task has written that task's approval, as recorded in `granted`; the
copy it holds is a `GoodRow` that belongs to the task it read. These facts depend on the
shared tables monotonically (`ReqMonotone`): versions and grants only grow, and every
row ever written is good, so a step of one request cannot disturb the facts of
another. That leaves, for each action, the request that moves. `LocalStep` states this
once; the lemmas `...Moves` treat the continuations, `...Step` the actions.

**Audit, rejection, recorded versions** (`DispatchInv`, on top of `Inv`). Whole-row
writes of stale copies may undo a status, but not everything: `Evolves` names what a
row keeps through all of them, its type, target and version, and, when the task was
created with its content (`CreatedWhole`), that content and the fact that it is past
`awaiting_approval`. `RowsEvolve` states it of every step. From this `Decided` follows: an approval that arrives late finds
a status from which `CanTransition` refuses it, however the row has been overwritten
since. For a generated task this is false (a late `SaveContent` takes the decision
back), which is why `NoDispatchAfterRejection` speaks of whole ones. `Recording`
counts the collectors of the row that have their version row, point by point through
the dispatch loop.

**One content** (`ContentInv`, on top of both). `Held(t, y)` says that `y` sits in
any place from which it could reach a push of `t`: the row, a copy of the row, a
request working on it, a push made. All such documents are equal. Only two steps bring
one in, the creation and the model's answer; both happen while no place holds one,
because an id is created once and one request generates for it (`Unwritten`).

**One request at a time** (`SerialInv`, hypothesis `MaxActive = 1`). This is the
circumstance in which `task.go` promises its transition table, and the one
`LifecycleSerial` runs; `LifecycleTerminalRace` shows a race that breaks it. The copy's
status is the row's from read to write (`Current`); each transition owes one event
(`Owes`), and between them events chain (`Chained`, `Told`). `MachineStep` is the step
simulation of `TaskStateMachine`: `CreateTask` maps to its `Create`, `PutTask` to its
`Transition`, and every other action, the row writes `SaveContent` and `ErrorPut`
included, to a stutter. `TerminalHolds` follows: the claim that the race run refutes is
true of requests that do not overlap.

### 4.2 OpAMP server

Assumption `OpAMPAssumption`: connections and dispatches have an agent, a configuration
covers itself, `None` is none of the values, scenes have their types.

* `TypeInv` gives the types step by step: what the handler has read when it is about
  to upsert, that a connection bound to an agent is the agent's, what a dispatch holds
  (`JobRule`: its own record, or an alias of the registry's, which then exists).
* `BoundInv` extends `NoDeadBinding` by: a connection whose message is being handled is
  not down. Binding is the middle of a handler, and the connection layer runs the
  close callback after the handler.
* `RanInv`. `ConfirmedWasRun` compares what the server was told; so everything on its
  way to it is true of the agent, the agent's own state, the message in a handler,
  the stored hash and effective configuration (`Claim`). `ran` only grows, and a
  handler cannot hold an acknowledgement the agent never gave.
* `OnceInv`. A dispatch is in one place: with its goroutine, in the queue, in the
  response of one handler, at one position of one wire, or delivered. Queueing,
  `takePending`, sending, losing and receiving move it; none copies it. The queue is
  emptied in one step with filling the response, and that is what the proof rests on.
* The promise of `Delivery`, for `Sequential` dispatches (one begins when no other is
  under way; what they left in queues, responses and wires is). `TurnInv`: the
  dispatch under way is the last one issued. `OpenInv`: an agent has one open
  connection, only a fault breaks one, and one that polls only when its agent is shut
  down; a poll has an answer on its wire only until its handler closes. `SendInv` and
  `RouteInv`: what is sent, prepared or on a wire is on a connection of its collector.
  With these, `OrderInv` holds of a collector that polls: while a dispatch waits in the
  queue, a later one has at most begun; while one is on its way, a later one is neither
  on its way nor delivered. `StepKinds` sorts the steps by what they do to dispatches
  under way (nothing, loss to a fault, beginning, queueing, sending, giving up, taking
  from the queue, reading), and `PromiseStep` maps each kind to a step of `Delivery` or
  to a stutter.
* `MetaInv`, for `OneConnection` (one connection for each agent) and until the first
  dispatch: the registry's record agrees with the row, and each copy that will be
  written back knows what the row knows; of an agent whose row could not be read
  (`failed`) nothing is said. A refused write leaves a row that knows no more than
  memory. With two connections, or a dispatch, two holders of copies race, and
  `MetadataKept` is false (section 3.4).

### 4.3 Model client

Assumption `ModelClientAssumption`. `BreakerInv`: `OpenAfterStreak` speaks of an open
breaker; the invariant needs the closed one too: `failures` is below the threshold
and no larger than the streak since the last success. `CallInv`: a call between the
model's answer and the judgement holds the answer to its own request; a cache entry is
complete and answers some request with the messages it is filed under. That it is an
answer with the same tools too takes `KeyDetermines`: equal messages are equal requests,
because the system prompt differs. Age is compared at the lookup, in the step
that hands the entry on, so that an entry may expire while a call holds it.

### 4.4 Conversation

Assumption `ConversationAssumption`: the history is a sequence of messages without a
turn, limits are positive.

* `OutcomeInv`: up to the step that stores the reply, the table has no reply of this
  turn; from then on it has one only if the turn's answer is a reply, and if it is one
  and no statement has failed. `RunRule` is what the run's record may say of an answer
  that was returned; before the end the record is `running`, or was never made.
* `PromptInv`: the history read is a `Stretch` of the session: sorted ids of its messages, and
  none of its ids between two of them missing (`Unbroken`). The question is appended
  after the read, so it is above them; what others append later is above them too
  and tears no hole.
* `PageInv` orders what the page holds of its session: older pages, below the page
  under way, below the cached window, the window in flight and *the window the server
  would return now* (`Latest`), which makes refetches in any order harmless. It
  holds until `swapped`, a change of session under older messages or their request, by a
  link, a choice or a late answer (section 3.4).
  `HasOlderIsTrue` then is a counting argument: the displayed ids are among the session's,
  and equal in number to its total exactly when none is missing
  (`FiniteSetTheorems`).

`Ascending`, the ids of a set in order, picks for each place the id that so many others
precede; a sorting operator of the community modules would be recursive and out of the
prover's reach.

### 4.5 Requests, page and git

Assumptions: `AuthAssumption` ("no user" is neither a token nor a name, a token is none
of the words that tell a browser to keep or clear its cookie), `GitAssumption` (files,
branches and refs have their types, a commit is not a branch, the cache's lifetime is
positive), `WebAssumption` (calls and requests are the same).

* `Inv` has two halves. `AuthInv`: a live session's token was given and has not
  ended; a request that was sent late carries a dead token, and dead tokens stay dead
  (`Grows`), so whenever the middleware gets to it, it is not let in (`Admitted`).
  `GitInv`: between show and rev-parse a call holds the document of the commit its
  ref stands for *now*, or is in `moved`, and then its ref is no commit; once rev-parse
  is through it holds that commit (`CallOK`). `RepoChanges` is the step that needs this:
  it puts exactly the running calls whose ref it moves into `moved`. The halves meet in
  `Enter`, where what `Admitted` says of the request fixes the actor of the call
  (`ActorOK`), and in the restart; every other step leaves one half alone (`AuthFrame`,
  `GitFrame`).
* `LoginInv` adds the page. Every token drawn is in the session map, has expired, was
  asked to be logged out, or a restart has been (`Held`). While the page is loading it
  waits for one request (`Alone`), sent with the cookie it has now or with a dead one
  (`Waiting`), so the answer it reads is about the login it then shows; answers to
  requests it has forgotten change nothing (`Honest` says what they may carry).
* `AgeInv` adds time. `stale` is how long ago HEAD stood for a commit; a call carries a
  commit at most as stale as its commands took, a cached one at most that plus its age.

### 4.6 Lists and statistics

Assumptions: `ListAssumption` (a second has milliseconds, page sizes are positive and
the default is no larger than the largest, a task's id is minted no later than its row
is stamped, the sizes a reader asks for are integers) and `LogAssumption` (durations are
natural numbers).

* *Places.* A list is ordered strictly and totally by each of the orders
  (`OrdersCompare`, which needs that ids differ, and of sessions also their moments); so
  the numbers of rows ahead are 0 to n - 1, each once (`RankGrows`, `RanksTaken`), and
  the row that `Sorted` chooses for a place exists and is the only one (`PlaceIsRank`,
  `SortedPlaces`). `TimeFollowed` is this for one statement: cutting a moment to its
  second keeps the order (`SecondGrows`), and two sessions with one text of `created_at`
  were created at one moment (`TextTells`), though a whole second has no fraction in it.
* *Pages.* `PagesMissNothing` speaks of the end; `SeenInv` says between any two pages
  that each row that was there at first, is asked for and has not changed has been seen
  or is at a place not before the next page. A row added to the table is ahead of it or
  behind it, a session that is used moves from wherever it is to the front; both leave its
  place or push it back, never forward (`PlaceKept`, `PlaceKeptByUse`). A page that is
  not full has no places after it. A list that could lose a row, or an order that let one
  jump ahead, would break exactly this.
* *Events.* Losing any part of a history invents nothing because no status is entered
  or left twice: `LogInv` says that every event takes its task higher (`Height`), from
  where the one before it led or beyond. So the first event that enters a status is the
  only one, and what is left of the history has the same one or none (`OnceEach`,
  `TimesKept`, `LeftMeasures`). With a retry of failed tasks this would fail.
* *Percentiles.* At least p in a hundred durations are no larger than the one at the
  nearest rank, and of no shorter duration this is true (`RankIsNearest`,
  `PercentileIsNearest`); equal durations are told apart by their place in the sample.

### 4.7 Only model-checked

* Liveness (`ApplyingResolves`, `FullStateArrives`, `SilentGoesOffline`, `CallsReturn`,
  `PageSettles`): beyond the prover.
* `ImplementsDelivery` beyond `PromiseKept`: the fairness of `Delivery`, that no
  dispatch stays under way for ever, is liveness. For dispatches that overlap the safety
  half is false too: of two to an agent that polls, the one issued first may reach the
  queue last and replace the other. `NeverTwice` is true of them.
* What a recursive definition computes for every input: `DiffApplies`, `DiffIsConcise`,
  `ConfirmsRightly` and `PageShowsDiff` are checked over the bounded inputs of
  section 3.1.
* The violated claims (`LifecycleTerminalRace` and the others) are refuted by TLC.

## 5. Not modelled

* Wording, layout, logging, audit details, parsing and printing; `Validate` is
  the set `ValidYaml` (`ValidDoc` in `GitSource`). The diff's printed lines *are*
  modelled, because the page reads them.
* The choice among main, backup and local model, and streaming: the external
  agent library.
* Opening the repository at start-up, the whitelist of refs character by character
  (`Refused` stands for what it refuses), more than one collector's path.
* Authentication: the password's hash and the token's randomness; the token check of
  `/mcp`, a comparison with a configured value; more than one page at a time (two
  tabs are described in 3.4).
* The restart command's execution: an agent that accepts it may run the
  configuration it holds.
* Read-only tools, groups, the overview counters (single `GROUP BY` queries), schema
  creation, the MCP adapter (it calls the handlers `TaskLifecycle` models), start-up
  (reads the environment once), demo data, static files, the other pages, scripts:
  they keep no state of their own or none that anything else depends on.
* A memo table as an abstract specification of the model client's cache: entries
  expire, and what a call without a fresh entry does depends on the breaker, so the
  abstraction would repeat the module; `ServedIsCurrent` says what matters of it.

## 6. Plan

Done: the modules of section 2, the runs of section 3, the proofs of section 4. What
could be added:

1. That nothing recorded in `audits`, `versions` or `events` is ever taken back, as an
   action property next to `RowsEvolve`; it only says that the store appends.
2. Lemmas about the diff and the subset test that need no induction: what the page keeps
   of one printed line, and the comparison of scalars.
3. An abstract specification of a list with pages, of which `PagesMissNothing` would be a
   consequence for any order in which rows only move back.

## 7. Running

    tlc -config LifecycleRace.cfg MCTaskLifecycle      # likewise the others
    tlapm TaskLifecycle_proofs.tla                     # likewise the other *_proofs

The runs take from seconds to about two and a half minutes each with two workers,
the proofs up to ten minutes a module.
