----------------------------- MODULE OpAMPServer -----------------------------
(***************************************************************************)
(* The OpAMP side of Cadenza: the in-memory registry                       *)
(* (internal/opampserver/registry.go), the message and connection handlers *)
(* and PushConfig (server.go), and the two callers in internal/agent that  *)
(* hand it a configuration and record it: pushAndConfirm (confirm.go) and  *)
(* recordConfigVersion (tools.go).                                         *)
(*                                                                         *)
(* Each connection has one goroutine that reads a message, runs onMessage, *)
(* sends the response and, when the connection breaks (or, for HTTP, after *)
(* every request), runs onConnectionClose.  Every registry method holds    *)
(* the registry lock and nothing holds it between two calls, so each call  *)
(* is an action of its own; only the three setters that record one report  *)
(* (RecordReport) are taken together.  The agents and the network are      *)
(* external.                                                               *)
(***************************************************************************)
EXTENDS Naturals, Sequences, FiniteSets

CONSTANTS
    Agent,              \* instance uids
    Conn,               \* connections, over all of a run
    AgentOf,            \* AgentOf[k]: the agent that opens connection k
    Push,               \* the dispatches, in any order
    PushTo, PushYaml,   \* their collector and content
    Sequential,         \* dispatches do not overlap in time
    InitialConfig,      \* what an agent runs before any dispatch
    Covers,             \* Covers[y]: effective configs that configSubset accepts for y
    Restartable,        \* agents declaring AcceptsRestartCommand
    MayReject,          \* agents may fail to apply a configuration
    Scenes,             \* the circumstances explored
    MaxWire,            \* capacity of a connection towards the agent
    None

Config == {PushYaml[p] : p \in Push} \cup {InitialConfig}
CollectorStatus == {"unknown", "healthy", "unhealthy", "offline"}

\* http: the connections that are HTTP polls; push: the dispatches that take
\* place; health: the values agents report; faults and max: what may go wrong,
\* and how often.
Scene(http, push, health, faults, max) ==
    [http |-> http, push |-> push, health |-> health, faults |-> faults, max |-> max]

ASSUME OpAMPAssumption ==
    /\ AgentOf \in [Conn -> Agent]
    /\ PushTo \in [Push -> Agent]
    /\ Restartable \subseteq Agent
    /\ \A y \in Config : y \in Covers[y] /\ Covers[y] \subseteq Config
    /\ MaxWire \in Nat
    /\ None \notin Config \cup Conn \cup Push
    /\ {Sequential, MayReject} \subseteq BOOLEAN
    /\ Scenes \subseteq [http : SUBSET Conn, push : SUBSET Push,
                         health : SUBSET {"healthy", "unhealthy"},
                         faults : SUBSET {"drop", "restart", "silence", "stop", "store"},
                         max : Nat]

VARIABLES
    reg,        \* registry: the collector record, or NoObj
    db,         \* the rows of table collectors, or NoObj
    conns,      \* registry: the bound connection
    caps,       \* registry: the agents known to accept a restart command
    repHash,    \* registry: content of the last APPLIED acknowledgement
    repEff,     \* registry: the effective config last reported
    pending,    \* queue of one undelivered push per collector
    hand,       \* the handler goroutine of each connection
    link,       \* "up", "cut" (broken, not yet noticed) or "down"
    wire,       \* messages on their way to the agent
    agent,      \* what the agent runs and which report it owes
    job,        \* the dispatch goroutines
    ran,        \* history: the configs each agent has run
    delivered,  \* history: how often each push reached its agent
    issued,     \* history: the pushes in the order they were issued
    faults,     \* how many there have been
    failed,     \* history: the reads of a row and the offline marks the store refused
    scene

memory == <<reg, conns, caps, repHash, repEff, pending>>
history == <<ran, delivered, issued>>
state == <<memory, db, hand, link, wire, agent, job, history, faults, failed>>
vars == <<state, scene>>

Http == scene.http

\* fresh: LastSeenAt is younger than offlineAfter.  meta: hostname and version
\* are known.
Obj(status, meta, eff, fresh) ==
    [status |-> status, meta |-> meta, eff |-> eff, fresh |-> fresh]
NoObj == Obj("none", FALSE, None, FALSE)

\* ack is the RemoteConfigStatus, of the configuration whose hash it carries.
Ack(status, of) == [status |-> status, of |-> of]
NoAck == Ack("none", None)
Msg(desc, health, ack, eff) == [desc |-> desc, health |-> health, ack |-> ack, eff |-> eff]
NoMsg == Msg(FALSE, "none", NoAck, None)
NoResponse == [config |-> None, full |-> FALSE]

IdleHandler == [pc |-> "idle", msg |-> NoMsg, obj |-> NoObj, resp |-> NoResponse]
IdleJob == [pc |-> "idle", online |-> FALSE, conn |-> None, held |-> "none",
            obj |-> NoObj, second |-> FALSE, confirmed |-> FALSE]

Init ==
    /\ reg = [u \in Agent |-> NoObj]
    /\ db = [u \in Agent |-> NoObj]
    /\ conns = [u \in Agent |-> None]
    /\ caps = {}
    /\ repHash = [u \in Agent |-> None]
    /\ repEff = [u \in Agent |-> None]
    /\ pending = [u \in Agent |-> None]
    /\ hand = [k \in Conn |-> IdleHandler]
    /\ link = [k \in Conn |-> "down"]
    /\ wire = [k \in Conn |-> <<>>]
    /\ agent = [u \in Agent |-> [running |-> InitialConfig, owes |-> "full", ack |-> NoAck]]
    /\ job = [p \in Push |-> IdleJob]
    /\ ran = [u \in Agent |-> {InitialConfig}]
    /\ delivered = [p \in Push |-> 0]
    /\ issued = <<>>
    /\ faults = 0
    /\ failed = {}
    /\ scene \in Scenes

Fault(kind) == kind \in scene.faults /\ faults < scene.max /\ faults' = faults + 1

-----------------------------------------------------------------------------
(* The registry holds pointers.  A dispatch that called Get keeps the       *)
(* pointer: it aliases the registry's record until an Upsert replaces that  *)
(* record, and from then on holds the old one.                              *)

Detach(u, jobs) ==
    [p \in Push |-> IF PushTo[p] = u /\ jobs[p].held = "alias"
                    THEN [jobs[p] EXCEPT !.held = "own", !.obj = reg[u]]
                    ELSE jobs[p]]

\* Registry.Upsert of a new record: replace it, persist it.  The error of the store
\* is ignored.
Upsert(u, obj) ==
    /\ reg' = [reg EXCEPT ![u] = obj]
    /\ \/ db' = [db EXCEPT ![u] = obj] /\ UNCHANGED faults
       \/ Fault("store") /\ UNCHANGED db

\* Mutant of FromMessage: the status is taken from the message even when the
\* message has no health.
FromMessageForgetful(prev, m) ==
    LET base == IF prev = NoObj THEN Obj("unknown", FALSE, None, TRUE) ELSE prev IN
    Obj(m.health, base.meta \/ m.desc, IF m.eff # None THEN m.eff ELSE base.eff, TRUE)

\* collectorFromMessage: what the message leaves out is carried over, except
\* that an offline collector that speaks again has unknown health.
FromMessage(prev, m) ==
    LET base == IF prev = NoObj THEN Obj("unknown", FALSE, None, TRUE) ELSE prev IN
    Obj(CASE m.health # "none" -> m.health
          [] m.health = "none" /\ base.status = "offline" -> "unknown"
          [] OTHER -> base.status,
        base.meta \/ m.desc,
        IF m.eff # None THEN m.eff ELSE base.eff,
        TRUE)

-----------------------------------------------------------------------------
(* onMessage.                                                               *)

Stopped(u) == agent[u].owes = "stopped"

\* A first message carries the full state, later ones only what changed.
Reports(u) ==
    LET a == agent[u] IN
    CASE a.owes = "full" -> {Msg(TRUE, h, a.ack, a.running) : h \in scene.health}
      [] a.owes = "ack"  -> {Msg(FALSE, "none", a.ack, a.running)}
      [] OTHER           -> {NoMsg}

Read(k, pc, obj) ==
    LET u == AgentOf[k] IN
    /\ link[k] = "up" /\ hand[k].pc = "idle" /\ ~Stopped(u)
    /\ \E m \in Reports(u) :
          hand' = [hand EXCEPT ![k] = [IdleHandler EXCEPT !.pc = pc, !.msg = m, !.obj = obj]]
    /\ agent' = [agent EXCEPT ![u].owes = "nothing", ![u].ack = NoAck]
    /\ UNCHANGED <<memory, db, link, wire, job, history>>

\* Mutant of OnMessage: no backfill from the store after a restart.
OnMessageNoBackfill(k) == Read(k, "parse", NoObj) /\ UNCHANGED <<faults, failed>>

\* A message is read; for a collector the registry does not know, so is its row.  A
\* row that cannot be read counts as one that is not there.
OnMessage(k) ==
    LET u == AgentOf[k]
        stored == reg[u] = NoObj /\ db[u] # NoObj
    IN
    \/ ~stored /\ Read(k, "parse", NoObj) /\ UNCHANGED <<faults, failed>>
    \/ stored /\ Read(k, "fill", db[u]) /\ UNCHANGED <<faults, failed>>
    \/ /\ stored /\ Read(k, "parse", NoObj)
       /\ Fault("store") /\ failed' = failed \cup {<<"read", u>>}

\* The row becomes the registry's record, without a connection.
Backfill(k) ==
    LET u == AgentOf[k] IN
    /\ hand[k].pc = "fill"
    /\ Upsert(u, hand[k].obj)
    /\ job' = Detach(u, job)
    /\ hand' = [hand EXCEPT ![k].pc = "parse"]
    /\ UNCHANGED <<conns, caps, repHash, repEff, pending, link, wire, agent, history, failed>>

\* The new record is computed on a copy of the current one.
ParseMessage(k) ==
    /\ hand[k].pc = "parse"
    /\ hand' = [hand EXCEPT ![k].pc = "upsert",
                            ![k].obj = FromMessage(reg[AgentOf[k]], hand[k].msg)]
    /\ UNCHANGED <<memory, db, link, wire, agent, job, history, faults, failed>>

BindConnection(k) ==
    LET u == AgentOf[k] IN
    /\ hand[k].pc = "upsert"
    /\ Upsert(u, hand[k].obj)
    /\ conns' = [conns EXCEPT ![u] = k]
    /\ job' = Detach(u, job)
    /\ hand' = [hand EXCEPT ![k].pc = "record"]
    /\ UNCHANGED <<caps, repHash, repEff, pending, link, wire, agent, history, failed>>

\* Mutant of RecordReport: a FAILED acknowledgement counts like an APPLIED one.
RecordReportAnyAck(k) ==
    LET u == AgentOf[k]
        m == hand[k].msg
    IN
    /\ hand[k].pc = "record"
    /\ caps' = IF u \in Restartable THEN caps \cup {u} ELSE caps \ {u}
    /\ repHash' = [repHash EXCEPT ![u] = IF m.ack = NoAck THEN @ ELSE m.ack.of]
    /\ repEff' = [repEff EXCEPT ![u] = IF m.eff # None THEN m.eff ELSE @]
    /\ hand' = [hand EXCEPT ![k].pc = "take", ![k].msg = NoMsg]
    /\ UNCHANGED <<reg, conns, pending, db, link, wire, agent, job, history, faults, failed>>

\* SetCapabilities, SetReportedHash (APPLIED sets, FAILED clears) and
\* SetReportedEffective.
RecordReport(k) ==
    LET u == AgentOf[k]
        m == hand[k].msg
    IN
    /\ hand[k].pc = "record"
    /\ caps' = IF u \in Restartable THEN caps \cup {u} ELSE caps \ {u}
    /\ repHash' = [repHash EXCEPT ![u] =
                      CASE m.ack.status = "failed" -> None
                        [] m.ack.status = "applied" -> m.ack.of
                        [] OTHER -> @]
    /\ repEff' = [repEff EXCEPT ![u] = IF m.eff # None THEN m.eff ELSE @]
    /\ hand' = [hand EXCEPT ![k].pc = "take", ![k].msg = NoMsg]
    /\ UNCHANGED <<reg, conns, pending, db, link, wire, agent, job, history, faults, failed>>

\* Mutants of TakePending: the entry is not deleted; an unknown effective config,
\* or an unknown hostname, is not a reason to ask for the full state.
TakePendingKeep(k) ==
    LET u == AgentOf[k] IN
    /\ hand[k].pc = "take"
    /\ hand' = [hand EXCEPT ![k].pc = "reply", ![k].resp =
                   [config |-> pending[u], full |-> repEff[u] = None \/ ~hand[k].obj.meta]]
    /\ UNCHANGED <<memory, db, link, wire, agent, job, history, faults, failed>>

TakePendingNoFlag(k) ==
    LET u == AgentOf[k] IN
    /\ hand[k].pc = "take"
    /\ hand' = [hand EXCEPT ![k].pc = "reply", ![k].resp =
                   [config |-> pending[u], full |-> ~hand[k].obj.meta]]
    /\ pending' = [pending EXCEPT ![u] = None]
    /\ UNCHANGED <<reg, conns, caps, repHash, repEff, db, link, wire, agent, job,
                   history, faults, failed>>

TakePendingNoMeta(k) ==
    LET u == AgentOf[k] IN
    /\ hand[k].pc = "take"
    /\ hand' = [hand EXCEPT ![k].pc = "reply", ![k].resp =
                   [config |-> pending[u], full |-> repEff[u] = None]]
    /\ pending' = [pending EXCEPT ![u] = None]
    /\ UNCHANGED <<reg, conns, caps, repHash, repEff, db, link, wire, agent, job,
                   history, faults, failed>>

\* The response: ReportFullState while anything is missing, and the pending
\* configuration, which leaves the queue before the response is sent.
TakePending(k) ==
    LET u == AgentOf[k] IN
    /\ hand[k].pc = "take"
    /\ hand' = [hand EXCEPT ![k].pc = "reply", ![k].resp =
                   [config |-> pending[u], full |-> repEff[u] = None \/ ~hand[k].obj.meta]]
    /\ pending' = [pending EXCEPT ![u] = None]
    /\ UNCHANGED <<reg, conns, caps, repHash, repEff, db, link, wire, agent, job,
                   history, faults, failed>>

\* A response that cannot be sent is only logged (onMessageResponseError).
SendResponse(k) ==
    LET resp == hand[k].resp IN
    /\ hand[k].pc = "reply"
    /\ \/ /\ link[k] = "up" /\ Len(wire[k]) < MaxWire
          /\ wire' = [wire EXCEPT ![k] = IF resp = NoResponse THEN @ ELSE Append(@, resp)]
       \/ link[k] # "up" /\ UNCHANGED wire
    /\ hand' = [hand EXCEPT ![k] = [IdleHandler EXCEPT
                   !.pc = IF k \in Http \/ link[k] # "up" THEN "close" ELSE "idle"]]
    /\ UNCHANGED <<memory, db, link, agent, job, history, faults, failed>>

-----------------------------------------------------------------------------
(* onConnectionClose: look the connection up, then remove by instance uid.  *)

NoticeClose(k) ==
    /\ link[k] = "cut" /\ hand[k].pc = "idle"
    /\ hand' = [hand EXCEPT ![k].pc = "close"]
    /\ UNCHANGED <<memory, db, link, wire, agent, job, history, faults, failed>>

Gone(k) ==
    /\ hand' = [hand EXCEPT ![k] = IdleHandler]
    /\ link' = [link EXCEPT ![k] = "down"]

UidForConn(k) ==
    /\ hand[k].pc = "close"
    /\ wire[k] = <<>>
    /\ IF conns[AgentOf[k]] = k
       THEN hand' = [hand EXCEPT ![k].pc = "remove"] /\ UNCHANGED link
       ELSE Gone(k)
    /\ UNCHANGED <<memory, db, wire, agent, job, history, faults, failed>>

\* Mutant of Remove: the connection stays bound when it broke in mid-message.
RemoveStateOnly(k) ==
    LET u == AgentOf[k] IN
    /\ hand[k].pc = "remove"
    /\ caps' = caps \ {u}
    /\ repHash' = [repHash EXCEPT ![u] = None]
    /\ repEff' = [repEff EXCEPT ![u] = None]
    /\ Gone(k)
    /\ UNCHANGED <<reg, conns, pending, db, wire, agent, job, history, faults, failed>>

Remove(k) ==
    LET u == AgentOf[k] IN
    /\ hand[k].pc = "remove"
    /\ conns' = [conns EXCEPT ![u] = None]
    /\ caps' = caps \ {u}
    /\ repHash' = [repHash EXCEPT ![u] = None]
    /\ repEff' = [repEff EXCEPT ![u] = None]
    /\ Gone(k)
    /\ UNCHANGED <<reg, pending, db, wire, agent, job, history, faults, failed>>

\* Mutant of MarkOffline: the store is not told.
MarkOfflineInMemory ==
    LET late == {u \in Agent : reg[u] # NoObj /\ ~reg[u].fresh /\ reg[u].status # "offline"} IN
    /\ late # {}
    /\ reg' = [u \in Agent |-> IF u \in late THEN [reg[u] EXCEPT !.status = "offline"] ELSE reg[u]]
    /\ UNCHANGED <<conns, caps, repHash, repEff, pending, db, hand, link, wire, agent, job,
                   history, faults, failed>>

\* The offline loop: every collector silent for longer than offlineAfter.  The row of
\* one whose write fails is not written again: in memory it is offline already.
MarkOffline ==
    LET late == {u \in Agent : reg[u] # NoObj /\ ~reg[u].fresh /\ reg[u].status # "offline"}
        mark(set, rows) == [u \in Agent |-> IF u \in set THEN [reg[u] EXCEPT !.status = "offline"]
                                                          ELSE rows[u]]
    IN
    /\ late # {}
    /\ reg' = mark(late, reg)
    /\ \E lost \in SUBSET late :
          /\ db' = mark(late \ lost, db)
          /\ failed' = failed \cup {<<"mark", u>> : u \in lost}
          /\ IF lost = {} THEN UNCHANGED faults ELSE Fault("store")
    /\ UNCHANGED <<conns, caps, repHash, repEff, pending, hand, link, wire, agent, job, history>>

-----------------------------------------------------------------------------
(* pushAndConfirm and recordConfigVersion.                                  *)

Dispatching == {p \in Push : job[p].pc \notin {"idle", "end", "gone"}}

\* Whether a confirmation can be expected is decided before the push.
ReadOnline(p) ==
    /\ job[p].pc = "idle" /\ p \in scene.push
    /\ Sequential => Dispatching = {}
    /\ job' = [job EXCEPT ![p].pc = "lookup", ![p].online = conns[PushTo[p]] # None]
    /\ issued' = Append(issued, p)
    /\ UNCHANGED <<memory, db, hand, link, wire, agent, ran, delivered, faults, failed>>

\* PushConfig: without a connection the configuration is queued.
LookupConn(p) ==
    LET u == PushTo[p] IN
    /\ job[p].pc = "lookup"
    /\ IF conns[u] = None
       THEN /\ pending' = [pending EXCEPT ![u] = p]
            /\ job' = [job EXCEPT ![p].pc = "confirm"]
       ELSE /\ job' = [job EXCEPT ![p].pc = "send", ![p].conn = conns[u]]
            /\ UNCHANGED pending
    /\ UNCHANGED <<reg, conns, caps, repHash, repEff, db, hand, link, wire, agent,
                   history, faults, failed>>

\* Mutant of SendConfig: a failed Send is reported but not queued.
SendConfigUnqueued(p) ==
    LET k == job[p].conn IN
    /\ job[p].pc = "send"
    /\ wire' = IF link[k] = "up" /\ k \notin Http /\ Len(wire[k]) < MaxWire
               THEN [wire EXCEPT ![k] = Append(@, [config |-> p, full |-> FALSE])]
               ELSE wire
    /\ job' = [job EXCEPT ![p].pc = "confirm"]
    /\ UNCHANGED <<memory, db, hand, link, agent, history, faults, failed>>

\* Send succeeds on an open WebSocket, fails on an HTTP connection, and on a
\* broken one may do either: the bytes stay in a buffer nobody reads.
SendConfig(p) ==
    LET k == job[p].conn IN
    /\ job[p].pc = "send"
    /\ \/ /\ k \notin Http /\ link[k] = "up" /\ Len(wire[k]) < MaxWire
          /\ wire' = [wire EXCEPT ![k] = Append(@, [config |-> p, full |-> FALSE])]
          /\ UNCHANGED pending
       \/ /\ k \in Http \/ link[k] # "up"
          /\ pending' = [pending EXCEPT ![PushTo[p]] = p]
          /\ UNCHANGED wire
       \/ /\ k \notin Http /\ link[k] = "cut"
          /\ UNCHANGED <<pending, wire>>
    /\ job' = [job EXCEPT ![p].pc = "confirm"]
    /\ UNCHANGED <<reg, conns, caps, repHash, repEff, db, hand, link, agent,
                   history, faults, failed>>

\* waitConfirm: an acknowledgement of this content, or a reported effective
\* config that covers it.  An offline collector is not waited for.
Confirm(p) ==
    LET u == PushTo[p] IN
    /\ job[p].pc = "confirm"
    /\ \/ ~job[p].online
       \/ repHash[u] = PushYaml[p]
       \/ repEff[u] \in Covers[PushYaml[p]]
    /\ job' = [job EXCEPT ![p].pc = "get", ![p].confirmed = TRUE]
    /\ UNCHANGED <<memory, db, hand, link, wire, agent, history, faults, failed>>

\* The first half of the wait is over: a restart command for agents that take
\* one (it changes nothing the agents here run) and a second half; otherwise
\* the push stays unconfirmed.
ConfirmTimeout(p) ==
    /\ job[p].pc = "confirm" /\ job[p].online
    /\ job' = [job EXCEPT ![p] =
                  IF PushTo[p] \in caps /\ ~job[p].second
                  THEN [@ EXCEPT !.second = TRUE]
                  ELSE [@ EXCEPT !.pc = "get"]]
    /\ UNCHANGED <<memory, db, hand, link, wire, agent, history, faults, failed>>

\* recordConfigVersion: store the version, which may fail and ends it, Get the
\* pointer, change it, Upsert it, then read and write the row once more.
GetPointer(p) ==
    /\ job[p].pc = "get"
    /\ \/ /\ job' = [job EXCEPT ![p] = IF reg[PushTo[p]] = NoObj
                                       THEN [@ EXCEPT !.pc = "dbget"]
                                       ELSE [@ EXCEPT !.pc = "mutate", !.held = "alias"]]
          /\ UNCHANGED faults
       \/ job' = [job EXCEPT ![p].pc = "end"] /\ Fault("store")
    /\ UNCHANGED <<memory, db, hand, link, wire, agent, history, failed>>

UpsertIntent(p) ==
    LET u == PushTo[p]
        obj == IF job[p].held = "alias" THEN reg[u] ELSE job[p].obj
        next == [job EXCEPT ![p] = [@ EXCEPT !.pc = "dbget", !.held = "none", !.obj = NoObj]]
    IN
    /\ job[p].pc = "mutate"
    /\ Upsert(u, [obj EXCEPT !.eff = PushYaml[p]])
    /\ job' = IF job[p].held = "alias" THEN next ELSE Detach(u, next)
    /\ UNCHANGED <<conns, caps, repHash, repEff, pending, hand, link, wire, agent,
                   history, failed>>

ReadRow(p) ==
    /\ job[p].pc = "dbget"
    /\ \/ /\ job' = [job EXCEPT ![p] = IF db[PushTo[p]] = NoObj
                                       THEN [@ EXCEPT !.pc = "end"]
                                       ELSE [@ EXCEPT !.pc = "dbput", !.obj = db[PushTo[p]]]]
          /\ UNCHANGED faults
       \/ job' = [job EXCEPT ![p].pc = "end"] /\ Fault("store")
    /\ UNCHANGED <<memory, db, hand, link, wire, agent, history, failed>>

WriteRow(p) ==
    /\ job[p].pc = "dbput"
    /\ \/ /\ db' = [db EXCEPT ![PushTo[p]] = [job[p].obj EXCEPT !.eff = PushYaml[p]]]
          /\ UNCHANGED faults
       \/ Fault("store") /\ UNCHANGED db
    /\ job' = [job EXCEPT ![p] = [@ EXCEPT !.pc = "end", !.obj = NoObj]]
    /\ UNCHANGED <<memory, hand, link, wire, agent, history, failed>>

-----------------------------------------------------------------------------
(* External: the agents, the network and the life of the server process.    *)

\* An agent has one open connection; a new one is opened after the old broke.
Connect(k) ==
    /\ link[k] = "down" /\ ~Stopped(AgentOf[k])
    /\ \A j \in Conn : AgentOf[j] = AgentOf[k] => link[j] # "up"
    /\ link' = [link EXCEPT ![k] = "up"]
    /\ UNCHANGED <<memory, db, hand, wire, agent, job, history, faults, failed>>

\* The agent applies or refuses a configuration and owes the acknowledgement;
\* asked for its full state it owes that.
Receive(k) ==
    LET u == AgentOf[k]
        m == Head(wire[k])
    IN
    /\ link[k] = "up" /\ wire[k] # <<>>
    /\ wire' = [wire EXCEPT ![k] = Tail(@)]
    /\ IF m.config = None
       THEN agent' = [agent EXCEPT ![u].owes = "full"] /\ UNCHANGED <<ran, delivered>>
       ELSE /\ delivered' = [delivered EXCEPT ![m.config] = @ + 1]
            /\ LET owed == IF m.full \/ agent[u].owes = "full" THEN "full" ELSE "ack" IN
               \/ /\ agent' = [agent EXCEPT ![u] = [running |-> PushYaml[m.config],
                                                    owes |-> owed,
                                                    ack |-> Ack("applied", PushYaml[m.config])]]
                  /\ ran' = [ran EXCEPT ![u] = @ \cup {PushYaml[m.config]}]
               \/ /\ MayReject
                  /\ agent' = [agent EXCEPT ![u].owes = owed,
                                            ![u].ack = Ack("failed", PushYaml[m.config])]
                  /\ UNCHANGED ran
    /\ UNCHANGED <<memory, db, hand, link, job, issued, faults, failed>>

Drop(k) ==
    /\ link[k] = "up" /\ k \notin Http
    /\ Fault("drop")
    /\ link' = [link EXCEPT ![k] = "cut"]
    /\ wire' = [wire EXCEPT ![k] = <<>>]
    /\ UNCHANGED <<memory, db, hand, agent, job, history, failed>>

\* The collector is shut down for good.
Stop(u) ==
    /\ ~Stopped(u)
    /\ Fault("stop")
    /\ agent' = [agent EXCEPT ![u].owes = "stopped"]
    /\ link' = [k \in Conn |-> IF AgentOf[k] = u /\ link[k] = "up" THEN "cut" ELSE link[k]]
    /\ wire' = [k \in Conn |-> IF AgentOf[k] = u THEN <<>> ELSE wire[k]]
    /\ UNCHANGED <<memory, db, hand, job, history, failed>>

\* offlineAfter passes without a message.
Silence(u) ==
    /\ reg[u].fresh
    /\ Fault("silence") \/ (Stopped(u) /\ UNCHANGED faults)
    /\ reg' = [reg EXCEPT ![u].fresh = FALSE]
    /\ UNCHANGED <<conns, caps, repHash, repEff, pending, db, hand, link, wire, agent, job,
                   history, failed>>

\* The server process restarts: only the store survives.
Restart ==
    /\ Fault("restart")
    /\ reg' = [u \in Agent |-> NoObj]
    /\ conns' = [u \in Agent |-> None]
    /\ caps' = {}
    /\ repHash' = [u \in Agent |-> None]
    /\ repEff' = [u \in Agent |-> None]
    /\ pending' = [u \in Agent |-> None]
    /\ hand' = [k \in Conn |-> IdleHandler]
    /\ link' = [k \in Conn |-> "down"]
    /\ wire' = [k \in Conn |-> <<>>]
    /\ job' = [p \in Push |-> IF p \in Dispatching THEN [IdleJob EXCEPT !.pc = "gone"] ELSE job[p]]
    /\ UNCHANGED <<db, agent, history, failed>>

Handle(k) == \/ Backfill(k) \/ ParseMessage(k) \/ BindConnection(k) \/ RecordReport(k) \/ TakePending(k)
             \/ SendResponse(k) \/ NoticeClose(k) \/ UidForConn(k) \/ Remove(k)
Dispatch(p) == \/ ReadOnline(p) \/ LookupConn(p) \/ SendConfig(p) \/ Confirm(p)
               \/ ConfirmTimeout(p) \/ GetPointer(p) \/ UpsertIntent(p)
               \/ ReadRow(p) \/ WriteRow(p)

Next ==
    /\ UNCHANGED scene
    /\ \/ \E k \in Conn : OnMessage(k) \/ Handle(k) \/ Connect(k) \/ Receive(k) \/ Drop(k)
       \/ \E p \in Push : Dispatch(p)
       \/ \E u \in Agent : Silence(u) \/ Stop(u)
       \/ MarkOffline
       \/ Restart

Spec == Init /\ [][Next]_vars

\* Goroutines run on, the offline loop among them, agents reconnect, poll and
\* read what is sent to them.
FairSpec ==
    /\ Spec
    /\ \A k \in Conn : /\ WF_state(OnMessage(k)) /\ WF_state(Handle(k))
                       /\ WF_state(Receive(k)) /\ SF_state(Connect(k))
    /\ \A p \in Push : WF_state(Dispatch(p))
    /\ WF_state(MarkOffline)
    /\ \A u \in Agent : WF_state(Stopped(u) /\ Silence(u))

-----------------------------------------------------------------------------
(* Properties.                                                              *)

ObjOK(o) == o = NoObj \/ /\ o.status \in CollectorStatus
                         /\ {o.meta, o.fresh} \subseteq BOOLEAN
                         /\ o.eff \in Config \cup {None}

\* Every variable has its type.
TypeOK ==
    /\ \A u \in Agent : /\ ObjOK(reg[u]) /\ ObjOK(db[u])
                        /\ conns[u] \in {k \in Conn : AgentOf[k] = u} \cup {None}
                        /\ {repHash[u], repEff[u]} \subseteq Config \cup {None}
                        /\ pending[u] \in {p \in Push : PushTo[p] = u} \cup {None}
    /\ caps \subseteq Restartable
    /\ \A k \in Conn : /\ hand[k].pc \in {"idle", "fill", "parse", "upsert", "record",
                                          "take", "reply", "close", "remove"}
                       /\ ObjOK(hand[k].obj)
                       /\ link[k] \in {"up", "cut", "down"}
                       /\ Len(wire[k]) <= MaxWire
    /\ \A p \in Push : ObjOK(job[p].obj)

\* A dispatched configuration reaches its collector at most once, although it
\* may be handed over by Send, by the response to any connection of the
\* collector, or by the queue after a failed Send.
DeliveredAtMostOnce == \A p \in Push : delivered[p] <= 1

\* pushAndConfirm's answer for an online collector is evidence: the collector
\* has really run a configuration that covers the pushed one, never only the
\* intent that recordConfigVersion wrote into the registry (F-9).
ConfirmedWasRun ==
    \A p \in Push : job[p].online /\ job[p].confirmed =>
        ran[PushTo[p]] \cap Covers[PushYaml[p]] # {}

\* The registry never keeps a connection whose close callback has finished, so
\* PushConfig cannot choose it (Remove's comment).
NoDeadBinding ==
    \A u \in Agent : conns[u] # None => link[conns[u]] # "down"

\* While nothing is dispatched and an agent's connections do not overlap,
\* hostname and version, once stored, survive heartbeats without description,
\* offline marking, writes the store refuses and server restarts (onMessage's
\* backfill comment), unless the row of that agent could not be read.
MetadataKept ==
    [][issued = <<>> => \A u \in Agent : db[u].meta => db'[u].meta \/ <<"read", u>> \in failed]_db

\* What a failed read, a dispatch that wrote an old record back or overlapping
\* connections took from the row returns: onMessage asks a collector without
\* hostname and version for its full state, and each message writes the row again.
MetadataReturns ==
    \A u \in Agent : (conns[u] # None /\ ~db[u].meta) ~> (db[u].meta \/ Stopped(u))

Superseded(p) ==
    \E i, j \in 1 .. Len(issued) :
        i < j /\ issued[i] = p /\ PushTo[issued[j]] = PushTo[p]

\* What a dispatcher is promised (module Delivery).  A push is in transit while it
\* is being sent, queued, in a response or on the wire.
InTransit(p) ==
    \/ pending[PushTo[p]] = p
    \/ job[p].pc \in {"lookup", "send"}
    \/ \E k \in Conn : hand[k].resp.config = p \/ \E i \in DOMAIN wire[k] : wire[k][i].config = p

Fate == [p \in Push |-> CASE delivered[p] > 0 -> "delivered"
                          [] delivered[p] = 0 /\ job[p].pc = "idle" -> "new"
                          [] delivered[p] = 0 /\ job[p].pc # "idle" /\ InTransit(p) -> "accepted"
                          [] OTHER -> "gone"]

\* The collectors that poll.
Polling == {u \in {PushTo[p] : p \in Push} : \A k \in Conn : AgentOf[k] = u => k \in Http}

Promise == INSTANCE Delivery WITH
    fate <- Fate, order <- issued, disturbed <- faults > 0, polling <- Polling

\* The server keeps that promise: every dispatch reaches the collector, at most once,
\* at once or with one of its next reports, unless a later dispatch to the same
\* collector replaces it or a fault occurs; one that polls gets them in the order of
\* issue.
ImplementsDelivery == Promise!Spec

\* A collector that is shut down, while nothing is dispatched, is recorded as offline,
\* also when its last message is still being handled, unless the server restarts first
\* (then the registry has forgotten it: registry.go's MarkOffline walks the records in
\* memory) or the store refused the mark, which is made once.  A dispatch may write
\* back the row it read before the mark (recordConfigVersion).
SilentGoesOffline ==
    \A u \in Agent : (Stopped(u) /\ reg[u] # NoObj) ~>
        \/ db[u].status = "offline" \/ reg[u] = NoObj
        \/ <<"mark", u>> \in failed \/ issued # <<>>

\* "When the collector is offline the configuration is queued and delivered with
\* its first report after it comes back" (design-v1.md): what is queued arrives.
QueuedIsDelivered ==
    \A p \in Push : (pending[PushTo[p]] = p) ~> (delivered[p] > 0 \/ Superseded(p))

\* A connected collector whose effective config is unknown, at first and for a
\* polling collector after every request, is asked for it until it is known,
\* unless it is shut down.
EffectiveArrives ==
    \A u \in Agent : (conns[u] # None /\ repEff[u] = None) ~> (repEff[u] # None \/ Stopped(u))

\* What the server does not know of a connected collector it asks for until it knows
\* it, its configuration and its description (onMessage's ReportFullState flag),
\* although reads and writes of the row may fail.
FullStateArrives == EffectiveArrives /\ MetadataReturns

=============================================================================
