-------------------------- MODULE OpAMPServer_proofs --------------------------
(***************************************************************************)
(* Proofs about OpAMPServer for every set of agents, connections and       *)
(* dispatches, whether these overlap or not, and for every scene.          *)
(***************************************************************************)
EXTENDS OpAMPServer, TLAPS

-----------------------------------------------------------------------------
(* The types of the variables, and what each step of a goroutine has set for *)
(* the next one: a row to upsert, a connection to send on, a record held.    *)

Objs == [status : CollectorStatus, meta : BOOLEAN, eff : Config \cup {None}, fresh : BOOLEAN]
Rows == Objs \cup {NoObj}

Acks == [status : {"none", "applied", "failed"}, of : Config \cup {None}]
Msgs == [desc : BOOLEAN, health : {"none", "healthy", "unhealthy"}, ack : Acks,
         eff : Config \cup {None}]
Responses == [config : Push \cup {None}, full : BOOLEAN]
Handlers == [pc : {"idle", "fill", "parse", "upsert", "record", "take", "reply",
                   "close", "remove"},
             msg : Msgs, obj : Rows, resp : Responses]
Jobs == [pc : {"idle", "lookup", "send", "confirm", "get", "mutate", "dbget", "dbput", "end",
               "gone"},
         online : BOOLEAN, conn : Conn \cup {None}, held : {"none", "alias", "own"},
         obj : Rows, second : BOOLEAN, confirmed : BOOLEAN]
Agents == [running : Config, owes : {"full", "ack", "nothing", "stopped"}, ack : Acks]

RowsOK ==
    /\ reg \in [Agent -> Rows]
    /\ db \in [Agent -> Rows]

BindingOK ==
    /\ conns \in [Agent -> Conn \cup {None}]
    /\ \A u \in Agent : conns[u] # None => AgentOf[conns[u]] = u

ReportOK ==
    /\ caps \subseteq Restartable
    /\ repHash \in [Agent -> Config \cup {None}]
    /\ repEff \in [Agent -> Config \cup {None}]

QueueOK ==
    /\ pending \in [Agent -> Push \cup {None}]
    /\ \A u \in Agent : pending[u] # None => PushTo[pending[u]] = u

HandOK ==
    /\ hand \in [Conn -> Handlers]
    /\ \A k \in Conn : hand[k].pc \in {"fill", "upsert"} => hand[k].obj \in Objs

LinkOK == link \in [Conn -> {"up", "cut", "down"}]

WireOK ==
    /\ wire \in [Conn -> Seq(Responses)]
    /\ \A k \in Conn : Len(wire[k]) <= MaxWire

AgentOK == agent \in [Agent -> Agents]

JobRule(j, row) ==
    /\ j.pc = "send" => j.conn \in Conn
    /\ j.held = "alias" => j.pc = "mutate" /\ row \in Objs
    /\ j.held = "own" => j.pc = "mutate" /\ j.obj \in Objs
    /\ j.pc = "mutate" => j.held # "none"
    /\ j.pc = "dbput" => j.obj \in Objs

JobOK ==
    /\ job \in [Push -> Jobs]
    /\ \A p \in Push : JobRule(job[p], reg[PushTo[p]])

CountOK ==
    /\ ran \in [Agent -> SUBSET Config]
    /\ delivered \in [Push -> Nat]
    /\ issued \in Seq(Push)
    /\ faults \in Nat
    /\ scene \in Scenes

TypeInv ==
    /\ RowsOK
    /\ BindingOK
    /\ ReportOK
    /\ QueueOK
    /\ HandOK
    /\ LinkOK
    /\ WireOK
    /\ AgentOK
    /\ JobOK
    /\ CountOK

-----------------------------------------------------------------------------
(* What the helpers return.                                                 *)

\* None is neither a configuration, a connection nor a dispatch.
LEMMA NoneApart ==
    /\ None \notin Config /\ None \notin Conn /\ None \notin Push
    /\ InitialConfig \in Config
    /\ \A p \in Push : PushYaml[p] \in Config
    /\ \A p \in Push : PushTo[p] \in Agent
    /\ \A k \in Conn : AgentOf[k] \in Agent
BY OpAMPAssumption DEF Config

\* The absent record is not a collector's record.
LEMMA NoObjApart ==
    /\ NoObj \notin Objs
    /\ NoObj \in Rows
    /\ \A o \in Rows : o # NoObj <=> o \in Objs
    /\ NoObj.status = "none" /\ NoObj.meta = FALSE /\ NoObj.fresh = FALSE /\ NoObj.eff = None
BY DEF NoObj, Obj, Objs, Rows, CollectorStatus

\* Changing one field of a record leaves a record.
LEMMA ObjUpdates ==
    ASSUME NEW o \in Objs
    PROVE  /\ \A y \in Config : [o EXCEPT !.eff = y] \in Objs
           /\ [o EXCEPT !.status = "offline"] \in Objs
           /\ [o EXCEPT !.fresh = FALSE] \in Objs
           /\ \A y \in Config : [o EXCEPT !.eff = y].meta = o.meta
           /\ [o EXCEPT !.status = "offline"].meta = o.meta
           /\ [o EXCEPT !.fresh = FALSE].meta = o.meta
BY DEF Objs, CollectorStatus

\* collectorFromMessage makes a complete record.
LEMMA FromMessageType ==
    ASSUME NEW prev \in Rows, NEW m \in Msgs
    PROVE  FromMessage(prev, m) \in Objs
<1> DEFINE base == IF prev = NoObj THEN Obj("unknown", FALSE, None, TRUE) ELSE prev
           status == CASE m.health # "none" -> m.health
                       [] m.health = "none" /\ base.status = "offline" -> "unknown"
                       [] OTHER -> base.status
           meta == base.meta \/ m.desc
           eff == IF m.eff # None THEN m.eff ELSE base.eff
<1>1. base \in Objs
  BY NoObjApart DEF Obj, Objs, CollectorStatus
<1> HIDE DEF base
<1>2. status \in CollectorStatus
  BY <1>1 DEF Objs, Msgs, CollectorStatus
<1>3. meta \in BOOLEAN
  BY <1>1 DEF Objs, Msgs
<1>4. eff \in Config \cup {None}
  BY <1>1 DEF Objs, Msgs
<1>5. FromMessage(prev, m) = Obj(status, meta, eff, TRUE)
  BY Zenon DEF FromMessage, base
<1> HIDE DEF status, meta, eff
<1> QED
  BY <1>2, <1>3, <1>4, <1>5 DEF Obj, Objs

\* The messages of an agent.
LEMMA ReportsType ==
    ASSUME TypeInv, NEW u \in Agent, NEW m \in Reports(u)
    PROVE  /\ m \in Msgs
           /\ m.eff # None => m.eff = agent[u].running
           /\ m.ack = agent[u].ack \/ m = NoMsg
<1>1. agent[u] \in Agents
  BY DEF TypeInv, AgentOK
<1>2. scene.health \subseteq {"healthy", "unhealthy"}
  BY OpAMPAssumption DEF TypeInv, CountOK
<1>3. NoMsg \in Msgs /\ NoMsg.eff = None
  BY DEF NoMsg, NoAck, Ack, Msg, Msgs, Acks
<1>4. CASE \E h \in scene.health : m = Msg(TRUE, h, agent[u].ack, agent[u].running)
  BY <1>1, <1>2, <1>4 DEF Msg, Msgs, Agents
<1>5. CASE m = Msg(FALSE, "none", agent[u].ack, agent[u].running)
  BY <1>1, <1>5 DEF Msg, Msgs, Agents
<1>6. CASE m = NoMsg
  BY <1>3, <1>6
<1>7. \/ \E h \in scene.health : m = Msg(TRUE, h, agent[u].ack, agent[u].running)
      \/ m = Msg(FALSE, "none", agent[u].ack, agent[u].running)
      \/ m = NoMsg
  <2>1. CASE agent[u].owes = "full"
    BY <2>1 DEF Reports
  <2>2. CASE agent[u].owes = "ack"
    BY <2>2 DEF Reports
  <2>3. CASE agent[u].owes # "full" /\ agent[u].owes # "ack"
    BY <2>3 DEF Reports
  <2> QED
    BY <2>1, <2>2, <2>3
<1> QED
  BY <1>4, <1>5, <1>6, <1>7

\* An Upsert gives the dispatches that alias the old record a copy of it, and
\* changes nothing else of them.
LEMMA DetachFacts ==
    ASSUME NEW u \in Agent, NEW jobs \in [Push -> Jobs], reg[u] \in Rows
    PROVE  /\ Detach(u, jobs) \in [Push -> Jobs]
           /\ \A p \in Push :
                 /\ Detach(u, jobs)[p].pc = jobs[p].pc
                 /\ Detach(u, jobs)[p].conn = jobs[p].conn
                 /\ Detach(u, jobs)[p].online = jobs[p].online
                 /\ Detach(u, jobs)[p].confirmed = jobs[p].confirmed
                 /\ IF PushTo[p] = u /\ jobs[p].held = "alias"
                    THEN /\ Detach(u, jobs)[p].held = "own"
                         /\ Detach(u, jobs)[p].obj = reg[u]
                    ELSE Detach(u, jobs)[p] = jobs[p]
<1> DEFINE e(p) == [jobs[p] EXCEPT !.held = "own", !.obj = reg[u]]
<1>1. \A p \in Push : /\ e(p) \in Jobs /\ e(p).pc = jobs[p].pc /\ e(p).conn = jobs[p].conn
                      /\ e(p).online = jobs[p].online /\ e(p).confirmed = jobs[p].confirmed
                      /\ e(p).held = "own" /\ e(p).obj = reg[u]
  BY DEF Jobs
<1>2. Detach(u, jobs) = [p \in Push |-> IF PushTo[p] = u /\ jobs[p].held = "alias"
                                        THEN e(p) ELSE jobs[p]]
  BY DEF Detach
<1> HIDE DEF e
<1> QED
  BY <1>1, <1>2

-----------------------------------------------------------------------------
(* The types are kept, handler by handler.                                  *)

\* Every variable has its type at the start.
LEMMA TypeInit == Init => TypeInv
<1> SUFFICES ASSUME Init
             PROVE  TypeInv
  OBVIOUS
<1> USE NoneApart, NoObjApart
<1>1. RowsOK
  BY DEF Init, RowsOK
<1>2. BindingOK /\ ReportOK /\ QueueOK /\ LinkOK
  BY DEF Init, BindingOK, ReportOK, QueueOK, LinkOK
<1>3. IdleHandler \in Handlers /\ IdleHandler.pc = "idle"
  BY DEF IdleHandler, NoMsg, NoAck, Ack, Msg, NoResponse, Handlers, Msgs, Acks, Responses
<1>4. HandOK
  BY <1>3 DEF Init, HandOK
<1>5. WireOK
  BY OpAMPAssumption DEF Init, WireOK
<1>6. AgentOK
  BY DEF Init, AgentOK, Agents, NoAck, Ack, Acks
<1>7. IdleJob \in Jobs /\ \A row : JobRule(IdleJob, row)
  BY DEF IdleJob, Jobs, JobRule
<1>8. JobOK
  BY <1>7 DEF Init, JobOK
<1>9. CountOK
  BY DEF Init, CountOK
<1> QED
  BY <1>1, <1>2, <1>4, <1>5, <1>6, <1>8, <1>9 DEF TypeInv

\* A handler is idle or has what its next step needs.
LEMMA HandStep ==
    ASSUME HandOK, NEW k \in Conn, NEW h \in Handlers, hand' = [hand EXCEPT ![k] = h],
           h.pc \in {"fill", "upsert"} => h.obj \in Objs
    PROVE  HandOK'
BY DEF HandOK

\* Faults are counted, those of the store included.
LEMMA FaultStep ==
    ASSUME TypeInv
    PROVE  /\ \A kind : Fault(kind) => faults' \in Nat
           /\ UNCHANGED faults => faults' \in Nat
BY DEF TypeInv, CountOK, Fault

\* The steps that use the store are counted at most one fault.
LEMMA FaultsGrow ==
    ASSUME TypeInv
    PROVE  /\ faults \in Nat
           /\ \A k \in Conn : OnMessage(k) \/ Backfill(k) \/ BindConnection(k) =>
                                faults' \in {faults, faults + 1}
           /\ MarkOffline => faults' \in {faults, faults + 1}
           /\ \A p \in Push : Dispatch(p) => faults' \in {faults, faults + 1}
           /\ \A p \in Push : ReadOnline(p) \/ LookupConn(p) \/ SendConfig(p) => UNCHANGED faults
<1>1. faults \in Nat
  BY DEF TypeInv, CountOK
<1>2. ASSUME NEW k \in Conn, OnMessage(k) \/ Backfill(k) \/ BindConnection(k)
      PROVE  faults' \in {faults, faults + 1}
  BY <1>2 DEF OnMessage, Backfill, BindConnection, Upsert, Fault
<1>3. ASSUME MarkOffline
      PROVE  faults' \in {faults, faults + 1}
  BY <1>3 DEF MarkOffline, Fault
<1>4. ASSUME NEW p \in Push, ReadOnline(p) \/ LookupConn(p) \/ SendConfig(p)
      PROVE  UNCHANGED faults
  BY <1>4 DEF ReadOnline, LookupConn, SendConfig
<1>5. ASSUME NEW p \in Push, Dispatch(p)
      PROVE  faults' \in {faults, faults + 1}
  BY <1>4, <1>5 DEF Dispatch, Confirm, ConfirmTimeout, GetPointer, UpsertIntent, Upsert, ReadRow,
     WriteRow, Fault
<1> QED
  BY <1>1, <1>2, <1>3, <1>4, <1>5

\* A changed record of a collector suits the dispatches, once they are detached.
LEMMA UpsertStep ==
    ASSUME TypeInv, NEW u \in Agent, NEW obj \in Objs, Upsert(u, obj),
           NEW jobs \in [Push -> Jobs], job' = Detach(u, jobs),
           \A p \in Push : JobRule(jobs[p], reg[PushTo[p]])
    PROVE  RowsOK' /\ JobOK' /\ faults' \in Nat
<1>0. faults' \in Nat
  BY FaultStep DEF Upsert
<1>1. reg \in [Agent -> Rows] /\ db \in [Agent -> Rows] /\ obj \in Rows
  BY NoObjApart DEF TypeInv, RowsOK, Rows
<1>2. RowsOK'
  BY <1>1 DEF Upsert, RowsOK
<1>3. job' \in [Push -> Jobs]
  BY <1>1, DetachFacts
<1>4. ASSUME NEW p \in Push
      PROVE  JobRule(job'[p], reg'[PushTo[p]])
  <2>1. PushTo[p] \in Agent
    BY NoneApart
  <2>2. JobRule(jobs[p], reg[PushTo[p]])
    OBVIOUS
  <2>3. CASE PushTo[p] = u /\ jobs[p].held = "alias"
    <3>1. job'[p].held = "own" /\ job'[p].obj = reg[u] /\ job'[p].pc = "mutate"
      BY <1>1, <2>2, <2>3, DetachFacts DEF JobRule
    <3> QED
      BY <2>2, <2>3, <3>1 DEF JobRule
  <2>4. CASE ~(PushTo[p] = u /\ jobs[p].held = "alias")
    <3>1. job'[p] = jobs[p]
      BY <1>1, <2>4, DetachFacts
    <3>2. jobs[p].held # "alias" \/ reg'[PushTo[p]] = reg[PushTo[p]]
      BY <1>1, <2>1, <2>4 DEF Upsert
    <3> QED
      BY <2>2, <3>1, <3>2 DEF JobRule
  <2> QED
    BY <2>3, <2>4
<1> QED
  BY <1>0, <1>2, <1>3, <1>4 DEF JobOK

\* The first step of onMessage keeps the types.
LEMMA ReadType ==
    ASSUME TypeInv, UNCHANGED scene, NEW k \in Conn, NEW pc \in {"parse", "fill"}, NEW obj \in Rows,
           pc = "fill" => obj \in Objs, Read(k, pc, obj), faults' \in Nat
    PROVE  TypeInv'
<1> DEFINE u == AgentOf[k]
<1>1. u \in Agent
  BY NoneApart
<1>2. PICK m \in Reports(u) :
         hand' = [hand EXCEPT ![k] = [IdleHandler EXCEPT !.pc = pc, !.msg = m, !.obj = obj]]
  BY Zenon DEF Read
<1>3. m \in Msgs
  BY <1>1, <1>2, ReportsType
<1> DEFINE h == [IdleHandler EXCEPT !.pc = pc, !.msg = m, !.obj = obj]
<1>4. h \in Handlers /\ h.pc = pc /\ h.obj = obj
  BY <1>3, NoneApart, NoObjApart DEF IdleHandler, NoResponse, Handlers, Responses
<1>5. HandOK'
  <2> HIDE DEF h
  <2> QED
    BY <1>2, <1>4, HandStep DEF TypeInv, h
<1>6. AgentOK'
  <2>1. agent' = [agent EXCEPT ![u].owes = "nothing", ![u].ack = NoAck]
    BY DEF Read
  <2>2. NoAck \in Acks
    BY DEF NoAck, Ack, Acks
  <2> QED
    BY <1>1, <2>1, <2>2 DEF TypeInv, AgentOK, Agents
<1>7. UNCHANGED <<memory, db, link, wire, job, history>>
  BY DEF Read
<1> QED
  BY <1>5, <1>6, <1>7 DEF TypeInv, memory, history, RowsOK, BindingOK, ReportOK, QueueOK, LinkOK,
     WireOK, JobOK, CountOK

\* Reading a message, and the row of a collector the registry does not know, keeps
\* the types.
LEMMA OnMessageType ==
    ASSUME TypeInv, UNCHANGED scene, NEW k \in Conn, OnMessage(k)
    PROVE  TypeInv'
<1>1. AgentOf[k] \in Agent /\ db[AgentOf[k]] \in Rows
  BY NoneApart DEF TypeInv, RowsOK
<1>2. faults' \in Nat
  BY FaultStep DEF OnMessage
<1>3. \/ Read(k, "parse", NoObj)
      \/ db[AgentOf[k]] # NoObj /\ Read(k, "fill", db[AgentOf[k]])
  BY Zenon DEF OnMessage
<1> QED
  BY <1>1, <1>2, <1>3, ReadType, NoObjApart

\* Upserting the row that was read keeps the types: it is a record, not the absent
\* one.
LEMMA BackfillType ==
    ASSUME TypeInv, UNCHANGED scene, NEW k \in Conn, Backfill(k)
    PROVE  TypeInv'
<1>1. AgentOf[k] \in Agent /\ hand[k].obj \in Objs
  BY NoneApart DEF TypeInv, HandOK, Backfill
<1>2. RowsOK' /\ JobOK' /\ faults' \in Nat
  BY <1>1, UpsertStep DEF TypeInv, JobOK, Backfill
<1>3. HandOK'
  BY DEF TypeInv, Backfill, HandOK, Handlers
<1> QED
  BY <1>2, <1>3 DEF TypeInv, Backfill, history, BindingOK, ReportOK, QueueOK, LinkOK, WireOK,
     AgentOK, CountOK

\* Computing the new record keeps the types: the handler has one to upsert.
LEMMA ParseMessageType ==
    ASSUME TypeInv, UNCHANGED scene, NEW k \in Conn, ParseMessage(k)
    PROVE  TypeInv'
<1> DEFINE o == FromMessage(reg[AgentOf[k]], hand[k].msg)
<1>1. AgentOf[k] \in Agent /\ reg[AgentOf[k]] \in Rows /\ hand[k].msg \in Msgs
  BY NoneApart DEF TypeInv, RowsOK, HandOK, Handlers
<1>2. o \in Objs
  BY <1>1, FromMessageType
<1>3. hand' = [hand EXCEPT ![k].pc = "upsert", ![k].obj = o]
  BY DEF ParseMessage
<1>4. HandOK'
  <2>1. o \in Rows
    BY <1>2 DEF Rows
  <2> HIDE DEF o
  <2>2. hand[k] \in Handlers
    BY DEF TypeInv, HandOK
  <2> DEFINE h == [hand[k] EXCEPT !.pc = "upsert", !.obj = o]
  <2>3. h \in Handlers /\ h.obj = o
    BY <2>1, <2>2 DEF Handlers
  <2>4. hand' = [hand EXCEPT ![k] = h]
    BY <1>3 DEF TypeInv, HandOK
  <2> HIDE DEF h
  <2> QED
    BY <1>2, <2>3, <2>4, HandStep DEF TypeInv
<1> QED
  BY <1>4 DEF TypeInv, ParseMessage, memory, history, RowsOK, BindingOK, ReportOK, QueueOK, LinkOK,
     WireOK, AgentOK, JobOK, CountOK

\* Upserting the record and binding the connection keeps the types.
LEMMA BindConnectionType ==
    ASSUME TypeInv, UNCHANGED scene, NEW k \in Conn, BindConnection(k)
    PROVE  TypeInv'
<1>1. AgentOf[k] \in Agent /\ hand[k].obj \in Objs
  BY NoneApart DEF TypeInv, HandOK, BindConnection
<1>2. RowsOK' /\ JobOK' /\ faults' \in Nat
  BY <1>1, UpsertStep DEF TypeInv, JobOK, BindConnection
<1>3. HandOK'
  BY DEF TypeInv, BindConnection, HandOK, Handlers
<1>4. BindingOK'
  BY <1>1 DEF TypeInv, BindConnection, BindingOK
<1> QED
  BY <1>2, <1>3, <1>4 DEF TypeInv, BindConnection, history, ReportOK, QueueOK, LinkOK, WireOK,
     AgentOK, CountOK

\* The three setters keep the types.
LEMMA RecordReportType ==
    ASSUME TypeInv, UNCHANGED scene, NEW k \in Conn, RecordReport(k)
    PROVE  TypeInv'
<1> DEFINE u == AgentOf[k]
           m == hand[k].msg
<1>1. u \in Agent /\ m \in Msgs
  BY NoneApart DEF TypeInv, HandOK, Handlers
<1>2. ReportOK'
  <2>1. caps' \subseteq Restartable
    BY DEF TypeInv, ReportOK, RecordReport
  <2>2. repHash' \in [Agent -> Config \cup {None}]
    BY <1>1 DEF TypeInv, ReportOK, RecordReport, Msgs, Acks
  <2>3. repEff' \in [Agent -> Config \cup {None}]
    BY <1>1 DEF TypeInv, ReportOK, RecordReport, Msgs
  <2> QED
    BY <2>1, <2>2, <2>3 DEF ReportOK
<1>3. HandOK'
  <2>1. NoMsg \in Msgs
    BY DEF NoMsg, NoAck, Ack, Msg, Msgs, Acks
  <2> QED
    BY <2>1 DEF TypeInv, RecordReport, HandOK, Handlers
<1> QED
  BY <1>2, <1>3 DEF TypeInv, RecordReport, history, RowsOK, BindingOK, QueueOK, LinkOK, WireOK,
     AgentOK, JobOK, CountOK

\* Composing the response keeps the types.
LEMMA TakePendingType ==
    ASSUME TypeInv, UNCHANGED scene, NEW k \in Conn, TakePending(k)
    PROVE  TypeInv'
<1> DEFINE u == AgentOf[k]
           full == repEff[u] = None \/ ~hand[k].obj.meta
           r == [config |-> pending[u], full |-> full]
<1>1. u \in Agent /\ full \in BOOLEAN
  BY NoneApart
<1>2. hand' = [hand EXCEPT ![k].pc = "reply", ![k].resp = r]
  BY DEF TakePending
<1>3. r \in Responses
  <2> HIDE DEF full
  <2> QED
    BY <1>1 DEF TypeInv, QueueOK, Responses
<1>4. HandOK'
  <2> HIDE DEF r
  <2> QED
    BY <1>2, <1>3 DEF TypeInv, HandOK, Handlers
<1>5. QueueOK'
  BY <1>1 DEF TypeInv, QueueOK, TakePending
<1> QED
  BY <1>4, <1>5 DEF TypeInv, TakePending, history, RowsOK, BindingOK, ReportOK, LinkOK, WireOK,
     AgentOK, JobOK, CountOK

\* One more message on a connection that has room.
LEMMA AppendStep ==
    ASSUME WireOK, NEW k \in Conn, NEW r \in Responses, Len(wire[k]) < MaxWire,
           wire' = [wire EXCEPT ![k] = Append(@, r)]
    PROVE  WireOK'
<1>1. Append(wire[k], r) \in Seq(Responses) /\ Len(Append(wire[k], r)) = Len(wire[k]) + 1
  BY DEF WireOK
<1>2. Len(wire[k]) + 1 <= MaxWire
  BY OpAMPAssumption DEF WireOK
<1> QED
  BY <1>1, <1>2 DEF WireOK

\* Sending the response keeps the types and the capacity of the connection.
LEMMA SendResponseType ==
    ASSUME TypeInv, UNCHANGED scene, NEW k \in Conn, SendResponse(k)
    PROVE  TypeInv'
<1>1. hand[k].resp \in Responses
  BY DEF TypeInv, HandOK, Handlers
<1>2. WireOK'
  <2>1. CASE UNCHANGED wire
    BY <2>1 DEF TypeInv, WireOK
  <2>2. CASE Len(wire[k]) < MaxWire /\ wire' = [wire EXCEPT ![k] = Append(@, hand[k].resp)]
    BY <1>1, <2>2, AppendStep DEF TypeInv
  <2>3. CASE wire' = [wire EXCEPT ![k] = @]
    BY <2>3 DEF TypeInv, WireOK
  <2> QED
    BY <2>1, <2>2, <2>3 DEF SendResponse
<1>3. HandOK'
  <2>1. PICK pc \in {"close", "idle"} : hand' = [hand EXCEPT ![k] = [IdleHandler EXCEPT !.pc = pc]]
    BY DEF SendResponse
  <2>2. /\ [IdleHandler EXCEPT !.pc = pc] \in Handlers
        /\ [IdleHandler EXCEPT !.pc = pc].pc = pc
    BY NoneApart, NoObjApart DEF IdleHandler, NoMsg, NoAck, Ack, Msg, NoResponse, Handlers, Msgs,
       Acks, Responses
  <2> QED
    BY <2>1, <2>2, HandStep DEF TypeInv
<1> QED
  BY <1>2, <1>3 DEF TypeInv, SendResponse, memory, history, RowsOK, BindingOK, ReportOK, QueueOK,
     LinkOK, AgentOK, JobOK, CountOK

\* Noticing a broken connection keeps the types.
LEMMA NoticeCloseType ==
    ASSUME TypeInv, UNCHANGED scene, NEW k \in Conn, NoticeClose(k)
    PROVE  TypeInv'
<1>1. HandOK'
  BY DEF TypeInv, NoticeClose, HandOK, Handlers
<1> QED
  BY <1>1 DEF TypeInv, NoticeClose, memory, history, RowsOK, BindingOK, ReportOK, QueueOK,
     LinkOK, WireOK, AgentOK, JobOK, CountOK

\* The end of a close callback keeps the types of handlers and links.
LEMMA GoneType ==
    ASSUME TypeInv, NEW k \in Conn, Gone(k)
    PROVE  HandOK' /\ LinkOK'
<1>1. IdleHandler \in Handlers /\ IdleHandler.pc = "idle"
  BY NoneApart, NoObjApart DEF IdleHandler, NoMsg, NoAck, Ack, Msg, NoResponse, Handlers, Msgs,
     Acks, Responses
<1>2. HandOK'
  BY <1>1, HandStep DEF TypeInv, Gone
<1> QED
  BY <1>2 DEF TypeInv, LinkOK, Gone

\* Looking a closed connection up keeps the types.
LEMMA UidForConnType ==
    ASSUME TypeInv, UNCHANGED scene, NEW k \in Conn, UidForConn(k)
    PROVE  TypeInv'
<1>1. HandOK' /\ LinkOK'
  <2>1. CASE conns[AgentOf[k]] = k
    BY <2>1 DEF TypeInv, UidForConn, HandOK, Handlers, LinkOK
  <2>2. CASE conns[AgentOf[k]] # k
    BY <2>2, GoneType DEF UidForConn
  <2> QED
    BY <2>1, <2>2
<1> QED
  BY <1>1 DEF TypeInv, UidForConn, memory, history, RowsOK, BindingOK, ReportOK, QueueOK,
     WireOK, AgentOK, JobOK, CountOK

\* Removing what the registry has of a closed connection keeps the types.
LEMMA RemoveType ==
    ASSUME TypeInv, UNCHANGED scene, NEW k \in Conn, Remove(k)
    PROVE  TypeInv'
<1>1. HandOK' /\ LinkOK'
  BY GoneType DEF Remove
<1>2. AgentOf[k] \in Agent
  BY NoneApart
<1>3. BindingOK'
  BY <1>2 DEF TypeInv, BindingOK, Remove
<1>4. ReportOK'
  BY <1>2 DEF TypeInv, ReportOK, Remove
<1> QED
  BY <1>1, <1>3, <1>4 DEF TypeInv, Remove, history, RowsOK, QueueOK, WireOK, AgentOK, JobOK, CountOK

\* The offline loop changes the records of those it marks, in both tables.
LEMMA MarkOfflineType ==
    ASSUME TypeInv, UNCHANGED scene, MarkOffline
    PROVE  TypeInv'
<1> DEFINE late == {u \in Agent : reg[u] # NoObj /\ ~reg[u].fresh /\ reg[u].status # "offline"}
           off(u) == [reg[u] EXCEPT !.status = "offline"]
<1>1. PICK lost \in SUBSET late :
         /\ reg' = [u \in Agent |-> IF u \in late THEN off(u) ELSE reg[u]]
         /\ db' = [u \in Agent |-> IF u \in late \ lost THEN off(u) ELSE db[u]]
         /\ IF lost = {} THEN UNCHANGED faults ELSE Fault("store")
  BY Zenon DEF MarkOffline
<1>0. faults' \in Nat
  BY <1>1, FaultStep
<1>2. \A u \in late : off(u) \in Objs
  BY NoObjApart, ObjUpdates DEF TypeInv, RowsOK
<1>3. \A u \in Agent : reg[u] \in Objs => reg'[u] \in Objs
  <2> HIDE DEF late, off
  <2> QED
    BY <1>1, <1>2
<1>4. RowsOK'
  <2> HIDE DEF late, off
  <2> QED
    BY <1>1, <1>2 DEF TypeInv, RowsOK, Rows
<1>5. JobOK'
  BY <1>3, NoneApart DEF TypeInv, JobOK, JobRule, MarkOffline
<1> QED
  BY <1>0, <1>4, <1>5 DEF TypeInv, MarkOffline, history, BindingOK, ReportOK, QueueOK, HandOK, LinkOK,
     WireOK, AgentOK, CountOK

-----------------------------------------------------------------------------
(* The types are kept by the dispatches.                                    *)

\* A dispatch goes on, with what its next step needs.
LEMMA JobStep ==
    ASSUME JobOK, NEW p \in Push, NEW j \in Jobs, JobRule(j, reg[PushTo[p]]),
           job' = [job EXCEPT ![p] = j], reg' = reg
    PROVE  JobOK'
BY DEF JobOK

\* What a dispatch holds.
LEMMA JobFacts ==
    ASSUME TypeInv, NEW p \in Push
    PROVE  /\ PushTo[p] \in Agent
           /\ job[p] \in Jobs
           /\ JobRule(job[p], reg[PushTo[p]])
           /\ reg[PushTo[p]] \in Rows
           /\ db[PushTo[p]] \in Rows
           /\ conns[PushTo[p]] \in Conn \cup {None}
           /\ job = [job EXCEPT ![p] = job[p]]
BY NoneApart DEF TypeInv, JobOK, RowsOK, BindingOK

\* The beginning of a dispatch keeps the types.
LEMMA ReadOnlineType ==
    ASSUME TypeInv, UNCHANGED scene, NEW p \in Push, ReadOnline(p)
    PROVE  TypeInv'
<1> DEFINE on == conns[PushTo[p]] # None
           j == [job[p] EXCEPT !.pc = "lookup", !.online = on]
<1>1. j \in Jobs /\ JobRule(j, reg[PushTo[p]])
  <2>1. on \in BOOLEAN /\ job[p].pc = "idle"
    BY DEF ReadOnline
  <2> HIDE DEF on
  <2> QED
    BY <2>1, JobFacts DEF Jobs, JobRule
<1>2. job' = [job EXCEPT ![p] = j]
  <2>1. job' = [job EXCEPT ![p].pc = "lookup", ![p].online = on]
    BY DEF ReadOnline
  <2> HIDE DEF on
  <2> QED
    BY <2>1 DEF TypeInv, JobOK
<1>3. JobOK'
  <2> HIDE DEF j
  <2> QED
    BY <1>1, <1>2, JobStep DEF TypeInv, ReadOnline, memory
<1>4. issued' \in Seq(Push)
  BY DEF TypeInv, CountOK, ReadOnline
<1> QED
  BY <1>3, <1>4 DEF TypeInv, ReadOnline, memory, RowsOK, BindingOK, ReportOK, QueueOK, HandOK,
     LinkOK, WireOK, AgentOK, CountOK

\* Looking the connection up, and queueing without one, keeps the types.
LEMMA LookupConnType ==
    ASSUME TypeInv, UNCHANGED scene, NEW p \in Push, LookupConn(p)
    PROVE  TypeInv'
<1> DEFINE u == PushTo[p]
<1>1. JobOK' /\ QueueOK'
  <2>1. CASE conns[u] = None
    <3> DEFINE j == [job[p] EXCEPT !.pc = "confirm"]
    <3>1. j \in Jobs /\ JobRule(j, reg[PushTo[p]])
      BY JobFacts DEF Jobs, JobRule, LookupConn
    <3>2. job' = [job EXCEPT ![p] = j] /\ pending' = [pending EXCEPT ![u] = p]
      BY <2>1 DEF LookupConn
    <3>3. JobOK'
      <4> HIDE DEF j
      <4> QED
        BY <3>1, <3>2, JobStep DEF TypeInv, LookupConn
    <3>4. QueueOK'
      BY <3>2, JobFacts DEF TypeInv, QueueOK
    <3> QED
      BY <3>3, <3>4
  <2>2. CASE conns[u] # None
    <3> DEFINE j == [job[p] EXCEPT !.pc = "send", !.conn = conns[u]]
    <3>1. j \in Jobs /\ JobRule(j, reg[PushTo[p]])
      BY <2>2, JobFacts DEF Jobs, JobRule, LookupConn
    <3>2. job' = [job EXCEPT ![p] = j] /\ UNCHANGED pending
      BY <2>2, JobFacts DEF LookupConn, TypeInv, JobOK
    <3>3. JobOK'
      <4> HIDE DEF j
      <4> QED
        BY <3>1, <3>2, JobStep DEF TypeInv, LookupConn
    <3> QED
      BY <3>2, <3>3 DEF TypeInv, QueueOK
  <2> QED
    BY <2>1, <2>2
<1> QED
  BY <1>1 DEF TypeInv, LookupConn, history, RowsOK, BindingOK, ReportOK, HandOK, LinkOK, WireOK,
     AgentOK, CountOK

\* Sending a configuration, or queueing it after a failure, keeps the types.
LEMMA SendConfigType ==
    ASSUME TypeInv, UNCHANGED scene, NEW p \in Push, SendConfig(p)
    PROVE  TypeInv'
<1> DEFINE k == job[p].conn
           j == [job[p] EXCEPT !.pc = "confirm"]
<1>1. k \in Conn
  BY JobFacts DEF JobRule, SendConfig
<1>2. j \in Jobs /\ JobRule(j, reg[PushTo[p]])
  BY JobFacts DEF Jobs, JobRule, SendConfig
<1>3. job' = [job EXCEPT ![p] = j]
  BY DEF SendConfig
<1>4. JobOK'
  <2> HIDE DEF j
  <2> QED
    BY <1>2, <1>3, JobStep DEF TypeInv, SendConfig
<1>5. WireOK' /\ QueueOK'
  <2>1. CASE /\ Len(wire[k]) < MaxWire
             /\ wire' = [wire EXCEPT ![k] = Append(@, [config |-> p, full |-> FALSE])]
             /\ UNCHANGED pending
    <3>1. [config |-> p, full |-> FALSE] \in Responses
      BY DEF Responses
    <3>2. WireOK'
      BY <1>1, <2>1, <3>1, AppendStep DEF TypeInv
    <3> QED
      BY <2>1, <3>2 DEF TypeInv, QueueOK
  <2>2. CASE pending' = [pending EXCEPT ![PushTo[p]] = p] /\ UNCHANGED wire
    BY <2>2, JobFacts DEF TypeInv, QueueOK, WireOK
  <2>3. CASE UNCHANGED <<pending, wire>>
    BY <2>3 DEF TypeInv, QueueOK, WireOK
  <2> QED
    BY <2>1, <2>2, <2>3, Zenon DEF SendConfig
<1> QED
  BY <1>4, <1>5 DEF TypeInv, SendConfig, history, RowsOK, BindingOK, ReportOK, HandOK, LinkOK,
     AgentOK, CountOK

\* The steps of a dispatch that change nothing else.
LEMMA JobOnlyType ==
    ASSUME TypeInv, UNCHANGED scene, JobOK',
           UNCHANGED <<memory, db, hand, link, wire, agent, history>>, faults' \in Nat
    PROVE  TypeInv'
BY DEF TypeInv, memory, history, RowsOK, BindingOK, ReportOK, QueueOK, HandOK, LinkOK, WireOK,
   AgentOK, CountOK

\* A confirmation keeps the types.
LEMMA ConfirmType ==
    ASSUME TypeInv, UNCHANGED scene, NEW p \in Push, Confirm(p)
    PROVE  TypeInv'
<1> DEFINE j == [job[p] EXCEPT !.pc = "get", !.confirmed = TRUE]
<1>1. j \in Jobs /\ JobRule(j, reg[PushTo[p]])
  BY JobFacts DEF Jobs, JobRule, Confirm
<1>2. job' = [job EXCEPT ![p] = j]
  BY DEF Confirm, TypeInv, JobOK
<1>3. JobOK'
  <2> HIDE DEF j
  <2> QED
    BY <1>1, <1>2, JobStep DEF TypeInv, Confirm, memory
<1> QED
  BY <1>3, JobOnlyType, FaultStep DEF Confirm

\* The end of a wait keeps the types.
LEMMA ConfirmTimeoutType ==
    ASSUME TypeInv, UNCHANGED scene, NEW p \in Push, ConfirmTimeout(p)
    PROVE  TypeInv'
<1> DEFINE j == IF PushTo[p] \in caps /\ ~job[p].second
                THEN [job[p] EXCEPT !.second = TRUE]
                ELSE [job[p] EXCEPT !.pc = "get"]
<1>1. j \in Jobs /\ JobRule(j, reg[PushTo[p]])
  BY JobFacts DEF Jobs, JobRule, ConfirmTimeout
<1>2. job' = [job EXCEPT ![p] = j]
  BY DEF ConfirmTimeout
<1>3. JobOK'
  <2> HIDE DEF j
  <2> QED
    BY <1>1, <1>2, JobStep DEF TypeInv, ConfirmTimeout, memory
<1> QED
  BY <1>3, JobOnlyType, FaultStep DEF ConfirmTimeout

\* Taking the pointer keeps the types: an aliased record is there.
LEMMA GetPointerType ==
    ASSUME TypeInv, UNCHANGED scene, NEW p \in Push, GetPointer(p)
    PROVE  TypeInv'
<1> DEFINE j == IF reg[PushTo[p]] = NoObj
                THEN [job[p] EXCEPT !.pc = "dbget"]
                ELSE [job[p] EXCEPT !.pc = "mutate", !.held = "alias"]
           e == [job[p] EXCEPT !.pc = "end"]
<1>1. j \in Jobs /\ JobRule(j, reg[PushTo[p]]) /\ e \in Jobs /\ JobRule(e, reg[PushTo[p]])
  BY JobFacts, NoObjApart DEF Jobs, JobRule, GetPointer
<1>2. job' = [job EXCEPT ![p] = j] \/ job' = [job EXCEPT ![p] = e]
  BY DEF GetPointer
<1>3. JobOK'
  <2> HIDE DEF j, e
  <2> QED
    BY <1>1, <1>2, JobStep DEF TypeInv, GetPointer, memory
<1> QED
  BY <1>3, JobOnlyType, FaultStep DEF GetPointer

\* Reading the row keeps the types.
LEMMA ReadRowType ==
    ASSUME TypeInv, UNCHANGED scene, NEW p \in Push, ReadRow(p)
    PROVE  TypeInv'
<1> DEFINE j == IF db[PushTo[p]] = NoObj
                THEN [job[p] EXCEPT !.pc = "end"]
                ELSE [job[p] EXCEPT !.pc = "dbput", !.obj = db[PushTo[p]]]
           e == [job[p] EXCEPT !.pc = "end"]
<1>1. j \in Jobs /\ JobRule(j, reg[PushTo[p]]) /\ e \in Jobs /\ JobRule(e, reg[PushTo[p]])
  BY JobFacts, NoObjApart DEF Jobs, JobRule, ReadRow
<1>2. job' = [job EXCEPT ![p] = j] \/ job' = [job EXCEPT ![p] = e]
  BY DEF ReadRow
<1>3. JobOK'
  <2> HIDE DEF j, e
  <2> QED
    BY <1>1, <1>2, JobStep DEF TypeInv, ReadRow, memory
<1> QED
  BY <1>3, JobOnlyType, FaultStep DEF ReadRow

\* Writing the row keeps the types: what was read is a record.
LEMMA WriteRowType ==
    ASSUME TypeInv, UNCHANGED scene, NEW p \in Push, WriteRow(p)
    PROVE  TypeInv'
<1> DEFINE j == [job[p] EXCEPT !.pc = "end", !.obj = NoObj]
<1>1. job[p].obj \in Objs
  BY JobFacts DEF JobRule, WriteRow
<1>2. j \in Jobs /\ JobRule(j, reg[PushTo[p]])
  BY JobFacts, NoObjApart DEF Jobs, JobRule, WriteRow
<1>3. job' = [job EXCEPT ![p] = j]
  BY DEF WriteRow
<1>4. JobOK'
  <2> HIDE DEF j
  <2> QED
    BY <1>2, <1>3, JobStep DEF TypeInv, WriteRow, memory
<1>5. RowsOK'
  <2> DEFINE o == [job[p].obj EXCEPT !.eff = PushYaml[p]]
  <2>1. o \in Rows /\ UNCHANGED reg
    BY <1>1, ObjUpdates, NoneApart DEF Rows, WriteRow, memory
  <2>2. db' = [db EXCEPT ![PushTo[p]] = o] \/ db' = db
    BY DEF WriteRow
  <2> HIDE DEF o
  <2> QED
    BY <2>1, <2>2 DEF TypeInv, RowsOK
<1>6. faults' \in Nat
  BY FaultStep DEF WriteRow
<1> QED
  BY <1>4, <1>5, <1>6 DEF TypeInv, WriteRow, memory, history, BindingOK, ReportOK, QueueOK, HandOK,
     LinkOK, WireOK, AgentOK, CountOK

\* Upserting the intent keeps the types, whether the record held is the one of the
\* registry or an older one.
LEMMA UpsertIntentType ==
    ASSUME TypeInv, UNCHANGED scene, NEW p \in Push, UpsertIntent(p)
    PROVE  TypeInv'
<1> DEFINE u == PushTo[p]
           obj == IF job[p].held = "alias" THEN reg[u] ELSE job[p].obj
           j == [job[p] EXCEPT !.pc = "dbget", !.held = "none", !.obj = NoObj]
           next == [job EXCEPT ![p] = j]
           new == [obj EXCEPT !.eff = PushYaml[p]]
<1>1. obj \in Objs
  BY JobFacts DEF Jobs, JobRule, UpsertIntent
<1>2. u \in Agent /\ reg[u] \in Rows
  BY JobFacts
<1>3. new \in Objs
  <2> HIDE DEF obj
  <2> QED
    BY <1>1, ObjUpdates, NoneApart
<1>4. j \in Jobs /\ \A row : JobRule(j, row)
  BY JobFacts, NoObjApart DEF Jobs, JobRule
<1>5. next \in [Push -> Jobs] /\ \A q \in Push : JobRule(next[q], reg[PushTo[q]])
  <2> HIDE DEF j
  <2> QED
    BY <1>4 DEF TypeInv, JobOK
<1>6. Upsert(u, new)
  BY Zenon DEF UpsertIntent
<1>7. RowsOK' /\ JobOK' /\ faults' \in Nat
  <2>1. CASE job[p].held = "alias"
    <3>1. job' = next
      BY <2>1 DEF UpsertIntent
    <3>2. reg' = [reg EXCEPT ![u] = new] /\ (db' = [db EXCEPT ![u] = new] \/ db' = db)
      BY <1>6 DEF Upsert
    <3>5. faults' \in Nat
      BY <1>6, FaultStep DEF Upsert
    <3> HIDE DEF new, next
    <3>3. RowsOK'
      BY <1>2, <1>3, <3>2 DEF TypeInv, RowsOK, Rows
    <3>4. \A q \in Push : JobRule(job'[q], reg'[PushTo[q]])
      BY <1>2, <1>3, <1>5, <3>1, <3>2, NoneApart DEF TypeInv, RowsOK, JobRule
    <3> QED
      BY <1>5, <3>1, <3>3, <3>4, <3>5 DEF JobOK
  <2>2. CASE job[p].held # "alias"
    <3>1. job' = Detach(u, next)
      BY <2>2 DEF UpsertIntent
    <3> HIDE DEF new, next
    <3> QED
      BY <1>2, <1>3, <1>5, <1>6, <3>1, UpsertStep
  <2> QED
    BY <2>1, <2>2
<1> QED
  BY <1>7 DEF TypeInv, UpsertIntent, history, BindingOK, ReportOK, QueueOK, HandOK, LinkOK, WireOK,
     AgentOK, CountOK

\* What a step of a dispatch changes of the goroutines: its own counter goes on,
\* the others stay where they are.
LEMMA JobChanges ==
    ASSUME TypeInv, NEW p \in Push, Dispatch(p)
    PROVE  /\ \A q \in Push : q # p => /\ job'[q].pc = job[q].pc
                                       /\ job'[q].conn = job[q].conn
                                       /\ job'[q].online = job[q].online
                                       /\ job'[q].confirmed = job[q].confirmed
           /\ job'[p].pc # "idle"
           /\ job'[p].pc \in {"lookup", "send"} => job[p].pc \in {"idle", "lookup"}
           /\ job[p].pc = "idle" \/ job'[p].online = job[p].online
           /\ Confirm(p) \/ job'[p].confirmed = job[p].confirmed
<1> DEFINE Goal(j) ==
              /\ j.pc # "idle"
              /\ j.pc \in {"lookup", "send"} => job[p].pc \in {"idle", "lookup"}
              /\ job[p].pc = "idle" \/ j.online = job[p].online
              /\ Confirm(p) \/ j.confirmed = job[p].confirmed
<1>1. job \in [Push -> Jobs] /\ job[p] \in Jobs
  BY DEF TypeInv, JobOK
<1>2. SUFFICES \/ UpsertIntent(p)
               \/ \E j : job' = [job EXCEPT ![p] = j] /\ Goal(j)
  <2>1. ASSUME NEW j, job' = [job EXCEPT ![p] = j], Goal(j)
        PROVE  Goal(job'[p]) /\ \A q \in Push : q # p => job'[q] = job[q]
    <3>1. job'[p] = j /\ \A q \in Push : q # p => job'[q] = job[q]
      BY <1>1, <2>1
    <3> HIDE DEF Goal
    <3> QED
      BY <2>1, <3>1
  <2>2. ASSUME UpsertIntent(p)
        PROVE  Goal(job'[p]) /\ \A q \in Push : q # p => /\ job'[q].pc = job[q].pc
                                                         /\ job'[q].conn = job[q].conn
                                                         /\ job'[q].online = job[q].online
                                                         /\ job'[q].confirmed = job[q].confirmed
    <3> DEFINE j == [job[p] EXCEPT !.pc = "dbget", !.held = "none", !.obj = NoObj]
               next == [job EXCEPT ![p] = j]
    <3>1. j \in Jobs /\ j.pc = "dbget" /\ j.online = job[p].online /\ j.confirmed = job[p].confirmed
      BY <1>1, NoObjApart DEF Jobs
    <3> HIDE DEF j
    <3>2. next \in [Push -> Jobs] /\ next[p] = j /\ \A q \in Push : q # p => next[q] = job[q]
      BY <1>1, <3>1
    <3>3. job' = next \/ job' = Detach(PushTo[p], next)
      BY <2>2, Zenon DEF UpsertIntent, j
    <3> HIDE DEF next
    <3>4. \A q \in Push : /\ job'[q].pc = next[q].pc
                          /\ job'[q].conn = next[q].conn
                          /\ job'[q].online = next[q].online
                          /\ job'[q].confirmed = next[q].confirmed
      BY <3>2, <3>3, JobFacts, DetachFacts
    <3> QED
      BY <3>1, <3>2, <3>4
  <2> QED
    BY <1>2, <2>1, <2>2
<1>3. CASE ReadOnline(p)
  <2> DEFINE on == conns[PushTo[p]] # None
             j == [job[p] EXCEPT !.pc = "lookup", !.online = on]
  <2>1. job' = [job EXCEPT ![p].pc = "lookup", ![p].online = on] /\ job[p].pc = "idle"
    BY <1>3 DEF ReadOnline
  <2> HIDE DEF on
  <2>2. job' = [job EXCEPT ![p] = j]
    BY <1>1, <2>1
  <2>3. Goal(j)
    BY <1>1, <2>1 DEF Jobs
  <2> QED
    BY <2>2, <2>3
<1>4. CASE LookupConn(p)
  <2>1. CASE conns[PushTo[p]] = None
    <3> DEFINE j == [job[p] EXCEPT !.pc = "confirm"]
    <3>1. job' = [job EXCEPT ![p] = j] /\ Goal(j)
      BY <1>1, <1>4, <2>1 DEF LookupConn, Jobs
    <3> QED
      BY <3>1
  <2>2. CASE conns[PushTo[p]] # None
    <3> DEFINE j == [job[p] EXCEPT !.pc = "send", !.conn = conns[PushTo[p]]]
    <3>1. job' = [job EXCEPT ![p] = j] /\ Goal(j)
      BY <1>1, <1>4, <2>2 DEF LookupConn, Jobs
    <3> QED
      BY <3>1
  <2> QED
    BY <2>1, <2>2
<1>5. CASE SendConfig(p)
  <2> DEFINE j == [job[p] EXCEPT !.pc = "confirm"]
  <2>1. job' = [job EXCEPT ![p] = j] /\ Goal(j)
    BY <1>1, <1>5 DEF SendConfig, Jobs
  <2> QED
    BY <2>1
<1>6. CASE Confirm(p)
  <2> DEFINE j == [job[p] EXCEPT !.pc = "get", !.confirmed = TRUE]
  <2>1. job' = [job EXCEPT ![p] = j]
    BY <1>1, <1>6 DEF Confirm
  <2>2. Goal(j)
    BY <1>1, <1>6 DEF Jobs
  <2> QED
    BY <2>1, <2>2
<1>7. CASE ConfirmTimeout(p)
  <2> DEFINE j == IF PushTo[p] \in caps /\ ~job[p].second
                  THEN [job[p] EXCEPT !.second = TRUE]
                  ELSE [job[p] EXCEPT !.pc = "get"]
  <2>1. job' = [job EXCEPT ![p] = j] /\ job[p].pc = "confirm"
    BY <1>7 DEF ConfirmTimeout
  <2>2. Goal(j)
    BY <1>1, <2>1 DEF Jobs
  <2> HIDE DEF j, Goal
  <2> QED
    BY <2>1, <2>2
<1>8. CASE GetPointer(p)
  <2> DEFINE j == IF reg[PushTo[p]] = NoObj
                  THEN [job[p] EXCEPT !.pc = "dbget"]
                  ELSE [job[p] EXCEPT !.pc = "mutate", !.held = "alias"]
             e == [job[p] EXCEPT !.pc = "end"]
  <2>1. job' = [job EXCEPT ![p] = j] \/ job' = [job EXCEPT ![p] = e]
    BY <1>8 DEF GetPointer
  <2>2. Goal(j) /\ Goal(e)
    BY <1>1 DEF Jobs
  <2> HIDE DEF j, e, Goal
  <2> QED
    BY <2>1, <2>2
<1>9. CASE ReadRow(p)
  <2> DEFINE j == IF db[PushTo[p]] = NoObj
                  THEN [job[p] EXCEPT !.pc = "end"]
                  ELSE [job[p] EXCEPT !.pc = "dbput", !.obj = db[PushTo[p]]]
             e == [job[p] EXCEPT !.pc = "end"]
  <2>1. job' = [job EXCEPT ![p] = j] \/ job' = [job EXCEPT ![p] = e]
    BY <1>9 DEF ReadRow
  <2>2. Goal(j) /\ Goal(e)
    BY <1>1 DEF Jobs
  <2> HIDE DEF j, e, Goal
  <2> QED
    BY <2>1, <2>2
<1>10. CASE WriteRow(p)
  <2> DEFINE j == [job[p] EXCEPT !.pc = "end", !.obj = NoObj]
  <2>1. job' = [job EXCEPT ![p] = j]
    BY <1>10 DEF WriteRow
  <2>2. Goal(j)
    BY <1>1 DEF Jobs
  <2> HIDE DEF j, Goal
  <2> QED
    BY <2>1, <2>2
<1> HIDE DEF Goal
<1> QED
  BY <1>3, <1>4, <1>5, <1>6, <1>7, <1>8, <1>9, <1>10, Zenon DEF Dispatch

-----------------------------------------------------------------------------
(* The types are kept by the agents, the network and a restart.             *)

\* A new connection keeps the types.
LEMMA ConnectType ==
    ASSUME TypeInv, UNCHANGED scene, NEW k \in Conn, Connect(k)
    PROVE  TypeInv'
<1>1. LinkOK'
  BY DEF TypeInv, LinkOK, Connect
<1> QED
  BY <1>1 DEF TypeInv, Connect, memory, history, RowsOK, BindingOK, ReportOK, QueueOK, HandOK,
     WireOK, AgentOK, JobOK, CountOK

\* What an agent reads.
LEMMA ReceiveFacts ==
    ASSUME TypeInv, NEW k \in Conn, Receive(k)
    PROVE  /\ Head(wire[k]) \in Responses
           /\ Tail(wire[k]) \in Seq(Responses)
           /\ Len(Tail(wire[k])) = Len(wire[k]) - 1
           /\ Len(wire[k]) \in Nat /\ Len(wire[k]) >= 1
           /\ Head(wire[k]) = wire[k][1]
           /\ \A i \in DOMAIN Tail(wire[k]) :
                 i + 1 \in DOMAIN wire[k] /\ Tail(wire[k])[i] = wire[k][i + 1]
           /\ wire' = [wire EXCEPT ![k] = Tail(@)]
           /\ AgentOf[k] \in Agent
<1>1. wire[k] \in Seq(Responses) /\ wire[k] # <<>>
  BY DEF TypeInv, WireOK, Receive
<1>2. wire' = [wire EXCEPT ![k] = Tail(@)]
  BY DEF Receive
<1> QED
  BY <1>1, <1>2, NoneApart

\* The two answers to a configuration, as two steps.
Applies(k) ==
    LET u == AgentOf[k]
        p == Head(wire[k]).config
    IN
    /\ p # None
    /\ delivered' = [delivered EXCEPT ![p] = @ + 1]
    /\ \E owed \in {"full", "ack"} :
          agent' = [agent EXCEPT ![u] = [running |-> PushYaml[p], owes |-> owed,
                                         ack |-> Ack("applied", PushYaml[p])]]
    /\ ran' = [ran EXCEPT ![u] = @ \cup {PushYaml[p]}]

Rejects(k) ==
    LET u == AgentOf[k]
        p == Head(wire[k]).config
    IN
    /\ p # None
    /\ delivered' = [delivered EXCEPT ![p] = @ + 1]
    /\ \E owed \in {"full", "ack"} :
          agent' = [agent EXCEPT ![u] = [@ EXCEPT !.owes = owed,
                                                  !.ack = Ack("failed", PushYaml[p])]]
    /\ UNCHANGED ran

Resends(k) ==
    /\ Head(wire[k]).config = None
    /\ agent' = [agent EXCEPT ![AgentOf[k]].owes = "full"]
    /\ UNCHANGED <<ran, delivered>>

\* What a read may do to the agent.
LEMMA ReceiveCases ==
    ASSUME TypeInv, NEW k \in Conn, Receive(k)
    PROVE  Applies(k) \/ Rejects(k) \/ Resends(k)
<1> DEFINE u == AgentOf[k]
           p == Head(wire[k]).config
           owed == IF Head(wire[k]).full \/ agent[u].owes = "full" THEN "full" ELSE "ack"
<1>1. CASE p = None
  <2>1. agent' = [agent EXCEPT ![u].owes = "full"] /\ UNCHANGED <<ran, delivered>>
    BY <1>1 DEF Receive
  <2> QED
    BY <1>1, <2>1 DEF Resends
<1>2. CASE p # None
  <2>1. owed \in {"full", "ack"}
    OBVIOUS
  <2>2. /\ delivered' = [delivered EXCEPT ![p] = @ + 1]
        /\ \/ /\ agent' = [agent EXCEPT ![u] = [running |-> PushYaml[p], owes |-> owed,
                                                ack |-> Ack("applied", PushYaml[p])]]
              /\ ran' = [ran EXCEPT ![u] = @ \cup {PushYaml[p]}]
           \/ /\ agent' = [agent EXCEPT ![u].owes = owed, ![u].ack = Ack("failed", PushYaml[p])]
              /\ UNCHANGED ran
    BY <1>2, Zenon DEF Receive
  <2> HIDE DEF owed
  <2>3. [agent EXCEPT ![u].owes = owed, ![u].ack = Ack("failed", PushYaml[p])]
          = [agent EXCEPT ![u] = [@ EXCEPT !.owes = owed, !.ack = Ack("failed", PushYaml[p])]]
    BY NoneApart DEF TypeInv, AgentOK
  <2> QED
    BY <1>2, <2>1, <2>2, <2>3 DEF Applies, Rejects
<1> QED
  BY <1>1, <1>2

\* A configuration that is read is delivered.
LEMMA ReceiveDelivers ==
    ASSUME TypeInv, NEW k \in Conn, Receive(k)
    PROVE  IF Head(wire[k]).config = None
           THEN delivered' = delivered
           ELSE delivered' = [delivered EXCEPT ![Head(wire[k]).config] = @ + 1]
<1>1. CASE Applies(k)
  BY <1>1, Zenon DEF Applies
<1>2. CASE Rejects(k)
  BY <1>2, Zenon DEF Rejects
<1>3. CASE Resends(k)
  BY <1>3, Zenon DEF Resends
<1> QED
  BY <1>1, <1>2, <1>3, ReceiveCases

\* Reading a message from the server keeps the types.
LEMMA ReceiveType ==
    ASSUME TypeInv, UNCHANGED scene, NEW k \in Conn, Receive(k)
    PROVE  TypeInv'
<1> DEFINE u == AgentOf[k]
           p == Head(wire[k]).config
<1>1. WireOK'
  <2> DEFINE t == Tail(wire[k])
  <2>1. t \in Seq(Responses) /\ Len(t) = Len(wire[k]) - 1 /\ Len(wire[k]) \in Nat
    BY ReceiveFacts
  <2>2. Len(wire[k]) <= MaxWire
    BY DEF TypeInv, WireOK
  <2>3. Len(t) <= MaxWire
    BY <2>1, <2>2, OpAMPAssumption
  <2>4. wire' = [wire EXCEPT ![k] = t]
    BY ReceiveFacts
  <2> HIDE DEF t
  <2> QED
    BY <2>1, <2>3, <2>4 DEF TypeInv, WireOK
<1>2. u \in Agent /\ p \in Push \cup {None} /\ agent[u] \in Agents
  BY ReceiveFacts DEF Responses, TypeInv, AgentOK
<1>3. AgentOK' /\ ran' \in [Agent -> SUBSET Config] /\ delivered' \in [Push -> Nat]
  <2>1. CASE Applies(k)
    <3>1. p \in Push /\ PushYaml[p] \in Config
      BY <1>2, <2>1, NoneApart DEF Applies
    <3>2. Ack("applied", PushYaml[p]) \in Acks
      BY <3>1 DEF Ack, Acks
    <3>3. AgentOK'
      BY <1>2, <2>1, <3>1, <3>2 DEF Applies, TypeInv, AgentOK, Agents
    <3>4. ran' \in [Agent -> SUBSET Config]
      BY <1>2, <2>1, <3>1 DEF Applies, TypeInv, CountOK
    <3>5. delivered' \in [Push -> Nat]
      BY <2>1, <3>1 DEF Applies, TypeInv, CountOK
    <3> QED
      BY <3>3, <3>4, <3>5
  <2>2. CASE Rejects(k)
    <3>1. p \in Push /\ PushYaml[p] \in Config
      BY <1>2, <2>2, NoneApart DEF Rejects
    <3>2. Ack("failed", PushYaml[p]) \in Acks
      BY <3>1 DEF Ack, Acks
    <3> DEFINE a == Ack("failed", PushYaml[p])
    <3>3. PICK owed \in {"full", "ack"} :
             agent' = [agent EXCEPT ![u] = [@ EXCEPT !.owes = owed, !.ack = a]]
      BY <2>2 DEF Rejects
    <3> DEFINE next == [agent[u] EXCEPT !.owes = owed, !.ack = a]
    <3>4. agent' = [agent EXCEPT ![u] = next]
      BY <3>3
    <3> HIDE DEF a
    <3>5. next \in Agents
      BY <1>2, <3>2 DEF Agents, a
    <3> HIDE DEF next
    <3>6. AgentOK'
      BY <1>2, <3>4, <3>5 DEF TypeInv, AgentOK
    <3>7. delivered' \in [Push -> Nat]
      BY <2>2, <3>1 DEF Rejects, TypeInv, CountOK
    <3> QED
      BY <2>2, <3>6, <3>7 DEF Rejects, TypeInv, CountOK
  <2>3. CASE Resends(k)
    BY <1>2, <2>3 DEF Resends, TypeInv, AgentOK, Agents, CountOK
  <2> QED
    BY <2>1, <2>2, <2>3, ReceiveCases
<1>4. CountOK'
  BY <1>3 DEF TypeInv, CountOK, Receive
<1> QED
  BY <1>1, <1>3, <1>4 DEF TypeInv, Receive, memory, RowsOK, BindingOK, ReportOK, QueueOK, HandOK,
     LinkOK, JobOK

\* A connection that breaks keeps the types.
LEMMA DropType ==
    ASSUME TypeInv, UNCHANGED scene, NEW k \in Conn, Drop(k)
    PROVE  TypeInv'
<1>1. LinkOK'
  BY DEF TypeInv, LinkOK, Drop
<1>2. WireOK'
  BY OpAMPAssumption DEF TypeInv, WireOK, Drop
<1>3. faults' \in Nat
  BY FaultStep DEF Drop
<1> QED
  BY <1>1, <1>2, <1>3 DEF TypeInv, Drop, memory, history, RowsOK, BindingOK, ReportOK, QueueOK,
     HandOK, AgentOK, JobOK, CountOK

\* A collector that is shut down keeps the types.
LEMMA StopType ==
    ASSUME TypeInv, UNCHANGED scene, NEW u \in Agent, Stop(u)
    PROVE  TypeInv'
<1>1. LinkOK'
  BY DEF TypeInv, LinkOK, Stop
<1>2. WireOK'
  BY OpAMPAssumption DEF TypeInv, WireOK, Stop
<1>3. faults' \in Nat
  BY FaultStep DEF Stop
<1>4. AgentOK'
  BY DEF TypeInv, AgentOK, Agents, Stop
<1> QED
  BY <1>1, <1>2, <1>3, <1>4 DEF TypeInv, Stop, memory, history, RowsOK, BindingOK, ReportOK,
     QueueOK, HandOK, JobOK, CountOK

\* A collector that falls silent keeps the types: it has a record.
LEMMA SilenceType ==
    ASSUME TypeInv, UNCHANGED scene, NEW u \in Agent, Silence(u)
    PROVE  TypeInv'
<1>1. reg[u] \in Objs
  BY NoObjApart DEF TypeInv, RowsOK, Silence
<1>2. reg' = [reg EXCEPT ![u] = [reg[u] EXCEPT !.fresh = FALSE]]
  BY DEF Silence
<1>3. [reg[u] EXCEPT !.fresh = FALSE] \in Objs
  BY <1>1, ObjUpdates
<1>4. RowsOK'
  BY <1>2, <1>3 DEF TypeInv, RowsOK, Rows, Silence
<1>5. JobOK'
  BY <1>2, <1>3, NoneApart DEF TypeInv, RowsOK, JobOK, JobRule, Silence
<1>6. faults' \in Nat
  BY FaultStep DEF Silence, TypeInv, CountOK
<1> QED
  BY <1>4, <1>5, <1>6 DEF TypeInv, Silence, history, BindingOK, ReportOK, QueueOK, HandOK, LinkOK,
     WireOK, AgentOK, CountOK

\* The jobs after a restart.
LEMMA RestartJobs ==
    ASSUME TypeInv, Restart, NEW p \in Push
    PROVE  /\ job' \in [Push -> Jobs]
           /\ \A row : JobRule(job'[p], row)
           /\ \/ job'[p] = job[p] /\ job[p].pc \in {"idle", "end", "gone"}
              \/ job'[p] = [IdleJob EXCEPT !.pc = "gone"]
<1> DEFINE g == [IdleJob EXCEPT !.pc = "gone"]
<1>1. g \in Jobs /\ \A row : JobRule(g, row)
  BY NoneApart, NoObjApart DEF IdleJob, Jobs, JobRule
<1>2. job' = [q \in Push |-> IF q \in Dispatching THEN g ELSE job[q]]
  BY DEF Restart
<1>3. \A q \in Push : q \notin Dispatching <=> job[q].pc \in {"idle", "end", "gone"}
  BY DEF Dispatching
<1>4. p \notin Dispatching => \A row : JobRule(job[p], row)
  BY <1>3, JobFacts DEF JobRule
<1> HIDE DEF g
<1>5. job' \in [Push -> Jobs]
  BY <1>1, <1>2 DEF TypeInv, JobOK
<1>6. job'[p] = IF p \in Dispatching THEN g ELSE job[p]
  BY <1>2
<1> QED
  BY <1>1, <1>3, <1>4, <1>5, <1>6 DEF g

\* A restart keeps the types.
LEMMA RestartType ==
    ASSUME TypeInv, UNCHANGED scene, Restart
    PROVE  TypeInv'
<1>1. RowsOK'
  BY NoObjApart DEF TypeInv, RowsOK, Restart
<1>2. BindingOK' /\ ReportOK' /\ QueueOK' /\ LinkOK'
  BY DEF BindingOK, ReportOK, QueueOK, LinkOK, Restart
<1>3. IdleHandler \in Handlers /\ IdleHandler.pc = "idle"
  BY NoObjApart DEF IdleHandler, NoMsg, NoAck, Ack, Msg, NoResponse, Handlers, Msgs, Acks, Responses
<1>4. HandOK'
  BY <1>3 DEF HandOK, Restart
<1>5. WireOK'
  BY OpAMPAssumption DEF WireOK, Restart
<1>6. JobOK'
  <2>1. CASE Push = {}
    BY <2>1 DEF Restart, JobOK
  <2>2. CASE Push # {}
    BY <2>2, RestartJobs DEF JobOK
  <2> QED
    BY <2>1, <2>2
<1>7. faults' \in Nat
  BY FaultStep DEF Restart
<1> QED
  BY <1>1, <1>2, <1>4, <1>5, <1>6, <1>7 DEF TypeInv, Restart, history, AgentOK, CountOK

\* Every step keeps the types.
LEMMA TypeNext == TypeInv /\ [Next]_vars => TypeInv'
<1> SUFFICES ASSUME TypeInv, [Next]_vars
             PROVE  TypeInv'
  OBVIOUS
<1>1. CASE UNCHANGED vars
  BY <1>1 DEF vars, state, memory, history, TypeInv, RowsOK, BindingOK, ReportOK, QueueOK, HandOK,
     LinkOK, WireOK, AgentOK, JobOK, CountOK
<1>2. CASE Next
  <2>1. UNCHANGED scene
    BY <1>2 DEF Next
  <2>2. ASSUME NEW k \in Conn, OnMessage(k) \/ Handle(k) \/ Connect(k) \/ Receive(k) \/ Drop(k)
        PROVE  TypeInv'
    BY <2>1, <2>2, OnMessageType, BackfillType, ParseMessageType, BindConnectionType,
       RecordReportType, TakePendingType, SendResponseType, NoticeCloseType, UidForConnType,
       RemoveType, ConnectType, ReceiveType, DropType, Zenon DEF Handle
  <2>3. ASSUME NEW p \in Push, Dispatch(p)
        PROVE  TypeInv'
    BY <2>1, <2>3, ReadOnlineType, LookupConnType, SendConfigType, ConfirmType, ConfirmTimeoutType,
       GetPointerType, UpsertIntentType, ReadRowType, WriteRowType, Zenon DEF Dispatch
  <2>4. ASSUME NEW u \in Agent, Silence(u) \/ Stop(u)
        PROVE  TypeInv'
    BY <2>1, <2>4, SilenceType, StopType
  <2> QED
    BY <1>2, <2>1, <2>2, <2>3, <2>4, MarkOfflineType, RestartType, Zenon DEF Next
<1> QED
  BY <1>1, <1>2

\* The types of the registry, the store, the handlers and the dispatches are kept.
THEOREM TypeInvariance == Spec => []TypeInv
<1> QED
  BY TypeInit, TypeNext, PTL DEF Spec

\* Every variable has its type.
THEOREM TypeCorrect == Spec => []TypeOK
<1>1. TypeInv => TypeOK
  <2> SUFFICES ASSUME TypeInv
               PROVE  TypeOK
    OBVIOUS
  <2> USE NoneApart
  <2>1. \A o \in Rows : ObjOK(o)
    BY DEF ObjOK, Rows, Objs
  <2>2. ASSUME NEW u \in Agent
        PROVE  /\ ObjOK(reg[u]) /\ ObjOK(db[u])
               /\ conns[u] \in {k \in Conn : AgentOf[k] = u} \cup {None}
               /\ {repHash[u], repEff[u]} \subseteq Config \cup {None}
               /\ pending[u] \in {p \in Push : PushTo[p] = u} \cup {None}
    BY <2>1 DEF TypeInv, RowsOK, BindingOK, ReportOK, QueueOK
  <2>3. ASSUME NEW k \in Conn
        PROVE  /\ hand[k].pc \in {"idle", "fill", "parse", "upsert", "record",
                                  "take", "reply", "close", "remove"}
               /\ ObjOK(hand[k].obj)
               /\ link[k] \in {"up", "cut", "down"}
               /\ Len(wire[k]) <= MaxWire
    BY <2>1 DEF TypeInv, HandOK, Handlers, LinkOK, WireOK
  <2>4. \A p \in Push : ObjOK(job[p].obj)
    BY <2>1 DEF TypeInv, JobOK, Jobs
  <2> QED
    BY <2>2, <2>3, <2>4 DEF TypeInv, ReportOK, TypeOK
<1> QED
  BY <1>1, TypeInvariance, PTL

-----------------------------------------------------------------------------
(* A bound connection is open.                                              *)

\* The close callback has not finished for a connection that is bound, or whose
\* handler is under way.
BoundInv ==
    /\ \A u \in Agent : conns[u] # None => link[conns[u]] # "down"
    /\ \A k \in Conn : hand[k].pc # "idle" => link[k] # "down"

\* A handler under way goes on or ends; nothing is bound or closed.
LEMMA BoundFrame ==
    ASSUME TypeInv, BoundInv, UNCHANGED <<conns, link>>,
           \A k \in Conn : hand'[k].pc # "idle" => hand[k].pc # "idle" \/ link[k] # "down"
    PROVE  BoundInv'
BY DEF BoundInv

\* A connection whose handler ends is unbound and closed.
LEMMA BoundGone ==
    ASSUME TypeInv, BoundInv, NEW k \in Conn, Gone(k),
           \A u \in Agent : conns'[u] \in {conns[u], None} /\ conns'[u] # k
    PROVE  BoundInv'
<1>1. ASSUME NEW j \in Conn, j # k
      PROVE  hand'[j] = hand[j] /\ link'[j] = link[j]
  BY <1>1 DEF Gone, TypeInv, HandOK, LinkOK
<1>2. hand'[k].pc = "idle"
  BY DEF Gone, TypeInv, HandOK, IdleHandler
<1>3. ASSUME NEW u \in Agent, conns'[u] # None
      PROVE  link'[conns'[u]] # "down"
  BY <1>1, <1>3 DEF TypeInv, BindingOK, BoundInv
<1> QED
  BY <1>1, <1>2, <1>3 DEF BoundInv

\* Every step keeps bound connections open.
LEMMA BoundNext == TypeInv /\ BoundInv /\ [Next]_vars => BoundInv'
<1> SUFFICES ASSUME TypeInv, BoundInv, [Next]_vars
             PROVE  BoundInv'
  OBVIOUS
<1>1. CASE UNCHANGED vars
  BY <1>1 DEF vars, state, memory, BoundInv
<1>2. ASSUME NEW k \in Conn, OnMessage(k)
      PROVE  BoundInv'
  <2>1. PICK pc, obj : Read(k, pc, obj)
    BY <1>2 DEF OnMessage
  <2>2. PICK h : hand' = [hand EXCEPT ![k] = h]
    BY <2>1, Zenon DEF Read
  <2>3. link[k] = "up" /\ UNCHANGED <<conns, link>>
    BY <2>1 DEF Read, memory
  <2> QED
    BY <2>2, <2>3, BoundFrame DEF TypeInv, HandOK
<1>3. ASSUME NEW k \in Conn, \/ Backfill(k) \/ ParseMessage(k) \/ RecordReport(k) \/ TakePending(k)
                             \/ SendResponse(k) \/ NoticeClose(k)
      PROVE  BoundInv'
  <2>1. UNCHANGED <<conns, link>>
    BY <1>3 DEF Backfill, ParseMessage, RecordReport, TakePending, SendResponse, NoticeClose, memory
  <2>2. \E h : hand' = [hand EXCEPT ![k] = h]
    BY <1>3 DEF Backfill, ParseMessage, RecordReport, TakePending, SendResponse, NoticeClose
  <2>3. hand[k].pc # "idle" \/ link[k] # "down"
    BY <1>3 DEF Backfill, ParseMessage, RecordReport, TakePending, SendResponse, NoticeClose
  <2> QED
    BY <2>1, <2>2, <2>3, BoundFrame DEF TypeInv, HandOK
<1>4. ASSUME NEW k \in Conn, BindConnection(k)
      PROVE  BoundInv'
  <2>1. link[k] # "down"
    BY <1>4 DEF BindConnection, BoundInv
  <2>2. conns' = [conns EXCEPT ![AgentOf[k]] = k] /\ UNCHANGED link
    BY <1>4 DEF BindConnection
  <2>3. \A j \in Conn : hand'[j].pc # "idle" => link[j] # "down"
    BY <1>4, <2>1 DEF BindConnection, BoundInv, TypeInv, HandOK
  <2> QED
    BY <2>1, <2>2, <2>3 DEF BoundInv, TypeInv, BindingOK
<1>5. ASSUME NEW k \in Conn, UidForConn(k)
      PROVE  BoundInv'
  <2>1. UNCHANGED conns
    BY <1>5 DEF UidForConn, memory
  <2>2. CASE conns[AgentOf[k]] = k
    <3>1. UNCHANGED <<conns, link>> /\ hand' = [hand EXCEPT ![k].pc = "remove"]
      BY <1>5, <2>1, <2>2 DEF UidForConn
    <3>2. hand[k].pc # "idle"
      BY <1>5 DEF UidForConn
    <3> QED
      BY <3>1, <3>2, BoundFrame DEF TypeInv, HandOK
  <2>3. CASE conns[AgentOf[k]] # k
    <3>1. \A u \in Agent : conns[u] # k
      BY <2>3, NoneApart DEF TypeInv, BindingOK
    <3>2. Gone(k)
      BY <1>5, <2>3 DEF UidForConn
    <3> QED
      BY <2>1, <3>1, <3>2, BoundGone
  <2> QED
    BY <2>2, <2>3
<1>6. ASSUME NEW k \in Conn, Remove(k)
      PROVE  BoundInv'
  <2>1. conns' = [conns EXCEPT ![AgentOf[k]] = None] /\ Gone(k)
    BY <1>6 DEF Remove
  <2>2. \A u \in Agent : conns'[u] \in {conns[u], None} /\ conns'[u] # k
    BY <2>1, NoneApart DEF TypeInv, BindingOK
  <2> QED
    BY <2>1, <2>2, BoundGone
<1>7. ASSUME UNCHANGED <<conns, hand>>, link' \in [Conn -> {"up", "cut", "down"}],
             \A k \in Conn : link[k] # "down" => link'[k] # "down"
      PROVE  BoundInv'
  BY <1>7 DEF TypeInv, BindingOK, BoundInv
<1>8. ASSUME NEW k \in Conn, Connect(k) \/ Receive(k) \/ Drop(k)
      PROVE  BoundInv'
  <2>1. UNCHANGED <<conns, hand>>
    BY <1>8 DEF Connect, Receive, Drop, memory
  <2>2. /\ link' \in [Conn -> {"up", "cut", "down"}]
        /\ \A j \in Conn : link[j] # "down" => link'[j] # "down"
    BY <1>8 DEF Connect, Receive, Drop, TypeInv, LinkOK
  <2> QED
    BY <1>7, <2>1, <2>2
<1>9. ASSUME NEW u \in Agent, Silence(u) \/ Stop(u)
      PROVE  BoundInv'
  <2>1. UNCHANGED <<conns, hand>>
    BY <1>9 DEF Silence, Stop, memory
  <2>2. /\ link' \in [Conn -> {"up", "cut", "down"}]
        /\ \A j \in Conn : link[j] # "down" => link'[j] # "down"
    BY <1>9 DEF Silence, Stop, TypeInv, LinkOK
  <2> QED
    BY <1>7, <2>1, <2>2
<1>10. ASSUME NEW p \in Push, Dispatch(p)
       PROVE  BoundInv'
  <2>1. UNCHANGED <<conns, link, hand>>
    BY <1>10 DEF Dispatch, memory, ReadOnline, LookupConn, SendConfig, Confirm, ConfirmTimeout,
       GetPointer, UpsertIntent, ReadRow, WriteRow
  <2> QED
    BY <2>1 DEF BoundInv
<1>11. CASE MarkOffline
  BY <1>11 DEF MarkOffline, BoundInv
<1>12. CASE Restart
  BY <1>12 DEF Restart, BoundInv, IdleHandler
<1> QED
  BY <1>1, <1>2, <1>3, <1>4, <1>5, <1>6, <1>8, <1>9, <1>10, <1>11, <1>12, Zenon DEF Next, Handle

\* The registry never keeps a connection whose close callback has finished: Remove
\* unbinds by collector, and what it unbinds is never a dead connection left over
\* (onConnectionClose, server.go).
THEOREM DeadNotBound == Spec => []NoDeadBinding
<1>1. Init => BoundInv
  BY DEF Init, BoundInv, IdleHandler
<1>2. BoundInv => NoDeadBinding
  BY DEF BoundInv, NoDeadBinding
<1> QED
  BY <1>1, <1>2, BoundNext, TypeInvariance, PTL DEF Spec

-----------------------------------------------------------------------------
(* Confirmation.  Whatever the server was told about a configuration, by a  *)
(* report or an acknowledgement, was run by the agent.                      *)

Claim(configs, ack, eff) ==
    /\ ack.status = "applied" => ack.of \in configs
    /\ eff # None => eff \in configs

AgentHonest == \A u \in Agent : Claim(ran[u], agent[u].ack, agent[u].running)

ReportHonest ==
    \A u \in Agent : Claim(ran[u], NoAck, repHash[u]) /\ Claim(ran[u], NoAck, repEff[u])

MessageHonest ==
    \A k \in Conn : Claim(ran[AgentOf[k]], hand[k].msg.ack, hand[k].msg.eff)

\* A dispatch that has not begun has not been confirmed.
ConfirmHonest ==
    /\ ConfirmedWasRun
    /\ \A p \in Push : job[p].pc = "idle" => ~job[p].confirmed

RanInv == AgentHonest /\ ReportHonest /\ MessageHonest /\ ConfirmHonest

\* What an agent has run it has run for ever.
RanGrows == \A u \in Agent : ran[u] \subseteq ran'[u]

\* Saying nothing claims nothing.
LEMMA NoClaim == \A r : Claim(r, NoAck, None) /\ Claim(r, NoMsg.ack, NoMsg.eff)
BY DEF Claim, NoAck, Ack, NoMsg, Msg

\* An agent that keeps its configuration, and its acknowledgement or none, stays
\* honest.
LEMMA AgentFrame ==
    ASSUME AgentHonest, RanGrows,
           \A u \in Agent : /\ agent'[u].ack \in {agent[u].ack, NoAck}
                            /\ agent'[u].running = agent[u].running
    PROVE  AgentHonest'
BY NoClaim DEF AgentHonest, RanGrows, Claim

\* Reports that are kept or forgotten stay honest.
LEMMA ReportFrame ==
    ASSUME ReportHonest, RanGrows,
           \A u \in Agent : repHash'[u] \in {repHash[u], None} /\ repEff'[u] \in {repEff[u], None}
    PROVE  ReportHonest'
BY NoClaim DEF ReportHonest, RanGrows, Claim

\* Messages that are kept or forgotten stay honest.
LEMMA MessageFrame ==
    ASSUME MessageHonest, RanGrows, \A k \in Conn : hand'[k].msg \in {hand[k].msg, NoMsg}
    PROVE  MessageHonest'
BY NoClaim, NoneApart DEF MessageHonest, RanGrows, Claim

\* Dispatches that keep what they know of a confirmation stay honest.
LEMMA ConfirmFrame ==
    ASSUME ConfirmHonest, RanGrows,
           \A p \in Push : \/ ~job'[p].confirmed
                           \/ /\ job'[p].online = job[p].online
                              /\ job'[p].confirmed = job[p].confirmed
                              /\ job'[p].pc = "idle" => job[p].pc = "idle"
    PROVE  ConfirmHonest'
BY NoneApart DEF ConfirmHonest, ConfirmedWasRun, RanGrows

\* A message tells what the agent owes.
LEMMA RanRead ==
    ASSUME TypeInv, RanInv, NEW k \in Conn, NEW pc, NEW obj, Read(k, pc, obj)
    PROVE  RanInv'
<1> DEFINE u == AgentOf[k]
<1>1. u \in Agent /\ UNCHANGED <<ran, job, repHash, repEff>>
  BY NoneApart DEF Read, memory, history
<1>2. RanGrows
  BY <1>1 DEF RanGrows
<1>3. agent' = [agent EXCEPT ![u].owes = "nothing", ![u].ack = NoAck]
  BY DEF Read
<1>4. AgentHonest'
  BY <1>1, <1>2, <1>3, AgentFrame DEF RanInv, TypeInv, AgentOK
<1>5. PICK m \in Reports(u) :
         hand' = [hand EXCEPT ![k] = [IdleHandler EXCEPT !.pc = pc, !.msg = m, !.obj = obj]]
  BY Zenon DEF Read
<1>6. Claim(ran[u], m.ack, m.eff)
  <2>1. CASE m.ack = agent[u].ack
    BY <1>1, <1>5, <2>1, ReportsType DEF RanInv, AgentHonest, Claim
  <2>2. CASE m = NoMsg
    BY <2>2, NoClaim
  <2> QED
    BY <1>1, <1>5, <2>1, <2>2, ReportsType
<1>7. MessageHonest'
  <2>1. hand'[k].msg = m
    BY <1>5 DEF IdleHandler, TypeInv, HandOK
  <2>2. \A j \in Conn : j # k => hand'[j] = hand[j]
    BY <1>5 DEF TypeInv, HandOK
  <2> QED
    BY <1>1, <1>6, <2>1, <2>2 DEF RanInv, MessageHonest
<1>8. ConfirmHonest'
  BY <1>1, <1>2, ConfirmFrame DEF RanInv
<1> QED
  BY <1>1, <1>2, <1>4, <1>7, <1>8, ReportFrame DEF RanInv

\* The setters record what the message claims.
LEMMA RanRecord ==
    ASSUME TypeInv, RanInv, NEW k \in Conn, RecordReport(k)
    PROVE  RanInv'
<1> DEFINE u == AgentOf[k]
           m == hand[k].msg
<1>1. u \in Agent /\ UNCHANGED <<ran, job, agent>>
  BY NoneApart DEF RecordReport, history
<1>2. RanGrows
  BY <1>1 DEF RanGrows
<1>3. Claim(ran[u], m.ack, m.eff)
  BY DEF RanInv, MessageHonest
<1>4. ASSUME NEW v \in Agent
      PROVE  Claim(ran[v], NoAck, repHash'[v]) /\ Claim(ran[v], NoAck, repEff'[v])
  <2>1. Claim(ran[v], NoAck, repHash[v]) /\ Claim(ran[v], NoAck, repEff[v])
    BY DEF RanInv, ReportHonest
  <2>2. CASE v = u
    <3>1. \/ repHash'[v] = None
          \/ repHash'[v] = m.ack.of /\ m.ack.status = "applied"
          \/ repHash'[v] = repHash[v]
      BY <2>2 DEF RecordReport, TypeInv, ReportOK
    <3>2. \/ repEff'[v] = m.eff
          \/ repEff'[v] = repEff[v]
      BY <2>2 DEF RecordReport, TypeInv, ReportOK
    <3> HIDE DEF m
    <3> QED
      BY <1>3, <2>1, <2>2, <3>1, <3>2 DEF Claim
  <2>3. CASE v # u
    BY <2>1, <2>3 DEF RecordReport, TypeInv, ReportOK
  <2> QED
    BY <2>2, <2>3
<1>5. ReportHonest'
  BY <1>1, <1>4 DEF ReportHonest
<1>6. MessageHonest'
  <2>1. \A j \in Conn : hand'[j].msg \in {hand[j].msg, NoMsg}
    BY DEF RecordReport, TypeInv, HandOK, Handlers
  <2> QED
    BY <1>2, <2>1, MessageFrame DEF RanInv
<1> QED
  BY <1>1, <1>2, <1>5, <1>6, AgentFrame, ConfirmFrame DEF RanInv

\* A confirmation rests on what was recorded.
LEMMA RanConfirm ==
    ASSUME TypeInv, RanInv, NEW p \in Push, Confirm(p)
    PROVE  RanInv'
<1> DEFINE u == PushTo[p]
<1>1. u \in Agent /\ PushYaml[p] \in Config
  BY NoneApart
<1>2. UNCHANGED <<ran, agent, repHash, repEff, hand>>
  BY DEF Confirm, memory, history
<1>3. AgentHonest' /\ ReportHonest' /\ MessageHonest'
  BY <1>2 DEF RanInv, AgentHonest, ReportHonest, MessageHonest
<1>4. job[p].online => ran[u] \cap Covers[PushYaml[p]] # {}
  <2>1. CASE repHash[u] = PushYaml[p]
    BY <1>1, <2>1, NoneApart, OpAMPAssumption DEF RanInv, ReportHonest, Claim
  <2>2. CASE repEff[u] \in Covers[PushYaml[p]]
    BY <1>1, <2>2, NoneApart, OpAMPAssumption DEF RanInv, ReportHonest, Claim
  <2> QED
    BY <2>1, <2>2 DEF Confirm
<1>5. /\ job'[p].online = job[p].online /\ job'[p].pc = "get"
      /\ \A q \in Push : q # p => job'[q] = job[q]
  BY JobFacts DEF Confirm, TypeInv, JobOK, Jobs
<1>6. ConfirmedWasRun'
  BY <1>2, <1>4, <1>5 DEF RanInv, ConfirmHonest, ConfirmedWasRun
<1>7. ConfirmHonest'
  BY <1>5, <1>6 DEF RanInv, ConfirmHonest
<1> QED
  BY <1>3, <1>7 DEF RanInv

\* What an agent applies, it runs.
LEMMA RanReceive ==
    ASSUME TypeInv, RanInv, NEW k \in Conn, Receive(k)
    PROVE  RanInv'
<1> DEFINE u == AgentOf[k]
           p == Head(wire[k]).config
<1>1. UNCHANGED <<job, repHash, repEff, hand>>
  BY DEF Receive, memory
<1>2. u \in Agent
  BY NoneApart
<1>3. RanGrows /\ AgentHonest'
  <2>1. CASE Applies(k)
    <3>1. ran' = [ran EXCEPT ![u] = @ \cup {PushYaml[p]}]
      BY <2>1 DEF Applies
    <3>2. RanGrows /\ PushYaml[p] \in ran'[u] /\ \A v \in Agent : v # u => ran'[v] = ran[v]
      BY <1>2, <3>1 DEF RanGrows, TypeInv, CountOK
    <3>3. /\ agent'[u].running = PushYaml[p] /\ agent'[u].ack.of = PushYaml[p]
          /\ \A v \in Agent : v # u => agent'[v] = agent[v]
      BY <1>2, <2>1 DEF Applies, Ack, TypeInv, AgentOK
    <3> HIDE DEF u, p
    <3> QED
      BY <3>2, <3>3 DEF RanInv, AgentHonest, Claim
  <2>2. CASE Rejects(k)
    <3>1. UNCHANGED ran
      BY <2>2 DEF Rejects
    <3>2. PICK owed \in {"full", "ack"} :
             agent' = [agent EXCEPT ![u] = [@ EXCEPT !.owes = owed,
                                                     !.ack = Ack("failed", PushYaml[p])]]
      BY <2>2, Zenon DEF Rejects
    <3>3. /\ agent'[u].running = agent[u].running /\ agent'[u].ack.status = "failed"
          /\ \A v \in Agent : v # u => agent'[v] = agent[v]
      BY <1>2, <3>2 DEF Ack, TypeInv, AgentOK, Agents
    <3> HIDE DEF u, p
    <3> QED
      BY <3>1, <3>3 DEF RanInv, RanGrows, AgentHonest, Claim
  <2>3. CASE Resends(k)
    <3>1. UNCHANGED ran /\ agent' = [agent EXCEPT ![u].owes = "full"]
      BY <2>3 DEF Resends
    <3>2. RanGrows
      BY <3>1 DEF RanGrows
    <3> QED
      BY <3>1, <3>2, AgentFrame DEF RanInv, TypeInv, AgentOK, Agents
  <2> QED
    BY <2>1, <2>2, <2>3, ReceiveCases
<1> QED
  BY <1>1, <1>3, ReportFrame, MessageFrame, ConfirmFrame DEF RanInv

\* The other steps make no new claim.
LEMMA RanFrame ==
    ASSUME TypeInv, RanInv, UNCHANGED ran,
           \A u \in Agent : /\ agent'[u].ack = agent[u].ack
                            /\ agent'[u].running = agent[u].running,
           \A u \in Agent : repHash'[u] \in {repHash[u], None} /\ repEff'[u] \in {repEff[u], None},
           \A k \in Conn : hand'[k].msg \in {hand[k].msg, NoMsg},
           \A p \in Push : \/ ~job'[p].confirmed
                           \/ /\ job'[p].online = job[p].online
                              /\ job'[p].confirmed = job[p].confirmed
                              /\ job'[p].pc = "idle" => job[p].pc = "idle"
    PROVE  RanInv'
BY AgentFrame, ReportFrame, MessageFrame, ConfirmFrame DEF RanInv, RanGrows

\* Every step keeps the claims honest.
LEMMA RanNext == TypeInv /\ RanInv /\ [Next]_vars => RanInv'
<1> SUFFICES ASSUME TypeInv, RanInv, [Next]_vars
             PROVE  RanInv'
  OBVIOUS
<1>1. CASE UNCHANGED vars
  BY <1>1, RanFrame DEF vars, state, memory, history
<1>2. ASSUME NEW k \in Conn, OnMessage(k)
      PROVE  RanInv'
  BY <1>2, RanRead DEF OnMessage
<1>3. ASSUME NEW k \in Conn, Backfill(k) \/ BindConnection(k)
      PROVE  RanInv'
  <2>1. UNCHANGED <<ran, agent, repHash, repEff>>
    BY <1>3 DEF Backfill, BindConnection, history
  <2>2. \A j \in Conn : hand'[j].msg = hand[j].msg
    BY <1>3 DEF Backfill, BindConnection, TypeInv, HandOK, Handlers
  <2>3. job' = Detach(AgentOf[k], job)
    BY <1>3 DEF Backfill, BindConnection
  <2>4. \A q \in Push : /\ job'[q].online = job[q].online
                        /\ job'[q].confirmed = job[q].confirmed
                        /\ job'[q].pc = job[q].pc
    BY <2>3, DetachFacts, NoneApart DEF TypeInv, JobOK, RowsOK
  <2> QED
    BY <2>1, <2>2, <2>4, RanFrame
<1>4. ASSUME NEW k \in Conn, \/ ParseMessage(k) \/ TakePending(k) \/ SendResponse(k)
                             \/ NoticeClose(k) \/ UidForConn(k)
      PROVE  RanInv'
  <2>1. UNCHANGED <<ran, agent, repHash, repEff, job>>
    BY <1>4 DEF ParseMessage, TakePending, SendResponse, NoticeClose, UidForConn, memory, history
  <2>2. \A j \in Conn : hand'[j].msg \in {hand[j].msg, NoMsg}
    <3>1. CASE ParseMessage(k)
      <4> DEFINE o == FromMessage(reg[AgentOf[k]], hand[k].msg)
      <4>1. hand' = [hand EXCEPT ![k].pc = "upsert", ![k].obj = o]
        BY <3>1 DEF ParseMessage
      <4> HIDE DEF o
      <4> QED
        BY <4>1 DEF TypeInv, HandOK, Handlers
    <3>2. CASE TakePending(k)
      <4> DEFINE r == [config |-> pending[AgentOf[k]],
                       full |-> repEff[AgentOf[k]] = None \/ ~hand[k].obj.meta]
      <4>1. hand' = [hand EXCEPT ![k].pc = "reply", ![k].resp = r]
        BY <3>2 DEF TakePending
      <4> HIDE DEF r
      <4> QED
        BY <4>1 DEF TypeInv, HandOK, Handlers
    <3>3. CASE SendResponse(k) \/ NoticeClose(k) \/ UidForConn(k)
      BY <3>3 DEF SendResponse, NoticeClose, UidForConn, Gone, IdleHandler, TypeInv, HandOK,
         Handlers
    <3> QED
      BY <1>4, <3>1, <3>2, <3>3
  <2> QED
    BY <2>1, <2>2, RanFrame
<1>5. ASSUME NEW k \in Conn, Remove(k)
      PROVE  RanInv'
  <2>1. UNCHANGED <<ran, agent, job>>
    BY <1>5 DEF Remove, history
  <2>2. \A u \in Agent : repHash'[u] \in {repHash[u], None} /\ repEff'[u] \in {repEff[u], None}
    BY <1>5 DEF Remove, TypeInv, ReportOK
  <2>3. \A j \in Conn : hand'[j].msg \in {hand[j].msg, NoMsg}
    BY <1>5 DEF Remove, Gone, IdleHandler, TypeInv, HandOK, Handlers
  <2> QED
    BY <2>1, <2>2, <2>3, RanFrame
<1>6. ASSUME NEW k \in Conn, Connect(k) \/ Drop(k)
      PROVE  RanInv'
  BY <1>6, RanFrame DEF Connect, Drop, memory, history
<1>7. ASSUME NEW p \in Push, Dispatch(p), ~Confirm(p)
      PROVE  RanInv'
  <2>1. UNCHANGED <<ran, agent, repHash, repEff, hand>>
    BY <1>7 DEF Dispatch, memory, history, ReadOnline, LookupConn, SendConfig, ConfirmTimeout,
       GetPointer, UpsertIntent, ReadRow, WriteRow
  <2>2. \A q \in Push : \/ ~job'[q].confirmed
                        \/ /\ job'[q].online = job[q].online
                           /\ job'[q].confirmed = job[q].confirmed
                           /\ job'[q].pc = "idle" => job[q].pc = "idle"
    BY <1>7, JobChanges DEF RanInv, ConfirmHonest
  <2> QED
    BY <2>1, <2>2, RanFrame
<1>8. ASSUME NEW u \in Agent, Silence(u)
      PROVE  RanInv'
  BY <1>8, RanFrame DEF Silence, history
<1>9. ASSUME NEW u \in Agent, Stop(u)
      PROVE  RanInv'
  <2>1. UNCHANGED <<ran, repHash, repEff, hand, job>>
    BY <1>9 DEF Stop, memory, history
  <2>2. \A v \in Agent : agent'[v].ack = agent[v].ack /\ agent'[v].running = agent[v].running
    BY <1>9 DEF Stop, TypeInv, AgentOK, Agents
  <2> QED
    BY <2>1, <2>2, RanFrame
<1>10. CASE MarkOffline
  BY <1>10, RanFrame DEF MarkOffline, history
<1>11. CASE Restart
  <2>1. UNCHANGED <<ran, agent>>
    BY <1>11 DEF Restart, history
  <2>2. \A u \in Agent : repHash'[u] = None /\ repEff'[u] = None
    BY <1>11 DEF Restart
  <2>3. \A k \in Conn : hand'[k].msg = NoMsg
    BY <1>11 DEF Restart, IdleHandler
  <2>4. \A p \in Push : \/ ~job'[p].confirmed
                        \/ job'[p] = job[p]
    BY <1>11, RestartJobs DEF IdleJob
  <2> QED
    BY <2>1, <2>2, <2>3, <2>4, RanFrame
<1> QED
  BY <1>1, <1>2, <1>3, <1>4, <1>5, <1>6, <1>7, <1>8, <1>9, <1>10, <1>11, RanRecord, RanConfirm,
     RanReceive, Zenon DEF Next, Handle, Dispatch

\* Nothing has been claimed at the start.
LEMMA RanInit == Init => RanInv
<1> SUFFICES ASSUME Init
             PROVE  RanInv
  OBVIOUS
<1>1. AgentHonest
  BY DEF Init, AgentHonest, Claim, NoAck, Ack
<1>2. ReportHonest
  BY NoClaim DEF Init, ReportHonest
<1>3. MessageHonest
  BY NoClaim DEF Init, MessageHonest, IdleHandler
<1>4. ConfirmHonest
  BY DEF Init, ConfirmHonest, ConfirmedWasRun, IdleJob
<1> QED
  BY <1>1, <1>2, <1>3, <1>4 DEF RanInv

\* A confirmed dispatch is evidence: the collector has run a configuration that
\* covers the pushed one, however messages, acknowledgements, restarts and other
\* dispatches interleave (waitConfirm; F-9).
THEOREM ConfirmationHolds == Spec => []ConfirmedWasRun
<1>1. RanInv => ConfirmedWasRun
  BY DEF RanInv, ConfirmHonest
<1> QED
  BY <1>1, RanInit, RanNext, TypeInvariance, PTL DEF Spec

-----------------------------------------------------------------------------
(* Delivery.  A dispatch is in one place at a time: with its goroutine, in  *)
(* the queue, in the response of one handler, on one wire, or delivered.    *)

Held(p) == job[p].pc \in {"idle", "lookup", "send"}
Queued(p) == pending[PushTo[p]] = p
Answering(k, p) == hand[k].resp.config = p
OnWire(k, i, p) == i \in DOMAIN wire[k] /\ wire[k][i].config = p

\* Neither in a response nor on a wire.
OffWire(p) ==
    /\ \A k \in Conn : ~Answering(k, p)
    /\ \A k \in Conn : \A i : ~OnWire(k, i, p)

OnePlace(p) ==
    /\ delivered[p] \in {0, 1}
    /\ Held(p) => delivered[p] = 0 /\ ~Queued(p) /\ OffWire(p)
    /\ Queued(p) => delivered[p] = 0 /\ OffWire(p)
    /\ \A k \in Conn : Answering(k, p) =>
          /\ delivered[p] = 0
          /\ \A j \in Conn : Answering(j, p) => j = k
          /\ \A j \in Conn : \A i : ~OnWire(j, i, p)
    /\ \A k \in Conn : \A i : OnWire(k, i, p) =>
          /\ delivered[p] = 0
          /\ \A j \in Conn : \A h : OnWire(j, h, p) => j = k /\ h = i

OnceInv == \A p \in Push : OnePlace(p)

\* A dispatch that is not moved stays in its place or is lost; the messages of a
\* wire may move up.
LEMMA PlaceFrame ==
    ASSUME NEW p \in Push, OnePlace(p), WireOK', NEW d \in [Conn -> {0, 1}],
           delivered'[p] = delivered[p],
           Held(p)' => Held(p),
           Queued(p)' => Queued(p),
           \A k \in Conn : Answering(k, p)' => Answering(k, p),
           \A k \in Conn : \A i : OnWire(k, i, p)' => OnWire(k, i + d[k], p)
    PROVE  OnePlace(p)'
<1>1. \A k \in Conn : \A i : OnWire(k, i, p)' => i \in Nat
  BY DEF WireOK, OnWire
<1>2. OffWire(p) => OffWire(p)'
  BY DEF OffWire
<1>3. ASSUME NEW k \in Conn, NEW i, OnWire(k, i, p)', NEW j \in Conn, NEW h, OnWire(j, h, p)'
      PROVE  j = k /\ h = i
  <2>1. OnWire(k, i + d[k], p) /\ OnWire(j, h + d[j], p) /\ i \in Nat /\ h \in Nat
    BY <1>1, <1>3
  <2>2. j = k /\ h + d[j] = i + d[k]
    BY <2>1 DEF OnePlace
  <2>3. d[k] \in {0, 1}
    OBVIOUS
  <2> QED
    BY <2>1, <2>2, <2>3
<1> QED
  BY <1>2, <1>3 DEF OnePlace

\* Nothing reaches a queue, a handler, a wire or an agent.
LEMMA OnceFrame ==
    ASSUME OnceInv, WireOK, WireOK', UNCHANGED delivered,
           \A p \in Push : Held(p)' => Held(p),
           \A u \in Agent : pending'[u] \in {pending[u], None},
           \A k \in Conn : hand'[k].resp.config \in {hand[k].resp.config, None},
           \A k \in Conn : wire'[k] \in {wire[k], <<>>}
    PROVE  OnceInv'
<1> SUFFICES ASSUME NEW p \in Push
             PROVE  OnePlace(p)'
  BY DEF OnceInv
<1> DEFINE d == [k \in Conn |-> 0]
<1>1. PushTo[p] \in Agent /\ p # None
  BY NoneApart
<1>2. Queued(p)' => Queued(p)
  BY <1>1 DEF Queued
<1>3. \A k \in Conn : Answering(k, p)' => Answering(k, p)
  BY <1>1 DEF Answering
<1>4. \A k \in Conn : \A i : OnWire(k, i, p)' => OnWire(k, i, p) /\ i \in Nat
  BY DEF OnWire, WireOK
<1>5. \A k \in Conn : \A i : OnWire(k, i, p)' => OnWire(k, i + d[k], p)
  BY <1>4
<1>6. d \in [Conn -> {0, 1}]
  OBVIOUS
<1> HIDE DEF d
<1> QED
  BY <1>2, <1>3, <1>5, <1>6, PlaceFrame DEF OnceInv

\* From the queue into a response.
LEMMA OnceTake ==
    ASSUME TypeInv, OnceInv, TypeInv', NEW k \in Conn, TakePending(k)
    PROVE  OnceInv'
<1> DEFINE u == AgentOf[k]
           p == pending[u]
           full == repEff[u] = None \/ ~hand[k].obj.meta
           r == [config |-> p, full |-> full]
<1>1. u \in Agent /\ UNCHANGED <<wire, job, delivered>>
  BY NoneApart DEF TakePending, history
<1>2. pending' = [pending EXCEPT ![u] = None]
  BY DEF TakePending
<1>3. hand'[k].resp.config = p /\ \A j \in Conn : j # k => hand'[j] = hand[j]
  <2>1. hand' = [hand EXCEPT ![k].pc = "reply", ![k].resp = r]
    BY DEF TakePending
  <2>2. r.config = p
    OBVIOUS
  <2> HIDE DEF r, p
  <2> QED
    BY <2>1, <2>2 DEF TypeInv, HandOK, Handlers
<1> SUFFICES ASSUME NEW q \in Push
             PROVE  OnePlace(q)'
  BY DEF OnceInv
<1>4. OnePlace(q)
  BY DEF OnceInv
<1>5. PushTo[q] \in Agent /\ q # None
  BY NoneApart
<1>6. \A j \in Conn : \A i : OnWire(j, i, q)' <=> OnWire(j, i, q)
  BY <1>1 DEF OnWire
<1>7. Held(q)' <=> Held(q)
  BY <1>1 DEF Held
<1>8. CASE q = p
  <2>1. PushTo[q] = u
    BY <1>1, <1>5, <1>8 DEF TypeInv, QueueOK
  <2>2. Queued(q) /\ ~Queued(q)'
    BY <1>1, <1>2, <1>5, <1>8, <2>1 DEF Queued, TypeInv, QueueOK
  <2>3. delivered'[q] = 0 /\ ~Held(q)' /\ \A j \in Conn : Answering(j, q)' => j = k
    BY <1>1, <1>3, <1>4, <1>7, <2>2 DEF OnePlace, OffWire, Answering
  <2>4. \A j \in Conn : \A i : ~OnWire(j, i, q)'
    BY <1>4, <1>6, <2>2 DEF OnePlace, OffWire
  <2> HIDE DEF p, u
  <2> QED
    BY <2>2, <2>3, <2>4 DEF OnePlace
<1>9. CASE q # p
  <2> DEFINE d == [j \in Conn |-> 0]
  <2>1. Queued(q)' => Queued(q)
    BY <1>1, <1>2, <1>5 DEF Queued, TypeInv, QueueOK
  <2>2. \A j \in Conn : Answering(j, q)' => Answering(j, q)
    BY <1>3, <1>9 DEF Answering
  <2>3. \A j \in Conn : \A i : OnWire(j, i, q)' => OnWire(j, i + d[j], q)
    BY <1>6 DEF OnWire, TypeInv, WireOK
  <2>4. d \in [Conn -> {0, 1}]
    OBVIOUS
  <2> HIDE DEF d, p, u
  <2> QED
    BY <1>1, <1>4, <1>7, <2>1, <2>2, <2>3, <2>4, PlaceFrame DEF TypeInv
<1> QED
  BY <1>8, <1>9

\* A message added to a wire is its last one.
LEMMA WireAppend ==
    ASSUME TypeInv, NEW k \in Conn, NEW r \in Responses, wire' = [wire EXCEPT ![k] = Append(@, r)]
    PROVE  \A j \in Conn : \A i : \A q :
              OnWire(j, i, q)' <=> \/ OnWire(j, i, q)
                                   \/ j = k /\ i = Len(wire[k]) + 1 /\ q = r.config
<1> SUFFICES ASSUME NEW j \in Conn, NEW i, NEW q
             PROVE  OnWire(j, i, q)' <=> \/ OnWire(j, i, q)
                                         \/ j = k /\ i = Len(wire[k]) + 1 /\ q = r.config
  OBVIOUS
<1> DEFINE s == wire[k]
<1>1. s \in Seq(Responses)
  BY DEF TypeInv, WireOK
<1>2. CASE j # k
  <2>1. wire'[j] = wire[j]
    BY <1>2 DEF TypeInv, WireOK
  <2> QED
    BY <1>2, <2>1 DEF OnWire
<1>3. CASE j = k
  <2>1. wire'[k] = Append(s, r)
    BY DEF TypeInv, WireOK
  <2> HIDE DEF s
  <2>2. /\ DOMAIN Append(s, r) = 1 .. Len(s) + 1
        /\ DOMAIN s = 1 .. Len(s) /\ Len(s) \in Nat
        /\ \A h \in 1 .. Len(s) : Append(s, r)[h] = s[h]
        /\ Append(s, r)[Len(s) + 1] = r
    BY <1>1
  <2>3. i \in DOMAIN Append(s, r) <=> i \in DOMAIN s \/ i = Len(s) + 1
    BY <2>2
  <2>4. OnWire(k, i, q)' <=> i \in DOMAIN Append(s, r) /\ Append(s, r)[i].config = q
    BY <2>1 DEF OnWire
  <2>5. OnWire(k, i, q) <=> i \in DOMAIN s /\ s[i].config = q
    BY DEF OnWire, s
  <2>6. Len(s) + 1 \notin DOMAIN s
    BY <2>2
  <2>7. OnWire(k, i, q)' <=> OnWire(k, i, q) \/ (i = Len(s) + 1 /\ q = r.config)
    BY <2>2, <2>3, <2>4, <2>5, <2>6
  <2> QED
    BY <1>3, <2>7 DEF s
<1> QED
  BY <1>2, <1>3

\* From a response onto the wire, or lost with the connection.
LEMMA OnceSend ==
    ASSUME TypeInv, OnceInv, TypeInv', NEW k \in Conn, SendResponse(k)
    PROVE  OnceInv'
<1> DEFINE r == hand[k].resp
           p == r.config
<1>1. UNCHANGED <<pending, job, delivered>> /\ r \in Responses
  BY DEF SendResponse, memory, history, TypeInv, HandOK, Handlers
<1>2. hand'[k].resp.config = None /\ \A j \in Conn : j # k => hand'[j] = hand[j]
  BY DEF SendResponse, IdleHandler, NoResponse, TypeInv, HandOK
<1>3. CASE \A j \in Conn : wire'[j] = wire[j]
  BY <1>1, <1>2, <1>3, OnceFrame DEF TypeInv, Held
<1>4. CASE wire' = [wire EXCEPT ![k] = Append(@, r)]
  <2> SUFFICES ASSUME NEW q \in Push
               PROVE  OnePlace(q)'
    BY DEF OnceInv
  <2>1. OnePlace(q) /\ q # None
    BY NoneApart DEF OnceInv
  <2>2. \A j \in Conn : \A i :
           OnWire(j, i, q)' <=> OnWire(j, i, q) \/ (j = k /\ i = Len(wire[k]) + 1 /\ q = p)
    BY <1>1, <1>4, WireAppend
  <2>3. (Held(q)' <=> Held(q)) /\ (Queued(q)' <=> Queued(q)) /\ delivered'[q] = delivered[q]
    BY <1>1 DEF Held, Queued
  <2>4. CASE q = p
    <3>1. Answering(k, q)
      BY <2>4 DEF Answering
    <3>2. /\ delivered[q] = 0 /\ ~Held(q) /\ ~Queued(q)
          /\ \A j \in Conn : Answering(j, q) => j = k
          /\ \A j \in Conn : \A i : ~OnWire(j, i, q)
      BY <2>1, <3>1 DEF OnePlace, OffWire
    <3>3. \A j \in Conn : ~Answering(j, q)'
      BY <1>2, <2>1, <3>2 DEF Answering
    <3>4. \A j \in Conn : \A i : OnWire(j, i, q)' => j = k /\ i = Len(wire[k]) + 1
      BY <2>2, <3>2
    <3> QED
      BY <2>3, <3>2, <3>3, <3>4 DEF OnePlace
  <2>5. CASE q # p
    <3> DEFINE d == [j \in Conn |-> 0]
    <3>1. \A j \in Conn : Answering(j, q)' => Answering(j, q)
      BY <1>2, <2>1 DEF Answering
    <3>2. \A j \in Conn : \A i : OnWire(j, i, q)' => OnWire(j, i + d[j], q)
      BY <2>2, <2>5 DEF OnWire, TypeInv, WireOK
    <3>3. d \in [Conn -> {0, 1}]
      OBVIOUS
    <3> HIDE DEF d
    <3> QED
      BY <2>1, <2>3, <3>1, <3>2, <3>3, PlaceFrame DEF TypeInv
  <2> QED
    BY <2>4, <2>5
<1>5. \/ \A j \in Conn : wire'[j] = wire[j]
      \/ wire' = [wire EXCEPT ![k] = Append(@, r)]
  <2>1. CASE r = NoResponse
    BY <2>1 DEF SendResponse, TypeInv, WireOK
  <2>2. CASE r # NoResponse
    BY <2>2 DEF SendResponse
  <2> QED
    BY <2>1, <2>2
<1> QED
  BY <1>3, <1>4, <1>5

\* From its goroutine into the queue.
LEMMA PlaceQueue ==
    ASSUME TypeInv, OnceInv, TypeInv', NEW p \in Push, Held(p), ~Held(p)',
           \A q \in Push : q # p => (Held(q)' => Held(q)),
           pending' = [pending EXCEPT ![PushTo[p]] = p],
           UNCHANGED <<hand, wire, delivered>>
    PROVE  OnceInv'
<1> SUFFICES ASSUME NEW q \in Push
             PROVE  OnePlace(q)'
  BY DEF OnceInv
<1>1. OnePlace(q) /\ PushTo[q] \in Agent
  BY NoneApart DEF OnceInv
<1>2. \A j \in Conn : Answering(j, q)' <=> Answering(j, q)
  BY DEF Answering
<1>3. \A j \in Conn : \A i : OnWire(j, i, q)' <=> OnWire(j, i, q)
  BY DEF OnWire
<1>4. CASE q = p
  <2>1. delivered'[q] = 0 /\ OffWire(q)
    BY <1>1, <1>4 DEF OnePlace
  <2> QED
    BY <1>2, <1>3, <1>4, <2>1 DEF OnePlace, OffWire
<1>5. CASE q # p
  <2> DEFINE d == [j \in Conn |-> 0]
  <2>1. Queued(q)' => Queued(q)
    BY <1>1, <1>5 DEF Queued, TypeInv, QueueOK
  <2>2. \A j \in Conn : \A i : OnWire(j, i, q)' => OnWire(j, i + d[j], q)
    BY <1>3 DEF OnWire, TypeInv, WireOK
  <2>3. d \in [Conn -> {0, 1}]
    OBVIOUS
  <2> HIDE DEF d
  <2> QED
    BY <1>1, <1>2, <1>5, <2>1, <2>2, <2>3, PlaceFrame DEF TypeInv
<1> QED
  BY <1>4, <1>5

\* From its goroutine onto the wire.
LEMMA PlaceSend ==
    ASSUME TypeInv, OnceInv, TypeInv', NEW p \in Push, Held(p), ~Held(p)', NEW k \in Conn,
           \A q \in Push : q # p => (Held(q)' => Held(q)),
           wire' = [wire EXCEPT ![k] = Append(@, [config |-> p, full |-> FALSE])],
           UNCHANGED <<hand, pending, delivered>>
    PROVE  OnceInv'
<1> DEFINE r == [config |-> p, full |-> FALSE]
<1> SUFFICES ASSUME NEW q \in Push
             PROVE  OnePlace(q)'
  BY DEF OnceInv
<1>1. OnePlace(q) /\ r \in Responses /\ r.config = p
  BY DEF OnceInv, Responses
<1>2. wire' = [wire EXCEPT ![k] = Append(@, r)]
  OBVIOUS
<1> HIDE DEF r
<1>3. \A j \in Conn : \A i :
         OnWire(j, i, q)' <=> OnWire(j, i, q) \/ (j = k /\ i = Len(wire[k]) + 1 /\ q = p)
  BY <1>1, <1>2, WireAppend
<1>4. (Queued(q)' <=> Queued(q)) /\ \A j \in Conn : Answering(j, q)' <=> Answering(j, q)
  BY DEF Answering, Queued
<1>5. CASE q = p
  <2>1. delivered'[q] = 0 /\ OffWire(q) /\ ~Queued(q)
    BY <1>1, <1>5 DEF OnePlace
  <2>2. \A j \in Conn : \A i : OnWire(j, i, q)' => j = k /\ i = Len(wire[k]) + 1
    BY <1>3, <2>1 DEF OffWire
  <2> QED
    BY <1>4, <1>5, <2>1, <2>2 DEF OnePlace, OffWire
<1>6. CASE q # p
  <2> DEFINE d == [j \in Conn |-> 0]
  <2>1. \A j \in Conn : \A i : OnWire(j, i, q)' => OnWire(j, i + d[j], q)
    BY <1>3, <1>6 DEF OnWire, TypeInv, WireOK
  <2>2. d \in [Conn -> {0, 1}]
    OBVIOUS
  <2> HIDE DEF d
  <2> QED
    BY <1>1, <1>4, <1>6, <2>1, <2>2, PlaceFrame DEF TypeInv
<1> QED
  BY <1>5, <1>6

\* From the wire to the agent.
LEMMA OnceReceive ==
    ASSUME TypeInv, OnceInv, TypeInv', NEW k \in Conn, Receive(k)
    PROVE  OnceInv'
<1> DEFINE p == Head(wire[k]).config
           d == [j \in Conn |-> IF j = k THEN 1 ELSE 0]
<1>1. UNCHANGED <<hand, pending, job>>
  BY DEF Receive, memory
<1>2. d \in [Conn -> {0, 1}]
  OBVIOUS
<1> SUFFICES ASSUME NEW q \in Push
             PROVE  OnePlace(q)'
  BY DEF OnceInv
<1>3. OnePlace(q) /\ q # None
  BY NoneApart DEF OnceInv
<1>4. /\ Held(q)' <=> Held(q)
      /\ Queued(q)' <=> Queued(q)
      /\ \A j \in Conn : Answering(j, q)' <=> Answering(j, q)
  BY <1>1 DEF Held, Queued, Answering
<1>5. \A j \in Conn : \A i : OnWire(j, i, q)' => OnWire(j, i + d[j], q)
  <2> SUFFICES ASSUME NEW j \in Conn, NEW i, OnWire(j, i, q)'
               PROVE  OnWire(j, i + d[j], q)
    OBVIOUS
  <2>1. CASE j = k
    <3> DEFINE t == Tail(wire[k])
    <3>1. wire'[k] = t /\ \A h \in DOMAIN t : h + 1 \in DOMAIN wire[k] /\ t[h] = wire[k][h + 1]
      BY ReceiveFacts DEF TypeInv, WireOK
    <3> HIDE DEF t
    <3> QED
      BY <2>1, <3>1 DEF OnWire
  <2>2. CASE j # k
    <3>1. wire'[j] = wire[j] /\ wire[j] \in Seq(Responses)
      BY <2>2, ReceiveFacts DEF TypeInv, WireOK
    <3>2. i \in Nat /\ d[j] = 0
      BY <2>2, <3>1 DEF OnWire
    <3> QED
      BY <3>1, <3>2 DEF OnWire
  <2> QED
    BY <2>1, <2>2
<1>6. CASE q = p
  <2>1. delivered' = [delivered EXCEPT ![q] = @ + 1]
    BY <1>3, <1>6, ReceiveDelivers
  <2>2. OnWire(k, 1, q)
    BY <1>6, ReceiveFacts DEF OnWire, TypeInv, WireOK
  <2>3. delivered[q] = 0 /\ ~Held(q) /\ ~Queued(q) /\ \A j \in Conn : ~Answering(j, q)
    BY <1>3, <2>2 DEF OnePlace, OffWire
  <2>4. delivered'[q] = 1
    BY <2>1, <2>3 DEF TypeInv, CountOK
  <2>5. ASSUME NEW j \in Conn, NEW i, OnWire(j, i, q)'
        PROVE  FALSE
    <3>1. OnWire(j, i + d[j], q)
      BY <1>5, <2>5
    <3>2. j = k /\ i + d[j] = 1
      BY <1>3, <2>2, <3>1 DEF OnePlace
    <3>3. i \in Nat /\ i >= 1
      <4>1. wire'[j] \in Seq(Responses)
        BY DEF TypeInv, WireOK
      <4> QED
        BY <2>5, <4>1 DEF OnWire
    <3> QED
      BY <3>2, <3>3
  <2> QED
    BY <1>4, <2>3, <2>4, <2>5 DEF OnePlace
<1>7. CASE q # p
  <2>1. delivered'[q] = delivered[q]
    BY <1>7, ReceiveDelivers DEF TypeInv, CountOK
  <2> HIDE DEF d
  <2> QED
    BY <1>2, <1>3, <1>4, <1>5, <2>1, PlaceFrame DEF TypeInv
<1> QED
  BY <1>6, <1>7

\* A step of a dispatch: it sends, queues, loses or keeps the configuration.
LEMMA OnceDispatch ==
    ASSUME TypeInv, OnceInv, TypeInv', NEW p \in Push, Dispatch(p)
    PROVE  OnceInv'
<1>1. /\ \A q \in Push : q # p => (Held(q)' => Held(q))
      /\ Held(p)' => Held(p)
  BY JobChanges DEF Held
<1>2. \A q \in Push : Held(q)' => Held(q)
  BY <1>1
<1>3. UNCHANGED <<hand, delivered>>
  BY DEF Dispatch, memory, history, ReadOnline, LookupConn, SendConfig, Confirm, ConfirmTimeout,
     GetPointer, UpsertIntent, ReadRow, WriteRow
<1>4. CASE UNCHANGED <<pending, wire>>
  BY <1>2, <1>3, <1>4, OnceFrame DEF TypeInv
<1>5. CASE LookupConn(p) /\ conns[PushTo[p]] = None
  <2>1. /\ pending' = [pending EXCEPT ![PushTo[p]] = p] /\ UNCHANGED wire
        /\ job' = [job EXCEPT ![p].pc = "confirm"] /\ job[p].pc = "lookup"
    BY <1>5 DEF LookupConn
  <2>2. Held(p) /\ ~Held(p)'
    BY <2>1 DEF Held, TypeInv, JobOK, Jobs
  <2> QED
    BY <1>1, <1>3, <2>1, <2>2, PlaceQueue
<1>6. CASE SendConfig(p)
  <2> DEFINE k == job[p].conn
  <2>1. job[p].pc = "send" /\ job' = [job EXCEPT ![p].pc = "confirm"] /\ k \in Conn
    BY <1>6, JobFacts DEF SendConfig, JobRule
  <2>2. Held(p) /\ ~Held(p)'
    BY <2>1 DEF Held, TypeInv, JobOK, Jobs
  <2>3. \/ /\ wire' = [wire EXCEPT ![k] = Append(@, [config |-> p, full |-> FALSE])]
           /\ UNCHANGED pending
        \/ pending' = [pending EXCEPT ![PushTo[p]] = p] /\ UNCHANGED wire
        \/ UNCHANGED <<pending, wire>>
    BY <1>6, Zenon DEF SendConfig
  <2> HIDE DEF k
  <2> QED
    BY <1>1, <1>3, <1>4, <2>1, <2>2, <2>3, PlaceQueue, PlaceSend
<1>7. CASE \/ ReadOnline(p) \/ Confirm(p) \/ ConfirmTimeout(p) \/ GetPointer(p) \/ UpsertIntent(p)
           \/ ReadRow(p) \/ WriteRow(p) \/ (LookupConn(p) /\ conns[PushTo[p]] # None)
  <2>1. UNCHANGED <<pending, wire>>
    BY <1>7 DEF memory, ReadOnline, LookupConn, Confirm, ConfirmTimeout, GetPointer, UpsertIntent,
       ReadRow, WriteRow
  <2> QED
    BY <1>4, <2>1
<1> QED
  BY <1>5, <1>6, <1>7, Zenon DEF Dispatch

\* Every step keeps each dispatch in one place.
LEMMA OnceNext == TypeInv /\ TypeInv' /\ OnceInv /\ [Next]_vars => OnceInv'
<1> SUFFICES ASSUME TypeInv, TypeInv', OnceInv, [Next]_vars
             PROVE  OnceInv'
  OBVIOUS
<1>1. WireOK /\ WireOK'
  BY DEF TypeInv
<1>2. CASE UNCHANGED vars
  BY <1>1, <1>2, OnceFrame DEF vars, state, memory, history, Held
<1>3. ASSUME NEW k \in Conn, OnMessage(k)
      PROVE  OnceInv'
  <2>1. PICK pc, obj : Read(k, pc, obj)
    BY <1>3 DEF OnMessage
  <2>2. UNCHANGED <<wire, pending, job, delivered>>
    BY <2>1 DEF Read, memory, history
  <2>3. PICK m : hand' = [hand EXCEPT ![k] = [IdleHandler EXCEPT !.pc = pc, !.msg = m, !.obj = obj]]
    BY <2>1, Zenon DEF Read
  <2>4. \A j \in Conn : hand'[j].resp.config \in {hand[j].resp.config, None}
    BY <2>3 DEF IdleHandler, NoResponse, TypeInv, HandOK
  <2> QED
    BY <1>1, <2>2, <2>4, OnceFrame DEF Held
<1>4. ASSUME NEW k \in Conn, Backfill(k) \/ BindConnection(k)
      PROVE  OnceInv'
  <2>1. UNCHANGED <<wire, pending, delivered>>
    BY <1>4 DEF Backfill, BindConnection, history
  <2>2. \A j \in Conn : hand'[j].resp = hand[j].resp
    BY <1>4 DEF Backfill, BindConnection, TypeInv, HandOK, Handlers
  <2>3. job' = Detach(AgentOf[k], job)
    BY <1>4 DEF Backfill, BindConnection
  <2>4. \A p \in Push : Held(p)' => Held(p)
    BY <2>3, DetachFacts, NoneApart DEF Held, TypeInv, JobOK, RowsOK
  <2> QED
    BY <1>1, <2>1, <2>2, <2>4, OnceFrame
<1>5. ASSUME NEW k \in Conn, ParseMessage(k) \/ RecordReport(k) \/ NoticeClose(k) \/ UidForConn(k)
                             \/ Remove(k)
      PROVE  OnceInv'
  <2>1. UNCHANGED <<wire, pending, job, delivered>>
    BY <1>5 DEF ParseMessage, RecordReport, NoticeClose, UidForConn, Remove, memory, history
  <2>2. \A j \in Conn : hand'[j].resp.config \in {hand[j].resp.config, None}
    <3>1. CASE ParseMessage(k)
      <4> DEFINE o == FromMessage(reg[AgentOf[k]], hand[k].msg)
      <4>1. hand' = [hand EXCEPT ![k].pc = "upsert", ![k].obj = o]
        BY <3>1 DEF ParseMessage
      <4> HIDE DEF o
      <4> QED
        BY <4>1 DEF TypeInv, HandOK, Handlers
    <3>2. CASE RecordReport(k) \/ NoticeClose(k) \/ UidForConn(k) \/ Remove(k)
      BY <3>2 DEF RecordReport, NoticeClose, UidForConn, Remove, Gone, IdleHandler, NoResponse,
         TypeInv, HandOK, Handlers
    <3> QED
      BY <1>5, <3>1, <3>2
  <2> QED
    BY <1>1, <2>1, <2>2, OnceFrame DEF Held
<1>6. ASSUME NEW k \in Conn, Connect(k)
      PROVE  OnceInv'
  BY <1>1, <1>6, OnceFrame DEF Connect, memory, history, Held
<1>7. ASSUME NEW k \in Conn, Drop(k)
      PROVE  OnceInv'
  <2>1. UNCHANGED <<hand, pending, job, delivered>>
    BY <1>7 DEF Drop, memory, history
  <2>2. \A j \in Conn : wire'[j] \in {wire[j], <<>>}
    BY <1>1, <1>7 DEF Drop, WireOK
  <2> QED
    BY <1>1, <2>1, <2>2, OnceFrame DEF Held
<1>8. ASSUME NEW u \in Agent, Silence(u)
      PROVE  OnceInv'
  BY <1>1, <1>8, OnceFrame DEF Silence, history, Held
<1>9. ASSUME NEW u \in Agent, Stop(u)
      PROVE  OnceInv'
  <2>1. UNCHANGED <<hand, pending, job, delivered>>
    BY <1>9 DEF Stop, memory, history
  <2>2. \A j \in Conn : wire'[j] \in {wire[j], <<>>}
    BY <1>9 DEF Stop
  <2> QED
    BY <1>1, <2>1, <2>2, OnceFrame DEF Held
<1>10. CASE MarkOffline
  BY <1>1, <1>10, OnceFrame DEF MarkOffline, history, Held
<1>11. CASE Restart
  <2>1. /\ UNCHANGED delivered
        /\ \A u \in Agent : pending'[u] = None
        /\ \A k \in Conn : hand'[k].resp.config = None /\ wire'[k] = <<>>
    BY <1>11 DEF Restart, history, IdleHandler, NoResponse
  <2>2. \A p \in Push : Held(p)' => Held(p)
    BY <1>11, RestartJobs DEF Held, IdleJob
  <2> QED
    BY <1>1, <2>1, <2>2, OnceFrame
<1> QED
  BY <1>2, <1>3, <1>4, <1>5, <1>6, <1>7, <1>8, <1>9, <1>10, <1>11, OnceTake, OnceSend, OnceReceive,
     OnceDispatch, Zenon DEF Next, Handle

\* At the start every dispatch is with its goroutine.
LEMMA OnceInit == Init => OnceInv
<1> SUFFICES ASSUME Init, NEW p \in Push
             PROVE  OnePlace(p)
  BY DEF OnceInv
<1>1. PushTo[p] \in Agent /\ p # None
  BY NoneApart
<1>2. delivered[p] = 0 /\ ~Queued(p)
  BY <1>1 DEF Init, Queued
<1>3. \A k \in Conn : ~Answering(k, p)
  BY <1>1 DEF Init, Answering, IdleHandler, NoResponse
<1>4. \A k \in Conn : \A i : ~OnWire(k, i, p)
  BY DEF Init, OnWire
<1> QED
  BY <1>2, <1>3, <1>4 DEF OnePlace, OffWire

\* A dispatched configuration is in one place at a time, so it reaches its
\* collector at most once, although Send, the response to any connection and the
\* queue may all hand it over (PushConfig and TakePending, server.go).
THEOREM NeverTwice == Spec => []DeliveredAtMostOnce
<1>1. OnceInv => DeliveredAtMostOnce
  BY DEF OnceInv, OnePlace, DeliveredAtMostOnce
<1> QED
  BY <1>1, OnceInit, OnceNext, TypeInvariance, PTL DEF Spec

-----------------------------------------------------------------------------
(* Metadata, for agents whose connections do not overlap.  Before the first *)
(* dispatch no goroutine dispatches, and every record that may still be     *)
(* written to the store, the registry's and those of the handlers, knows    *)
(* what the row and the registry's record know; the row alone may lag       *)
(* behind, when the store refused a write.  A row that could not be read    *)
(* ends this for its collector.                                             *)

OneConnection == \A j, k \in Conn : AgentOf[j] = AgentOf[k] => j = k

Unread(u) == <<"read", u>> \in failed

Knows(u, o) == db[u].meta \/ reg[u].meta => o.meta \/ Unread(u)

MetaKnown ==
    /\ \A p \in Push : job[p].pc = "idle"
    /\ \A u \in Agent : reg[u] # NoObj => Knows(u, reg[u])
    /\ \A k \in Conn :
          /\ hand[k].pc \in {"fill", "upsert"} => Knows(AgentOf[k], hand[k].obj)
          /\ hand[k].pc = "parse" => Knows(AgentOf[k], reg[AgentOf[k]])

MetaInv == issued = <<>> => MetaKnown

DbKept == \A u \in Agent : db[u].meta => db'[u].meta \/ Unread(u)

\* The records stay, and a handler stays or is past the upsert.
LEMMA MetaFrame ==
    ASSUME MetaKnown, UNCHANGED <<reg, db, job, failed>>,
           \A k \in Conn : \/ hand'[k] = hand[k]
                           \/ hand'[k].pc \notin {"fill", "parse", "upsert"}
    PROVE  MetaKnown' /\ DbKept
BY DEF MetaKnown, DbKept, Knows, Unread

\* A message finds the record, or its row, or a collector unknown to both, or a row
\* it cannot read.
LEMMA MetaRead ==
    ASSUME TypeInv, MetaKnown, NEW k \in Conn, OnMessage(k)
    PROVE  MetaKnown' /\ DbKept
<1> DEFINE u == AgentOf[k]
<1>1. u \in Agent
  BY NoneApart
<1>2. PICK pc, obj : /\ Read(k, pc, obj)
                     /\ \/ pc = "parse" /\ (Knows(u, reg[u]) \/ Unread(u)')
                        \/ pc = "fill" /\ obj = db[u] /\ reg[u] = NoObj
  BY <1>1, NoObjApart, Zenon DEF OnMessage, MetaKnown, Knows, Unread
<1>3. UNCHANGED <<reg, db, job>>
  BY <1>2 DEF Read, memory
<1>4. PICK m : hand' = [hand EXCEPT ![k] = [IdleHandler EXCEPT !.pc = pc, !.msg = m, !.obj = obj]]
  BY <1>2, Zenon DEF Read
<1>5. hand'[k].pc = pc /\ hand'[k].obj = obj /\ \A j \in Conn : j # k => hand'[j] = hand[j]
  BY <1>4 DEF IdleHandler, TypeInv, HandOK
<1>6. failed \subseteq failed'
  BY DEF OnMessage
<1>7. \A v : Unread(v) => Unread(v)'
  BY <1>6 DEF Unread
<1>8. \A v, o : Knows(v, o) => (db'[v].meta \/ reg'[v].meta => o.meta \/ Unread(v)')
  BY <1>3, <1>7 DEF Knows
<1>9. DbKept
  BY <1>3 DEF DbKept
<1>10. \A v \in Agent : reg'[v] # NoObj => Knows(v, reg[v])'
  BY <1>3, <1>8 DEF MetaKnown, Knows
<1>11. ASSUME NEW j \in Conn
       PROVE  /\ hand'[j].pc \in {"fill", "upsert"} => Knows(AgentOf[j], hand[j].obj)'
              /\ hand'[j].pc = "parse" => Knows(AgentOf[j], reg[AgentOf[j]])'
  <2>1. CASE j = k
    <3>1. NoObj.meta = FALSE
      BY NoObjApart
    <3> QED
      BY <1>2, <1>3, <1>5, <1>8, <2>1, <3>1 DEF Knows
  <2>2. CASE j # k
    BY <1>3, <1>5, <1>8, <2>2 DEF MetaKnown, Knows
  <2> QED
    BY <2>1, <2>2
<1> QED
  BY <1>3, <1>9, <1>10, <1>11 DEF MetaKnown

\* A record that knows enough replaces the record, and the row if that can be written.
LEMMA MetaUpsert ==
    ASSUME TypeInv, MetaKnown, OneConnection, NEW k \in Conn, NEW o \in Objs, Knows(AgentOf[k], o),
           Upsert(AgentOf[k], o), job' = Detach(AgentOf[k], job), NEW pc \in {"parse", "record"},
           hand' = [hand EXCEPT ![k].pc = pc], UNCHANGED failed
    PROVE  MetaKnown' /\ DbKept
<1> DEFINE u == AgentOf[k]
<1>1. u \in Agent /\ reg[u] \in Rows /\ job \in [Push -> Jobs]
  BY NoneApart DEF TypeInv, RowsOK, JobOK
<1>2. /\ reg'[u] = o /\ db'[u] \in {o, db[u]}
      /\ \A v \in Agent : v # u => reg'[v] = reg[v] /\ db'[v] = db[v]
  BY <1>1 DEF Upsert, TypeInv, RowsOK
<1>3. hand'[k].pc = pc /\ \A j \in Conn : j # k => hand'[j] = hand[j]
  BY DEF TypeInv, HandOK, Handlers
<1>4. \A p \in Push : job'[p].pc = "idle"
  BY <1>1, DetachFacts DEF MetaKnown
<1>5. \A j \in Conn : j # k => AgentOf[j] # u /\ AgentOf[j] \in Agent
  BY NoneApart DEF OneConnection
<1>6. \A v \in Agent : reg'[v] # NoObj => Knows(v, reg[v])'
  BY <1>2 DEF MetaKnown, Knows, Unread
<1>7. DbKept
  BY <1>2 DEF DbKept, Knows
<1>8. ASSUME NEW j \in Conn
      PROVE  /\ hand'[j].pc \in {"fill", "upsert"} => Knows(AgentOf[j], hand[j].obj)'
             /\ hand'[j].pc = "parse" => Knows(AgentOf[j], reg[AgentOf[j]])'
  <2>1. CASE j = k
    BY <1>1, <1>2, <1>3, <2>1 DEF Knows, Unread
  <2>2. CASE j # k
    BY <1>2, <1>3, <1>5, <2>2 DEF MetaKnown, Knows, Unread
  <2> QED
    BY <2>1, <2>2
<1> QED
  BY <1>4, <1>6, <1>7, <1>8 DEF MetaKnown

\* What a message leaves out is carried over.
LEMMA MetaParse ==
    ASSUME TypeInv, MetaKnown, NEW k \in Conn, ParseMessage(k)
    PROVE  MetaKnown' /\ DbKept
<1> DEFINE u == AgentOf[k]
           prev == reg[u]
           m == hand[k].msg
           o == FromMessage(prev, m)
<1>1. u \in Agent /\ prev \in Rows /\ m \in Msgs /\ Knows(u, prev) /\ db[u] \in Rows
  BY NoneApart DEF TypeInv, RowsOK, HandOK, Handlers, MetaKnown, ParseMessage
<1>2. o.meta = (prev.meta \/ m.desc)
  <2> DEFINE base == IF prev = NoObj THEN Obj("unknown", FALSE, None, TRUE) ELSE prev
  <2>1. o.meta = (base.meta \/ m.desc)
    BY DEF FromMessage, Obj
  <2>2. base.meta = prev.meta
    BY NoObjApart DEF Obj
  <2> QED
    BY <2>1, <2>2
<1>3. Knows(u, o)
  BY <1>1, <1>2 DEF Knows
<1>4. UNCHANGED <<reg, db, job, failed>>
  BY DEF ParseMessage, memory
<1>5. hand'[k].pc = "upsert" /\ hand'[k].obj = o /\ \A j \in Conn : j # k => hand'[j] = hand[j]
  <2>1. hand' = [hand EXCEPT ![k].pc = "upsert", ![k].obj = o]
    BY DEF ParseMessage
  <2> HIDE DEF o
  <2> QED
    BY <2>1 DEF TypeInv, HandOK, Handlers
<1> HIDE DEF o
<1> QED
  BY <1>3, <1>4, <1>5 DEF MetaKnown, DbKept, Knows, Unread

\* A record marked offline keeps the rest, and its row becomes that record or stays.
LEMMA MetaOffline ==
    ASSUME TypeInv, MetaKnown, MarkOffline
    PROVE  MetaKnown' /\ DbKept
<1> DEFINE late == {u \in Agent : reg[u] # NoObj /\ ~reg[u].fresh /\ reg[u].status # "offline"}
           off(u) == [reg[u] EXCEPT !.status = "offline"]
<1>1. PICK lost \in SUBSET late :
         /\ reg' = [u \in Agent |-> IF u \in late THEN off(u) ELSE reg[u]]
         /\ db' = [u \in Agent |-> IF u \in late \ lost THEN off(u) ELSE db[u]]
         /\ failed' = failed \cup {<<"mark", u>> : u \in lost}
         /\ UNCHANGED <<hand, job>>
  BY Zenon DEF MarkOffline
<1>2. \A u \in late : u \in Agent /\ reg[u] # NoObj /\ off(u).meta = reg[u].meta
  BY NoObjApart, ObjUpdates DEF TypeInv, RowsOK
<1> HIDE DEF late, off
<1>3. \A u \in Agent : /\ reg'[u].meta = reg[u].meta
                       /\ reg'[u] # NoObj => reg[u] # NoObj
                       /\ \/ db'[u] = db[u]
                          \/ reg[u] # NoObj /\ db'[u].meta = reg[u].meta
  <2>1. late \subseteq Agent
    BY <1>2
  <2> QED
    BY <1>1, <1>2, <2>1
<1>8. \A u \in Agent : Unread(u) => Unread(u)'
  BY <1>1 DEF Unread
<1>4. \A u \in Agent : \A o : Knows(u, o) => (db'[u].meta \/ reg'[u].meta => o.meta \/ Unread(u)')
  BY <1>3, <1>8 DEF Knows
<1>5. DbKept
  BY <1>3 DEF DbKept, MetaKnown, Knows
<1>6. \A u \in Agent : reg'[u] # NoObj => Knows(u, reg[u])'
  BY <1>3, <1>4 DEF MetaKnown, Knows
<1>7. ASSUME NEW k \in Conn
      PROVE  /\ hand'[k].pc \in {"fill", "upsert"} => Knows(AgentOf[k], hand[k].obj)'
             /\ hand'[k].pc = "parse" => Knows(AgentOf[k], reg[AgentOf[k]])'
  <2>1. AgentOf[k] \in Agent /\ UNCHANGED hand
    BY <1>1, NoneApart
  <2>2. hand[k].pc \in {"fill", "upsert"} => Knows(AgentOf[k], hand[k].obj)'
    BY <1>4, <2>1 DEF MetaKnown, Knows
  <2>3. hand[k].pc = "parse" => Knows(AgentOf[k], reg[AgentOf[k]])'
    BY <1>3, <1>4, <2>1 DEF MetaKnown, Knows
  <2> QED
    BY <2>1, <2>2, <2>3
<1> QED
  BY <1>1, <1>5, <1>6, <1>7 DEF MetaKnown

\* Before the first dispatch every step keeps what is known; the first dispatch
\* itself begins by reading.
LEMMA MetaStep ==
    ASSUME TypeInv, MetaKnown, OneConnection, Next
    PROVE  /\ DbKept
           /\ (\E p \in Push : ReadOnline(p)) \/ MetaKnown'
<1>1. ASSUME NEW k \in Conn, Backfill(k)
      PROVE  MetaKnown' /\ DbKept
  <2>1. hand[k].obj \in Objs /\ Knows(AgentOf[k], hand[k].obj)
    BY <1>1 DEF Backfill, TypeInv, HandOK, MetaKnown
  <2> QED
    BY <1>1, <2>1, MetaUpsert DEF Backfill
<1>2. ASSUME NEW k \in Conn, BindConnection(k)
      PROVE  MetaKnown' /\ DbKept
  <2>1. hand[k].obj \in Objs /\ Knows(AgentOf[k], hand[k].obj)
    BY <1>2 DEF BindConnection, TypeInv, HandOK, MetaKnown
  <2> QED
    BY <1>2, <2>1, MetaUpsert DEF BindConnection
<1>3. ASSUME NEW k \in Conn,
             \/ RecordReport(k) \/ SendResponse(k) \/ NoticeClose(k) \/ UidForConn(k) \/ Remove(k)
      PROVE  MetaKnown' /\ DbKept
  <2>1. UNCHANGED <<reg, db, job, failed>>
    BY <1>3 DEF RecordReport, SendResponse, NoticeClose, UidForConn, Remove, memory
  <2>2. \A j \in Conn : hand'[j] = hand[j] \/ hand'[j].pc \notin {"fill", "parse", "upsert"}
    BY <1>3 DEF RecordReport, SendResponse, NoticeClose, UidForConn, Remove, Gone, IdleHandler,
       TypeInv, HandOK, Handlers
  <2> QED
    BY <2>1, <2>2, MetaFrame
<1>4. ASSUME NEW k \in Conn, TakePending(k)
      PROVE  MetaKnown' /\ DbKept
  <2> DEFINE r == [config |-> pending[AgentOf[k]],
                   full |-> repEff[AgentOf[k]] = None \/ ~hand[k].obj.meta]
  <2>1. hand' = [hand EXCEPT ![k].pc = "reply", ![k].resp = r] /\ UNCHANGED <<reg, db, job, failed>>
    BY <1>4 DEF TakePending
  <2> HIDE DEF r
  <2>2. \A j \in Conn : hand'[j] = hand[j] \/ hand'[j].pc \notin {"fill", "parse", "upsert"}
    BY <2>1 DEF TypeInv, HandOK, Handlers
  <2> QED
    BY <2>1, <2>2, MetaFrame
<1>5. ASSUME NEW k \in Conn, Connect(k) \/ Receive(k) \/ Drop(k)
      PROVE  MetaKnown' /\ DbKept
  BY <1>5, MetaFrame DEF Connect, Receive, Drop, memory
<1>6. ASSUME NEW u \in Agent, Stop(u)
      PROVE  MetaKnown' /\ DbKept
  BY <1>6, MetaFrame DEF Stop, memory
<1>7. ASSUME NEW u \in Agent, Silence(u)
      PROVE  MetaKnown' /\ DbKept
  <2>1. reg[u] \in Objs /\ reg' = [reg EXCEPT ![u] = [reg[u] EXCEPT !.fresh = FALSE]]
    BY <1>7, NoObjApart DEF Silence, TypeInv, RowsOK
  <2>2. UNCHANGED <<db, hand, job, failed>>
    BY <1>7 DEF Silence
  <2>3. \A v \in Agent : reg'[v].meta = reg[v].meta /\ (reg'[v] # NoObj => reg[v] # NoObj)
    BY <2>1, ObjUpdates, NoObjApart DEF TypeInv, RowsOK
  <2> QED
    BY <2>2, <2>3, NoneApart DEF MetaKnown, DbKept, Knows, Unread
<1>8. CASE Restart
  <2>1. \A p \in Push : job'[p].pc = "idle"
    BY <1>8 DEF Restart, Dispatching, MetaKnown
  <2>2. /\ UNCHANGED db
        /\ \A u \in Agent : reg'[u] = NoObj
        /\ \A k \in Conn : hand'[k].pc = "idle"
    BY <1>8 DEF Restart, IdleHandler
  <2> QED
    BY <2>1, <2>2 DEF MetaKnown, DbKept
<1>9. ASSUME NEW p \in Push, Dispatch(p)
      PROVE  ReadOnline(p) /\ DbKept
  <2>1. job[p].pc = "idle"
    BY DEF MetaKnown
  <2>2. ReadOnline(p)
    BY <1>9, <2>1 DEF Dispatch, LookupConn, SendConfig, Confirm, ConfirmTimeout, GetPointer,
       UpsertIntent, ReadRow, WriteRow
  <2> QED
    BY <2>2 DEF ReadOnline, DbKept
<1> QED
  BY <1>1, <1>2, <1>3, <1>4, <1>5, <1>6, <1>7, <1>8, <1>9, MetaRead, MetaParse, MetaOffline,
     Zenon DEF Next, Handle

\* Every step keeps the metadata known while nothing is dispatched.
LEMMA MetaNext == OneConnection /\ TypeInv /\ MetaInv /\ [Next]_vars => MetaInv'
<1> SUFFICES ASSUME OneConnection, TypeInv, MetaInv, [Next]_vars, issued' = <<>>
             PROVE  MetaKnown'
  BY DEF MetaInv
<1>1. issued \in Seq(Push)
  BY DEF TypeInv, CountOK
<1>2. ASSUME NEW p \in Push, ReadOnline(p)
      PROVE  FALSE
  <2>1. issued' = Append(issued, p)
    BY <1>2 DEF ReadOnline
  <2>2. Len(Append(issued, p)) = Len(issued) + 1 /\ Len(issued) \in Nat /\ Len(<<>>) = 0
    BY <1>1
  <2> QED
    BY <2>1, <2>2
<1>3. CASE UNCHANGED vars
  BY <1>3 DEF vars, state, memory, history, MetaInv, MetaKnown, Knows, Unread
<1>4. CASE Next
  <2>1. issued = <<>>
    <3>1. ASSUME NEW p \in Push, Dispatch(p)
          PROVE  issued' = issued
      BY <1>2, <3>1 DEF Dispatch, LookupConn, SendConfig, Confirm, ConfirmTimeout, GetPointer,
         UpsertIntent, ReadRow, WriteRow, history
    <3>2. ASSUME NEW k \in Conn, OnMessage(k) \/ Handle(k) \/ Connect(k) \/ Receive(k) \/ Drop(k)
          PROVE  issued' = issued
      <4>1. CASE OnMessage(k)
        <5>1. PICK pc, obj : Read(k, pc, obj)
          BY <4>1 DEF OnMessage
        <5> QED
          BY <5>1, Zenon DEF Read, history
      <4>2. CASE Handle(k)
        BY <4>2, Zenon DEF Handle, Backfill, ParseMessage, BindConnection, RecordReport,
           TakePending, SendResponse, NoticeClose, UidForConn, Remove, history
      <4>3. CASE Connect(k) \/ Receive(k) \/ Drop(k)
        BY <4>3, Zenon DEF Connect, Receive, Drop, history
      <4> QED
        BY <3>2, <4>1, <4>2, <4>3
    <3>3. ASSUME (\E u \in Agent : Silence(u) \/ Stop(u)) \/ MarkOffline \/ Restart
          PROVE  issued' = issued
      BY <3>3 DEF Silence, Stop, MarkOffline, Restart, history
    <3>4. issued' = issued
      BY <1>4, <3>1, <3>2, <3>3, Zenon DEF Next
    <3> QED
      BY <3>4
  <2> QED
    BY <1>2, <1>4, <2>1, MetaStep DEF MetaInv
<1> QED
  BY <1>3, <1>4

\* While nothing is dispatched and an agent has one connection after the other,
\* hostname and version, once stored, survive heartbeats without description,
\* offline marking, writes the store refuses and restarts (onMessage's backfill
\* comment), unless the row of that collector could not be read.
THEOREM MetadataSurvives == ASSUME OneConnection PROVE Spec => MetadataKept
<1>1. Init => MetaInv
  BY DEF Init, MetaInv, MetaKnown, IdleJob, IdleHandler
<1>2. TypeInv /\ MetaInv /\ [Next]_vars => MetaInv'
  BY MetaNext
<1>3. TypeInv /\ MetaInv /\ [Next]_vars
        => [issued = <<>> => \A u \in Agent : db[u].meta => db'[u].meta \/ <<"read", u>> \in failed]_db
  <2> SUFFICES ASSUME TypeInv, MetaInv, [Next]_vars, issued = <<>>, db' # db
               PROVE  DbKept
    BY DEF DbKept, Unread
  <2>1. CASE UNCHANGED vars
    BY <2>1 DEF vars, state
  <2>2. CASE Next
    BY <2>2, MetaStep DEF MetaInv
  <2> QED
    BY <2>1, <2>2
<1> QED
  BY <1>1, <1>2, <1>3, TypeInvariance, PTL DEF Spec, MetadataKept

-----------------------------------------------------------------------------
(* The promise to a dispatcher, when dispatches take turns: every step is a *)
(* step of Delivery, or changes nothing it speaks of.                       *)

\* q is issued after p.
After(p, q) == \E h, i \in DOMAIN issued : h < i /\ issued[h] = p /\ issued[i] = q

Sending(p) == job[p].pc \in {"lookup", "send"}
Active(p) == job[p].pc \notin {"idle", "end", "gone"}

\* A dispatch is issued when it begins, once, and the one under way is the last.
TurnInv ==
    /\ \A p \in Push : job[p].pc # "idle" <=> \E i \in DOMAIN issued : issued[i] = p
    /\ \A i, j \in DOMAIN issued : issued[i] = issued[j] => i = j
    /\ \A p \in Push : Active(p) => issued # <<>> /\ issued[Len(issued)] = p

\* Nothing is issued after the dispatch under way.
LEMMA LastIssued ==
    ASSUME TypeInv, TurnInv, NEW p \in Push, Active(p), NEW q \in Push
    PROVE  /\ ~After(p, q)
           /\ q # p /\ job[q].pc # "idle" => After(q, p)
<1>1. issued \in Seq(Push) /\ issued # <<>> /\ issued[Len(issued)] = p
  BY DEF TypeInv, CountOK, TurnInv
<1>2. Len(issued) \in DOMAIN issued /\ \A i \in DOMAIN issued : i \in Nat /\ i <= Len(issued)
  BY <1>1
<1>3. ~After(p, q)
  BY <1>1, <1>2 DEF After, TurnInv
<1>4. ASSUME q # p, job[q].pc # "idle"
      PROVE  After(q, p)
  <2>1. PICK h \in DOMAIN issued : issued[h] = q
    BY <1>4 DEF TurnInv
  <2>2. h < Len(issued)
    BY <1>1, <1>2, <1>4, <2>1
  <2> QED
    BY <1>1, <1>2, <2>1, <2>2 DEF After
<1> QED
  BY <1>3, <1>4

\* What the steps of others than the dispatches leave of these.
LEMMA JobsRest ==
    ASSUME TypeInv, [Next]_vars, ~Restart, \A p \in Push : ~Dispatch(p)
    PROVE  /\ UNCHANGED issued
           /\ \A p \in Push : job'[p].pc = job[p].pc /\ job'[p].conn = job[p].conn
<1>1. ASSUME NEW k \in Conn, Backfill(k) \/ BindConnection(k)
      PROVE  /\ UNCHANGED issued
             /\ \A p \in Push : job'[p].pc = job[p].pc /\ job'[p].conn = job[p].conn
  <2>1. UNCHANGED issued /\ job' = Detach(AgentOf[k], job)
    BY <1>1 DEF Backfill, BindConnection, history
  <2> QED
    BY <2>1, DetachFacts, NoneApart DEF TypeInv, JobOK, RowsOK
<1>2. ASSUME NEW k \in Conn, \/ OnMessage(k) \/ Connect(k) \/ Receive(k) \/ Drop(k)
                             \/ ParseMessage(k) \/ RecordReport(k) \/ TakePending(k)
                             \/ SendResponse(k) \/ NoticeClose(k) \/ UidForConn(k) \/ Remove(k)
      PROVE  UNCHANGED <<issued, job>>
  BY <1>2 DEF OnMessage, Read, Connect, Receive, Drop, ParseMessage, RecordReport, TakePending,
     SendResponse, NoticeClose, UidForConn, Remove, history
<1>3. ASSUME NEW u \in Agent, Silence(u) \/ Stop(u)
      PROVE  UNCHANGED <<issued, job>>
  BY <1>3 DEF Silence, Stop, history
<1>4. CASE MarkOffline
  BY <1>4 DEF MarkOffline, history
<1>5. CASE UNCHANGED vars
  BY <1>5 DEF vars, state, history
<1> QED
  BY <1>1, <1>2, <1>3, <1>4, <1>5, Zenon DEF Next, Handle

\* The steps a dispatch takes once it has begun.
LEMMA DispatchGoesOn ==
    ASSUME TypeInv, NEW p \in Push, Dispatch(p), ~ReadOnline(p)
    PROVE  UNCHANGED issued /\ Active(p)
<1>1. CASE LookupConn(p) \/ SendConfig(p)
  BY <1>1 DEF LookupConn, SendConfig, history, Active
<1>2. CASE Confirm(p) \/ ConfirmTimeout(p) \/ GetPointer(p)
  BY <1>2 DEF Confirm, ConfirmTimeout, GetPointer, history, Active
<1>3. CASE UpsertIntent(p)
  BY <1>3 DEF UpsertIntent, history, Active
<1>4. CASE ReadRow(p) \/ WriteRow(p)
  BY <1>4 DEF ReadRow, WriteRow, history, Active
<1> QED
  BY <1>1, <1>2, <1>3, <1>4, Zenon DEF Dispatch

\* A restart ends the dispatches under way.
LEMMA RestartEnds ==
    ASSUME TypeInv, Restart, NEW p \in Push
    PROVE  job'[p].pc = IF Active(p) THEN "gone" ELSE job[p].pc
<1> DEFINE g == [IdleJob EXCEPT !.pc = "gone"]
<1>1. g.pc = "gone"
  BY DEF IdleJob
<1>2. job'[p] = IF p \in Dispatching THEN g ELSE job[p]
  BY DEF Restart
<1>3. p \in Dispatching <=> Active(p)
  BY DEF Dispatching, Active
<1> QED
  BY <1>1, <1>2, <1>3

\* Every step keeps the turns.
LEMMA TurnNext ==
    ASSUME Sequential
    PROVE  TypeInv /\ TypeInv' /\ TurnInv /\ [Next]_vars => TurnInv'
<1> SUFFICES ASSUME TypeInv, TypeInv', TurnInv, [Next]_vars
             PROVE  TurnInv'
  OBVIOUS
<1>1. ASSUME UNCHANGED issued, \A p \in Push : job'[p].pc = "idle" <=> job[p].pc = "idle",
             \A p \in Push : Active(p)' => Active(p)
      PROVE  TurnInv'
  BY <1>1 DEF TurnInv
<1>2. CASE ~Restart /\ \A p \in Push : ~Dispatch(p)
  BY <1>1, <1>2, JobsRest DEF Active
<1>3. CASE Restart
  BY <1>1, <1>3, RestartEnds DEF Restart, history, Active
<1>4. ASSUME NEW p \in Push, Dispatch(p), ~ReadOnline(p)
      PROVE  TurnInv'
  <2>1. UNCHANGED issued /\ Active(p)
    BY <1>4, DispatchGoesOn
  <2> QED
    BY <1>1, <1>4, <2>1, JobChanges DEF Active
<1>5. ASSUME NEW p \in Push, ReadOnline(p)
      PROVE  TurnInv'
  <2>1. issued' = Append(issued, p) /\ issued \in Seq(Push)
    BY <1>5 DEF ReadOnline, TypeInv, CountOK
  <2>2. /\ DOMAIN issued' = 1 .. Len(issued) + 1 /\ Len(issued') = Len(issued) + 1
        /\ DOMAIN issued = 1 .. Len(issued) /\ Len(issued) \in Nat
        /\ \A i \in DOMAIN issued : issued'[i] = issued[i]
        /\ issued'[Len(issued) + 1] = p
    BY <2>1
  <2>3. job[p].pc = "idle" /\ Dispatching = {}
    BY <1>5 DEF ReadOnline
  <2>4. \A i \in DOMAIN issued : issued[i] # p
    BY <2>3 DEF TurnInv
  <2>5. job'[p].pc # "idle" /\ \A q \in Push : q # p => job'[q].pc = job[q].pc
    BY <1>5, JobChanges, Zenon DEF Dispatch
  <2>6. ASSUME NEW q \in Push
        PROVE  job'[q].pc # "idle" <=> \E i \in DOMAIN issued' : issued'[i] = q
    BY <2>2, <2>4, <2>5 DEF TurnInv
  <2>7. \A i, j \in DOMAIN issued' : issued'[i] = issued'[j] => i = j
    <3> SUFFICES ASSUME NEW i \in DOMAIN issued', NEW j \in DOMAIN issued', issued'[i] = issued'[j]
                 PROVE  i = j
      OBVIOUS
    <3>1. \A h \in DOMAIN issued' : h \in DOMAIN issued \/ h = Len(issued) + 1
      BY <2>2
    <3> QED
      BY <2>2, <2>4, <3>1 DEF TurnInv
  <2>8. \A q \in Push : Active(q)' => q = p
    BY <2>3, <2>5 DEF Active, Dispatching
  <2> QED
    BY <2>2, <2>6, <2>7, <2>8 DEF TurnInv
<1> QED
  BY <1>2, <1>3, <1>4, <1>5

\* An agent has one open connection, and none once it is shut down; there is
\* nothing on the way on one that is not open; only a fault breaks one, and one that
\* polls only when its agent is shut down.  What it still has to read has been
\* answered by a handler that then closes.
OpenInv ==
    /\ \A j, k \in Conn : AgentOf[j] = AgentOf[k] /\ link[j] = "up" /\ link[k] = "up" => j = k
    /\ \A k \in Conn :
          /\ Stopped(AgentOf[k]) => link[k] # "up"
          /\ link[k] = "cut" => faults > 0 /\ (k \in Http => Stopped(AgentOf[k]))
          /\ wire[k] # <<>> => link[k] = "up" /\ (k \in Http => hand[k].pc = "close")
          /\ hand[k].pc \in {"close", "remove"} => k \in Http \/ link[k] # "up"

\* Connections and agents stay as they are, and nothing is sent.
LEMMA OpenFrame ==
    ASSUME TypeInv, TypeInv', OpenInv, UNCHANGED <<link, scene>>, faults' >= faults,
           \A k \in Conn : Stopped(AgentOf[k])' <=> Stopped(AgentOf[k]),
           \A k \in Conn : wire'[k] # <<>> => wire[k] # <<>>,
           \A k \in Conn : \/ hand'[k].pc = hand[k].pc
                           \/ /\ hand[k].pc = "close" => wire[k] = <<>>
                              /\ hand'[k].pc \in {"close", "remove"} =>
                                    k \in Http \/ link[k] # "up"
    PROVE  OpenInv'
<1>1. faults \in Nat /\ faults' \in Nat
  BY DEF TypeInv, CountOK
<1>2. UNCHANGED Http
  BY DEF Http
<1> QED
  BY <1>1, <1>2 DEF OpenInv

\* A connection that is closed is open no more.
LEMMA OpenGone ==
    ASSUME TypeInv, OpenInv, NEW k \in Conn, Gone(k), wire[k] = <<>>,
           UNCHANGED <<wire, agent, faults, scene>>
    PROVE  OpenInv'
<1>1. /\ link'[k] = "down" /\ hand'[k].pc = "idle"
      /\ \A j \in Conn : j # k => link'[j] = link[j] /\ hand'[j] = hand[j]
  BY DEF Gone, TypeInv, HandOK, LinkOK, IdleHandler
<1>2. UNCHANGED Http /\ \A j \in Conn : Stopped(AgentOf[j])' <=> Stopped(AgentOf[j])
  BY DEF Http, Stopped
<1> QED
  BY <1>1, <1>2 DEF OpenInv

\* A message is sent on an open connection, by its handler or by a dispatch.
LEMMA OpenSends ==
    ASSUME TypeInv, TypeInv', OpenInv, UNCHANGED <<link, agent, faults, scene>>,
           NEW k \in Conn, link[k] = "up", \A j \in Conn : j # k => wire'[j] = wire[j],
           \/ k \notin Http /\ UNCHANGED hand
           \/ /\ \A j \in Conn : j # k => hand'[j] = hand[j]
              /\ hand'[k].pc = IF k \in Http THEN "close" ELSE "idle"
    PROVE  OpenInv'
<1>1. UNCHANGED Http /\ \A j \in Conn : Stopped(AgentOf[j])' <=> Stopped(AgentOf[j])
  BY DEF Http, Stopped
<1> QED
  BY <1>1 DEF OpenInv

\* Every step keeps the connections so.
LEMMA OpenNext == TypeInv /\ TypeInv' /\ BoundInv /\ OpenInv /\ [Next]_vars => OpenInv'
<1> SUFFICES ASSUME TypeInv, TypeInv', BoundInv, OpenInv, [Next]_vars
             PROVE  OpenInv'
  OBVIOUS
<1>1. UNCHANGED <<scene, Http>> /\ faults \in Nat
  BY DEF Next, vars, Http, TypeInv, CountOK
<1>2. ASSUME UNCHANGED agent
      PROVE  \A k \in Conn : Stopped(AgentOf[k])' <=> Stopped(AgentOf[k])
  BY <1>2 DEF Stopped
<1>3. CASE UNCHANGED vars
  BY <1>1, <1>2, <1>3, OpenFrame DEF vars, state
<1>4. ASSUME NEW k \in Conn, OnMessage(k)
      PROVE  OpenInv'
  <2>0. PICK pc \in {"parse", "fill"} : \E obj : Read(k, pc, obj)
    BY <1>4 DEF OnMessage
  <2>1. PICK obj : Read(k, pc, obj)
    BY <2>0
  <2>2. /\ UNCHANGED <<link, wire>> /\ ~Stopped(AgentOf[k]) /\ hand[k].pc = "idle"
        /\ agent' = [agent EXCEPT ![AgentOf[k]].owes = "nothing", ![AgentOf[k]].ack = NoAck]
    BY <2>1 DEF Read
  <2>3. \A j \in Conn : Stopped(AgentOf[j])' <=> Stopped(AgentOf[j])
    BY <2>2, NoneApart DEF Stopped, TypeInv, AgentOK, Agents
  <2>4. PICK m : hand' = [hand EXCEPT ![k] = [IdleHandler EXCEPT !.pc = pc, !.msg = m, !.obj = obj]]
    BY <2>1, Zenon DEF Read
  <2>5. hand'[k].pc = pc /\ \A j \in Conn : j # k => hand'[j] = hand[j]
    BY <2>4 DEF IdleHandler, TypeInv, HandOK
  <2>6. faults' >= faults
    BY <1>1, <1>4, FaultsGrow
  <2> QED
    BY <1>1, <2>2, <2>3, <2>5, <2>6, OpenFrame
<1>5. ASSUME NEW k \in Conn, \/ Backfill(k) \/ ParseMessage(k) \/ BindConnection(k)
                             \/ RecordReport(k) \/ TakePending(k) \/ NoticeClose(k)
      PROVE  OpenInv'
  <2>1. UNCHANGED <<link, wire, agent>>
    BY <1>5 DEF Backfill, ParseMessage, BindConnection, RecordReport, TakePending, NoticeClose
  <2>4. faults' >= faults
    BY <1>1, <1>5, FaultsGrow DEF ParseMessage, RecordReport, TakePending, NoticeClose
  <2>2. \A j \in Conn : j # k => hand'[j].pc = hand[j].pc
    BY <1>5 DEF Backfill, ParseMessage, BindConnection, RecordReport, TakePending, NoticeClose,
       TypeInv, HandOK
  <2>3. /\ hand[k].pc # "close"
        /\ hand'[k].pc \in {"close", "remove"} => link[k] # "up"
    BY <1>5 DEF Backfill, ParseMessage, BindConnection, RecordReport, TakePending, NoticeClose,
       TypeInv, HandOK, Handlers
  <2> QED
    BY <1>1, <1>2, <2>1, <2>2, <2>3, <2>4, OpenFrame
<1>6. ASSUME NEW k \in Conn, UidForConn(k)
      PROVE  OpenInv'
  <2>1. wire[k] = <<>> /\ hand[k].pc = "close" /\ UNCHANGED <<wire, agent, faults>>
    BY <1>6 DEF UidForConn
  <2>2. CASE conns[AgentOf[k]] = k
    <3>1. hand' = [hand EXCEPT ![k].pc = "remove"] /\ UNCHANGED link
      BY <1>6, <2>2 DEF UidForConn
    <3>2. k \in Http \/ link[k] # "up"
      BY <2>1 DEF OpenInv
    <3>3. \A j \in Conn : j # k => hand'[j].pc = hand[j].pc
      BY <3>1 DEF TypeInv, HandOK
    <3> QED
      BY <1>1, <1>2, <2>1, <3>1, <3>2, <3>3, OpenFrame
  <2>3. CASE conns[AgentOf[k]] # k
    BY <1>1, <1>6, <2>1, <2>3, OpenGone DEF UidForConn
  <2> QED
    BY <2>2, <2>3
<1>7. ASSUME NEW k \in Conn, Remove(k)
      PROVE  OpenInv'
  <2>1. hand[k].pc = "remove" /\ Gone(k) /\ UNCHANGED <<wire, agent, faults>>
    BY <1>7 DEF Remove
  <2>2. wire[k] = <<>>
    BY <2>1 DEF OpenInv
  <2> QED
    BY <1>1, <2>1, <2>2, OpenGone
<1>8. ASSUME NEW k \in Conn, SendResponse(k)
      PROVE  OpenInv'
  <2>1. /\ UNCHANGED <<link, agent, faults>>
        /\ hand[k].pc = "reply" /\ \A j \in Conn : j # k => hand'[j] = hand[j]
        /\ hand'[k].pc = IF k \in Http \/ link[k] # "up" THEN "close" ELSE "idle"
    BY <1>8 DEF SendResponse, TypeInv, HandOK, IdleHandler
  <2>2. CASE link[k] = "up"
    <3>1. \A j \in Conn : j # k => wire'[j] = wire[j]
      BY <1>8, <2>2 DEF SendResponse, TypeInv, WireOK
    <3> QED
      BY <1>1, <2>1, <2>2, <3>1, OpenSends
  <2>3. CASE link[k] # "up"
    <3>1. UNCHANGED wire
      BY <1>8, <2>3 DEF SendResponse
    <3> QED
      BY <1>1, <1>2, <2>1, <2>3, <3>1, OpenFrame
  <2> QED
    BY <2>2, <2>3
<1>9. ASSUME NEW k \in Conn, Connect(k)
      PROVE  OpenInv'
  <2>1. /\ link' = [link EXCEPT ![k] = "up"] /\ UNCHANGED <<hand, wire, agent, faults>>
        /\ link[k] = "down" /\ ~Stopped(AgentOf[k])
        /\ \A j \in Conn : AgentOf[j] = AgentOf[k] => link[j] # "up"
    BY <1>9 DEF Connect
  <2>2. hand[k].pc = "idle"
    BY <2>1 DEF BoundInv
  <2>3. link'[k] = "up" /\ \A j \in Conn : j # k => link'[j] = link[j]
    BY <2>1 DEF TypeInv, LinkOK
  <2> QED
    BY <1>1, <1>2, <2>1, <2>2, <2>3 DEF OpenInv
<1>10. ASSUME NEW k \in Conn, Receive(k)
       PROVE  OpenInv'
  <2>1. UNCHANGED <<hand, link, faults>> /\ link[k] = "up" /\ wire[k] # <<>>
    BY <1>10 DEF Receive
  <2>2. \A j \in Conn : wire'[j] # <<>> => wire[j] # <<>>
    BY <1>10, <2>1, ReceiveFacts DEF TypeInv, WireOK
  <2>3. ~Stopped(AgentOf[k])
    BY <2>1 DEF OpenInv
  <2>4. /\ agent'[AgentOf[k]].owes # "stopped"
        /\ \A u \in Agent : u # AgentOf[k] => agent'[u] = agent[u]
    <3> DEFINE u == AgentOf[k]
               y == PushYaml[Head(wire[k]).config]
    <3>1. u \in Agent /\ agent \in [Agent -> Agents]
      BY NoneApart DEF TypeInv, AgentOK
    <3>2. CASE Applies(k)
      <4>1. PICK owed \in {"full", "ack"} :
               agent' = [agent EXCEPT ![u] = [running |-> y, owes |-> owed,
                                              ack |-> Ack("applied", y)]]
        BY <3>2 DEF Applies
      <4> HIDE DEF u, y
      <4> QED
        BY <3>1, <4>1 DEF u
    <3>3. CASE Rejects(k)
      <4>1. PICK owed \in {"full", "ack"} :
               agent' = [agent EXCEPT ![u] = [@ EXCEPT !.owes = owed, !.ack = Ack("failed", y)]]
        BY <3>3 DEF Rejects
      <4> HIDE DEF u, y
      <4> QED
        BY <3>1, <4>1 DEF Agents, u
    <3>4. CASE Resends(k)
      BY <3>1, <3>4 DEF Resends, Agents
    <3> QED
      BY <1>10, <3>2, <3>3, <3>4, ReceiveCases
  <2>5. \A j \in Conn : Stopped(AgentOf[j])' <=> Stopped(AgentOf[j])
    BY <2>3, <2>4, NoneApart DEF Stopped
  <2> QED
    BY <1>1, <2>1, <2>2, <2>5, OpenFrame
<1>11. ASSUME NEW k \in Conn, Drop(k)
       PROVE  OpenInv'
  <2>1. /\ k \notin Http /\ faults' = faults + 1 /\ UNCHANGED <<hand, agent>>
        /\ link' = [link EXCEPT ![k] = "cut"] /\ wire' = [wire EXCEPT ![k] = <<>>]
    BY <1>11 DEF Drop, Fault
  <2>2. /\ link'[k] = "cut" /\ wire'[k] = <<>>
        /\ \A j \in Conn : j # k => link'[j] = link[j] /\ wire'[j] = wire[j]
    BY <2>1 DEF TypeInv, LinkOK, WireOK
  <2> QED
    BY <1>1, <1>2, <2>1, <2>2 DEF OpenInv
<1>12. ASSUME NEW u \in Agent, Stop(u)
       PROVE  OpenInv'
  <2>1. faults' = faults + 1 /\ UNCHANGED hand
    BY <1>12 DEF Stop, Fault
  <2>2. \A k \in Conn : /\ link'[k] = IF AgentOf[k] = u /\ link[k] = "up" THEN "cut" ELSE link[k]
                        /\ wire'[k] = IF AgentOf[k] = u THEN <<>> ELSE wire[k]
    BY <1>12 DEF Stop
  <2>3. \A k \in Conn : Stopped(AgentOf[k])' <=> AgentOf[k] = u \/ Stopped(AgentOf[k])
    BY <1>12, NoneApart DEF Stop, Stopped, TypeInv, AgentOK, Agents
  <2> QED
    BY <1>1, <2>1, <2>2, <2>3 DEF OpenInv
<1>13. CASE MarkOffline \/ \E u \in Agent : Silence(u)
  <2>1. UNCHANGED <<hand, link, wire, agent>> /\ faults' \in {faults, faults + 1}
    BY <1>13, FaultsGrow DEF MarkOffline, Silence, Fault
  <2> QED
    BY <1>1, <1>2, <2>1, OpenFrame
<1>14. CASE Restart
  <2>1. \A k \in Conn : link'[k] = "down" /\ wire'[k] = <<>> /\ hand'[k].pc = "idle"
    BY <1>14 DEF Restart, IdleHandler
  <2> QED
    BY <2>1 DEF OpenInv
<1>15. ASSUME NEW p \in Push, Dispatch(p)
       PROVE  OpenInv'
  <2>1. UNCHANGED <<hand, link, agent>> /\ faults' \in {faults, faults + 1}
    BY <1>15, FaultsGrow DEF Dispatch, ReadOnline, LookupConn, SendConfig, Confirm, ConfirmTimeout,
       GetPointer, UpsertIntent, ReadRow, WriteRow
  <2>2. CASE UNCHANGED wire
    BY <1>1, <1>2, <2>1, <2>2, OpenFrame
  <2>3. CASE SendConfig(p)
    <3> DEFINE k == job[p].conn
    <3>1. k \in Conn
      BY <2>3, JobFacts DEF SendConfig, JobRule
    <3>2. \/ UNCHANGED wire
          \/ k \notin Http /\ link[k] = "up" /\ \A j \in Conn : j # k => wire'[j] = wire[j]
      BY <2>3 DEF SendConfig, TypeInv, WireOK
    <3>3. UNCHANGED faults
      BY <2>3, FaultsGrow
    <3> HIDE DEF k
    <3> QED
      BY <1>1, <2>1, <2>2, <3>1, <3>2, <3>3, OpenSends
  <2>4. CASE ~SendConfig(p)
    <3>1. UNCHANGED wire
      BY <1>15, <2>4 DEF Dispatch, ReadOnline, LookupConn, Confirm, ConfirmTimeout, GetPointer,
         UpsertIntent, ReadRow, WriteRow
    <3> QED
      BY <2>2, <3>1
  <2> QED
    BY <2>3, <2>4
<1> QED
  BY <1>3, <1>4, <1>5, <1>6, <1>7, <1>8, <1>9, <1>10, <1>11, <1>12, <1>13, <1>14, <1>15, Zenon
     DEF Next, Handle

\* A dispatch sends to a connection of its collector.
SendInv == \A p \in Push : job[p].pc = "send" => AgentOf[job[p].conn] = PushTo[p]

\* Every step keeps the connection chosen.
LEMMA SendNext == TypeInv /\ TypeInv' /\ SendInv /\ [Next]_vars => SendInv'
<1> SUFFICES ASSUME TypeInv, TypeInv', SendInv, [Next]_vars
             PROVE  SendInv'
  OBVIOUS
<1>1. CASE ~Restart /\ \A p \in Push : ~Dispatch(p)
  BY <1>1, JobsRest DEF SendInv
<1>2. CASE Restart
  BY <1>2, RestartEnds DEF SendInv, Active
<1>3. ASSUME NEW p \in Push, Dispatch(p)
      PROVE  SendInv'
  <2>1. \A q \in Push : q # p => job'[q].pc = job[q].pc /\ job'[q].conn = job[q].conn
    BY <1>3, JobChanges
  <2>2. job'[p].pc = "send" => AgentOf[job'[p].conn] = PushTo[p]
    <3>1. CASE LookupConn(p)
      <4> DEFINE c == conns[PushTo[p]]
      <4>1. job \in [Push -> Jobs] /\ (c # None => AgentOf[c] = PushTo[p])
        BY NoneApart DEF TypeInv, JobOK, BindingOK
      <4>2. CASE c = None
        <5>1. job' = [job EXCEPT ![p].pc = "confirm"]
          BY <3>1, <4>2 DEF LookupConn
        <5> QED
          BY <4>1, <5>1 DEF Jobs
      <4>3. CASE c # None
        <5>1. job' = [job EXCEPT ![p].pc = "send", ![p].conn = c]
          BY <3>1, <4>3 DEF LookupConn
        <5> HIDE DEF c
        <5> QED
          BY <4>1, <4>3, <5>1 DEF Jobs
      <4> QED
        BY <4>2, <4>3
    <3>2. CASE ReadOnline(p)
      <4> DEFINE on == conns[PushTo[p]] # None
      <4>1. job' = [job EXCEPT ![p].pc = "lookup", ![p].online = on]
        BY <3>2 DEF ReadOnline
      <4> HIDE DEF on
      <4> QED
        BY <4>1 DEF TypeInv, JobOK, Jobs
    <3>3. CASE ~LookupConn(p) /\ ~ReadOnline(p)
      <4>1. job[p].pc \notin {"idle", "lookup"}
        BY <1>3, <3>3 DEF Dispatch, SendConfig, Confirm, ConfirmTimeout, GetPointer, UpsertIntent,
           ReadRow, WriteRow
      <4> QED
        BY <1>3, <4>1, JobChanges
    <3> QED
      BY <3>1, <3>2, <3>3
  <2> QED
    BY <2>1, <2>2 DEF SendInv
<1> QED
  BY <1>1, <1>2, <1>3

\* A connection carries a dispatch in the response its handler prepares or on the
\* way to the agent.
Carries(k, p) == Answering(k, p) \/ \E i : OnWire(k, i, p)

\* A connection carries dispatches to its own collector, and a response that is
\* prepared is sent next.
RouteInv ==
    /\ \A k \in Conn, p \in Push : Carries(k, p) => AgentOf[k] = PushTo[p]
    /\ \A k \in Conn, p \in Push : Answering(k, p) => hand[k].pc = "reply"

Polls(u) == \A k \in Conn : AgentOf[k] = u => k \in Http

\* The steps, by what they do to the dispatches under way.  Nothing moves:
Still(p) ==
    /\ Sending(p)' <=> Sending(p)
    /\ job'[p].pc = "idle" <=> job[p].pc = "idle"

Ready == \A k \in Conn, p \in Push : Answering(k, p)' => hand'[k].pc = "reply"

StaysStep ==
    /\ UNCHANGED <<issued, delivered, pending>>
    /\ Ready
    /\ faults' = faults \/ faults' > 0
    /\ \A p \in Push : Still(p)
    /\ \A k \in Conn, p \in Push : /\ Carries(k, p)' <=> Carries(k, p)
                                   /\ link'[k] = "up" /\ Carries(k, p) => link[k] = "up"

\* Something is lost to a fault:
LossStep ==
    /\ UNCHANGED <<issued, delivered>>
    /\ Ready
    /\ faults' > 0
    /\ \A p \in Push : /\ job'[p].pc = "idle" <=> job[p].pc = "idle"
                       /\ Sending(p)' => Sending(p)
                       /\ Queued(p)' => Queued(p)
                       /\ \A q \in Push : Polls(PushTo[p]) /\ PushTo[q] = PushTo[p] /\ Queued(p)'
                                             => Still(q)
    /\ \A k \in Conn : link'[k] = "up" => link[k] = "up"
    /\ \A k \in Conn, p \in Push : Carries(k, p)' => Carries(k, p)

\* A dispatch begins:
BeginStep(p) ==
    /\ UNCHANGED <<delivered, pending, hand, link, wire, faults>>
    /\ issued' = Append(issued, p)
    /\ job[p].pc = "idle" /\ job'[p].pc = "lookup"
    /\ \A q \in Push : q # p => Still(q)

\* it puts the configuration into the queue,
QueueStep(p) ==
    /\ UNCHANGED <<issued, delivered, hand, link, wire, faults>>
    /\ Sending(p) /\ ~Sending(p)' /\ job'[p].pc # "idle"
    /\ pending' = [pending EXCEPT ![PushTo[p]] = p]
    /\ \A q \in Push : q # p => Still(q)

\* or onto the wire of a WebSocket;
WireStep(p, k) ==
    /\ UNCHANGED <<issued, delivered, pending, hand, link, faults>>
    /\ Sending(p) /\ ~Sending(p)' /\ job'[p].pc # "idle"
    /\ k \notin Http /\ AgentOf[k] = PushTo[p]
    /\ \A q \in Push : q # p => Still(q)
    /\ \A j \in Conn, q \in Push : Carries(j, q)' <=> Carries(j, q) \/ (j = k /\ q = p)

\* a handler takes it from the queue,
TakeStep(k) ==
    /\ UNCHANGED <<issued, delivered, link, job, wire, faults>>
    /\ Ready
    /\ hand[k].pc = "take"
    /\ pending' = [pending EXCEPT ![AgentOf[k]] = None]
    /\ \A j \in Conn, q \in Push :
          Carries(j, q)' <=> Carries(j, q) \/ (j = k /\ pending[AgentOf[k]] = q)

\* and the agent reads it.
ReadStep(k, p) ==
    /\ UNCHANGED <<issued, pending, link, job, hand, faults>>
    /\ link[k] = "up" /\ \E i : OnWire(k, i, p)
    /\ delivered' = [delivered EXCEPT ![p] = @ + 1]
    /\ \A j \in Conn, q \in Push : /\ Carries(j, q)' => Carries(j, q)
                                   /\ q # p /\ Carries(j, q) => Carries(j, q)'

\* What is carried stays carried by the handler or the wire that has it.
LEMMA CarriesFrame ==
    ASSUME UNCHANGED wire, \A k \in Conn, p \in Push : Answering(k, p)' <=> Answering(k, p)
    PROVE  \A k \in Conn, p \in Push : Carries(k, p)' <=> Carries(k, p)
BY DEF Carries, OnWire

\* A handler that replies to no one, before and after.
LEMMA HandlerStays ==
    ASSUME TypeInv, RouteInv, NEW k \in Conn, UNCHANGED wire, hand[k].pc # "reply",
           \A j \in Conn : j # k => hand'[j] = hand[j],
           hand'[k].resp.config \in {hand[k].resp.config, None}
    PROVE  /\ Ready
           /\ \A j \in Conn, p \in Push : Carries(j, p)' <=> Carries(j, p)
<1>1. \A p \in Push : p # None
  BY NoneApart
<1>2. \A p \in Push : ~Answering(k, p) /\ ~Answering(k, p)'
  BY <1>1 DEF RouteInv, Answering
<1>3. \A j \in Conn, p \in Push : Answering(j, p)' <=> Answering(j, p)
  BY <1>2 DEF Answering
<1>4. Ready
  BY <1>2 DEF Ready, RouteInv, Answering
<1> QED
  BY <1>3, <1>4, CarriesFrame

\* The steps of a handler that move no dispatch.
LEMMA HandlerKind ==
    ASSUME TypeInv, BoundInv, OpenInv, RouteInv, NEW k \in Conn,
           \/ OnMessage(k) \/ Backfill(k) \/ ParseMessage(k) \/ BindConnection(k)
           \/ RecordReport(k) \/ NoticeClose(k) \/ UidForConn(k) \/ Remove(k)
    PROVE  StaysStep
<1>1. /\ UNCHANGED <<issued, delivered, pending, wire>>
      /\ hand[k].pc # "reply" /\ \A j \in Conn : j # k => hand'[j] = hand[j]
      /\ hand'[k].resp.config \in {hand[k].resp.config, None}
      /\ link' = link \/ link' = [link EXCEPT ![k] = "down"]
      /\ job' = job \/ job' = Detach(AgentOf[k], job)
  <2>1. CASE OnMessage(k)
    <3>1. PICK pc, obj : Read(k, pc, obj)
      BY <2>1 DEF OnMessage
    <3>2. UNCHANGED <<issued, delivered, pending, wire, link, job>> /\ hand[k].pc = "idle"
      BY <3>1 DEF Read, memory, history
    <3>3. PICK m : hand' = [hand EXCEPT ![k] = [IdleHandler EXCEPT !.pc = pc, !.msg = m,
                                                                   !.obj = obj]]
      BY <3>1, Zenon DEF Read
    <3>4. hand'[k].resp.config = None /\ \A j \in Conn : j # k => hand'[j] = hand[j]
      BY <3>3 DEF IdleHandler, NoResponse, TypeInv, HandOK
    <3> QED
      BY <3>2, <3>4
  <2>2. CASE Backfill(k) \/ BindConnection(k)
    BY <2>2 DEF Backfill, BindConnection, history, TypeInv, HandOK, Handlers
  <2>3. CASE ParseMessage(k)
    <3> DEFINE o == FromMessage(reg[AgentOf[k]], hand[k].msg)
    <3>1. hand' = [hand EXCEPT ![k].pc = "upsert", ![k].obj = o] /\ hand[k].pc = "parse"
      BY <2>3 DEF ParseMessage
    <3>2. UNCHANGED <<issued, delivered, pending, wire, link, job>>
      BY <2>3 DEF ParseMessage, memory, history
    <3> HIDE DEF o
    <3> QED
      BY <3>1, <3>2 DEF TypeInv, HandOK, Handlers
  <2>4. CASE RecordReport(k) \/ NoticeClose(k)
    BY <2>4 DEF RecordReport, NoticeClose, memory, history, TypeInv, HandOK, Handlers
  <2>5. CASE UidForConn(k) \/ Remove(k)
    BY <2>5 DEF UidForConn, Remove, Gone, memory, history, TypeInv, HandOK, Handlers, IdleHandler,
       NoResponse
  <2> QED
    BY <2>1, <2>2, <2>3, <2>4, <2>5
<1>2. Ready /\ \A j \in Conn, p \in Push : Carries(j, p)' <=> Carries(j, p)
  BY <1>1, HandlerStays
<1>3. \A p \in Push : job'[p].pc = job[p].pc
  BY <1>1, DetachFacts, NoneApart DEF TypeInv, JobOK, RowsOK
<1>4. \A j \in Conn : link'[j] = "up" => link[j] = "up"
  BY <1>1 DEF TypeInv, LinkOK
<1>5. faults' = faults \/ faults' > 0
  BY FaultsGrow DEF ParseMessage, RecordReport, NoticeClose, UidForConn, Remove
<1> QED
  BY <1>1, <1>2, <1>3, <1>4, <1>5 DEF StaysStep, Still, Sending

\* The steps of others that move no dispatch.
LEMMA OtherKind ==
    ASSUME TypeInv, BoundInv, OpenInv, RouteInv,
           \/ UNCHANGED vars \/ MarkOffline
           \/ \E u \in Agent : Silence(u)
           \/ \E k \in Conn : Connect(k)
    PROVE  StaysStep
<1>1. /\ UNCHANGED <<issued, delivered, pending, wire, hand, job>>
      /\ faults' \in {faults, faults + 1} /\ faults \in Nat
      /\ link' = link \/ \E k \in Conn : link[k] = "down" /\ link' = [link EXCEPT ![k] = "up"]
  BY FaultsGrow DEF vars, state, memory, history, MarkOffline, Silence, Connect, Fault
<1>2. Ready /\ \A j \in Conn, p \in Push : Carries(j, p)' <=> Carries(j, p)
  BY <1>1, CarriesFrame DEF Answering, Ready, RouteInv
<1>3. ASSUME NEW k \in Conn, NEW p \in Push, link'[k] = "up", Carries(k, p)
      PROVE  link[k] = "up"
  <2>1. CASE Answering(k, p)
    <3>1. link[k] # "down"
      BY <2>1 DEF RouteInv, BoundInv
    <3> QED
      BY <1>1, <1>3, <3>1 DEF TypeInv, LinkOK
  <2>2. CASE ~Answering(k, p)
    <3>1. wire[k] # <<>>
      BY <1>3, <2>2 DEF Carries, OnWire
    <3> QED
      BY <3>1 DEF OpenInv
  <2> QED
    BY <2>1, <2>2
<1> QED
  BY <1>1, <1>2, <1>3 DEF StaysStep, Still, Sending

\* Taking from the queue.
LEMMA TakeKind ==
    ASSUME TypeInv, RouteInv, NEW k \in Conn, TakePending(k)
    PROVE  TakeStep(k)
<1> DEFINE u == AgentOf[k]
           full == repEff[u] = None \/ ~hand[k].obj.meta
           r == [config |-> pending[u], full |-> full]
<1>1. /\ UNCHANGED <<issued, delivered, link, job, wire, faults>> /\ hand[k].pc = "take"
      /\ pending' = [pending EXCEPT ![u] = None]
  BY DEF TakePending, history
<1>2. hand'[k].resp.config = pending[u] /\ hand'[k].pc = "reply"
      /\ \A j \in Conn : j # k => hand'[j] = hand[j]
  <2>1. hand' = [hand EXCEPT ![k].pc = "reply", ![k].resp = r]
    BY DEF TakePending
  <2>2. r.config = pending[u]
    OBVIOUS
  <2> HIDE DEF r, u
  <2> QED
    BY <2>1, <2>2 DEF TypeInv, HandOK, Handlers
<1>3. \A q \in Push : ~Answering(k, q)
  BY <1>1 DEF RouteInv
<1>4. \A j \in Conn, q \in Push : Answering(j, q)' <=> Answering(j, q) \/ (j = k /\ pending[u] = q)
  BY <1>2, <1>3 DEF Answering
<1>5. \A j \in Conn, q \in Push : Carries(j, q)' <=> Carries(j, q) \/ (j = k /\ pending[u] = q)
  BY <1>1, <1>4 DEF Carries, OnWire
<1>6. Ready
  BY <1>2 DEF Ready, RouteInv, Answering
<1> QED
  BY <1>1, <1>5, <1>6 DEF TakeStep

\* Sending the response.
LEMMA SendKind ==
    ASSUME TypeInv, BoundInv, OpenInv, RouteInv, NEW k \in Conn, SendResponse(k)
    PROVE  StaysStep \/ LossStep
<1> DEFINE r == hand[k].resp
<1>1. /\ UNCHANGED <<issued, delivered, pending, link, job, faults>> /\ hand[k].pc = "reply"
      /\ hand'[k].resp.config = None /\ \A j \in Conn : j # k => hand'[j] = hand[j]
  BY DEF SendResponse, memory, history, IdleHandler, NoResponse, TypeInv, HandOK
<1>2. \A j \in Conn, q \in Push : Answering(j, q)' <=> Answering(j, q) /\ j # k
  BY <1>1, NoneApart DEF Answering
<1>3. Ready
  BY <1>1, <1>2 DEF Ready, RouteInv, Answering
<1>4. CASE link[k] = "up"
  <2>1. \A j \in Conn, q \in Push : Carries(j, q)' <=> Carries(j, q)
    <3>1. CASE r = NoResponse
      <4>1. \A q \in Push : ~Answering(k, q)
        BY <3>1, NoneApart DEF Answering, NoResponse
      <4>2. \A j \in Conn : wire'[j] = wire[j]
        BY <1>4, <3>1 DEF SendResponse, TypeInv, WireOK
      <4> QED
        BY <1>2, <4>1, <4>2 DEF Carries, OnWire
    <3>2. CASE r # NoResponse
      <4>1. wire' = [wire EXCEPT ![k] = Append(@, r)] /\ r \in Responses
        BY <1>4, <3>2 DEF SendResponse, TypeInv, HandOK, Handlers
      <4> HIDE DEF r
      <4>2. \A j \in Conn, q \in Push : \A i :
               OnWire(j, i, q)' <=>
                   OnWire(j, i, q) \/ (j = k /\ i = Len(wire[k]) + 1 /\ q = r.config)
        BY <4>1, WireAppend
      <4>3. \A q \in Push : Answering(k, q) <=> q = r.config
        BY DEF Answering, r
      <4> QED
        BY <1>2, <4>2, <4>3 DEF Carries
    <3> QED
      BY <3>1, <3>2
  <2> QED
    BY <1>1, <1>3, <2>1 DEF StaysStep, Still, Sending
<1>5. CASE link[k] # "up"
  <2>1. UNCHANGED wire
    BY <1>5 DEF SendResponse
  <2>2. \A j \in Conn, q \in Push : Carries(j, q)' => Carries(j, q)
    BY <1>2, <2>1 DEF Carries, OnWire
  <2>3. link[k] = "cut"
    BY <1>1, <1>5 DEF BoundInv, TypeInv, LinkOK
  <2>4. faults > 0
    BY <2>3 DEF OpenInv
  <2> QED
    BY <1>1, <1>3, <2>2, <2>4 DEF LossStep, Still, Sending, Queued
<1> QED
  BY <1>4, <1>5

\* The faults that take what is under way with them.
LEMMA FaultKind ==
    ASSUME TypeInv, RouteInv,
           Restart \/ (\E k \in Conn : Drop(k)) \/ \E u \in Agent : Stop(u)
    PROVE  LossStep
<1>1. UNCHANGED <<issued, delivered>> /\ faults' > 0
  BY DEF Restart, Drop, Stop, Fault, history, TypeInv, CountOK
<1>2. ASSUME UNCHANGED <<hand, pending, job>>,
             \A k \in Conn : wire'[k] \in {wire[k], <<>>},
             \A k \in Conn : link'[k] = "up" => link[k] = "up"
      PROVE  LossStep
  <2>1. \A j \in Conn, q \in Push : Carries(j, q)' => Carries(j, q)
    <3>1. \A j \in Conn, q \in Push : \A i : OnWire(j, i, q)' => OnWire(j, i, q)
      BY <1>2 DEF OnWire
    <3>2. \A j \in Conn, q \in Push : Answering(j, q)' => Answering(j, q)
      BY <1>2 DEF Answering
    <3> QED
      BY <3>1, <3>2 DEF Carries
  <2>2. Ready
    BY <1>2 DEF Ready, RouteInv, Answering
  <2> QED
    BY <1>1, <1>2, <2>1, <2>2 DEF LossStep, Still, Sending, Queued
<1>3. CASE Restart
  <2>1. \A k \in Conn : link'[k] = "down" /\ wire'[k] = <<>> /\ hand'[k].resp.config = None
    BY <1>3 DEF Restart, IdleHandler, NoResponse
  <2>2. \A k \in Conn, p \in Push : ~Carries(k, p)'
    BY <2>1, NoneApart DEF Carries, Answering, OnWire
  <2>3. \A p \in Push : ~Queued(p)'
    BY <1>3, NoneApart DEF Restart, Queued
  <2>4. \A p \in Push : (job'[p].pc = "idle" <=> job[p].pc = "idle") /\ (Sending(p)' => Sending(p))
    BY <1>3, RestartEnds DEF Active, Sending
  <2>5. Ready
    BY <2>2 DEF Ready, Carries
  <2> QED
    BY <1>1, <2>1, <2>2, <2>3, <2>4, <2>5 DEF LossStep
<1>4. ASSUME NEW k \in Conn, Drop(k)
      PROVE  LossStep
  <2>1. /\ UNCHANGED <<hand, pending, job>>
        /\ link' = [link EXCEPT ![k] = "cut"] /\ wire' = [wire EXCEPT ![k] = <<>>]
    BY <1>4 DEF Drop, memory
  <2>2. \A j \in Conn : wire'[j] \in {wire[j], <<>>} /\ (link'[j] = "up" => link[j] = "up")
    BY <2>1 DEF TypeInv, WireOK, LinkOK
  <2> QED
    BY <1>2, <2>1, <2>2
<1>5. ASSUME NEW u \in Agent, Stop(u)
      PROVE  LossStep
  <2>1. UNCHANGED <<hand, pending, job>>
    BY <1>5 DEF Stop, memory
  <2>2. \A k \in Conn : wire'[k] \in {wire[k], <<>>} /\ (link'[k] = "up" => link[k] = "up")
    BY <1>5 DEF Stop
  <2> QED
    BY <1>2, <2>1, <2>2
<1> QED
  BY <1>3, <1>4, <1>5

\* Reading from a connection.
LEMMA ReadKind ==
    ASSUME TypeInv, RouteInv, NEW k \in Conn, Receive(k)
    PROVE  StaysStep \/ \E p \in Push : ReadStep(k, p)
<1> DEFINE m == Head(wire[k]).config
           t == Tail(wire[k])
<1>1. UNCHANGED <<issued, pending, link, job, hand, faults>> /\ link[k] = "up"
  BY DEF Receive, memory
<1>2. \A j \in Conn, q \in Push : Answering(j, q)' <=> Answering(j, q)
  BY <1>1 DEF Answering
<1>3. \A j \in Conn : j # k => wire'[j] = wire[j]
  BY ReceiveFacts DEF TypeInv, WireOK
<1>4. /\ wire'[k] = t /\ m = wire[k][1].config /\ t \in Seq(Responses) /\ wire[k] \in Seq(Responses)
      /\ \A h \in DOMAIN t : h + 1 \in DOMAIN wire[k] /\ t[h] = wire[k][h + 1]
  BY ReceiveFacts DEF TypeInv, WireOK
<1>5. \A i \in DOMAIN wire[k] : i = 1 \/ (i - 1 \in DOMAIN t /\ wire[k][i] = t[i - 1])
  <2>1. Len(t) = Len(wire[k]) - 1
    BY ReceiveFacts
  <2> HIDE DEF t
  <2>2. SUFFICES ASSUME NEW i \in DOMAIN wire[k], i # 1
                 PROVE  i - 1 \in DOMAIN t /\ wire[k][i] = t[i - 1]
    OBVIOUS
  <2>3. i \in 1 .. Len(wire[k]) /\ DOMAIN t = 1 .. Len(t) /\ Len(wire[k]) \in Nat
    BY <1>4
  <2>4. i - 1 \in DOMAIN t /\ (i - 1) + 1 = i
    BY <2>1, <2>2, <2>3
  <2> QED
    BY <1>4, <2>4
<1> HIDE DEF t, m
<1>6. \A q \in Push : Carries(k, q)' => Carries(k, q)
  <2>1. ASSUME NEW q \in Push, NEW i, OnWire(k, i, q)'
        PROVE  OnWire(k, i + 1, q)
    BY <1>4, <2>1 DEF OnWire
  <2> QED
    BY <1>2, <2>1 DEF Carries
<1>7. \A q \in Push : q # m /\ Carries(k, q) => Carries(k, q)'
  <2>1. ASSUME NEW q \in Push, q # m, NEW i, OnWire(k, i, q)
        PROVE  OnWire(k, i - 1, q)'
    BY <1>4, <1>5, <2>1 DEF OnWire
  <2> QED
    BY <1>2, <2>1 DEF Carries
<1>8. \A j \in Conn, q \in Push : /\ Carries(j, q)' => Carries(j, q)
                                  /\ q # m /\ Carries(j, q) => Carries(j, q)'
  BY <1>2, <1>3, <1>6, <1>7 DEF Carries, OnWire
<1>9. CASE m = None
  <2>1. UNCHANGED delivered
    BY <1>9, ReceiveDelivers DEF m
  <2>2. Ready
    BY <1>1, <1>2 DEF Ready, RouteInv
  <2>3. \A q \in Push : q # m
    BY <1>9, NoneApart
  <2> QED
    BY <1>1, <1>8, <2>1, <2>2, <2>3 DEF StaysStep, Still, Sending
<1>10. CASE m # None
  <2>1. delivered' = [delivered EXCEPT ![m] = @ + 1]
    BY <1>10, ReceiveDelivers DEF m
  <2>2. m \in Push
    BY <1>10, ReceiveFacts DEF m, Responses
  <2>3. OnWire(k, 1, m)
    BY <1>4, ReceiveFacts DEF OnWire
  <2> QED
    BY <1>1, <1>8, <2>1, <2>2, <2>3 DEF ReadStep
<1> QED
  BY <1>9, <1>10

\* The steps of a dispatch.
LEMMA DispatchKind ==
    ASSUME TypeInv, OpenInv, SendInv, RouteInv, NEW p \in Push, Dispatch(p)
    PROVE  \/ StaysStep \/ LossStep \/ BeginStep(p) \/ QueueStep(p)
           \/ \E k \in Conn : WireStep(p, k)
<1>1. \A q \in Push : q # p => Still(q)
  BY JobChanges DEF Still, Sending
<1>2. UNCHANGED <<delivered, hand, link>>
  BY DEF Dispatch, memory, history, ReadOnline, LookupConn, SendConfig, Confirm, ConfirmTimeout,
     GetPointer, UpsertIntent, ReadRow, WriteRow
<1>10. faults' = faults \/ faults' > 0
  BY FaultsGrow
<1>11. ReadOnline(p) \/ LookupConn(p) \/ SendConfig(p) => UNCHANGED faults
  BY FaultsGrow
<1>3. Ready /\ \A j \in Conn, q \in Push : Answering(j, q)' <=> Answering(j, q)
  BY <1>2 DEF Ready, RouteInv, Answering
<1>4. ASSUME UNCHANGED <<issued, pending, wire>>, Still(p)
      PROVE  StaysStep
  BY <1>1, <1>2, <1>3, <1>4, <1>10, CarriesFrame DEF StaysStep
<1>5. CASE ReadOnline(p)
  <2> DEFINE on == conns[PushTo[p]] # None
  <2>1. /\ job' = [job EXCEPT ![p].pc = "lookup", ![p].online = on] /\ job[p].pc = "idle"
        /\ issued' = Append(issued, p) /\ UNCHANGED <<pending, wire>>
    BY <1>5 DEF ReadOnline, memory
  <2> HIDE DEF on
  <2>2. job'[p].pc = "lookup"
    BY <2>1 DEF TypeInv, JobOK, Jobs
  <2> QED
    BY <1>1, <1>2, <1>5, <1>11, <2>1, <2>2 DEF BeginStep
<1>6. CASE LookupConn(p) /\ conns[PushTo[p]] = None
  <2>1. /\ pending' = [pending EXCEPT ![PushTo[p]] = p] /\ UNCHANGED <<issued, wire>>
        /\ job' = [job EXCEPT ![p].pc = "confirm"] /\ job[p].pc = "lookup"
    BY <1>6 DEF LookupConn, history
  <2>2. Sending(p) /\ ~Sending(p)' /\ job'[p].pc # "idle"
    BY <2>1 DEF Sending, TypeInv, JobOK, Jobs
  <2> QED
    BY <1>1, <1>2, <1>6, <1>11, <2>1, <2>2 DEF QueueStep
<1>7. CASE LookupConn(p) /\ conns[PushTo[p]] # None
  <2> DEFINE c == conns[PushTo[p]]
  <2>1. /\ UNCHANGED <<issued, wire, pending>>
        /\ job' = [job EXCEPT ![p].pc = "send", ![p].conn = c] /\ job[p].pc = "lookup"
    BY <1>7 DEF LookupConn, history
  <2> HIDE DEF c
  <2>2. Still(p)
    BY <2>1 DEF Still, Sending, TypeInv, JobOK, Jobs
  <2> QED
    BY <1>4, <2>1, <2>2
<1>8. CASE SendConfig(p)
  <2> DEFINE k == job[p].conn
             r == [config |-> p, full |-> FALSE]
  <2>1. job[p].pc = "send" /\ job' = [job EXCEPT ![p].pc = "confirm"] /\ UNCHANGED issued
    BY <1>8 DEF SendConfig, history
  <2>2. Sending(p) /\ ~Sending(p)' /\ job'[p].pc # "idle"
    BY <2>1 DEF Sending, TypeInv, JobOK, Jobs
  <2>3. k \in Conn /\ AgentOf[k] = PushTo[p]
    BY <2>1, JobFacts DEF JobRule, SendInv
  <2>8. UNCHANGED faults
    BY <1>8, <1>11
  <2>4. CASE /\ k \notin Http /\ UNCHANGED pending
             /\ wire' = [wire EXCEPT ![k] = Append(@, r)]
    <3>1. r \in Responses /\ r.config = p
      BY DEF Responses
    <3> HIDE DEF r, k
    <3>2. \A j \in Conn, q \in Push : \A i :
             OnWire(j, i, q)' <=> OnWire(j, i, q) \/ (j = k /\ i = Len(wire[k]) + 1 /\ q = p)
      BY <2>3, <2>4, <3>1, WireAppend
    <3>3. \A j \in Conn, q \in Push : Carries(j, q)' <=> Carries(j, q) \/ (j = k /\ q = p)
      BY <1>3, <3>2 DEF Carries
    <3>4. WireStep(p, k)
      BY <1>1, <1>2, <2>1, <2>2, <2>3, <2>4, <2>8, <3>3 DEF WireStep
    <3> QED
      BY <2>3, <3>4
  <2>5. CASE pending' = [pending EXCEPT ![PushTo[p]] = p] /\ UNCHANGED wire
    BY <1>1, <1>2, <2>1, <2>2, <2>5, <2>8 DEF QueueStep
  <2>6. CASE k \notin Http /\ link[k] = "cut" /\ UNCHANGED <<pending, wire>>
    <3>1. faults > 0
      BY <2>3, <2>6 DEF OpenInv
    <3>2. \A q \in Push : Polls(PushTo[q]) => PushTo[q] # PushTo[p]
      BY <2>3, <2>6 DEF Polls
    <3>3. \A q \in Push : /\ job'[q].pc = "idle" <=> job[q].pc = "idle"
                          /\ Sending(q)' => Sending(q)
      BY <1>1, <2>1, <2>2 DEF Still
    <3>4. \A q \in Push : Queued(q)' => Queued(q)
      BY <2>6 DEF Queued
    <3>5. \A j \in Conn, q \in Push : Carries(j, q)' => Carries(j, q)
      BY <1>3, <2>6, CarriesFrame
    <3>6. \A q, o \in Push : Polls(PushTo[q]) /\ PushTo[o] = PushTo[q] => Still(o)
      BY <1>1, <3>2
    <3> QED
      BY <1>2, <1>3, <2>1, <2>8, <3>1, <3>3, <3>4, <3>5, <3>6 DEF LossStep
  <2>7. \/ k \notin Http /\ UNCHANGED pending /\ wire' = [wire EXCEPT ![k] = Append(@, r)]
        \/ pending' = [pending EXCEPT ![PushTo[p]] = p] /\ UNCHANGED wire
        \/ k \notin Http /\ link[k] = "cut" /\ UNCHANGED <<pending, wire>>
    BY <1>8, Zenon DEF SendConfig
  <2> QED
    BY <2>4, <2>5, <2>6, <2>7
<1>9. CASE Confirm(p) \/ ConfirmTimeout(p) \/ GetPointer(p) \/ UpsertIntent(p) \/ ReadRow(p)
           \/ WriteRow(p)
  <2>1. UNCHANGED <<issued, pending, wire>>
    BY <1>9 DEF memory, history, Confirm, ConfirmTimeout, GetPointer, UpsertIntent, ReadRow,
       WriteRow
  <2>2. job[p].pc \notin {"idle", "lookup", "send"}
    BY <1>9 DEF Confirm, ConfirmTimeout, GetPointer, UpsertIntent, ReadRow, WriteRow
  <2>3. Still(p)
    BY <2>2, JobChanges DEF Still, Sending
  <2> QED
    BY <1>4, <2>1, <2>3
<1> QED
  BY <1>5, <1>6, <1>7, <1>8, <1>9, Zenon DEF Dispatch

\* Every step is of one of these kinds.
LEMMA StepKinds ==
    ASSUME TypeInv, BoundInv, OpenInv, SendInv, RouteInv, [Next]_vars
    PROVE  \/ StaysStep \/ LossStep
           \/ \E p \in Push : BeginStep(p) \/ QueueStep(p) \/ \E k \in Conn : WireStep(p, k)
           \/ \E k \in Conn : TakeStep(k) \/ \E p \in Push : ReadStep(k, p)
<1>1. ASSUME NEW k \in Conn, OnMessage(k) \/ Handle(k) \/ Connect(k) \/ Receive(k) \/ Drop(k)
      PROVE  StaysStep \/ LossStep \/ TakeStep(k) \/ \E p \in Push : ReadStep(k, p)
  BY <1>1, HandlerKind, TakeKind, SendKind, OtherKind, ReadKind, FaultKind, Zenon DEF Handle
<1>2. CASE UNCHANGED vars \/ MarkOffline \/ \E u \in Agent : Silence(u)
  BY <1>2, OtherKind, Zenon
<1>3. CASE Restart \/ \E u \in Agent : Stop(u)
  BY <1>3, FaultKind, Zenon
<1> QED
  BY <1>1, <1>2, <1>3, DispatchKind, Zenon DEF Next

\* Connections go on carrying dispatches to their own collector only.
LEMMA RouteNext ==
    TypeInv /\ TypeInv' /\ BoundInv /\ OpenInv /\ SendInv /\ RouteInv /\ [Next]_vars => RouteInv'
<1> SUFFICES ASSUME TypeInv, BoundInv, OpenInv, SendInv, RouteInv, [Next]_vars
             PROVE  RouteInv'
  OBVIOUS
<1>1. ASSUME Ready, \A k \in Conn, p \in Push : Carries(k, p)' => Carries(k, p)
      PROVE  RouteInv'
  BY <1>1 DEF RouteInv, Ready
<1>2. ASSUME UNCHANGED hand,
             \A k \in Conn, p \in Push : Carries(k, p)' => Carries(k, p) \/ AgentOf[k] = PushTo[p]
      PROVE  RouteInv'
  BY <1>2 DEF RouteInv, Answering
<1>3. CASE StaysStep \/ LossStep
  BY <1>1, <1>3 DEF StaysStep, LossStep
<1>4. CASE \E p \in Push : BeginStep(p) \/ QueueStep(p)
  <2>1. UNCHANGED <<hand, wire>>
    BY <1>4 DEF BeginStep, QueueStep
  <2> QED
    BY <1>2, <2>1 DEF Carries, Answering, OnWire
<1>5. CASE \E p \in Push, k \in Conn : WireStep(p, k)
  BY <1>2, <1>5 DEF WireStep
<1>6. CASE \E k \in Conn : TakeStep(k)
  <2>1. PICK k \in Conn : TakeStep(k)
    BY <1>6
  <2>2. \A p \in Push : pending[AgentOf[k]] = p => AgentOf[k] = PushTo[p]
    BY NoneApart DEF TypeInv, QueueOK
  <2> QED
    BY <2>1, <2>2 DEF TakeStep, RouteInv, Ready
<1>7. CASE \E k \in Conn, p \in Push : ReadStep(k, p)
  BY <1>2, <1>7 DEF ReadStep
<1> QED
  BY <1>3, <1>4, <1>5, <1>6, <1>7, StepKinds

\* A dispatch is ahead on the way to the agent, or still behind.
Ahead(p) == \E k \in Conn : link[k] = "up" /\ Carries(k, p)
Behind(p) == delivered[p] = 0 /\ \A k \in Conn : ~Carries(k, p)

\* For a collector that polls: while a dispatch waits in the queue, a later one has
\* not been put there; while one is on its way, a later one is not.
OrderInv ==
    \A p, q \in Push : PushTo[p] = PushTo[q] /\ Polls(PushTo[p]) /\ After(p, q) =>
        /\ Queued(p) => Sending(q)
        /\ Ahead(p) => Behind(q)

\* What a dispatch's place says of the others.
LEMMA PlaceFacts ==
    ASSUME OnceInv, NEW p \in Push
    PROVE  /\ Sending(p) \/ job[p].pc = "idle" \/ Queued(p) => Behind(p)
           /\ Sending(p) \/ job[p].pc = "idle" => ~Queued(p)
           /\ (\E k \in Conn : Carries(k, p)) => delivered[p] = 0 /\ job[p].pc # "idle"
BY DEF OnceInv, OnePlace, OffWire, Held, Sending, Behind, Carries

\* A poll's handler that is about to look into the queue has no dispatch before it.
LEMMA NobodyAhead ==
    ASSUME TypeInv, BoundInv, OpenInv, RouteInv, NEW k \in Conn, hand[k].pc = "take",
           Polls(AgentOf[k]), NEW p \in Push, PushTo[p] = AgentOf[k]
    PROVE  ~Ahead(p)
<1> SUFFICES ASSUME NEW j \in Conn, link[j] = "up", Carries(j, p)
             PROVE  FALSE
  BY DEF Ahead
<1>1. AgentOf[j] = AgentOf[k]
  BY DEF RouteInv
<1>2. j \in Http /\ k \in Http
  BY <1>1 DEF Polls
<1>3. CASE j = k
  <2>1. hand[j].pc = "reply" \/ wire[j] # <<>>
    BY DEF Carries, RouteInv, OnWire
  <2> QED
    BY <1>2, <1>3, <2>1 DEF OpenInv
<1>4. CASE j # k
  <2>1. link[k] # "up" /\ ~Stopped(AgentOf[k])
    BY <1>1, <1>4 DEF OpenInv
  <2>2. link[k] # "cut"
    BY <1>2, <2>1 DEF OpenInv
  <2>3. link[k] # "down"
    BY DEF BoundInv
  <2> QED
    BY <2>1, <2>2, <2>3 DEF TypeInv, LinkOK
<1> QED
  BY <1>3, <1>4

\* Every step keeps the order towards the collectors that poll.
LEMMA OrderNext ==
    TypeInv /\ BoundInv /\ OpenInv /\ SendInv /\ RouteInv /\ TurnInv /\ OnceInv /\ OrderInv
        /\ [Next]_vars => OrderInv'
<1> SUFFICES ASSUME TypeInv, BoundInv, OpenInv, SendInv, RouteInv, TurnInv, OnceInv, OrderInv,
                    [Next]_vars,
                    NEW p \in Push, NEW q \in Push,
                    PushTo[p] = PushTo[q], Polls(PushTo[p])', After(p, q)'
             PROVE  /\ Queued(p)' => Sending(q)'
                    /\ Ahead(p)' => Behind(q)'
  BY DEF OrderInv
<1>1. Polls(PushTo[p]) /\ PushTo[p] \in Agent /\ p # None /\ q # None
  BY NoneApart DEF Polls, Http, Next, vars
<1>2. ASSUME After(p, q)
      PROVE  (Queued(p) => Sending(q)) /\ (Ahead(p) => Behind(q))
  BY <1>1, <1>2 DEF OrderInv
<1>3. ASSUME UNCHANGED issued
      PROVE  After(p, q)
  BY <1>3 DEF After
<1>4. CASE StaysStep
  <2>1. After(p, q) /\ (Queued(p)' <=> Queued(p)) /\ (Sending(q)' <=> Sending(q))
    BY <1>3, <1>4 DEF StaysStep, Still, Queued
  <2>2. (Ahead(p)' => Ahead(p)) /\ (Behind(q) => Behind(q)')
    BY <1>4 DEF StaysStep, Ahead, Behind
  <2> QED
    BY <1>2, <2>1, <2>2
<1>5. CASE LossStep
  <2>1. After(p, q) /\ (Queued(p)' => Queued(p) /\ (Sending(q)' <=> Sending(q)))
    BY <1>1, <1>3, <1>5 DEF LossStep, Still
  <2>2. (Ahead(p)' => Ahead(p)) /\ (Behind(q) => Behind(q)')
    BY <1>5 DEF LossStep, Ahead, Behind
  <2> QED
    BY <1>2, <2>1, <2>2
<1>6. ASSUME NEW o \in Push, BeginStep(o)
      PROVE  /\ Queued(p)' => Sending(q)'
             /\ Ahead(p)' => Behind(q)'
  <2>1. (Queued(p)' <=> Queued(p)) /\ (Ahead(p)' <=> Ahead(p)) /\ (Behind(q)' <=> Behind(q))
    BY <1>6 DEF BeginStep, Queued, Ahead, Behind, Carries, Answering, OnWire
  <2>2. CASE q = o
    BY <1>6, <2>1, <2>2, PlaceFacts DEF BeginStep, Sending
  <2>3. CASE q # o
    <3>1. After(p, q)
      <4>1. issued' = Append(issued, o) /\ issued \in Seq(Push)
        BY <1>6 DEF BeginStep, TypeInv, CountOK
      <4>2. /\ DOMAIN issued' = 1 .. Len(issued) + 1
            /\ DOMAIN issued = 1 .. Len(issued) /\ Len(issued) \in Nat
            /\ \A i \in DOMAIN issued : issued'[i] = issued[i]
            /\ issued'[Len(issued) + 1] = o
        BY <4>1
      <4>3. PICK h, i \in DOMAIN issued' : h < i /\ issued'[h] = p /\ issued'[i] = q
        BY DEF After
      <4>4. h \in DOMAIN issued /\ i \in DOMAIN issued
        BY <2>3, <4>2, <4>3
      <4> QED
        BY <4>2, <4>3, <4>4 DEF After
    <3>2. Sending(q)' <=> Sending(q)
      BY <1>6, <2>3 DEF BeginStep, Still
    <3> QED
      BY <1>2, <2>1, <3>1, <3>2
  <2> QED
    BY <2>2, <2>3
<1>7. ASSUME NEW o \in Push, QueueStep(o)
      PROVE  /\ Queued(p)' => Sending(q)'
             /\ Ahead(p)' => Behind(q)'
  <2>1. After(p, q) /\ (Ahead(p)' <=> Ahead(p)) /\ (Behind(q)' <=> Behind(q))
    BY <1>3, <1>7 DEF QueueStep, Ahead, Behind, Carries, Answering, OnWire
  <2>2. Active(o)
    BY <1>7 DEF QueueStep, Sending, Active
  <2>3. p # o
    BY <2>1, <2>2, LastIssued
  <2>4. Queued(p)' => Queued(p) /\ q # o
    <3>1. pending' = [pending EXCEPT ![PushTo[o]] = o] /\ pending \in [Agent -> Push \cup {None}]
      BY <1>7 DEF QueueStep, TypeInv, QueueOK
    <3> QED
      BY <1>1, <2>3, <3>1 DEF Queued
  <2>5. q # o => (Sending(q)' <=> Sending(q))
    BY <1>7 DEF QueueStep, Still
  <2> QED
    BY <1>2, <2>1, <2>4, <2>5
<1>8. ASSUME NEW o \in Push, NEW k \in Conn, WireStep(o, k)
      PROVE  /\ Queued(p)' => Sending(q)'
             /\ Ahead(p)' => Behind(q)'
  <2>1. PushTo[o] # PushTo[p] /\ p # o /\ q # o
    BY <1>1, <1>8 DEF WireStep, Polls
  <2>2. After(p, q) /\ (Queued(p)' <=> Queued(p)) /\ (Sending(q)' <=> Sending(q))
    BY <1>3, <1>8, <2>1 DEF WireStep, Queued, Still
  <2>3. (Ahead(p)' <=> Ahead(p)) /\ (Behind(q)' <=> Behind(q))
    BY <1>8, <2>1 DEF WireStep, Ahead, Behind
  <2> QED
    BY <1>2, <2>2, <2>3
<1>9. ASSUME NEW k \in Conn, TakeStep(k)
      PROVE  /\ Queued(p)' => Sending(q)'
             /\ Ahead(p)' => Behind(q)'
  <2> DEFINE u == AgentOf[k]
  <2>1. /\ u \in Agent
        /\ pending' = [pending EXCEPT ![u] = None]
        /\ pending \in [Agent -> Push \cup {None}]
    BY <1>9, NoneApart DEF TakeStep, TypeInv, QueueOK
  <2>2. After(p, q) /\ (Sending(q)' <=> Sending(q)) /\ (Queued(p)' => Queued(p))
    BY <1>1, <1>3, <1>9, <2>1 DEF TakeStep, Sending, Queued
  <2>3. \A o \in Push : pending[u] = o => Queued(o) /\ PushTo[o] = u
    BY <2>1, NoneApart DEF TypeInv, QueueOK, Queued
  <2>4. \A j \in Conn, o \in Push : Carries(j, o)' <=> Carries(j, o) \/ (j = k /\ pending[u] = o)
    BY <1>9 DEF TakeStep
  <2>5. ASSUME Ahead(p)'
        PROVE  Behind(q)'
    <3>1. CASE pending[u] = p
      <4>1. Sending(q)
        BY <1>2, <2>2, <2>3, <3>1
      <4>2. Behind(q) /\ q # p
        BY <2>3, <3>1, <4>1, PlaceFacts
      <4> QED
        BY <1>9, <2>4, <3>1, <4>2 DEF Behind, TakeStep
    <3>2. CASE pending[u] # p
      <4>1. Ahead(p)
        BY <1>9, <2>4, <2>5, <3>2 DEF Ahead, TakeStep
      <4>2. Behind(q)
        BY <1>2, <2>2, <4>1
      <4>3. pending[u] # q
        <5>1. pending[u] = q => PushTo[p] = u
          BY <2>3
        <5>2. PushTo[p] = u => ~Ahead(p)
          BY <1>1, <1>9, NobodyAhead DEF TakeStep
        <5> QED
          BY <4>1, <5>1, <5>2
      <4> QED
        BY <1>9, <2>4, <4>2, <4>3 DEF Behind, TakeStep
    <3> QED
      BY <3>1, <3>2
  <2> QED
    BY <1>2, <2>2, <2>5
<1>10. ASSUME NEW k \in Conn, NEW o \in Push, ReadStep(k, o)
       PROVE  /\ Queued(p)' => Sending(q)'
              /\ Ahead(p)' => Behind(q)'
  <2>1. After(p, q) /\ (Queued(p)' <=> Queued(p)) /\ (Sending(q)' <=> Sending(q))
    BY <1>3, <1>10 DEF ReadStep, Queued, Sending
  <2>2. Ahead(p)' => Ahead(p)
    BY <1>10 DEF ReadStep, Ahead
  <2>3. Behind(q) => Behind(q)'
    <3>1. Behind(q) => q # o
      BY <1>10 DEF ReadStep, Behind, Carries
    <3>2. q # o => delivered'[q] = delivered[q]
      BY <1>10 DEF ReadStep, TypeInv, CountOK
    <3> QED
      BY <1>10, <3>1, <3>2 DEF ReadStep, Behind
  <2> QED
    BY <1>2, <2>1, <2>2, <2>3
<1> QED
  BY <1>4, <1>5, <1>6, <1>7, <1>8, <1>9, <1>10, StepKinds

\* A dispatch is on its way.
Under(p) == Sending(p) \/ Queued(p) \/ \E k \in Conn : Carries(k, p)

Fates == {"new", "accepted", "delivered", "gone"}

FateRule(p) ==
    /\ delivered[p] > 0 => Fate[p] = "delivered"
    /\ delivered[p] = 0 /\ job[p].pc = "idle" => Fate[p] = "new"
    /\ delivered[p] = 0 /\ job[p].pc # "idle" /\ Under(p) => Fate[p] = "accepted"
    /\ delivered[p] = 0 /\ job[p].pc # "idle" /\ ~Under(p) => Fate[p] = "gone"

\* The fate of a dispatch, by its place.
LEMMA FateFacts ==
    ASSUME TypeInv, TypeInv'
    PROVE  /\ Fate \in [Push -> Fates] /\ Fate' \in [Push -> Fates]
           /\ \A p \in Push : /\ delivered[p] \in Nat /\ delivered'[p] \in Nat
                              /\ FateRule(p) /\ FateRule(p)'
<1>1. \A p \in Push : delivered[p] \in Nat /\ delivered'[p] \in Nat
  BY DEF TypeInv, CountOK
<1>2. \A p \in Push : (InTransit(p) <=> Under(p)) /\ (InTransit(p)' <=> Under(p)')
  BY DEF InTransit, Under, Sending, Queued, Carries, Answering, OnWire
<1>3. ASSUME NEW p \in Push
      PROVE  FateRule(p)
  BY <1>1, <1>2 DEF Fate, FateRule
<1>4. ASSUME NEW p \in Push
      PROVE  FateRule(p)'
  BY <1>1, <1>2 DEF Fate, FateRule
<1>5. Fate \in [Push -> Fates] /\ Fate' \in [Push -> Fates]
  BY DEF Fate, Fates
<1> QED
  BY <1>1, <1>3, <1>4, <1>5

\* The dispatches Delivery calls later are issued after.
LEMMA LaterAfter ==
    ASSUME TypeInv, NEW p \in Push
    PROVE  Promise!Later(p) = {q \in Push : PushTo[q] = PushTo[p] /\ After(p, q)}
<1>1. issued \in Seq(Push)
  BY DEF TypeInv, CountOK
<1>2. \A i \in DOMAIN issued : issued[i] \in Push /\ i \in Nat
  BY <1>1
<1>3. \A i \in DOMAIN issued : \A h : h \in 1 .. i - 1 <=> h \in DOMAIN issued /\ h < i
  BY <1>1
<1>4. ASSUME NEW q \in Promise!Later(p)
      PROVE  q \in Push /\ PushTo[q] = PushTo[p] /\ After(p, q)
  BY <1>2, <1>3 DEF Promise!Later, After
<1>5. ASSUME NEW q \in Push, PushTo[q] = PushTo[p], After(p, q)
      PROVE  q \in Promise!Later(p)
  BY <1>2, <1>3, <1>5 DEF Promise!Later, After
<1> QED
  BY <1>4, <1>5

\* Every step is one that Delivery allows, or changes nothing it speaks of.
LEMMA PromiseStep ==
    ASSUME TypeInv, TypeInv', BoundInv, OpenInv, SendInv, RouteInv, TurnInv, OnceInv, OrderInv,
           [Next]_vars
    PROVE  [Promise!Next]_(Promise!promised)
<1> DEFINE Same(p) == /\ delivered'[p] = delivered[p]
                      /\ job'[p].pc = "idle" <=> job[p].pc = "idle"
<1>1. UNCHANGED Polling /\ faults \in Nat
  BY DEF Polling, Http, Next, vars, TypeInv, CountOK
<1>2. ASSUME NEW p \in Push, Same(p), Under(p)' <=> Under(p)
      PROVE  Fate'[p] = Fate[p]
  BY <1>2, FateFacts DEF FateRule
<1>3. ASSUME UNCHANGED <<issued, faults>>, \A p \in Push : Fate'[p] = Fate[p]
      PROVE  UNCHANGED Promise!promised
  <2>1. Fate' = Fate
    BY <1>3, FateFacts
  <2> QED
    BY <1>1, <1>3, <2>1 DEF Promise!promised
<1>4. ASSUME UNCHANGED issued, faults' > 0, \A p \in Push : Same(p) /\ (Under(p)' => Under(p))
      PROVE  Promise!Disturb
  <2>1. \A p \in Push : Fate'[p] = Fate[p] \/ (Fate[p] = "accepted" /\ Fate'[p] = "gone")
    BY <1>4, FateFacts DEF FateRule
  <2> QED
    BY <1>1, <1>4, <2>1, FateFacts DEF Promise!Disturb, Fates
<1>5. CASE StaysStep
  <2>1. \A p \in Push : Same(p) /\ (Under(p)' <=> Under(p))
    BY <1>5 DEF StaysStep, Still, Under, Queued
  <2>2. UNCHANGED issued /\ (faults' = faults \/ faults' > 0)
    BY <1>5 DEF StaysStep
  <2> HIDE DEF Same
  <2> QED
    BY <1>2, <1>3, <1>4, <2>1, <2>2 DEF Promise!Next
<1>6. CASE LossStep
  <2>1. \A p \in Push : Same(p) /\ (Under(p)' => Under(p))
    BY <1>6 DEF LossStep, Under
  <2>2. UNCHANGED issued /\ faults' > 0
    BY <1>6 DEF LossStep
  <2> HIDE DEF Same
  <2> QED
    BY <1>4, <2>1, <2>2 DEF Promise!Next
<1>7. ASSUME NEW p \in Push, BeginStep(p)
      PROVE  Promise!Accept(p)
  <2>1. delivered[p] = 0 /\ UNCHANGED delivered
    BY <1>7, PlaceFacts DEF BeginStep, Behind
  <2>2. Fate[p] = "new" /\ Fate'[p] = "accepted"
    BY <1>7, <2>1, FateFacts DEF FateRule, BeginStep, Under, Sending
  <2>3. \A q \in Push : q # p => Same(q) /\ (Under(q)' <=> Under(q))
    BY <1>7 DEF BeginStep, Still, Under, Queued, Carries, Answering, OnWire
  <2> HIDE DEF Same
  <2>4. Fate' = [Fate EXCEPT ![p] = "accepted"]
    BY <1>2, <2>2, <2>3, FateFacts
  <2> QED
    BY <1>1, <1>7, <2>2, <2>4 DEF Promise!Accept, BeginStep
<1>8. ASSUME NEW p \in Push, QueueStep(p)
      PROVE  UNCHANGED Promise!promised \/ \E o \in Push : Promise!Forget(o)
  <2>1. UNCHANGED <<issued, faults>> /\ \A q \in Push : Same(q)
    BY <1>8 DEF QueueStep, Still, Sending
  <2>2. /\ pending' = [pending EXCEPT ![PushTo[p]] = p] /\ pending \in [Agent -> Push \cup {None}]
        /\ \A q \in Push : PushTo[q] \in Agent
    BY <1>8, NoneApart DEF QueueStep, TypeInv, QueueOK
  <2>3. \A q \in Push : Queued(q)' <=> q = p \/ (Queued(q) /\ PushTo[q] # PushTo[p])
    BY <2>2 DEF Queued
  <2>4. \A k \in Conn, q \in Push : Carries(k, q)' <=> Carries(k, q)
    BY <1>8 DEF QueueStep, Carries, Answering, OnWire
  <2>5. ASSUME NEW q \in Push, ~(Queued(q) /\ PushTo[q] = PushTo[p])
        PROVE  Under(q)' <=> Under(q)
    BY <1>8, <2>3, <2>4, <2>5 DEF QueueStep, Still, Under
  <2>6. CASE \E o \in Push : Queued(o) /\ PushTo[o] = PushTo[p]
    <3>1. PICK o \in Push : Queued(o) /\ PushTo[o] = PushTo[p]
      BY <2>6
    <3>2. o # p /\ ~Sending(o) /\ Behind(o) /\ job[o].pc # "idle"
      BY <1>8, <3>1, PlaceFacts DEF QueueStep
    <3>3. ~Under(o)'
      BY <1>8, <2>3, <2>4, <3>1, <3>2 DEF Under, Behind, QueueStep, Still
    <3>4. Fate[o] = "accepted" /\ Fate'[o] = "gone"
      BY <2>1, <3>1, <3>2, <3>3, FateFacts DEF FateRule, Under, Behind
    <3>5. \A q \in Push : q # o => ~(Queued(q) /\ PushTo[q] = PushTo[p])
      BY <3>1 DEF Queued
    <3> HIDE DEF Same
    <3>6. Fate' = [Fate EXCEPT ![o] = "gone"]
      BY <1>2, <2>1, <2>5, <3>4, <3>5, FateFacts
    <3>7. After(o, p)
      BY <1>8, <3>2, LastIssued DEF QueueStep, Sending, Active
    <3>8. Promise!Later(o) # {}
      BY <3>1, <3>7, LaterAfter
    <3> QED
      BY <1>1, <2>1, <3>4, <3>6, <3>8 DEF Promise!Forget
  <2>7. CASE ~\E o \in Push : Queued(o) /\ PushTo[o] = PushTo[p]
    <3> HIDE DEF Same
    <3> QED
      BY <1>2, <1>3, <2>1, <2>5, <2>7
  <2> QED
    BY <2>6, <2>7
<1>9. ASSUME NEW p \in Push, NEW k \in Conn, WireStep(p, k)
      PROVE  UNCHANGED Promise!promised
  <2>1. UNCHANGED <<issued, faults>>
    BY <1>9 DEF WireStep
  <2>2. \A q \in Push : Same(q) /\ (Under(q)' <=> Under(q))
    BY <1>9 DEF WireStep, Still, Under, Queued, Sending
  <2> HIDE DEF Same
  <2> QED
    BY <1>2, <1>3, <2>1, <2>2
<1>10. ASSUME NEW k \in Conn, TakeStep(k)
       PROVE  UNCHANGED Promise!promised
  <2> DEFINE u == AgentOf[k]
  <2>1. UNCHANGED <<issued, faults, delivered, job>>
    BY <1>10 DEF TakeStep
  <2>2. /\ u \in Agent /\ pending' = [pending EXCEPT ![u] = None]
        /\ pending \in [Agent -> Push \cup {None}]
    BY <1>10, NoneApart DEF TakeStep, TypeInv, QueueOK
  <2>3. \A q \in Push : Queued(q) <=> Queued(q)' \/ pending[u] = q
    BY <2>2, NoneApart DEF Queued, TypeInv, QueueOK
  <2>4. \A q \in Push : Under(q)' <=> Under(q)
    BY <1>10, <2>1, <2>3 DEF TakeStep, Under, Sending
  <2> QED
    BY <1>2, <1>3, <2>1, <2>4
<1>11. ASSUME NEW k \in Conn, NEW p \in Push, ReadStep(k, p)
       PROVE  Promise!Deliver(p)
  <2>1. /\ UNCHANGED <<issued, faults, job, pending>>
        /\ delivered' = [delivered EXCEPT ![p] = @ + 1] /\ link[k] = "up" /\ Carries(k, p)
    BY <1>11 DEF ReadStep, Carries
  <2>2. delivered[p] = 0 /\ job[p].pc # "idle"
    BY <2>1, PlaceFacts
  <2>3. /\ delivered'[p] = 1
        /\ \A q \in Push : q # p => delivered'[q] = delivered[q]
    BY <2>1, <2>2 DEF TypeInv, CountOK
  <2>4. Fate[p] = "accepted" /\ Fate'[p] = "delivered"
    BY <2>1, <2>2, <2>3, FateFacts DEF FateRule, Under
  <2>5. \A q \in Push : q # p => Same(q) /\ (Under(q)' <=> Under(q))
    BY <1>11, <2>1, <2>3 DEF ReadStep, Under, Sending, Queued
  <2>6. PushTo[p] \in Polling => \A q \in Promise!Later(p) : Fate[q] # "delivered"
    <3> SUFFICES ASSUME PushTo[p] \in Polling, NEW q \in Promise!Later(p)
                 PROVE  Fate[q] # "delivered"
      OBVIOUS
    <3>1. q \in Push /\ PushTo[q] = PushTo[p] /\ After(p, q) /\ Polls(PushTo[p])
      BY LaterAfter DEF Polling, Polls
    <3>2. Ahead(p)
      BY <2>1 DEF Ahead
    <3>3. delivered[q] = 0
      BY <3>1, <3>2 DEF OrderInv, Behind
    <3> QED
      BY <3>1, <3>3, FateFacts DEF FateRule
  <2> HIDE DEF Same
  <2>7. Fate' = [Fate EXCEPT ![p] = "delivered"]
    BY <1>2, <2>4, <2>5, FateFacts
  <2> QED
    BY <1>1, <2>1, <2>4, <2>6, <2>7 DEF Promise!Deliver
<1> HIDE DEF Same
<1> QED
  BY <1>5, <1>6, <1>7, <1>8, <1>9, <1>10, <1>11, StepKinds, Zenon DEF Promise!Next

\* Everything the promise rests on holds at the start.
LEMMA PromiseInit ==
    Init => OpenInv /\ SendInv /\ RouteInv /\ TurnInv /\ OrderInv /\ Promise!Init
<1> SUFFICES ASSUME Init
             PROVE  OpenInv /\ SendInv /\ RouteInv /\ TurnInv /\ OrderInv /\ Promise!Init
  OBVIOUS
<1>1. \A k \in Conn : /\ link[k] = "down" /\ wire[k] = <<>>
                      /\ hand[k].pc = "idle" /\ hand[k].resp.config = None
  BY DEF Init, IdleHandler, NoResponse
<1>2. \A p \in Push : job[p].pc = "idle" /\ delivered[p] = 0 /\ pending[PushTo[p]] = None
  BY NoneApart DEF Init, IdleJob
<1>3. issued = <<>> /\ faults = 0
  BY DEF Init
<1>4. \A k \in Conn, p \in Push : ~Carries(k, p)
  BY <1>1, NoneApart DEF Carries, Answering, OnWire
<1>5. OpenInv /\ SendInv
  BY <1>1, <1>2 DEF OpenInv, SendInv
<1>6. RouteInv
  BY <1>4 DEF RouteInv, Carries
<1>7. TurnInv /\ OrderInv
  BY <1>2, <1>3 DEF TurnInv, OrderInv, After, Active
<1>8. Fate = [p \in Push |-> "new"]
  BY <1>2 DEF Fate
<1>9. Polling \subseteq {PushTo[p] : p \in Push}
  BY DEF Polling
<1> QED
  BY <1>3, <1>5, <1>6, <1>7, <1>8, <1>9 DEF Promise!Init

\* The server keeps the promise of module Delivery, as far as it says what may not
\* happen: when dispatches take turns, each is delivered at most once, is given up
\* only for a later one to the same collector or after a fault, and reaches a
\* collector that polls before the later ones, whichever way it takes (PushConfig and
\* TakePending, server.go; pushAndConfirm, confirm.go).
THEOREM PromiseKept == ASSUME Sequential PROVE Spec => Promise!Safety
<1>1. BoundInv /\ TypeInv /\ TypeInv' /\ [Next]_vars => BoundInv'
  BY BoundNext
<1>2. Init => BoundInv
  BY DEF Init, BoundInv, IdleHandler
<1> DEFINE Inv == BoundInv /\ OpenInv /\ SendInv /\ RouteInv /\ TurnInv /\ OnceInv /\ OrderInv
<1>3. Init => Inv /\ Promise!Init
  BY <1>2, PromiseInit, OnceInit
<1>4. TypeInv /\ TypeInv' /\ Inv /\ [Next]_vars => Inv' /\ [Promise!Next]_(Promise!promised)
  BY <1>1, OpenNext, SendNext, RouteNext, TurnNext, OnceNext, OrderNext, PromiseStep
<1> HIDE DEF Inv
<1> QED
  BY <1>3, <1>4, TypeInvariance, PTL DEF Spec, Promise!Safety

=============================================================================
