------------------------ MODULE TaskLifecycle_proofs ------------------------
(***************************************************************************)
(* Proofs about TaskLifecycle: TypeOK, OnlyValidated and                   *)
(* DispatchNeedsApproval are invariants for every number of requests,      *)
(* tasks, collectors and documents and any number of faults.               *)
(*                                                                         *)
(* Inv says, of every program point of a handler, what its local state is  *)
(* worth there.  It looks at the shared state only through two sets that   *)
(* never shrink, the ids of existing rows and the approvals a request has  *)
(* written, so a step of one request cannot invalidate it for another.     *)
(***************************************************************************)
EXTENDS TaskLifecycle, TLAPS

\* Rows whose content the validator has accepted; a rollback names a collector.
GoodRows ==
    {row \in Rows : /\ row.yaml \in ValidYaml \cup {NoYaml}
                    /\ row.version \in ValidYaml \cup {NoYaml}
                    /\ row.type = "rollback" => row.target \in Collector}

Known == {t \in Task : tasks[t] # Absent}
GrantedTo(r) == {t \in Task : <<t, r>> \in granted}

\* The program points at which the handler holds a row, works on a task, and
\* acts on an approval.
HoldsRow == {"create", "createEvent", "put", "event", "save", "errPut",
             "auditApprove", "resolve", "lookup"}
OnTask == {"createEvent", "auditCreate", "get", "put", "event", "llm", "validate",
           "save", "auditApprove", "resolve", "lookup", "errGet", "errPut"}
Approving == {"get", "put", "event"}
Sending == {"push", "version"}
Approved == {"auditApprove", "resolve", "lookup"} \cup Sending

\* What a request may rely on when it is at program point pc.
PointOK(q, pc, known, grant) ==
    /\ pc \in HoldsRow => q.row \in GoodRows
    /\ pc \in OnTask => q.task \in known
    /\ pc \in Sending \cup {"auditDone"} /\ q.op # "push_now" => q.task \in known
    /\ pc \in Approving => q.to \in Status
    /\ pc \in Sending \cup {"resolve"} => q.yaml \in ValidYaml
    /\ pc = "version" => q.at \in Collector
    /\ pc \in Approved /\ q.op # "push_now" => q.task \in grant
    /\ pc = "event" /\ q.to = "applying" => q.task \in grant
    /\ q.op = "push_now" => q.task = "none" /\ pc \in Sending \cup {"auditDone", "end", "gone"}
    /\ RequireApproval /\ (pc \in Approved \/ (pc \in Approving /\ q.to = "applying"))
          => q.op = "approve"

ReqOK(q, known, grant) ==
    /\ q \in Requests
    /\ q.row \in GoodRows \cup {Absent}
    /\ q.yaml \in ValidYaml \cup {NoYaml}
    /\ q.pc # "idle" => q.op # "none"
    /\ PointOK(q, q.pc, known, grant)

PushOK(p) ==
    /\ p.yaml \in ValidYaml
    /\ p.task # "none" => <<p.task, p.req>> \in granted
    /\ req[p.req].pc # "idle"
    /\ RequireApproval => p.task # "none" /\ req[p.req].op = "approve"

HistoryOK ==
    /\ events \in [Task -> Seq((Status \cup {"none"}) \X Status)]
    /\ audits \subseteq AuditActions \X (Task \cup {"none"}) \X Request
    /\ faults \in 0 .. MaxFaults

Inv ==
    /\ tasks \in [Task -> GoodRows \cup {Absent}]
    /\ versions \subseteq [collector : Collector, yaml : ValidYaml]
    /\ pushed \subseteq [task : Task \cup {"none"}, req : Request,
                         collector : Collector, yaml : Yaml]
    /\ granted \subseteq Task \X Request
    /\ req \in [Request -> Requests]
    /\ HistoryOK
    /\ \A r \in Request : ReqOK(req[r], Known, GrantedTo(r))
    /\ \A p \in pushed : PushOK(p)

-----------------------------------------------------------------------------
(* What Inv is worth, and that it holds initially.                          *)

\* The local facts of ReqOK depend on the shared state monotonically.
LEMMA ReqMonotone ==
    ASSUME NEW q, NEW k1, NEW k2, NEW g1, NEW g2,
           ReqOK(q, k1, g1), k1 \subseteq k2, g1 \subseteq g2
    PROVE  ReqOK(q, k2, g2)
  BY DEF ReqOK, PointOK

\* Inv contains the type invariant.
LEMMA InvTypes == Inv => TypeOK
  <1> SUFFICES ASSUME Inv PROVE TypeOK
    OBVIOUS
  <1>1. GoodRows \subseteq Rows
    BY DEF GoodRows
  <1>2. tasks \in [Task -> Rows \cup {Absent}]
    BY <1>1 DEF Inv
  <1>3. versions \subseteq [collector : Collector, yaml : Yaml]
    BY LifecycleAssumption DEF Inv
  <1> QED
    BY <1>2, <1>3 DEF Inv, HistoryOK, TypeOK

\* Inv contains what the other two invariants say.
LEMMA InvSafe == Inv => OnlyValidated /\ DispatchNeedsApproval
  <1> SUFFICES ASSUME Inv PROVE OnlyValidated /\ DispatchNeedsApproval
    OBVIOUS
  <1>1. \A p \in pushed : PushOK(p)
    BY DEF Inv
  <1>2. \A v \in versions : v.yaml \in ValidYaml
    BY DEF Inv
  <1> QED
    BY <1>1, <1>2 DEF OnlyValidated, DispatchNeedsApproval, PushOK

\* A request that has not begun claims nothing.
LEMMA IdleOK ==
    ASSUME NEW k, NEW g PROVE ReqOK(NoRequest, k, g)
  BY DEF ReqOK, PointOK, NoRequest, Requests, Pcs, HoldsRow, OnTask, Sending, Approving, Approved

\* Before the first request: no rows, no pushes, the initial versions valid.
LEMMA InitInv == Init => Inv
  <1> SUFFICES ASSUME Init PROVE Inv
    OBVIOUS
  <1>1. HistoryOK
    BY LifecycleAssumption DEF Init, HistoryOK
  <1>2. \A r \in Request : ReqOK(req[r], Known, GrantedTo(r))
    BY IdleOK DEF Init
  <1>3. req \in [Request -> Requests]
    BY <1>2 DEF Init, ReqOK
  <1> QED
    BY <1>1, <1>2, <1>3, LifecycleAssumption DEF Init, Inv

-----------------------------------------------------------------------------
(* Frames: what a step of request r must show when the shared sets it reads *)
(* only grow.                                                               *)

\* The local facts of every request, the one that moved included.
LEMMA OneRequestMoves ==
    ASSUME Inv, NEW r \in Request, NEW q,
           req' = [req EXCEPT ![r] = q],
           Known \subseteq Known',
           granted \subseteq granted',
           ReqOK(q, Known', GrantedTo(r)')
    PROVE  /\ req' \in [Request -> Requests]
           /\ \A s \in Request : ReqOK(req[s], Known, GrantedTo(s))'
  <1>1. q \in Requests
    BY DEF ReqOK
  <1>2. req' \in [Request -> Requests]
    BY <1>1 DEF Inv
  <1>3. ASSUME NEW s \in Request PROVE ReqOK(req'[s], Known', GrantedTo(s)')
    <2>1. CASE s = r
      BY <2>1 DEF Inv
    <2>2. CASE s # r
      <3>1. req'[s] = req[s]
        BY <2>2
      <3>2. ReqOK(req[s], Known, GrantedTo(s))
        BY DEF Inv
      <3>3. GrantedTo(s) \subseteq GrantedTo(s)'
        BY DEF GrantedTo
      <3> QED
        BY <3>1, <3>2, <3>3, ReqMonotone
    <2> QED
      BY <2>1, <2>2
  <1> QED
    BY <1>2, <1>3

\* A push stays justified while approvals grow and requests keep their operation.
LEMMA OldPushes ==
    ASSUME Inv, NEW r \in Request, NEW q,
           req' = [req EXCEPT ![r] = q],
           granted \subseteq granted',
           req[r].pc = "idle" \/ (q.pc # "idle" /\ q.op = req[r].op)
    PROVE  \A p \in pushed : PushOK(p)'
  <1> TAKE p \in pushed
  <1>1. PushOK(p) /\ p.req \in Request
    BY DEF Inv
  <1>2. CASE p.req = r
    BY <1>1, <1>2 DEF Inv, PushOK
  <1>3. CASE p.req # r
    BY <1>1, <1>3 DEF Inv, PushOK
  <1> QED
    BY <1>2, <1>3

\* A step that changes only the request, the histories and the fault count.
LEMMA LocalStep ==
    ASSUME Inv, NEW r \in Request, NEW q,
           req' = [req EXCEPT ![r] = q],
           ReqOK(q, Known, GrantedTo(r)),
           req[r].pc = "idle" \/ (q.pc # "idle" /\ q.op = req[r].op),
           HistoryOK',
           UNCHANGED <<tasks, versions, pushed, granted>>
    PROVE  Inv'
  <1>1. Known' = Known /\ GrantedTo(r)' = GrantedTo(r)
    BY DEF Known, GrantedTo
  <1>2. /\ req' \in [Request -> Requests]
        /\ \A s \in Request : ReqOK(req[s], Known, GrantedTo(s))'
    BY <1>1, OneRequestMoves
  <1>3. \A p \in pushed : PushOK(p)'
    BY OldPushes
  <1> QED
    BY <1>2, <1>3 DEF Inv

\* Faults stay within their bound and touch no history.
LEMMA FaultsBounded ==
    ASSUME Inv, NEW r \in Request,
           StoreOk(r) \/ StoreError(r) \/ UNCHANGED faults
              \/ (\E kind \in FaultKinds : Fault(kind))
    PROVE  faults' \in 0 .. MaxFaults
  BY LifecycleAssumption DEF Inv, HistoryOK, StoreOk, StoreError, Fault

-----------------------------------------------------------------------------
(* Where a handler goes: every continuation of a good request is good.      *)

Moves(q2, q, known, grant) ==
    ReqOK(q2, known, grant) /\ q2.pc # "idle" /\ q2.op = q.op

\* The fields of a request after Goto and Call.
LEMMA GotoFields ==
    ASSUME NEW q \in Requests, NEW pc \in Pcs
    PROVE  /\ Goto(q, pc) \in Requests
           /\ Goto(q, pc).pc = pc
           /\ Goto(q, pc).op = q.op
           /\ Goto(q, pc).task = q.task
           /\ Goto(q, pc).to = q.to
           /\ Goto(q, pc).row = q.row
           /\ Goto(q, pc).yaml = q.yaml
           /\ Goto(q, pc).at = q.at
  BY DEF Goto, Requests

\* What Call, the entry of Service.SetStatus and its siblings, sets and keeps.
LEMMA CallFields ==
    ASSUME NEW q \in Requests, NEW to \in Status
    PROVE  /\ Call(q, to) \in Requests
           /\ Call(q, to).pc = "get"
           /\ Call(q, to).op = q.op
           /\ Call(q, to).task = q.task
           /\ Call(q, to).to = to
           /\ Call(q, to).row = q.row
           /\ Call(q, to).yaml = q.yaml
  <1> DEFINE x == Goto(q, "get")
  <1>1. /\ x \in Requests /\ x.pc = "get" /\ x.op = q.op /\ x.task = q.task
        /\ x.row = q.row /\ x.yaml = q.yaml
    BY GotoFields DEF Pcs
  <1>2. Call(q, to) = [x EXCEPT !.to = to]
    BY DEF Call
  <1> HIDE DEF x
  <1> QED
    BY <1>1, <1>2 DEF Requests

\* A handler that goes on to a statement whose claims it meets.
LEMMA GotoMoves ==
    ASSUME NEW q, NEW k, NEW g, ReqOK(q, k, g), q.pc # "idle",
           NEW pc \in Pcs \ {"idle"}, PointOK(q, pc, k, g)
    PROVE  Moves(Goto(q, pc), q, k, g)
  <1> DEFINE x == Goto(q, pc)
  <1>1. /\ x \in Requests /\ x.pc = pc /\ x.op = q.op /\ x.task = q.task /\ x.to = q.to
        /\ x.row = q.row /\ x.yaml = q.yaml /\ x.at = q.at
    BY GotoFields DEF ReqOK
  <1> HIDE DEF x
  <1>2. PointOK(x, pc, k, g)
    BY <1>1 DEF PointOK
  <1>3. Moves(x, q, k, g)
    BY <1>1, <1>2 DEF ReqOK, Moves
  <1> QED
    BY <1>3 DEF x

\* Only these fields count.
LEMMA SameMoves ==
    ASSUME NEW q, NEW q2 \in Requests, NEW k, NEW g, ReqOK(q, k, g), q.pc # "idle",
           /\ q2.pc = q.pc /\ q2.op = q.op /\ q2.task = q.task /\ q2.to = q.to
           /\ q2.row = q.row /\ q2.yaml = q.yaml /\ q2.at = q.at
    PROVE  Moves(q2, q, k, g)
  BY DEF Moves, ReqOK, PointOK

\* A handler that returns.
LEMMA EndMoves ==
    ASSUME NEW q, NEW k, NEW g, ReqOK(q, k, g), q.pc # "idle"
    PROVE  Moves(End(q), q, k, g)
  <1>1. "end" \in Pcs \ {"idle"}
    BY DEF Pcs
  <1>2. PointOK(q, "end", k, g)
    BY DEF ReqOK, PointOK, HoldsRow, OnTask, Sending, Approving, Approved
  <1> QED
    BY <1>1, <1>2, GotoMoves DEF End

\* A service call on the task the request works on.
LEMMA CallMoves ==
    ASSUME NEW q, NEW k, NEW g, NEW to \in Status, ReqOK(q, k, g), q.pc # "idle",
           q.task \in k, q.op # "push_now",
           RequireApproval /\ to = "applying" => q.op = "approve"
    PROVE  Moves(Call(q, to), q, k, g)
  <1> DEFINE x == Call(q, to)
  <1>1. /\ x \in Requests /\ x.pc = "get" /\ x.op = q.op /\ x.task = q.task
        /\ x.to = to /\ x.row = q.row /\ x.yaml = q.yaml
    BY CallFields DEF ReqOK
  <1> HIDE DEF x
  <1>2. PointOK(x, "get", k, g)
    BY <1>1 DEF PointOK, HoldsRow, OnTask, Sending, Approving, Approved
  <1>3. Moves(x, q, k, g)
    BY <1>1, <1>2 DEF ReqOK, Moves
  <1> QED
    BY <1>3 DEF x

\* A handler's continuation after a transition that succeeded.
LEMMA AfterOkMoves ==
    ASSUME NEW q, NEW k, NEW g, ReqOK(q, k, g), q.pc = "event"
    PROVE  Moves(AfterOk(q), q, k, g)
  <1>0. /\ q.task \in k /\ q.op # "push_now" /\ q.to \in Status /\ q.row \in GoodRows
        /\ q.to = "applying" => q.task \in g
        /\ RequireApproval /\ q.to = "applying" => q.op = "approve"
    BY DEF ReqOK, PointOK, HoldsRow, OnTask, Approving, Sending
  <1>1. ASSUME NEW pc \in {"llm", "validate", "save", "auditDone", "errGet", "auditReject"}
        PROVE  Moves(Goto(q, pc), q, k, g)
    <2>1. pc \in Pcs \ {"idle"} /\ PointOK(q, pc, k, g)
      BY <1>0 DEF Pcs, PointOK, HoldsRow, OnTask, Sending, Approving, Approved
    <2> QED
      BY <2>1, GotoMoves
  <1>2. q.to = "applying" => Moves(Goto(q, "auditApprove"), q, k, g)
    <2>1. q.to = "applying" =>
             "auditApprove" \in Pcs \ {"idle"} /\ PointOK(q, "auditApprove", k, g)
      BY <1>0 DEF Pcs, PointOK, HoldsRow, OnTask, Sending, Approving, Approved
    <2> QED
      BY <2>1, GotoMoves
  <1>3. Moves(Call(q, "awaiting_approval"), q, k, g)
    BY <1>0, CallMoves DEF Status
  <1>4. Moves(End(q), q, k, g)
    BY EndMoves
  <1> QED
    BY <1>1, <1>2, <1>3, <1>4, Zenon DEF AfterOk

\* A handler's continuation after a transition that failed, markTaskFailed included.
LEMMA AfterErrorMoves ==
    ASSUME NEW q, NEW k, NEW g, ReqOK(q, k, g), q.pc \in {"get", "put"}
    PROVE  Moves(AfterError(q), q, k, g)
  <1>0. q.task \in k /\ q.op # "push_now"
    BY DEF ReqOK, PointOK, OnTask, Sending
  <1>1. CASE q.to = "done" /\ q.row.type # "upgrade"
    <2> DEFINE x == Call(q, "failed")
    <2> DEFINE y == [x EXCEPT !.mark = TRUE]
    <2>1. Moves(x, q, k, g)
      BY <1>0, CallMoves DEF Status
    <2>2. AfterError(q) = y
      BY <1>1 DEF AfterError
    <2> HIDE DEF x
    <2>3. /\ y \in Requests /\ y.pc = x.pc /\ y.op = x.op /\ y.task = x.task
          /\ y.to = x.to /\ y.row = x.row /\ y.yaml = x.yaml /\ y.at = x.at
      <3>1. x \in Requests
        BY <2>1 DEF Moves, ReqOK
      <3> QED
        BY <3>1 DEF Requests
    <2> HIDE DEF y
    <2> QED
      BY <2>1, <2>2, <2>3, SameMoves DEF Moves
  <1>2. CASE ~(q.to = "done" /\ q.row.type # "upgrade")
    BY <1>2, EndMoves DEF AfterError
  <1> QED
    BY <1>1, <1>2

\* dispatchTask from the point where it knows what to send, and to whom.
LEMMA SendMoves ==
    ASSUME NEW q, NEW k, NEW g, ReqOK(q, k, g), q.pc # "idle",
           NEW yaml \in ValidYaml, NEW todo \in SUBSET Collector,
           q.op # "push_now", q.task \in k, q.task \in g,
           RequireApproval => q.op = "approve"
    PROVE  Moves(Send(q, yaml, todo), q, k, g)
  <1> DEFINE x == Goto(q, "push")
             y == [x EXCEPT !.yaml = yaml]
             z == [y EXCEPT !.todo = todo]
  <1>1. /\ x \in Requests /\ x.pc = "push" /\ x.op = q.op /\ x.task = q.task
        /\ x.row = q.row
    BY GotoFields DEF ReqOK, Pcs
  <1>2. Send(q, yaml, todo) = z
    BY DEF Send
  <1> HIDE DEF x
  <1>3. /\ y \in Requests /\ y.pc = "push" /\ y.op = x.op /\ y.task = x.task
        /\ y.row = x.row /\ y.yaml = yaml
    BY <1>1, LifecycleAssumption DEF Requests
  <1> HIDE DEF y
  <1>4. /\ z \in Requests /\ z.pc = "push" /\ z.op = y.op /\ z.task = y.task
        /\ z.row = y.row /\ z.yaml = yaml
    BY <1>3 DEF Requests
  <1> HIDE DEF z
  <1>5. PointOK(z, "push", k, g)
    BY <1>1, <1>3, <1>4 DEF PointOK, HoldsRow, OnTask, Sending, Approving, Approved
  <1> QED
    BY <1>1, <1>2, <1>3, <1>4, <1>5 DEF Moves, ReqOK

\* A handler's continuation after Service.Create.
LEMMA AfterCreateMoves ==
    ASSUME NEW q, NEW k, NEW g, ReqOK(q, k, g), q.pc = "createEvent"
    PROVE  Moves(AfterCreate(q), q, k, g)
  <1>0. q.task \in k /\ q.op # "push_now"
    BY DEF ReqOK, PointOK, OnTask, Sending
  <1>1. Moves(Goto(q, "auditCreate"), q, k, g)
    <2>1. "auditCreate" \in Pcs \ {"idle"} /\ PointOK(q, "auditCreate", k, g)
      BY <1>0 DEF Pcs, PointOK, HoldsRow, OnTask, Sending, Approving, Approved
    <2> QED
      BY <2>1, GotoMoves
  <1>2. Moves(Call(q, "generating"), q, k, g)
    BY <1>0, CallMoves DEF Status
  <1>3. Moves(End(q), q, k, g)
    BY EndMoves
  <1> QED
    BY <1>1, <1>2, <1>3, Zenon DEF AfterCreate

\* The continuation after the audit record of a creation.
LEMMA AfterAuditCreateMoves ==
    ASSUME NEW q, NEW k, NEW g, ReqOK(q, k, g), q.pc = "auditCreate"
    PROVE  Moves(AfterAuditCreate(q), q, k, g)
  <1>0. q.task \in k /\ q.op # "push_now"
    BY DEF ReqOK, PointOK, OnTask, Sending
  <1>1. Moves(Call(q, "generating"), q, k, g)
    BY <1>0, CallMoves DEF Status
  <1>2. ~RequireApproval => Moves(Call(q, "applying"), q, k, g)
    BY <1>0, CallMoves DEF Status
  <1>3. Moves(End(q), q, k, g)
    BY EndMoves
  <1> QED
    BY <1>1, <1>2, <1>3, Zenon DEF AfterAuditCreate

\* The continuation after the audit record of an approval: an upgrade is done, others are sent.
LEMMA AfterApprovalMoves ==
    ASSUME NEW q, NEW k, NEW g, ReqOK(q, k, g), q.pc = "auditApprove"
    PROVE  Moves(AfterApproval(q), q, k, g)
  <1>0. /\ q.task \in k /\ q.op # "push_now" /\ q.task \in g /\ q.row \in GoodRows
        /\ RequireApproval => q.op = "approve"
    BY DEF ReqOK, PointOK, HoldsRow, OnTask, Sending, Approved
  <1>1. Moves(Call(q, "done"), q, k, g)
    BY <1>0, CallMoves DEF Status
  <1>2. Moves(Goto(q, "lookup"), q, k, g)
    <2>1. "lookup" \in Pcs \ {"idle"} /\ PointOK(q, "lookup", k, g)
      BY <1>0 DEF Pcs, PointOK, HoldsRow, OnTask, Sending, Approving, Approved
    <2> QED
      BY <2>1, GotoMoves
  <1>3. q.row.type = "rollback" /\ q.row.yaml # NoYaml =>
           Moves(Send(q, q.row.yaml, {q.row.target}), q, k, g)
    <2>1. q.row.yaml \in ValidYaml \cup {NoYaml} /\
          (q.row.type = "rollback" => q.row.target \in Collector)
      BY <1>0 DEF GoodRows
    <2> QED
      BY <1>0, <2>1, SendMoves
  <1>4. q.row.yaml # NoYaml =>
           Moves([Goto(q, "resolve") EXCEPT !.yaml = q.row.yaml], q, k, g)
    <2> SUFFICES ASSUME q.row.yaml # NoYaml
                 PROVE  Moves([Goto(q, "resolve") EXCEPT !.yaml = q.row.yaml], q, k, g)
      OBVIOUS
    <2> DEFINE x == Goto(q, "resolve")
               y == [x EXCEPT !.yaml = q.row.yaml]
    <2>1. q.row.yaml \in ValidYaml
      BY <1>0 DEF GoodRows
    <2>2. /\ x \in Requests /\ x.pc = "resolve" /\ x.op = q.op /\ x.task = q.task
          /\ x.row = q.row
      BY GotoFields DEF ReqOK, Pcs
    <2> HIDE DEF x
    <2>3. /\ y \in Requests /\ y.pc = "resolve" /\ y.op = x.op /\ y.task = x.task
          /\ y.row = x.row /\ y.yaml = q.row.yaml
      BY <2>1, <2>2, LifecycleAssumption DEF Requests
    <2> HIDE DEF y
    <2>4. PointOK(y, "resolve", k, g)
      BY <1>0, <2>1, <2>2, <2>3 DEF PointOK, HoldsRow, OnTask, Sending, Approving, Approved
    <2>5. Moves(y, q, k, g)
      BY <2>1, <2>2, <2>3, <2>4, <1>0 DEF Moves, ReqOK
    <2> QED
      BY <2>5 DEF y, x
  <1>5. Moves(End(q), q, k, g)
    BY EndMoves
  <1> QED
    BY <1>1, <1>2, <1>3, <1>4, <1>5, Zenon DEF AfterApproval

\* The dispatch loop, once a collector is dealt with: the next one, or the end of it.
LEMMA AfterTargetMoves ==
    ASSUME NEW q, NEW k, NEW g, ReqOK(q, k, g), q.pc \in Sending
    PROVE  Moves(AfterTarget(q), q, k, g)
  <1>0. q.pc # "idle"
    BY DEF Sending
  <1>1. Moves(Goto(q, "push"), q, k, g)
    <2>1. "push" \in Pcs \ {"idle"} /\ PointOK(q, "push", k, g)
      BY DEF ReqOK, Pcs, PointOK, HoldsRow, OnTask, Sending, Approving, Approved
    <2> QED
      BY <1>0, <2>1, GotoMoves
  <1>2. Moves(Goto(q, "auditDone"), q, k, g)
    <2>1. "auditDone" \in Pcs \ {"idle"} /\ PointOK(q, "auditDone", k, g)
      BY DEF ReqOK, Pcs, PointOK, HoldsRow, OnTask, Sending, Approving, Approved
    <2> QED
      BY <1>0, <2>1, GotoMoves
  <1>3. q.op # "push_now" => Moves(Call(q, "done"), q, k, g)
    <2>1. q.op # "push_now" => q.task \in k
      BY DEF ReqOK, PointOK
    <2> QED
      BY <1>0, <2>1, CallMoves DEF Status
  <1> QED
    BY <1>1, <1>2, <1>3, Zenon DEF AfterTarget

\* The continuation after the reason of a failure was written, or could not be.
LEMMA AfterNoteMoves ==
    ASSUME NEW q, NEW k, NEW g, ReqOK(q, k, g), q.pc \in {"errGet", "errPut"}
    PROVE  Moves(AfterNote(q), q, k, g)
  <1>1. Moves(Goto(q, "auditUnconfirmed"), q, k, g)
    <2>1. "auditUnconfirmed" \in Pcs \ {"idle"} /\ PointOK(q, "auditUnconfirmed", k, g)
      BY DEF ReqOK, Pcs, PointOK, HoldsRow, OnTask, Sending, Approving, Approved
    <2> QED
      BY <2>1, GotoMoves
  <1>2. Moves(End(q), q, k, g)
    BY EndMoves
  <1> QED
    BY <1>1, <1>2, Zenon DEF AfterNote

-----------------------------------------------------------------------------
(* Arrivals.                                                                *)

\* The first state of a new request is good.
LEMMA BeginStep ==
    ASSUME Inv, NEW r \in Request, NEW q, Begin(r, q),
           ReqOK(q, Known, GrantedTo(r))
    PROVE  Inv'
  <1>1. HistoryOK'
    BY DEF Inv, HistoryOK, Begin
  <1> QED
    BY <1>1, LocalStep DEF Begin, Continue

\* A handler that is about to create a good row.
LEMMA CreatingOK ==
    ASSUME NEW op \in Ops \ {"push_now"}, NEW row \in GoodRows, NEW k, NEW g
    PROVE  ReqOK(Creating(op, row), k, g)
  <1>a. op # "none"
    BY DEF Ops
  <1> DEFINE x == [NoRequest EXCEPT !.op = op]
             y == [x EXCEPT !.pc = "create"]
             z == [y EXCEPT !.row = row]
  <1>0. NoRequest \in Requests /\ NoRequest.yaml = NoYaml
    BY DEF NoRequest, Requests, Pcs
  <1>1. x \in Requests /\ x.op = op /\ x.yaml = NoYaml
    BY <1>0 DEF Requests
  <1> HIDE DEF x
  <1>2. y \in Requests /\ y.op = op /\ y.yaml = NoYaml /\ y.pc = "create"
    BY <1>1 DEF Requests, Pcs
  <1> HIDE DEF y
  <1>3. row \in Rows
    BY DEF GoodRows
  <1>4. z \in Requests /\ z.op = op /\ z.yaml = NoYaml /\ z.pc = "create" /\ z.row = row
    BY <1>2, <1>3 DEF Requests
  <1>5. Creating(op, row) = z
    BY DEF Creating, x, y
  <1> HIDE DEF z
  <1> QED
    BY <1>a, <1>4, <1>5 DEF ReqOK, PointOK, HoldsRow, OnTask, Sending, Approving, Approved

\* The rows the handlers build are good when their documents have passed the validator.
LEMMA RowGood ==
    ASSUME NEW type \in Types, NEW status \in Status, NEW target \in Target,
           NEW yaml \in ValidYaml \cup {NoYaml}, NEW version \in ValidYaml \cup {NoYaml},
           type = "rollback" => target \in Collector
    PROVE  Row(type, status, yaml, target, version) \in GoodRows
  BY LifecycleAssumption DEF Row, GoodRows, Rows

\* The arrival of a request that creates a task.
LEMMA CreationStep ==
    ASSUME Inv, NEW r \in Request,
           \/ Generate(r) \/ Optimize(r) \/ Upgrade(r) \/ Apply(r) \/ Rollback(r) \/ GitRollback(r)
    PROVE  Inv'
  <1>0. Collector \subseteq Target /\ ValidYaml \subseteq Yaml
    BY LifecycleAssumption
  <1>1. SUFFICES ASSUME NEW op \in Ops \ {"push_now"}, NEW row \in GoodRows,
                        Begin(r, Creating(op, row))
                 PROVE  Inv'
    <2>1. ASSUME NEW g \in Target
          PROVE  Row("generate", "pending", NoYaml, g, NoYaml) \in GoodRows
      BY RowGood DEF Types, Status
    <2>2. ASSUME NEW c \in Collector
          PROVE  Row("optimize", "pending", NoYaml, c, NoYaml) \in GoodRows
      BY <1>0, RowGood DEF Types, Status
    <2>3. ASSUME NEW g \in Target
          PROVE  Row("upgrade", "awaiting_approval", NoYaml, g, NoYaml) \in GoodRows
      BY RowGood DEF Types, Status
    <2>4. ASSUME NEW c \in Collector, NEW y \in ValidYaml
          PROVE  /\ Row("apply", "awaiting_approval", y, c, NoYaml) \in GoodRows
                 /\ Row("rollback", "awaiting_approval", y, c, NoYaml) \in GoodRows
                 /\ Row("rollback", "awaiting_approval", NoYaml, c, y) \in GoodRows
      BY <1>0, RowGood DEF Types, Status
    <2>5. \A v \in versions : v.collector \in Collector /\ v.yaml \in ValidYaml
      BY DEF Inv
    <2>6. {"generate", "optimize", "upgrade", "apply", "rollback", "git_rollback"}
             \subseteq Ops \ {"push_now"}
      BY DEF Ops
    <2>7. CASE Generate(r)
      BY <1>1, <2>1, <2>6, <2>7 DEF Generate
    <2>8. CASE Optimize(r)
      BY <1>1, <2>2, <2>6, <2>8 DEF Optimize
    <2>9. CASE Upgrade(r)
      BY <1>1, <2>3, <2>6, <2>9 DEF Upgrade
    <2>10. CASE Apply(r)
      BY <1>1, <2>4, <2>6, <2>10 DEF Apply
    <2>11. CASE Rollback(r)
      BY <1>1, <2>4, <2>5, <2>6, <2>11 DEF Rollback
    <2>12. CASE GitRollback(r)
      BY <1>1, <2>4, <2>6, <2>12 DEF GitRollback
    <2> QED
      BY <2>7, <2>8, <2>9, <2>10, <2>11, <2>12
  <1> QED
    BY <1>1, CreatingOK, BeginStep

\* The arrival of a push without a task, which only a server without approval takes.
LEMMA PushNowStep ==
    ASSUME Inv, NEW r \in Request, PushNow(r) PROVE Inv'
  <1>1. PICK g \in Target, y \in ValidYaml :
           /\ ~RequireApproval
           /\ Begin(r, [NoRequest EXCEPT !.op = "push_now", !.pc = "push",
                                         !.yaml = y, !.todo = Members[g]])
    BY LifecycleAssumption DEF PushNow
  <1> DEFINE x1 == [NoRequest EXCEPT !.op = "push_now"]
             x2 == [x1 EXCEPT !.pc = "push"]
             x3 == [x2 EXCEPT !.yaml = y]
             x4 == [x3 EXCEPT !.todo = Members[g]]
  <1>2. NoRequest \in Requests /\ NoRequest.task = "none" /\ NoRequest.row = Absent
    BY DEF NoRequest, Requests, Pcs
  <1>3. x1 \in Requests /\ x1.op = "push_now" /\ x1.task = "none" /\ x1.row = Absent
    BY <1>2 DEF Requests, Ops
  <1>4. Begin(r, x4)
    BY <1>1
  <1> HIDE DEF x1
  <1>5. x2 \in Requests /\ x2.op = "push_now" /\ x2.task = "none" /\ x2.row = Absent
        /\ x2.pc = "push"
    BY <1>3 DEF Requests, Pcs
  <1> HIDE DEF x2
  <1>6. x3 \in Requests /\ x3.op = "push_now" /\ x3.task = "none" /\ x3.row = Absent
        /\ x3.pc = "push" /\ x3.yaml = y
    BY <1>5, LifecycleAssumption DEF Requests
  <1> HIDE DEF x3
  <1>7. x4 \in Requests /\ x4.op = "push_now" /\ x4.task = "none" /\ x4.row = Absent
        /\ x4.pc = "push" /\ x4.yaml = y
    BY <1>6, LifecycleAssumption DEF Requests
  <1> HIDE DEF x4
  <1>8. ReqOK(x4, Known, GrantedTo(r))
    BY <1>1, <1>7 DEF ReqOK, PointOK, HoldsRow, OnTask, Sending, Approving, Approved
  <1> QED
    BY <1>4, <1>8, BeginStep

\* Only approve calls ask for status applying on their own.
LEMMA DecideStep ==
    ASSUME Inv, NEW r \in Request, Approve(r) \/ Reject(r) PROVE Inv'
  <1>1. PICK op \in Ops \ {"push_now"}, to \in Status, t \in Task :
           /\ tasks[t] # Absent
           /\ to = "applying" => op = "approve"
           /\ Begin(r, [Call(NoRequest, to) EXCEPT !.op = op, !.task = t,
                            !.late = (tasks[t].status = "rejected")])
    <2>1. CASE Approve(r)
      BY <2>1 DEF Approve, Decide, Ops, Status
    <2>2. CASE Decide(r, "reject", "rejected")
      BY <2>2 DEF Decide, Ops, Status
    <2>3. CASE Decide(r, "reject_tool", "rejected")
      BY <2>3 DEF Decide, Ops, Status
    <2> QED
      BY <2>1, <2>2, <2>3 DEF Reject
  <1> DEFINE x1 == Call(NoRequest, to)
             x2 == [x1 EXCEPT !.op = op]
             x3 == [x2 EXCEPT !.task = t]
             x4 == [x3 EXCEPT !.late = (tasks[t].status = "rejected")]
  <1>2. NoRequest \in Requests /\ NoRequest.row = Absent /\ NoRequest.yaml = NoYaml
    BY DEF NoRequest, Requests, Pcs
  <1>3. x1 \in Requests /\ x1.row = Absent /\ x1.yaml = NoYaml /\ x1.pc = "get" /\ x1.to = to
    BY <1>2, CallFields
  <1>4. Begin(r, x4)
    BY <1>1
  <1> HIDE DEF x1
  <1>5. x2 \in Requests /\ x2.row = Absent /\ x2.yaml = NoYaml /\ x2.pc = "get"
        /\ x2.to = to /\ x2.op = op
    BY <1>3 DEF Requests
  <1> HIDE DEF x2
  <1>6. x3 \in Requests /\ x3.row = Absent /\ x3.yaml = NoYaml /\ x3.pc = "get"
        /\ x3.to = to /\ x3.op = op /\ x3.task = t
    BY <1>5 DEF Requests
  <1> HIDE DEF x3
  <1>7. x4 \in Requests /\ x4.row = Absent /\ x4.yaml = NoYaml /\ x4.pc = "get"
        /\ x4.to = to /\ x4.op = op /\ x4.task = t
    BY <1>6 DEF Requests
  <1> HIDE DEF x4
  <1>8. t \in Known /\ op # "none"
    BY <1>1 DEF Known, Ops
  <1>9. ReqOK(x4, Known, GrantedTo(r))
    BY <1>1, <1>7, <1>8 DEF ReqOK, PointOK, HoldsRow, OnTask, Sending, Approving, Approved
  <1> QED
    BY <1>4, <1>9, BeginStep

\* The arrival of any request.
LEMMA ArriveStep ==
    ASSUME Inv, NEW r \in Request, Arrive(r) PROVE Inv'
  BY CreationStep, PushNowStep, DecideStep DEF Arrive

-----------------------------------------------------------------------------
(* Steps that leave the rows, the versions, the pushes and the approvals    *)
(* alone.                                                                   *)

\* A step that moves one request and writes neither rows, versions, pushes nor approvals.
LEMMA LocalMove ==
    ASSUME Inv, NEW r \in Request, NEW q, Continue(r, q),
           Moves(q, req[r], Known, GrantedTo(r)),
           HistoryOK',
           UNCHANGED <<tasks, versions, pushed, granted>>
    PROVE  Inv'
  BY LocalStep DEF Moves, Continue

\* Without new events and audit records the history keeps its types.
LEMMA ReadsOnly ==
    ASSUME Inv, faults' \in 0 .. MaxFaults, UNCHANGED <<events, audits>>
    PROVE  HistoryOK'
  BY DEF Inv, HistoryOK

\* What the invariant says of one request.
LEMMA ReqIsOK ==
    ASSUME Inv, NEW r \in Request
    PROVE  req[r] \in Requests /\ ReqOK(req[r], Known, GrantedTo(r))
  BY DEF Inv

\* Appending an event keeps the type of task_events.
LEMMA EventStep ==
    ASSUME Inv, NEW r \in Request,
           NEW from \in Status \cup {"none"}, NEW to \in Status,
           req[r].task \in Task, RecordEvent(r, from, to), UNCHANGED audits
    PROVE  HistoryOK'
  <1>1. faults' \in 0 .. MaxFaults
    BY FaultsBounded DEF RecordEvent
  <1>2. events' \in [Task -> Seq((Status \cup {"none"}) \X Status)]
    <2> DEFINE S == (Status \cup {"none"}) \X Status
    <2>1. events \in [Task -> Seq(S)] /\ <<from, to>> \in S
      BY DEF Inv, HistoryOK
    <2> HIDE DEF S
    <2>2. Append(events[req[r].task], <<from, to>>) \in Seq(S)
      BY <2>1
    <2>3. events' \in [Task -> Seq(S)]
      BY <2>1, <2>2 DEF RecordEvent
    <2> QED
      BY <2>3 DEF S
  <1> QED
    BY <1>1, <1>2 DEF Inv, HistoryOK

\* The event of a creation.
LEMMA CreateEventStep ==
    ASSUME Inv, NEW r \in Request, CreateEvent(r) PROVE Inv'
  <1> DEFINE q == req[r]
  <1>1. /\ ReqOK(q, Known, GrantedTo(r)) /\ q.pc = "createEvent"
    BY ReqIsOK DEF CreateEvent
  <1>2. q.row \in GoodRows /\ q.task \in Known
    BY <1>1 DEF ReqOK, PointOK, HoldsRow, OnTask
  <1>3. HistoryOK'
    BY <1>2, EventStep DEF CreateEvent, GoodRows, Rows, Known
  <1>4. Moves(AfterCreate(q), q, Known, GrantedTo(r))
    BY <1>1, AfterCreateMoves
  <1> QED
    BY <1>3, <1>4, LocalMove DEF CreateEvent

\* The event of a transition.
LEMMA TransitionEventStep ==
    ASSUME Inv, NEW r \in Request, TransitionEvent(r) PROVE Inv'
  <1> DEFINE q == req[r]
  <1>1. /\ ReqOK(q, Known, GrantedTo(r)) /\ q \in Requests /\ q.pc = "event"
    BY ReqIsOK DEF TransitionEvent
  <1>2. q.to \in Status /\ q.task \in Known
    BY <1>1 DEF ReqOK, PointOK, OnTask, Approving
  <1>3. q.from \in Status \cup {"none"}
    BY <1>1 DEF Requests
  <1>4. HistoryOK'
    BY <1>2, <1>3, EventStep DEF TransitionEvent, Known
  <1>5. Moves(AfterOk(q), q, Known, GrantedTo(r))
    BY <1>1, AfterOkMoves
  <1> QED
    BY <1>4, <1>5, LocalMove DEF TransitionEvent

\* Rows stay good when a status, an accepted content or a note is put in.
LEMMA RowUpdates ==
    ASSUME NEW row \in GoodRows
    PROVE  /\ \A st \in Status : [row EXCEPT !.status = st] \in GoodRows
           /\ \A y \in ValidYaml \cup {NoYaml} : [row EXCEPT !.yaml = y] \in GoodRows
           /\ [row EXCEPT !.error = TRUE] \in GoodRows
  <1>0. row \in Rows
    BY DEF GoodRows
  <1>1. ASSUME NEW st \in Status PROVE [row EXCEPT !.status = st] \in GoodRows
    BY <1>0 DEF Rows, GoodRows
  <1>2. ASSUME NEW y \in ValidYaml \cup {NoYaml} PROVE [row EXCEPT !.yaml = y] \in GoodRows
    BY <1>0, LifecycleAssumption DEF Rows, GoodRows
  <1>3. [row EXCEPT !.error = TRUE] \in GoodRows
    BY <1>0 DEF Rows, GoodRows
  <1> QED
    BY <1>1, <1>2, <1>3

\* A request on a task works on an existing, good row.
LEMMA RowOfTask ==
    ASSUME Inv, NEW t \in Known
    PROVE  t \in Task /\ tasks[t] \in GoodRows
  BY DEF Inv, Known

\* A request that now holds row and from, and is otherwise at point pc.
LEMMA HoldMoves ==
    ASSUME NEW q, NEW k, NEW g, ReqOK(q, k, g), q.pc # "idle", NEW pc \in {"put", "errPut"},
           NEW q2, NEW row \in GoodRows,
           PointOK(q, IF pc = "put" THEN "get" ELSE "errGet", k, g),
           q2 \in Requests, q2.pc = pc, q2.op = q.op, q2.task = q.task, q2.to = q.to,
           q2.row = row, q2.yaml = q.yaml
    PROVE  Moves(q2, q, k, g)
  BY DEF Moves, ReqOK, PointOK, HoldsRow, OnTask, Sending, Approving, Approved

\* The read of a row: the copy is good because every stored row is.
LEMMA GetTaskStep ==
    ASSUME Inv, NEW r \in Request, GetTask(r) PROVE Inv'
  <1> DEFINE q == req[r]
  <1>1. /\ ReqOK(q, Known, GrantedTo(r)) /\ q \in Requests /\ q.pc = "get"
    BY ReqIsOK DEF GetTask
  <1>2. q.to \in Status /\ q.task \in Known
    BY <1>1 DEF ReqOK, PointOK, OnTask, Approving
  <1>3. HistoryOK'
    BY FaultsBounded, ReadsOnly DEF GetTask
  <1>4. Moves(AfterError(q), q, Known, GrantedTo(r))
    BY <1>1, AfterErrorMoves
  <1>5. CASE Continue(r, AfterError(q))
    BY <1>3, <1>4, <1>5, LocalMove DEF GetTask
  <1>6. CASE Continue(r, [q EXCEPT !.pc = "put", !.from = tasks[q.task].status,
                                   !.row = [tasks[q.task] EXCEPT !.status = q.to]])
    <2> DEFINE row == [tasks[q.task] EXCEPT !.status = q.to]
               x1 == [q EXCEPT !.pc = "put"]
               x2 == [x1 EXCEPT !.from = tasks[q.task].status]
               x3 == [x2 EXCEPT !.row = row]
    <2>1. row \in GoodRows /\ tasks[q.task] \in GoodRows
      BY <1>2, RowOfTask, RowUpdates
    <2>2. row \in Rows /\ tasks[q.task].status \in Status
      BY <2>1 DEF GoodRows, Rows
    <2>3. x1 \in Requests /\ x1.pc = "put" /\ x1.op = q.op /\ x1.task = q.task
          /\ x1.to = q.to /\ x1.yaml = q.yaml
      BY <1>1 DEF Requests, Pcs
    <2>4. Continue(r, x3)
      BY <1>6
    <2> HIDE DEF x1, row
    <2>5. x2 \in Requests /\ x2.pc = "put" /\ x2.op = q.op /\ x2.task = q.task
          /\ x2.to = q.to /\ x2.yaml = q.yaml
      BY <2>2, <2>3 DEF Requests
    <2> HIDE DEF x2
    <2>6. x3 \in Requests /\ x3.pc = "put" /\ x3.op = q.op /\ x3.task = q.task
          /\ x3.to = q.to /\ x3.yaml = q.yaml /\ x3.row = row
      BY <2>2, <2>5 DEF Requests
    <2> HIDE DEF x3
    <2>7. PointOK(q, "get", Known, GrantedTo(r))
      BY <1>1 DEF ReqOK
    <2>8. Moves(x3, q, Known, GrantedTo(r))
      BY <1>1, <2>1, <2>6, <2>7, HoldMoves
    <2> QED
      BY <1>3, <2>4, <2>8, LocalMove DEF GetTask
  <1> QED
    BY <1>5, <1>6 DEF GetTask

\* The read before the reason of a failure is written.
LEMMA ErrorGetStep ==
    ASSUME Inv, NEW r \in Request, ErrorGet(r) PROVE Inv'
  <1> DEFINE q == req[r]
  <1>1. /\ ReqOK(q, Known, GrantedTo(r)) /\ q \in Requests /\ q.pc = "errGet"
    BY ReqIsOK DEF ErrorGet
  <1>2. q.task \in Known
    BY <1>1 DEF ReqOK, PointOK, OnTask
  <1>3. HistoryOK'
    BY FaultsBounded, ReadsOnly DEF ErrorGet
  <1>4. Moves(AfterNote(q), q, Known, GrantedTo(r))
    BY <1>1, AfterNoteMoves
  <1>5. CASE Continue(r, AfterNote(q))
    BY <1>3, <1>4, <1>5, LocalMove DEF ErrorGet
  <1>6. CASE Continue(r, [Goto(q, "errPut") EXCEPT
                              !.row = [tasks[q.task] EXCEPT !.error = TRUE]])
    <2> DEFINE row == [tasks[q.task] EXCEPT !.error = TRUE]
               x1 == Goto(q, "errPut")
               x2 == [x1 EXCEPT !.row = row]
    <2>1. row \in GoodRows
      BY <1>2, RowOfTask, RowUpdates
    <2>2. row \in Rows
      BY <2>1 DEF GoodRows
    <2>3. x1 \in Requests /\ x1.pc = "errPut" /\ x1.op = q.op /\ x1.task = q.task
          /\ x1.to = q.to /\ x1.yaml = q.yaml
      BY <1>1, GotoFields DEF Pcs
    <2>4. Continue(r, x2)
      BY <1>6
    <2> HIDE DEF x1, row
    <2>5. x2 \in Requests /\ x2.pc = "errPut" /\ x2.op = q.op /\ x2.task = q.task
          /\ x2.to = q.to /\ x2.yaml = q.yaml /\ x2.row = row
      BY <2>2, <2>3 DEF Requests
    <2> HIDE DEF x2
    <2>6. PointOK(q, "errGet", Known, GrantedTo(r))
      BY <1>1 DEF ReqOK
    <2>7. Moves(x2, q, Known, GrantedTo(r))
      BY <1>1, <2>1, <2>5, <2>6, HoldMoves
    <2> QED
      BY <1>3, <2>4, <2>7, LocalMove DEF ErrorGet
  <1> QED
    BY <1>5, <1>6 DEF ErrorGet

\* One row in the audit log and on to next.
LEMMA AuditStep ==
    ASSUME Inv, NEW r \in Request, NEW action \in AuditActions, NEW next,
           Audit(r, action, next), Moves(next, req[r], Known, GrantedTo(r))
    PROVE  Inv'
  <1>1. faults' \in 0 .. MaxFaults
    BY FaultsBounded DEF Audit
  <1>2. req[r].task \in Task \cup {"none"}
    BY ReqIsOK DEF Requests
  <1>3. audits' \subseteq AuditActions \X (Task \cup {"none"}) \X Request
    <2>1. <<action, req[r].task, r>> \in AuditActions \X (Task \cup {"none"}) \X Request
      BY <1>2
    <2>2. audits \subseteq AuditActions \X (Task \cup {"none"}) \X Request
      BY DEF Inv, HistoryOK
    <2>3. audits' \subseteq audits \cup {<<action, req[r].task, r>>}
      BY DEF Audit
    <2> QED
      BY <2>1, <2>2, <2>3
  <1>4. HistoryOK'
    BY <1>1, <1>3 DEF Inv, HistoryOK, Audit
  <1> QED
    BY <1>4, LocalMove DEF Audit

\* The audit records.
LEMMA AuditSteps ==
    ASSUME Inv, NEW r \in Request,
           \/ AuditCreate(r) \/ AuditApprove(r) \/ AuditDone(r)
           \/ AuditUnconfirmed(r) \/ AuditReject(r)
    PROVE  Inv'
  <1> DEFINE q == req[r]
  <1>0. ReqOK(q, Known, GrantedTo(r)) /\ q \in Requests
    BY ReqIsOK
  <1>a. q.pc # "idle"
    BY DEF AuditCreate, AuditApprove, AuditDone, AuditUnconfirmed, AuditReject
  <1>b. Moves(End(q), q, Known, GrantedTo(r))
    BY <1>0, <1>a, EndMoves
  <1>1. CASE AuditCreate(r)
    <2>1. q.pc = "auditCreate" /\ Audit(r, q.op, AfterAuditCreate(q))
      BY <1>1 DEF AuditCreate
    <2>2. q.op \in AuditActions
      <3>1. q.op # "none"
        BY <1>0, <2>1 DEF ReqOK
      <3> QED
        BY <1>0, <3>1 DEF Requests, AuditActions
    <2> QED
      BY <1>0, <2>1, <2>2, AfterAuditCreateMoves, AuditStep
  <1>2. CASE AuditApprove(r)
    BY <1>0, <1>2, AfterApprovalMoves, AuditStep DEF AuditApprove, AuditActions, Ops
  <1>3. CASE AuditDone(r)
    <2>1. q.op # "push_now" => Moves(Goto(q, "errGet"), q, Known, GrantedTo(r))
      <3>1. q.op # "push_now" =>
               "errGet" \in Pcs \ {"idle"} /\ PointOK(q, "errGet", Known, GrantedTo(r))
        BY <1>0, <1>3
           DEF AuditDone, Pcs, ReqOK, PointOK, HoldsRow, OnTask, Sending, Approving, Approved
      <3> QED
        BY <1>0, <1>a, <3>1, GotoMoves
    <2>2. "apply" \in AuditActions
      BY DEF AuditActions, Ops
    <2> DEFINE next == IF q.unconfirmed /\ q.op # "push_now" THEN Goto(q, "errGet") ELSE End(q)
    <2>3. Moves(next, q, Known, GrantedTo(r))
      BY <1>b, <2>1, Zenon
    <2>4. Audit(r, "apply", next)
      BY <1>3 DEF AuditDone
    <2> HIDE DEF next
    <2> QED
      BY <2>2, <2>3, <2>4, AuditStep
  <1>4. CASE AuditUnconfirmed(r)
    BY <1>b, <1>4, AuditStep DEF AuditUnconfirmed, AuditActions
  <1>5. CASE AuditReject(r)
    BY <1>b, <1>5, AuditStep DEF AuditReject, AuditActions, Ops
  <1> QED
    BY <1>1, <1>2, <1>3, <1>4, <1>5

\* The answer of the model, which generateYAML hands on only when it validates.
LEMMA CallModelStep ==
    ASSUME Inv, NEW r \in Request, CallModel(r) PROVE Inv'
  <1> DEFINE q == req[r]
  <1>1. /\ ReqOK(q, Known, GrantedTo(r)) /\ q.pc = "llm"
    BY ReqIsOK DEF CallModel
  <1>2. q.task \in Known /\ q.op # "push_now"
    BY <1>1 DEF ReqOK, PointOK, OnTask, Sending
  <1>3. HistoryOK'
    BY FaultsBounded, ReadsOnly DEF CallModel
  <1>4. CASE Continue(r, Call(q, "failed"))
    <2>1. Moves(Call(q, "failed"), q, Known, GrantedTo(r))
      BY <1>1, <1>2, CallMoves DEF Status
    <2> QED
      BY <1>3, <1>4, <2>1, LocalMove DEF CallModel
  <1>5. ASSUME NEW y \in ValidYaml, Continue(r, [Call(q, "validating") EXCEPT !.yaml = y])
        PROVE  Inv'
    <2> DEFINE x == Call(q, "validating")
               z == [x EXCEPT !.yaml = y]
    <2>1. /\ x \in Requests /\ x.pc = "get" /\ x.op = q.op /\ x.task = q.task
          /\ x.to = "validating" /\ x.row = q.row
      BY <1>1, CallFields DEF ReqOK, Status
    <2> HIDE DEF x
    <2>2. /\ z \in Requests /\ z.pc = "get" /\ z.op = q.op /\ z.task = q.task
          /\ z.to = "validating" /\ z.row = q.row /\ z.yaml = y
      BY <2>1, LifecycleAssumption DEF Requests
    <2>3. Continue(r, z)
      BY <1>5 DEF x
    <2> HIDE DEF z
    <2>4. PointOK(z, "get", Known, GrantedTo(r))
      BY <1>2, <2>2 DEF PointOK, HoldsRow, OnTask, Sending, Approving, Approved, Status
    <2>5. Moves(z, q, Known, GrantedTo(r))
      BY <1>1, <2>2, <2>4 DEF Moves, ReqOK
    <2> QED
      BY <1>3, <2>3, <2>5, LocalMove DEF CallModel
  <1> QED
    BY <1>4, <1>5 DEF CallModel

\* The second validation, in dispatchTask.
LEMMA RevalidateStep ==
    ASSUME Inv, NEW r \in Request, Revalidate(r) PROVE Inv'
  <1> DEFINE q == req[r]
  <1>1. /\ ReqOK(q, Known, GrantedTo(r)) /\ q.pc = "validate"
    BY ReqIsOK DEF Revalidate
  <1>2. q.task \in Known /\ q.op # "push_now"
    BY <1>1 DEF ReqOK, PointOK, OnTask, Sending
  <1>3. HistoryOK'
    BY FaultsBounded, ReadsOnly DEF Revalidate
  <1>4. /\ Moves(Call(q, "failed"), q, Known, GrantedTo(r))
        /\ Moves(Call(q, "awaiting_approval"), q, Known, GrantedTo(r))
    BY <1>1, <1>2, CallMoves DEF Status
  <1> QED
    BY <1>3, <1>4, LocalMove DEF Revalidate

\* The resolution of the task's target into collectors.
LEMMA ResolveStep ==
    ASSUME Inv, NEW r \in Request, Resolve(r) PROVE Inv'
  <1> DEFINE q == req[r]
  <1>1. /\ ReqOK(q, Known, GrantedTo(r)) /\ q.pc = "resolve"
    BY ReqIsOK DEF Resolve
  <1>2. /\ q.task \in Known /\ q.op # "push_now" /\ q.task \in GrantedTo(r)
        /\ q.row \in GoodRows /\ q.yaml \in ValidYaml
        /\ RequireApproval => q.op = "approve"
    BY <1>1 DEF ReqOK, PointOK, HoldsRow, OnTask, Sending, Approved
  <1>3. HistoryOK'
    BY FaultsBounded, ReadsOnly DEF Resolve
  <1>4. Moves(Call(q, "failed"), q, Known, GrantedTo(r))
    BY <1>1, <1>2, CallMoves DEF Status
  <1>5. Moves(Send(q, q.yaml, Members[q.row.target]), q, Known, GrantedTo(r))
    <2>1. Members[q.row.target] \in SUBSET Collector
      BY <1>2, LifecycleAssumption DEF GoodRows, Rows
    <2> QED
      BY <1>1, <1>2, <2>1, SendMoves
  <1> QED
    BY <1>3, <1>4, <1>5, LocalMove DEF Resolve

\* The read of the version a rollback goes back to: versions are valid documents.
LEMMA LookupVersionStep ==
    ASSUME Inv, NEW r \in Request, LookupVersion(r) PROVE Inv'
  <1> DEFINE q == req[r]
  <1>1. /\ ReqOK(q, Known, GrantedTo(r)) /\ q.pc = "lookup"
    BY ReqIsOK DEF LookupVersion
  <1>2. /\ q.task \in Known /\ q.op # "push_now" /\ q.task \in GrantedTo(r)
        /\ RequireApproval => q.op = "approve"
    BY <1>1 DEF ReqOK, PointOK, HoldsRow, OnTask, Sending, Approved
  <1>3. HistoryOK'
    BY FaultsBounded, ReadsOnly DEF LookupVersion
  <1>4. Moves(End(q), q, Known, GrantedTo(r))
    BY <1>1, EndMoves
  <1>5. CASE Continue(r, End(q))
    BY <1>3, <1>4, <1>5, LocalMove DEF LookupVersion
  <1>6. CASE /\ [collector |-> q.row.target, yaml |-> q.row.version] \in versions
             /\ Continue(r, Send(q, q.row.version, {q.row.target}))
    <2>1. q.row.version \in ValidYaml /\ {q.row.target} \in SUBSET Collector
      BY <1>6 DEF Inv
    <2>2. Moves(Send(q, q.row.version, {q.row.target}), q, Known, GrantedTo(r))
      BY <1>1, <1>2, <2>1, SendMoves
    <2> QED
      BY <1>3, <1>6, <2>2, LocalMove DEF LookupVersion
  <1> QED
    BY <1>5, <1>6 DEF LookupVersion

\* A client that leaves.
LEMMA CancelStep ==
    ASSUME Inv, NEW r \in Request, Cancel(r) PROVE Inv'
  <1> DEFINE q == req[r]
             x == [q EXCEPT !.live = FALSE]
  <1>1. /\ ReqOK(q, Known, GrantedTo(r)) /\ q \in Requests /\ q.pc # "idle"
    BY ReqIsOK DEF Cancel, Active
  <1>2. Cancel(r) => Continue(r, x) /\ Fault("cancel")
                       /\ UNCHANGED <<tasks, events, audits, versions, pushed, granted>>
    BY DEF Cancel
  <1>3. /\ x \in Requests /\ x.pc = q.pc /\ x.op = q.op /\ x.task = q.task
        /\ x.to = q.to /\ x.row = q.row /\ x.yaml = q.yaml /\ x.at = q.at
    BY <1>1 DEF Requests
  <1> HIDE DEF x
  <1>4. Moves(x, q, Known, GrantedTo(r))
    BY <1>1, <1>3, SameMoves
  <1>5. HistoryOK'
    BY <1>2, FaultsBounded, ReadsOnly DEF Fault
  <1> QED
    BY <1>2, <1>4, <1>5, LocalMove

\* A stop of the server: the requests are gone, the tables stay.
LEMMA CrashStep == Inv /\ Crash => Inv'
  <1> SUFFICES ASSUME Inv, Crash PROVE Inv'
    OBVIOUS
  <1>1. HistoryOK'
    BY LifecycleAssumption DEF Crash, Fault, Inv, HistoryOK
  <1>2. Known' = Known
    BY DEF Crash, Known
  <1>3. ASSUME NEW r \in Request
        PROVE  /\ ReqOK(req'[r], Known', GrantedTo(r)')
               /\ req[r].pc # "idle" => req'[r].pc # "idle" /\ req'[r].op = req[r].op
    <2>1. GrantedTo(r)' = GrantedTo(r)
      BY DEF Crash, GrantedTo
    <2>2. ReqOK(req[r], Known, GrantedTo(r))
      BY ReqIsOK
    <2>3. CASE r \in Active
      <3>1. req'[r] = Goto(req[r], "gone") /\ req[r].pc # "idle"
        BY <2>3 DEF Crash, Active
      <3>2. "gone" \in Pcs \ {"idle"} /\ PointOK(req[r], "gone", Known, GrantedTo(r))
        BY <2>2 DEF Pcs, ReqOK, PointOK, HoldsRow, OnTask, Sending, Approving, Approved
      <3>3. Moves(Goto(req[r], "gone"), req[r], Known, GrantedTo(r))
        BY <2>2, <3>1, <3>2, GotoMoves
      <3> QED
        BY <1>2, <2>1, <3>1, <3>3 DEF Moves
    <2>4. CASE r \notin Active
      BY <1>2, <2>1, <2>2, <2>4 DEF Crash
    <2> QED
      BY <2>3, <2>4
  <1>4. req' \in [Request -> Requests]
    <2>1. \A r \in Request : req'[r] \in Requests
      BY <1>3 DEF ReqOK
    <2> QED
      BY <2>1 DEF Crash
  <1>5. \A p \in pushed : PushOK(p)'
    <2> TAKE p \in pushed
    <2>1. PushOK(p) /\ p.req \in Request
      BY DEF Inv
    <2> QED
      BY <1>3, <2>1 DEF PushOK, Crash
  <1> QED
    BY <1>1, <1>3, <1>4, <1>5 DEF Inv, Crash

-----------------------------------------------------------------------------
(* Steps that write a row, an approval, a push or a version.                *)

\* Writing a good row only adds to what is known.
LEMMA RowStep ==
    ASSUME Inv, NEW r \in Request, NEW q, NEW t \in Task, NEW row \in GoodRows,
           tasks' = [tasks EXCEPT ![t] = row],
           granted \subseteq granted', granted' \subseteq Task \X Request,
           Continue(r, q),
           ReqOK(q, Known \cup {t}, GrantedTo(r)'),
           q.pc # "idle", q.op = req[r].op,
           HistoryOK', UNCHANGED <<versions, pushed>>
    PROVE  Inv'
  <1>1. row # Absent
    BY DEF GoodRows, Rows, Types, Absent, Row
  <1>2. Known' = Known \cup {t}
    BY <1>1 DEF Known, Inv
  <1>3. tasks' \in [Task -> GoodRows \cup {Absent}]
    BY DEF Inv
  <1>4. /\ req' \in [Request -> Requests]
        /\ \A s \in Request : ReqOK(req[s], Known, GrantedTo(s))'
    BY <1>2, OneRequestMoves DEF Continue
  <1>5. \A p \in pushed : PushOK(p)'
    BY OldPushes DEF Continue
  <1> QED
    BY <1>3, <1>4, <1>5 DEF Inv

\* The insert of a row, under an id nobody has used.
LEMMA CreateTaskStep ==
    ASSUME Inv, NEW r \in Request, CreateTask(r) PROVE Inv'
  <1> DEFINE q == req[r]
  <1>1. /\ ReqOK(q, Known, GrantedTo(r)) /\ q \in Requests /\ q.pc = "create"
    BY ReqIsOK DEF CreateTask
  <1>2. q.row \in GoodRows /\ q.op # "push_now" /\ q.op # "none"
    BY <1>1 DEF ReqOK, PointOK, HoldsRow, Sending
  <1>3. HistoryOK'
    BY FaultsBounded, ReadsOnly DEF CreateTask
  <1>4. CASE Continue(r, End(q)) /\ UNCHANGED tasks
    <2>1. Moves(End(q), q, Known, GrantedTo(r))
      BY <1>1, EndMoves
    <2> QED
      BY <1>3, <1>4, <2>1, LocalMove DEF CreateTask
  <1>5. ASSUME NEW t \in Task, tasks' = [tasks EXCEPT ![t] = q.row],
               Continue(r, [Goto(q, "createEvent") EXCEPT !.task = t])
        PROVE  Inv'
    <2> DEFINE x == Goto(q, "createEvent")
               y == [x EXCEPT !.task = t]
    <2>1. /\ x \in Requests /\ x.pc = "createEvent" /\ x.op = q.op
          /\ x.row = q.row /\ x.yaml = q.yaml
      BY <1>1, GotoFields DEF Pcs
    <2>2. Continue(r, y)
      BY <1>5
    <2> HIDE DEF x
    <2>3. /\ y \in Requests /\ y.pc = "createEvent" /\ y.op = q.op /\ y.task = t
          /\ y.row = q.row /\ y.yaml = q.yaml
      BY <2>1 DEF Requests
    <2> HIDE DEF y
    <2>4. PointOK(y, "createEvent", Known \cup {t}, GrantedTo(r)')
      BY <1>2, <2>3 DEF PointOK, HoldsRow, OnTask, Sending, Approving, Approved
    <2>5. ReqOK(y, Known \cup {t}, GrantedTo(r)')
      BY <1>1, <1>2, <2>3, <2>4 DEF ReqOK
    <2>6. granted \subseteq granted' /\ granted' \subseteq Task \X Request
      BY DEF CreateTask, Inv
    <2> QED
      BY <1>2, <1>3, <1>5, <2>2, <2>3, <2>5, <2>6, RowStep DEF CreateTask
  <1> QED
    BY <1>4, <1>5 DEF CreateTask

\* The whole-row write of a transition; an approval is granted here.
LEMMA PutTaskStep ==
    ASSUME Inv, NEW r \in Request, PutTask(r) PROVE Inv'
  <1> DEFINE q == req[r]
             x == Goto(q, "event")
  <1>1. /\ ReqOK(q, Known, GrantedTo(r)) /\ q \in Requests /\ q.pc = "put"
    BY ReqIsOK DEF PutTask
  <1>2. /\ q.row \in GoodRows /\ q.op # "push_now" /\ q.op # "none" /\ q.task \in Known
        /\ q.to \in Status /\ q.task \in Task
        /\ RequireApproval /\ q.to = "applying" => q.op = "approve"
    BY <1>1 DEF ReqOK, PointOK, HoldsRow, OnTask, Approving, Sending, Known
  <1>3. HistoryOK'
    BY FaultsBounded, ReadsOnly DEF PutTask
  <1>4. CASE Continue(r, AfterError(q)) /\ UNCHANGED <<tasks, granted>>
    <2>1. Moves(AfterError(q), q, Known, GrantedTo(r))
      BY <1>1, AfterErrorMoves
    <2> QED
      BY <1>3, <1>4, <2>1, LocalMove DEF PutTask
  <1>5. CASE /\ tasks' = [tasks EXCEPT ![q.task] = q.row]
             /\ granted' = IF q.to = "applying" THEN granted \cup {<<q.task, r>>} ELSE granted
             /\ Continue(r, x)
    <2>1. granted \subseteq granted' /\ granted' \subseteq Task \X Request
      BY <1>2, <1>5 DEF Inv
    <2>2. q.to = "applying" => q.task \in GrantedTo(r)'
      BY <1>2, <1>5 DEF GrantedTo
    <2>3. Known \cup {q.task} = Known
      BY <1>2
    <2>4. GrantedTo(r) \subseteq GrantedTo(r)'
      BY <2>1 DEF GrantedTo
    <2>5. ReqOK(q, Known, GrantedTo(r)')
      BY <1>1, <2>4, ReqMonotone
    <2>6. "event" \in Pcs \ {"idle"} /\ PointOK(q, "event", Known, GrantedTo(r)')
      BY <1>2, <2>2 DEF Pcs, PointOK, HoldsRow, OnTask, Sending, Approving, Approved
    <2>7. Moves(x, q, Known, GrantedTo(r)')
      BY <1>1, <2>5, <2>6, GotoMoves
    <2>8. ReqOK(x, Known \cup {q.task}, GrantedTo(r)') /\ x.pc # "idle" /\ x.op = q.op
      BY <2>3, <2>7 DEF Moves
    <2> HIDE DEF x
    <2> QED
      BY <1>2, <1>3, <1>5, <2>1, <2>8, RowStep DEF PutTask
  <1> QED
    BY <1>4, <1>5 DEF PutTask

\* The two other whole-row writes change no status and no approval.
LEMMA RewriteStep ==
    ASSUME Inv, NEW r \in Request, NEW q2, NEW row \in GoodRows,
           req[r].task \in Known,
           tasks' = [tasks EXCEPT ![req[r].task] = row] \/ UNCHANGED tasks,
           Continue(r, q2), Moves(q2, req[r], Known, GrantedTo(r)),
           HistoryOK', UNCHANGED <<versions, pushed, granted>>
    PROVE  Inv'
  <1>1. CASE UNCHANGED tasks
    BY <1>1, LocalMove
  <1>2. CASE tasks' = [tasks EXCEPT ![req[r].task] = row]
    <2>1. Known \cup {req[r].task} = Known /\ req[r].task \in Task
      BY DEF Known
    <2>2. GrantedTo(r)' = GrantedTo(r)
      BY DEF GrantedTo
    <2>3. ReqOK(q2, Known \cup {req[r].task}, GrantedTo(r)')
      BY <2>1, <2>2 DEF Moves
    <2>4. granted \subseteq granted' /\ granted' \subseteq Task \X Request
      BY DEF Inv
    <2>5. q2.pc # "idle" /\ q2.op = req[r].op
      BY DEF Moves
    <2> QED
      BY <1>2, <2>1, <2>3, <2>4, <2>5, RowStep
  <1> QED
    BY <1>1, <1>2

\* The whole-row write of the generated content.
LEMMA SaveContentStep ==
    ASSUME Inv, NEW r \in Request, SaveContent(r) PROVE Inv'
  <1> DEFINE q == req[r]
             row == [q.row EXCEPT !.yaml = q.yaml]
             next == IF RequireApproval THEN End(q) ELSE Call(q, "applying")
  <1>1. /\ ReqOK(q, Known, GrantedTo(r)) /\ q.pc = "save"
    BY ReqIsOK DEF SaveContent
  <1>2. q.row \in GoodRows /\ q.task \in Known /\ q.op # "push_now"
        /\ q.yaml \in ValidYaml \cup {NoYaml}
    BY <1>1 DEF ReqOK, PointOK, HoldsRow, OnTask, Sending
  <1>3. row \in GoodRows
    BY <1>2, RowUpdates
  <1>4. HistoryOK'
    BY FaultsBounded, ReadsOnly DEF SaveContent
  <1>5. Moves(End(q), q, Known, GrantedTo(r))
    BY <1>1, EndMoves
  <1>6. ~RequireApproval => Moves(Call(q, "applying"), q, Known, GrantedTo(r))
    BY <1>1, <1>2, CallMoves DEF Status
  <1>7. Moves(next, q, Known, GrantedTo(r))
    BY <1>5, <1>6, Zenon
  <1>8. Continue(r, next) /\ (tasks' = [tasks EXCEPT ![q.task] = row] \/ UNCHANGED tasks)
        /\ UNCHANGED <<versions, pushed, granted>>
    BY DEF SaveContent
  <1> HIDE DEF next, row
  <1> QED
    BY <1>2, <1>3, <1>4, <1>7, <1>8, RewriteStep

\* The whole-row write of the reason of a failure.
LEMMA ErrorPutStep ==
    ASSUME Inv, NEW r \in Request, ErrorPut(r) PROVE Inv'
  <1> DEFINE q == req[r]
  <1>1. /\ ReqOK(q, Known, GrantedTo(r)) /\ q.pc = "errPut"
    BY ReqIsOK DEF ErrorPut
  <1>2. q.row \in GoodRows /\ q.task \in Known
    BY <1>1 DEF ReqOK, PointOK, HoldsRow, OnTask
  <1>3. HistoryOK'
    BY FaultsBounded, ReadsOnly DEF ErrorPut
  <1>4. Moves(AfterNote(q), q, Known, GrantedTo(r))
    BY <1>1, AfterNoteMoves
  <1> QED
    BY <1>2, <1>3, <1>4, RewriteStep DEF ErrorPut

\* One more push, justified by the state the pushing request is in.
LEMMA NewPush ==
    ASSUME Inv, NEW r \in Request, NEW q2, NEW c \in Collector,
           req[r].pc = "push",
           Continue(r, q2), Moves(q2, req[r], Known, GrantedTo(r)),
           pushed' = pushed \cup {[task |-> req[r].task, req |-> r, collector |-> c,
                                   yaml |-> req[r].yaml]},
           HistoryOK', UNCHANGED <<tasks, versions, granted>>
    PROVE  Inv'
  <1> DEFINE q == req[r]
             p == [task |-> q.task, req |-> r, collector |-> c, yaml |-> q.yaml]
  <1>1. /\ ReqOK(q, Known, GrantedTo(r)) /\ q \in Requests
    BY ReqIsOK
  <1>2. /\ q.yaml \in ValidYaml /\ q.yaml \in Yaml
        /\ q.op # "push_now" => q.task \in GrantedTo(r)
        /\ q.op = "push_now" => q.task = "none"
        /\ RequireApproval => q.op = "approve"
    BY <1>1, LifecycleAssumption DEF ReqOK, PointOK, Sending, Approved
  <1>3. q.task \in Task \cup {"none"}
    BY <1>1 DEF Requests
  <1>4. pushed' \subseteq [task : Task \cup {"none"}, req : Request,
                           collector : Collector, yaml : Yaml]
    BY <1>2, <1>3 DEF Inv
  <1>5. Known' = Known /\ GrantedTo(r)' = GrantedTo(r)
    BY DEF Known, GrantedTo
  <1>6. /\ req' \in [Request -> Requests]
        /\ \A s \in Request : ReqOK(req[s], Known, GrantedTo(s))'
    BY <1>5, OneRequestMoves DEF Moves, Continue
  <1>7. \A o \in pushed : PushOK(o)'
    BY OldPushes DEF Moves, Continue
  <1>8. ASSUME NEW o, o = p PROVE PushOK(o)'
    <2>1. req'[r] = q2 /\ q2.pc # "idle" /\ q2.op = q.op
      BY DEF Continue, Moves, Inv
    <2>2. q.task # "none" => <<q.task, r>> \in granted
      BY <1>2 DEF GrantedTo
    <2>3. RequireApproval => q.task # "none"
      BY <1>2, LifecycleAssumption DEF GrantedTo
    <2> QED
      BY <1>2, <1>8, <2>1, <2>2, <2>3 DEF PushOK
  <1>9. \A o \in pushed' : PushOK(o)'
    BY <1>7, <1>8
  <1> QED
    BY <1>4, <1>6, <1>9 DEF Inv

\* PushConfig: what is pushed is valid and, for a task, approved.
LEMMA PushStep ==
    ASSUME Inv, NEW r \in Request, Push(r) PROVE Inv'
  <1> DEFINE q == req[r]
  <1>1. /\ ReqOK(q, Known, GrantedTo(r)) /\ q \in Requests /\ q.pc = "push"
    BY ReqIsOK DEF Push
  <1>2. HistoryOK'
    BY FaultsBounded, ReadsOnly DEF Push, Fault
  <1>3. PICK c \in q.todo :
           LET rest == [q EXCEPT !.at = c, !.todo = @ \ {c}] IN
           \/ /\ pushed' = pushed \cup {[task |-> q.task, req |-> r, collector |-> c,
                                         yaml |-> q.yaml]}
              /\ \E u \in {q.unconfirmed, TRUE} :
                    Continue(r, [Goto(rest, "version") EXCEPT !.unconfirmed = u])
           \/ /\ Continue(r, CASE q.op = "push_now" -> Goto(rest, "version")
                               [] q.op # "push_now" /\ q.row.type = "rollback" -> Call(q, "failed")
                               [] OTHER -> AfterTarget(rest))
              /\ UNCHANGED pushed
    BY DEF Push
  <1> DEFINE x == [q EXCEPT !.at = c]
             rest == [x EXCEPT !.todo = @ \ {c}]
             moved == Goto(rest, "version")
  <1>4. c \in Collector /\ q.todo \in SUBSET Collector
    BY <1>1 DEF Requests
  <1>5. x \in Requests /\ x.pc = q.pc /\ x.op = q.op /\ x.task = q.task /\ x.to = q.to
        /\ x.row = q.row /\ x.yaml = q.yaml /\ x.todo = q.todo /\ x.at = c
    BY <1>1, <1>4 DEF Requests
  <1>6. \/ /\ pushed' = pushed \cup {[task |-> q.task, req |-> r, collector |-> c,
                                      yaml |-> q.yaml]}
           /\ \E u \in {q.unconfirmed, TRUE} :
                 Continue(r, [moved EXCEPT !.unconfirmed = u])
        \/ /\ Continue(r, CASE q.op = "push_now" -> moved
                            [] q.op # "push_now" /\ q.row.type = "rollback" -> Call(q, "failed")
                            [] OTHER -> AfterTarget(rest))
           /\ UNCHANGED pushed
    BY <1>3
  <1> HIDE DEF x
  <1>7. rest \in Requests /\ rest.pc = q.pc /\ rest.op = q.op /\ rest.task = q.task
        /\ rest.to = q.to /\ rest.row = q.row /\ rest.yaml = q.yaml /\ rest.at = c
    BY <1>4, <1>5 DEF Requests
  <1> HIDE DEF rest
  <1>8. ReqOK(rest, Known, GrantedTo(r))
    BY <1>1, <1>7 DEF ReqOK, PointOK
  <1>9. Moves(moved, rest, Known, GrantedTo(r))
    <2>1. "version" \in Pcs \ {"idle"} /\ PointOK(rest, "version", Known, GrantedTo(r))
      BY <1>1, <1>4, <1>7, <1>8
         DEF Pcs, ReqOK, PointOK, HoldsRow, OnTask, Sending, Approving, Approved
    <2> QED
      BY <1>1, <1>7, <1>8, <2>1, GotoMoves
  <1> HIDE DEF moved
  <1>10. Moves(AfterTarget(rest), rest, Known, GrantedTo(r))
    BY <1>1, <1>7, <1>8, AfterTargetMoves DEF Sending
  <1>11. q.op # "push_now" => Moves(Call(q, "failed"), q, Known, GrantedTo(r))
    <2>1. q.op # "push_now" => q.task \in Known
      BY <1>1 DEF ReqOK, PointOK, Sending
    <2> QED
      BY <1>1, <2>1, CallMoves DEF Status
  <1>12. CASE /\ pushed' = pushed \cup {[task |-> q.task, req |-> r, collector |-> c,
                                         yaml |-> q.yaml]}
              /\ \E u \in {q.unconfirmed, TRUE} :
                    Continue(r, [moved EXCEPT !.unconfirmed = u])
    <2>1. PICK u \in {q.unconfirmed, TRUE} : Continue(r, [moved EXCEPT !.unconfirmed = u])
      BY <1>12
    <2> DEFINE y == [moved EXCEPT !.unconfirmed = u]
    <2>2. u \in BOOLEAN /\ moved \in Requests
      BY <1>1, <1>9 DEF Requests, Moves, ReqOK
    <2>3. y \in Requests /\ y.pc = moved.pc /\ y.op = moved.op /\ y.task = moved.task
          /\ y.to = moved.to /\ y.row = moved.row /\ y.yaml = moved.yaml /\ y.at = moved.at
      BY <2>2 DEF Requests
    <2> HIDE DEF y
    <2>4. Moves(y, moved, Known, GrantedTo(r))
      BY <1>9, <2>3, SameMoves DEF Moves
    <2>5. Moves(y, q, Known, GrantedTo(r))
      BY <1>7, <1>9, <2>4 DEF Moves
    <2>6. Continue(r, y)
      BY <2>1 DEF y
    <2> QED
      BY <1>1, <1>2, <1>4, <1>12, <2>5, <2>6, NewPush DEF Push
  <1>13. CASE /\ Continue(r, CASE q.op = "push_now" -> moved
                               [] q.op # "push_now" /\ q.row.type = "rollback" -> Call(q, "failed")
                               [] OTHER -> AfterTarget(rest))
              /\ UNCHANGED pushed
    <2> DEFINE next == CASE q.op = "push_now" -> moved
                         [] q.op # "push_now" /\ q.row.type = "rollback" -> Call(q, "failed")
                         [] OTHER -> AfterTarget(rest)
    <2>0. Moves(moved, q, Known, GrantedTo(r)) /\ Moves(AfterTarget(rest), q, Known, GrantedTo(r))
      BY <1>7, <1>9, <1>10 DEF Moves
    <2>1. CASE q.op = "push_now"
      <3>1. next = moved
        BY <2>1
      <3> QED
        BY <1>2, <1>13, <2>0, <3>1, LocalMove DEF Push
    <2>2. CASE q.op # "push_now" /\ q.row.type = "rollback"
      <3>1. next = Call(q, "failed")
        BY <2>2
      <3> QED
        BY <1>2, <1>11, <1>13, <2>2, <3>1, LocalMove DEF Push
    <2>3. CASE q.op # "push_now" /\ q.row.type # "rollback"
      <3>1. next = AfterTarget(rest)
        BY <2>3
      <3> QED
        BY <1>2, <1>13, <2>0, <3>1, LocalMove DEF Push
    <2> QED
      BY <2>1, <2>2, <2>3
  <1> QED
    BY <1>6, <1>12, <1>13

\* The version recorded after a push.
LEMMA RecordVersionStep ==
    ASSUME Inv, NEW r \in Request, RecordVersion(r) PROVE Inv'
  <1> DEFINE q == req[r]
  <1>1. /\ ReqOK(q, Known, GrantedTo(r)) /\ q.pc = "version"
    BY ReqIsOK DEF RecordVersion
  <1>2. q.at \in Collector /\ q.yaml \in ValidYaml
    BY <1>1 DEF ReqOK, PointOK, Sending
  <1>3. HistoryOK'
    BY FaultsBounded, ReadsOnly DEF RecordVersion
  <1>4. Moves(AfterTarget(q), q, Known, GrantedTo(r))
    BY <1>1, AfterTargetMoves DEF Sending
  <1>5. versions' \subseteq [collector : Collector, yaml : ValidYaml]
    BY <1>2 DEF RecordVersion, Inv
  <1>6. Known' = Known /\ GrantedTo(r)' = GrantedTo(r)
    BY DEF Known, GrantedTo, RecordVersion
  <1>7. /\ req' \in [Request -> Requests]
        /\ \A s \in Request : ReqOK(req[s], Known, GrantedTo(s))'
    BY <1>4, <1>6, OneRequestMoves DEF Moves, Continue, RecordVersion
  <1>8. \A p \in pushed : PushOK(p)'
    BY <1>4, OldPushes DEF Moves, Continue, RecordVersion
  <1> QED
    BY <1>3, <1>5, <1>7, <1>8 DEF Inv, RecordVersion

-----------------------------------------------------------------------------
(* The theorems.                                                            *)

\* Any statement of a request that is under way.
LEMMA StepStep ==
    ASSUME Inv, NEW r \in Request, Step(r) PROVE Inv'
  BY CreateTaskStep, CreateEventStep, AuditSteps, GetTaskStep, PutTaskStep,
     TransitionEventStep, CallModelStep, RevalidateStep, SaveContentStep,
     ResolveStep, LookupVersionStep, PushStep, RecordVersionStep,
     ErrorGetStep, ErrorPutStep DEF Step

\* Inv is inductive: it holds initially and every action of every request,
\* a cancellation and a crash preserve it.
THEOREM Invariance == Spec => []Inv
  <1>1. Init => Inv
    BY InitInv
  <1>2. Inv /\ [Next]_vars => Inv'
    <2> SUFFICES ASSUME Inv, [Next]_vars PROVE Inv'
      OBVIOUS
    <2>1. CASE Crash
      BY <2>1, CrashStep
    <2>2. ASSUME NEW r \in Request, Arrive(r) PROVE Inv'
      BY <2>2, ArriveStep
    <2>3. ASSUME NEW r \in Request, Step(r) PROVE Inv'
      BY <2>3, StepStep
    <2>4. ASSUME NEW r \in Request, Cancel(r) PROVE Inv'
      BY <2>4, CancelStep
    <2>5. CASE UNCHANGED vars
      BY <2>5 DEF vars, Inv, HistoryOK, Known, GrantedTo, PushOK
    <2> QED
      BY <2>1, <2>2, <2>3, <2>4, <2>5 DEF Next
  <1> QED
    BY <1>1, <1>2, PTL DEF Spec

\* No handler ever writes a row, a version or an event outside its columns'
\* domains, for any number of requests, tasks and faults.
THEOREM TypeCorrect == Spec => []TypeOK
  BY Invariance, InvTypes, PTL

\* No path pushes or records a configuration the validator has not accepted.
THEOREM ValidatedOnly == Spec => []OnlyValidated
  BY Invariance, InvSafe, PTL

\* A configuration leaves only for a request that wrote the approval itself,
\* an approve call while approval is required.
THEOREM ApprovalGate == Spec => []DispatchNeedsApproval
  BY Invariance, InvSafe, PTL

=============================================================================
