---------------------------- MODULE TaskRows_proofs ----------------------------
(***************************************************************************)
(* Proofs about TaskLifecycle that follow the row of a task.               *)
(*                                                                         *)
(* However approvals, rejections, retries and stale whole-row writes race, *)
(* one task never dispatches two different contents (OneContentPerTask).   *)
(* ContentInv says that all the places that hold a document for a task,    *)
(* its row, every copy of the row and every request that works on it, and  *)
(* the pushes made for it, hold the same one.  Only two steps bring a      *)
(* document in: the creation of the row, and the answer of the model to    *)
(* the one request that generates the task's content; both happen while no *)
(* place holds a document yet.                                             *)
(*                                                                         *)
(* When requests do not overlap (MaxActive = 1), TaskLifecycle implements  *)
(* TaskStateMachine (ImplementsStateMachine), and the events of a task     *)
(* tell its status (EventsTellStatus), for every number of requests, tasks *)
(* and faults; both are false of requests that race, as the README's       *)
(* findings show.  SerialInv says that nothing changes a row between the   *)
(* read and the write of one transition: the copy's status is that of the  *)
(* row until the write, and the row's is the copy's after it.              *)
(***************************************************************************)
EXTENDS TaskDispatch_proofs, FiniteSetTheorems

\* A document that request q, which works on task t, may put into the task.
Carries(q, t, y) == q.task = t /\ y \in {q.yaml, q.row.yaml, q.row.version}

\* The document y is held for task t.
Held(t, y) ==
    \/ y \in {tasks[t].yaml, tasks[t].version}
    \/ \E s \in Request : Carries(req[s], t, y)
    \/ \E p \in pushed : p.task = t /\ p.yaml = y

\* The request has yet to ask the model for the content of its task.
Unwritten(q) == q.op \in Gen /\ q.to \in {"none", "generating"}

\* Where a request stands with its own document.
ContentLocal(q) ==
    /\ q.pc = "create" =>
          /\ q.yaml = NoYaml
          /\ q.row.yaml = NoYaml \/ q.row.version = NoYaml
          /\ q.op \in Gen => q.row.yaml = NoYaml /\ q.row.version = NoYaml
    /\ q.pc \in {"create", "createEvent", "auditCreate"} => q.to = "none"
    /\ q.pc = "llm" => q.to = "generating"

ContentInv ==
    /\ \A t \in Task, y, z \in Yaml : Held(t, y) /\ Held(t, z) => y = z
    /\ \A r \in Request, t \in Task : Unwritten(req[r]) /\ req[r].task = t =>
          \A y \in Yaml : ~Held(t, y)
    /\ \A r, s \in Request : req[r].op \in Gen /\ req[s].op \in Gen
          /\ req[r].task = req[s].task /\ req[r].task # "none" => r = s
    /\ \A r \in Request : ContentLocal(req[r])

-----------------------------------------------------------------------------
(* Frames.                                                                  *)

\* Before a row exists nothing holds a document for it.
LEMMA NothingHeld ==
    ASSUME Inv, DispatchInv, NEW t \in Task, tasks[t] = Absent, NEW y \in Yaml
    PROVE  ~Held(t, y)
  <1>1. t # "none" /\ y # NoYaml
    BY LifecycleAssumption
  <1>2. Absent.yaml = NoYaml /\ Absent.version = NoYaml
    BY DEF Absent, Row
  <1>3. \A s \in Request : req[s].task # t
    BY <1>1 DEF DispatchInv, Handling, Shape
  <1>4. \A p \in pushed : p.task # t
    BY <1>1 DEF DispatchInv, PushKnown
  <1> QED
    BY <1>1, <1>2, <1>3, <1>4 DEF Held, Carries

\* A step that brings in no document.
LEMMA ContentStep ==
    ASSUME Inv, ContentInv, NEW r \in Request, NEW q,
           req' = [req EXCEPT ![r] = q],
           \/ q.op = req[r].op /\ q.task = req[r].task /\ (Unwritten(q) => Unwritten(req[r]))
           \/ q.op \in Gen => q.task = "none",
           \A t \in Task, y \in Yaml : Held(t, y)' => Held(t, y),
           ContentLocal(q)
    PROVE  ContentInv'
  <1>0. req' \in [Request -> Requests \cup {q}] /\ req'[r] = q
        /\ \A s \in Request : s # r => req'[s] = req[s]
    BY DEF Inv
  <1>1. \A s \in Request : req[s].task \in Task \cup {"none"}
    BY DEF Inv, Requests
  <1>2. \A t \in Task, y, z \in Yaml : Held(t, y)' /\ Held(t, z)' => y = z
    BY DEF ContentInv
  <1>3. ASSUME NEW s \in Request, NEW t \in Task, Unwritten(req'[s]), req'[s].task = t,
               NEW y \in Yaml, Held(t, y)'
        PROVE  FALSE
    <2>1. Unwritten(req[s]) /\ req[s].task = t
      BY <1>0, <1>3, LifecycleAssumption DEF Unwritten
    <2>2. Held(t, y)
      BY <1>3
    <2> QED
      BY <1>3, <2>1, <2>2 DEF ContentInv
  <1>4. ASSUME NEW s \in Request, NEW u \in Request, req'[s].op \in Gen, req'[u].op \in Gen,
               req'[s].task = req'[u].task, req'[s].task # "none"
        PROVE  s = u
    <2>1. /\ req[s].op = req'[s].op /\ req[s].task = req'[s].task
          /\ req[u].op = req'[u].op /\ req[u].task = req'[u].task
      BY <1>0, <1>4
    <2> QED
      BY <1>4, <2>1 DEF ContentInv
  <1>5. \A s \in Request : ContentLocal(req'[s])
    BY <1>0 DEF ContentInv
  <1> QED
    BY <1>2, <1>3, <1>4, <1>5 DEF ContentInv

\* Documents that are already held are no new ones.
LEMMA HeldShrinks ==
    ASSUME Inv, NEW r \in Request, NEW q,
           req' = [req EXCEPT ![r] = q],
           \A t \in Task, y \in Yaml : Carries(q, t, y) => Held(t, y),
           \A t \in Task, y \in Yaml : y \in {tasks'[t].yaml, tasks'[t].version} => Held(t, y),
           \A p \in pushed' : p \in pushed \/ Carries(req[r], p.task, p.yaml)
    PROVE  \A t \in Task, y \in Yaml : Held(t, y)' => Held(t, y)
  <1> SUFFICES ASSUME NEW t \in Task, NEW y \in Yaml, Held(t, y)' PROVE Held(t, y)
    OBVIOUS
  <1>1. CASE y \in {tasks'[t].yaml, tasks'[t].version}
    BY <1>1
  <1>2. ASSUME NEW s \in Request, Carries(req'[s], t, y) PROVE Held(t, y)
    <2>1. CASE s = r
      BY <1>2, <2>1 DEF Inv
    <2>2. CASE s # r
      BY <1>2, <2>2 DEF Inv, Held
    <2> QED
      BY <2>1, <2>2
  <1>3. ASSUME NEW p \in pushed', p.task = t, p.yaml = y PROVE Held(t, y)
    BY <1>3 DEF Held
  <1> QED
    BY <1>1, <1>2, <1>3 DEF Held

\* A step of a request on its task that leaves rows and pushes alone.
LEMMA ContentMove ==
    ASSUME Inv, ContentInv, NEW r \in Request, NEW q, Continue(r, q),
           UNCHANGED <<tasks, pushed>>,
           q.op = req[r].op, q.task = req[r].task,
           q.yaml \in {req[r].yaml, req[r].row.yaml, req[r].row.version},
           \/ q.row = req[r].row
           \/ /\ q.row.yaml = tasks[q.task].yaml
              /\ q.row.version = tasks[q.task].version,
           Unwritten(q) => Unwritten(req[r]),
           q.pc \notin {"create", "createEvent"},
           q.pc \in {"auditCreate"} => q.to = "none",
           q.pc = "llm" => q.to = "generating"
    PROVE  ContentInv'
  <1>1. req' = [req EXCEPT ![r] = q]
    BY DEF Continue
  <1>2. \A t \in Task, y \in Yaml : Carries(q, t, y) => Held(t, y)
    BY DEF Carries, Held
  <1>3. \A t \in Task, y \in Yaml : y \in {tasks'[t].yaml, tasks'[t].version} => Held(t, y)
    BY DEF Held
  <1>4. \A p \in pushed' : p \in pushed
    OBVIOUS
  <1>5. \A t \in Task, y \in Yaml : Held(t, y)' => Held(t, y)
    BY <1>1, <1>2, <1>3, <1>4, HeldShrinks
  <1>6. ContentLocal(q)
    BY DEF ContentLocal
  <1> QED
    BY <1>1, <1>5, <1>6, ContentStep

\* The same for the continuations that change the program counter only.
LEMMA KeptContent ==
    ASSUME Inv, ContentInv, NEW r \in Request, NEW q, Continue(r, q),
           UNCHANGED <<tasks, pushed>>, Kept(q, req[r]),
           Unwritten(q) => Unwritten(req[r]),
           q.pc \notin {"create", "createEvent"},
           q.pc = "auditCreate" => q.to = "none",
           q.pc = "llm" => q.to = "generating"
    PROVE  ContentInv'
  BY ContentMove DEF Kept

-----------------------------------------------------------------------------
(* The initial state and arriving requests.                                 *)

\* At the start no document is held for any task.
LEMMA InitContent == Init => ContentInv
  <1> SUFFICES ASSUME Init PROVE ContentInv
    OBVIOUS
  <1>1. \A r \in Request : req[r] = NoRequest
    BY DEF Init
  <1>2. NoRequest.op = "none" /\ NoRequest.task = "none" /\ NoRequest.pc = "idle"
    BY DEF NoRequest
  <1>3. Absent.yaml = NoYaml /\ Absent.version = NoYaml
    BY DEF Absent, Row
  <1>4. ASSUME NEW t \in Task, NEW y \in Yaml PROVE ~Held(t, y)
    BY <1>1, <1>2, <1>3, LifecycleAssumption DEF Init, Held, Carries
  <1> QED
    BY <1>1, <1>2, <1>4 DEF ContentInv, Unwritten, Gen, ContentLocal

\* A request comes in without a document, or not yet with a task.
LEMMA BeginContent ==
    ASSUME Inv, ContentInv, NEW r \in Request, NEW q, Begin(r, q),
           q.op \in Gen => q.task = "none",
           q.task # "none" => q.yaml = NoYaml /\ q.row = Absent,
           ContentLocal(q)
    PROVE  ContentInv'
  <1>1. req' = [req EXCEPT ![r] = q] /\ UNCHANGED <<tasks, pushed>>
    BY DEF Begin, Continue
  <1>2. Absent.yaml = NoYaml /\ Absent.version = NoYaml
    BY DEF Absent, Row
  <1>3. \A t \in Task, y \in Yaml : ~Carries(q, t, y)
    BY <1>2, LifecycleAssumption DEF Carries
  <1>4. \A t \in Task, y \in Yaml : y \in {tasks'[t].yaml, tasks'[t].version} => Held(t, y)
    BY <1>1 DEF Held
  <1>5. \A p \in pushed' : p \in pushed
    BY <1>1
  <1>6. \A t \in Task, y \in Yaml : Held(t, y)' => Held(t, y)
    BY <1>1, <1>3, <1>4, <1>5, HeldShrinks
  <1> QED
    BY <1>1, <1>6, ContentStep

\* A created row has at most one document, a row to generate has none.
LEMMA CreatingContent ==
    ASSUME Inv, ContentInv, NEW r \in Request, NEW op, NEW row, Begin(r, Creating(op, row)),
           row.yaml = NoYaml \/ row.version = NoYaml,
           op \in Gen => row.yaml = NoYaml /\ row.version = NoYaml
    PROVE  ContentInv'
  <1> DEFINE q == Creating(op, row)
  <1>1. /\ q.op = op /\ q.row = row /\ q.pc = "create" /\ q.task = "none" /\ q.yaml = NoYaml
        /\ q.to = "none"
    BY DEF Creating, NoRequest
  <1>2. Begin(r, q)
    OBVIOUS
  <1> HIDE DEF q
  <1>3. ContentLocal(q)
    BY <1>1 DEF ContentLocal
  <1> QED
    BY <1>1, <1>2, <1>3, BeginContent

\* Requests come in with at most the document of the row they create.
LEMMA ArriveContent ==
    ASSUME Inv, ContentInv, NEW r \in Request, Arrive(r) PROVE ContentInv'
  <1>1. ASSUME NEW type, NEW st, NEW y, NEW g, NEW v
        PROVE  Row(type, st, y, g, v).yaml = y /\ Row(type, st, y, g, v).version = v
    BY DEF Row
  <1>2. CASE Generate(r)
    BY <1>1, <1>2, CreatingContent DEF Generate
  <1>3. CASE Optimize(r)
    BY <1>1, <1>3, CreatingContent DEF Optimize
  <1>4. CASE Upgrade(r)
    BY <1>1, <1>4, CreatingContent DEF Upgrade
  <1>5. CASE Apply(r)
    BY <1>1, <1>5, CreatingContent DEF Apply, Gen
  <1>6. CASE Rollback(r)
    BY <1>1, <1>6, CreatingContent DEF Rollback, Gen
  <1>7. CASE GitRollback(r)
    BY <1>1, <1>7, CreatingContent DEF GitRollback, Gen
  <1>8. CASE PushNow(r)
    <2>1. PICK g \in Target, y \in Yaml :
             Begin(r, [NoRequest EXCEPT !.op = "push_now", !.pc = "push",
                                        !.yaml = y, !.todo = Members[g]])
      BY <1>8 DEF PushNow
    <2> DEFINE q == [NoRequest EXCEPT !.op = "push_now", !.pc = "push",
                                      !.yaml = y, !.todo = Members[g]]
    <2>2. q.op = "push_now" /\ q.task = "none" /\ q.pc = "push"
      BY DEF NoRequest
    <2>3. Begin(r, q)
      BY <2>1
    <2> HIDE DEF q
    <2> QED
      BY <2>2, <2>3, BeginContent DEF ContentLocal
  <1>9. CASE Approve(r) \/ Reject(r)
    <2>1. PICK op \in {"approve", "reject", "reject_tool"}, to \in {"applying", "rejected"},
               t \in Task :
             Begin(r, [Call(NoRequest, to) EXCEPT !.op = op, !.task = t,
                              !.late = (tasks[t].status = "rejected")])
      BY <1>9 DEF Approve, Reject, Decide
    <2> DEFINE l == tasks[t].status = "rejected"
               q == [Call(NoRequest, to) EXCEPT !.op = op, !.task = t, !.late = l]
    <2>2. Begin(r, q)
      BY <2>1
    <2> HIDE DEF l
    <2>3. NoRequest \in Requests /\ NoRequest.row = Absent /\ NoRequest.yaml = NoYaml
      BY DEF NoRequest, Requests, Pcs
    <2>4. q.op = op /\ q.row = Absent /\ q.pc = "get" /\ q.yaml = NoYaml
      BY <2>3 DEF Call, Goto, Requests
    <2> HIDE DEF q
    <2> QED
      BY <2>2, <2>4, BeginContent DEF ContentLocal, Gen
  <1> QED
    BY <1>2, <1>3, <1>4, <1>5, <1>6, <1>7, <1>8, <1>9 DEF Arrive

-----------------------------------------------------------------------------
(* Steps that move no document.                                             *)

\* The creation event moves no document.
LEMMA CreateEventContent ==
    ASSUME Inv, DispatchInv, ContentInv, NEW r \in Request, CreateEvent(r) PROVE ContentInv'
  <1> DEFINE q == req[r]
             q2 == AfterCreate(q)
  <1>1. q.pc = "createEvent" /\ Continue(r, q2) /\ UNCHANGED <<tasks, pushed>>
    BY DEF CreateEvent
  <1>2. /\ Kept(q2, q)
        /\ \/ q2.pc \in {"auditCreate", "end"} /\ q2.to = q.to
           \/ q2.pc = "get" /\ q2.to = "generating" /\ q.op \in Gen
    BY ReqHandling, AfterCreateKept
  <1>3. q.to = "none"
    BY <1>1 DEF ContentInv, ContentLocal
  <1> HIDE DEF q2
  <1> QED
    BY <1>1, <1>2, <1>3, KeptContent DEF Unwritten, Kept

\* The audit row of a creation moves no document.
LEMMA AuditCreateContent ==
    ASSUME Inv, DispatchInv, ContentInv, NEW r \in Request, AuditCreate(r) PROVE ContentInv'
  <1> DEFINE q == req[r]
             q2 == AfterAuditCreate(q)
  <1>1. q.pc = "auditCreate" /\ Continue(r, q2) /\ UNCHANGED <<tasks, pushed>>
    BY DEF AuditCreate, Audit
  <1>2. /\ Kept(q2, q)
        /\ \/ q2.pc = "end" /\ q2.to = q.to
           \/ q2.pc = "get" /\ q2.to = "generating" /\ q.op \in Gen
           \/ q2.pc = "get" /\ q2.to = "applying"
    BY ReqHandling, AfterAuditCreateKept
  <1>3. q.to = "none"
    BY <1>1 DEF ContentInv, ContentLocal
  <1> HIDE DEF q2
  <1> QED
    BY <1>1, <1>2, <1>3, KeptContent DEF Unwritten, Kept

\* The event of a transition moves no document.
LEMMA TransitionEventContent ==
    ASSUME Inv, DispatchInv, ContentInv, NEW r \in Request, TransitionEvent(r)
    PROVE  ContentInv'
  <1> DEFINE q == req[r]
             q2 == AfterOk(q)
  <1>1. q.pc = "event" /\ Continue(r, q2) /\ UNCHANGED <<tasks, pushed>>
    BY DEF TransitionEvent
  <1>2. /\ Kept(q2, q)
        /\ q2.pc \in {"get", "llm", "validate", "save", "auditApprove", "auditDone",
                      "errGet", "auditReject", "end"}
        /\ IF q2.pc = "get" THEN q2.to = "awaiting_approval" ELSE q2.to = q.to
        /\ q2.pc = "llm" => q.to = "generating"
    BY ReqHandling, AfterOkKept
  <1> HIDE DEF q2
  <1> QED
    BY <1>1, <1>2, KeptContent DEF Unwritten, Kept

\* A failed service call moves no document.
LEMMA ErrorContent ==
    ASSUME Inv, DispatchInv, ContentInv, NEW r \in Request, Continue(r, AfterError(req[r])),
           UNCHANGED <<tasks, pushed>>
    PROVE  ContentInv'
  <1> DEFINE q == req[r]
             q2 == AfterError(q)
  <1>1. /\ Kept(q2, q)
        /\ \/ q2.pc = "end" /\ q2.to = q.to
           \/ q2.pc = "get" /\ q2.to = "failed" /\ q.to = "done"
    BY ReqHandling, AfterErrorKept
  <1>2. Continue(r, q2)
    OBVIOUS
  <1> HIDE DEF q2
  <1> QED
    BY <1>1, <1>2, KeptContent DEF Unwritten, Kept

\* A copy of the row holds what the row holds.
LEMMA GetTaskContent ==
    ASSUME Inv, DispatchInv, ContentInv, NEW r \in Request, GetTask(r) PROVE ContentInv'
  <1> DEFINE q == req[r]
             a == tasks[q.task]
  <1>1. q.pc = "get" /\ UNCHANGED <<tasks, pushed>> /\ q \in Requests
        /\ PointOK(q, "get", Known, GrantedTo(r))
    BY ReqHandling DEF GetTask
  <1>2. CASE Continue(r, AfterError(q))
    BY <1>1, <1>2, ErrorContent
  <1>3. CASE Continue(r, [q EXCEPT !.pc = "put", !.from = a.status,
                                   !.row = [a EXCEPT !.status = q.to]])
    <2> DEFINE row == [a EXCEPT !.status = q.to]
               q2 == [q EXCEPT !.pc = "put", !.from = a.status, !.row = row]
    <2>1. Continue(r, q2)
      BY <1>3
    <2>2. a \in Rows
      BY <1>1, RowOfTask DEF PointOK, OnTask, GoodRows
    <2>3. row.yaml = a.yaml /\ row.version = a.version
      BY <2>2 DEF Rows
    <2> HIDE DEF row
    <2>4. /\ q2.pc = "put" /\ q2.op = q.op /\ q2.task = q.task /\ q2.to = q.to
          /\ q2.row = row /\ q2.yaml = q.yaml
      BY <1>1 DEF Requests
    <2> HIDE DEF q2
    <2> QED
      BY <1>1, <2>1, <2>3, <2>4, ContentMove DEF Unwritten
  <1> QED
    BY <1>2, <1>3 DEF GetTask

\* The copy read for the note holds what the row holds.
LEMMA ErrorGetContent ==
    ASSUME Inv, DispatchInv, ContentInv, NEW r \in Request, ErrorGet(r) PROVE ContentInv'
  <1> DEFINE q == req[r]
             a == tasks[q.task]
  <1>1. q.pc = "errGet" /\ UNCHANGED <<tasks, pushed>> /\ q \in Requests
        /\ PointOK(q, "errGet", Known, GrantedTo(r))
    BY ReqHandling DEF ErrorGet
  <1>2. CASE Continue(r, AfterNote(q))
    <2> DEFINE q2 == AfterNote(q)
    <2>1. /\ Kept(q2, q) /\ q2.to = q.to /\ q2.pc \in {"auditUnconfirmed", "end"}
          /\ Continue(r, q2)
      BY <1>1, <1>2, AfterNoteKept
    <2> HIDE DEF q2
    <2> QED
      BY <1>1, <2>1, KeptContent DEF Unwritten, Kept
  <1>3. CASE Continue(r, [Goto(q, "errPut") EXCEPT !.row = [a EXCEPT !.error = TRUE]])
    <2> DEFINE row == [a EXCEPT !.error = TRUE]
               x == Goto(q, "errPut")
               q2 == [x EXCEPT !.row = row]
    <2>1. Continue(r, q2)
      BY <1>3
    <2>2. a \in Rows
      BY <1>1, RowOfTask DEF PointOK, OnTask, GoodRows
    <2>3. row.yaml = a.yaml /\ row.version = a.version
      BY <2>2 DEF Rows
    <2>4. Kept(x, q) /\ x.pc = "errPut" /\ x.to = q.to
      BY <1>1, GotoKept DEF Pcs
    <2> HIDE DEF row, x
    <2>5. /\ q2.pc = "errPut" /\ q2.op = q.op /\ q2.task = q.task /\ q2.to = q.to
          /\ q2.row = row /\ q2.yaml = q.yaml
      BY <2>4 DEF Kept, Requests
    <2> HIDE DEF q2
    <2> QED
      BY <1>1, <2>1, <2>3, <2>5, ContentMove DEF Unwritten
  <1> QED
    BY <1>2, <1>3 DEF ErrorGet

\* Validation moves no document.
LEMMA RevalidateContent ==
    ASSUME Inv, DispatchInv, ContentInv, NEW r \in Request, Revalidate(r) PROVE ContentInv'
  <1> DEFINE q == req[r]
  <1>1. UNCHANGED <<tasks, pushed>>
    BY DEF Revalidate
  <1>2. PICK to \in {"awaiting_approval", "failed"} : Continue(r, Call(q, to))
    BY DEF Revalidate
  <1> DEFINE q2 == Call(q, to)
  <1>3. Kept(q2, q) /\ q2.pc = "get" /\ q2.to = to /\ Continue(r, q2)
    BY <1>2, ReqHandling, CallKept DEF Status
  <1> HIDE DEF q2
  <1> QED
    BY <1>1, <1>3, KeptContent DEF Unwritten

\* The closing audit rows move no document.
LEMMA LastAuditsContent ==
    ASSUME Inv, DispatchInv, ContentInv, NEW r \in Request,
           AuditDone(r) \/ AuditUnconfirmed(r) \/ AuditReject(r)
    PROVE  ContentInv'
  <1> DEFINE q == req[r]
  <1>1. PICK pc \in {"errGet", "end"} : Continue(r, Goto(q, pc))
    BY DEF AuditDone, AuditUnconfirmed, AuditReject, Audit, End
  <1>2. UNCHANGED <<tasks, pushed>>
    BY DEF AuditDone, AuditUnconfirmed, AuditReject, Audit
  <1> DEFINE q2 == Goto(q, pc)
  <1>3. Kept(q2, q) /\ q2.pc = pc /\ q2.to = q.to /\ Continue(r, q2)
    BY <1>1, ReqHandling, GotoKept DEF Pcs
  <1> HIDE DEF q2
  <1> QED
    BY <1>2, <1>3, KeptContent DEF Unwritten, Kept

\* A cancelled request carries what it carried.
LEMMA CancelContent ==
    ASSUME Inv, DispatchInv, ContentInv, NEW r \in Request, Cancel(r) PROVE ContentInv'
  <1> DEFINE q == req[r]
             q2 == [q EXCEPT !.live = FALSE]
  <1>1. Continue(r, q2) /\ UNCHANGED <<tasks, pushed>> /\ q \in Requests
    BY ReqHandling DEF Cancel
  <1>2. /\ q2.pc = q.pc /\ q2.op = q.op /\ q2.task = q.task /\ q2.to = q.to
        /\ q2.row = q.row /\ q2.yaml = q.yaml
    BY <1>1 DEF Requests
  <1> HIDE DEF q2
  <1>3. ContentLocal(q2)
    BY <1>2 DEF ContentInv, ContentLocal
  <1>4. req' = [req EXCEPT ![r] = q2]
    BY <1>1 DEF Continue
  <1>5. \A t \in Task, y \in Yaml : Carries(q2, t, y) => Held(t, y)
    BY <1>2 DEF Carries, Held
  <1>6. \A t \in Task, y \in Yaml : y \in {tasks'[t].yaml, tasks'[t].version} => Held(t, y)
    BY <1>1 DEF Held
  <1>7. \A p \in pushed' : p \in pushed
    BY <1>1
  <1>8. \A t \in Task, y \in Yaml : Held(t, y)' => Held(t, y)
    BY <1>4, <1>5, <1>6, <1>7, HeldShrinks
  <1> QED
    BY <1>2, <1>3, <1>4, <1>8, ContentStep DEF Unwritten

\* A crash moves no document.
LEMMA CrashContent ==
    ASSUME Inv, DispatchInv, ContentInv, Crash PROVE ContentInv'
  <1>1. UNCHANGED <<tasks, pushed>>
    BY DEF Crash
  <1>2. ASSUME NEW r \in Request
        PROVE  /\ req'[r].op = req[r].op /\ req'[r].task = req[r].task
               /\ req'[r].to = req[r].to /\ req'[r].yaml = req[r].yaml
               /\ req'[r].row = req[r].row /\ req'[r].pc \in {req[r].pc, "gone"}
    <2>1. req'[r] = req[r] \/ req'[r] = Goto(req[r], "gone")
      BY DEF Crash
    <2>2. Kept(Goto(req[r], "gone"), req[r]) /\ Goto(req[r], "gone").pc = "gone"
          /\ Goto(req[r], "gone").to = req[r].to
      BY ReqHandling, GotoKept DEF Pcs
    <2> QED
      BY <2>1, <2>2 DEF Kept
  <1>3. \A t \in Task, y \in Yaml : Held(t, y)' => Held(t, y)
    <2> SUFFICES ASSUME NEW t \in Task, NEW y \in Yaml, Held(t, y)' PROVE Held(t, y)
      OBVIOUS
    <2>1. \A s \in Request : Carries(req'[s], t, y) => Carries(req[s], t, y)
      BY <1>2 DEF Carries
    <2> QED
      BY <1>1, <2>1 DEF Held
  <1>4. \A r \in Request : ContentLocal(req'[r])
    BY <1>2 DEF ContentInv, ContentLocal
  <1>5. \A t \in Task, y, z \in Yaml : Held(t, y)' /\ Held(t, z)' => y = z
    BY <1>3 DEF ContentInv
  <1>6. ASSUME NEW r \in Request, NEW t \in Task, Unwritten(req'[r]), req'[r].task = t,
               NEW y \in Yaml, Held(t, y)'
        PROVE  FALSE
    <2>1. Unwritten(req[r]) /\ req[r].task = t
      BY <1>2, <1>6 DEF Unwritten
    <2> QED
      BY <1>3, <1>6, <2>1 DEF ContentInv
  <1>7. ASSUME NEW r \in Request, NEW s \in Request,
               req'[r].op \in Gen, req'[s].op \in Gen,
               req'[r].task = req'[s].task, req'[r].task # "none"
        PROVE  r = s
    BY <1>2, <1>7 DEF ContentInv
  <1> QED
    BY <1>4, <1>5, <1>6, <1>7 DEF ContentInv

-----------------------------------------------------------------------------
(* The two steps that bring a document in.                                  *)

\* The row is created with at most one document, and nothing else holds one.
LEMMA CreateTaskContent ==
    ASSUME Inv, DispatchInv, ContentInv, NEW r \in Request, CreateTask(r) PROVE ContentInv'
  <1> DEFINE q == req[r]
  <1>1. q.pc = "create" /\ UNCHANGED pushed /\ q \in Requests
    BY ReqHandling DEF CreateTask
  <1>2. CASE Continue(r, End(q)) /\ UNCHANGED tasks
    <2> DEFINE q2 == End(q)
    <2>1. Kept(q2, q) /\ q2.pc = "end" /\ q2.to = q.to /\ Continue(r, q2)
      BY <1>1, <1>2, GotoKept DEF End, Pcs
    <2> HIDE DEF q2
    <2> QED
      BY <1>1, <1>2, <2>1, KeptContent DEF Unwritten, Kept
  <1>3. ASSUME NEW t \in Task, tasks[t] = Absent, tasks' = [tasks EXCEPT ![t] = q.row],
               Continue(r, [Goto(q, "createEvent") EXCEPT !.task = t])
        PROVE  ContentInv'
    <2> DEFINE x == Goto(q, "createEvent")
               q2 == [x EXCEPT !.task = t]
    <2>1. Kept(x, q) /\ x.pc = "createEvent" /\ x.to = q.to
      BY <1>1, GotoKept DEF Pcs
    <2>2. req' = [req EXCEPT ![r] = q2]
      BY <1>3 DEF Continue
    <2> HIDE DEF x
    <2>3. /\ q2.pc = "createEvent" /\ q2.op = q.op /\ q2.task = t /\ q2.to = q.to
          /\ q2.row = q.row /\ q2.yaml = q.yaml
      BY <2>1 DEF Kept, Requests
    <2> HIDE DEF q2
    <2>4. /\ q.yaml = NoYaml /\ q.to = "none"
          /\ q.row.yaml = NoYaml \/ q.row.version = NoYaml
          /\ q.op \in Gen => q.row.yaml = NoYaml /\ q.row.version = NoYaml
      BY <1>1 DEF ContentInv, ContentLocal
    <2>5. t # "none" /\ NoYaml \notin Yaml
      BY LifecycleAssumption
    <2>6. \A s \in Request : req[s].task # t
      BY <1>3, <2>5 DEF DispatchInv, Handling, Shape
    <2>7. \A p \in pushed : p.task # t
      BY <1>3, <2>5 DEF DispatchInv, PushKnown
    <2>8. /\ tasks'[t] = q.row /\ \A u \in Task : u # t => tasks'[u] = tasks[u]
          /\ req'[r] = q2 /\ \A s \in Request : s # r => req'[s] = req[s]
      BY <1>3, <2>2 DEF Inv
    <2>9. ASSUME NEW u \in Task, u # t, NEW y \in Yaml, Held(u, y)' PROVE Held(u, y)
      BY <1>1, <2>3, <2>8, <2>9 DEF Held, Carries
    <2>10. ASSUME NEW y \in Yaml, Held(t, y)' PROVE y \in {q.row.yaml, q.row.version}
      BY <1>1, <2>3, <2>4, <2>5, <2>6, <2>7, <2>8, <2>10 DEF Held, Carries
    <2>11. ASSUME NEW u \in Task, NEW y \in Yaml, NEW z \in Yaml, Held(u, y)', Held(u, z)'
           PROVE  y = z
      <3>1. CASE u = t
        BY <2>4, <2>5, <2>10, <2>11, <3>1
      <3>2. CASE u # t
        BY <2>9, <2>11, <3>2 DEF ContentInv
      <3> QED
        BY <3>1, <3>2
    <2>12. ASSUME NEW s \in Request, NEW u \in Task, Unwritten(req'[s]), req'[s].task = u,
                  NEW y \in Yaml, Held(u, y)'
           PROVE  FALSE
      <3>1. CASE s = r
        BY <2>3, <2>4, <2>5, <2>8, <2>10, <2>12, <3>1 DEF Unwritten
      <3>2. CASE s # r
        <4>1. req'[s] = req[s] /\ u # t
          BY <2>6, <2>8, <2>12, <3>2
        <4> QED
          BY <2>9, <2>12, <4>1 DEF ContentInv
      <3> QED
        BY <3>1, <3>2
    <2>13. ASSUME NEW s \in Request, NEW u \in Request, req'[s].op \in Gen, req'[u].op \in Gen,
                  req'[s].task = req'[u].task, req'[s].task # "none"
           PROVE  s = u
      BY <2>3, <2>6, <2>8, <2>13 DEF ContentInv
    <2>14. ContentLocal(q2)
      BY <2>3, <2>4 DEF ContentLocal
    <2>15. \A s \in Request : ContentLocal(req'[s])
      BY <2>8, <2>14 DEF ContentInv
    <2> QED
      BY <2>11, <2>12, <2>13, <2>15 DEF ContentInv
  <1> QED
    BY <1>2, <1>3 DEF CreateTask

\* The model answers the one request that writes the task's content.
LEMMA CallModelContent ==
    ASSUME Inv, DispatchInv, ContentInv, NEW r \in Request, CallModel(r) PROVE ContentInv'
  <1> DEFINE q == req[r]
  <1>1. q.pc = "llm" /\ UNCHANGED <<tasks, pushed>> /\ q \in Requests
        /\ PointOK(q, "llm", Known, GrantedTo(r))
    BY ReqHandling DEF CallModel
  <1>2. CASE Continue(r, Call(q, "failed"))
    <2> DEFINE q2 == Call(q, "failed")
    <2>1. Kept(q2, q) /\ q2.pc = "get" /\ q2.to = "failed" /\ Continue(r, q2)
      BY <1>1, <1>2, CallKept DEF Status
    <2> HIDE DEF q2
    <2> QED
      BY <1>1, <2>1, KeptContent DEF Unwritten
  <1>3. ASSUME NEW y \in ValidYaml, Continue(r, [Call(q, "validating") EXCEPT !.yaml = y])
        PROVE  ContentInv'
    <2> DEFINE x == Call(q, "validating")
               q2 == [x EXCEPT !.yaml = y]
    <2>1. Kept(x, q) /\ x.pc = "get" /\ x.to = "validating"
      BY <1>1, CallKept DEF Status
    <2>2. req' = [req EXCEPT ![r] = q2]
      BY <1>3 DEF Continue
    <2> HIDE DEF x
    <2>3. /\ q2.pc = "get" /\ q2.to = "validating" /\ q2.op = q.op /\ q2.task = q.task
          /\ q2.row = q.row /\ q2.yaml = y
      BY <2>1 DEF Kept, Requests
    <2> HIDE DEF q2
    <2>4. PICK t \in Task : t = q.task /\ t # "none" /\ q.op \in Gen
      BY <1>1, GenTask, LifecycleAssumption DEF Generating, PointOK, OnTask, Known
    <2>5. Unwritten(q)
      BY <1>1, <2>4 DEF ContentInv, ContentLocal, Unwritten
    <2>6. \A z \in Yaml : ~Held(t, z)
      BY <2>4, <2>5 DEF ContentInv
    <2>7. req'[r] = q2 /\ \A s \in Request : s # r => req'[s] = req[s]
      BY <2>2 DEF Inv
    <2>8. ASSUME NEW u \in Task, u # t, NEW z \in Yaml, Held(u, z)' PROVE Held(u, z)
      BY <1>1, <2>3, <2>4, <2>7, <2>8 DEF Held, Carries
    <2>9. ASSUME NEW z \in Yaml, Held(t, z)' PROVE z = y
      BY <1>1, <2>3, <2>4, <2>6, <2>7, <2>9 DEF Held, Carries
    <2>10. ASSUME NEW u \in Task, NEW v \in Yaml, NEW z \in Yaml, Held(u, v)', Held(u, z)'
           PROVE  v = z
      <3>1. CASE u = t
        BY <2>9, <2>10, <3>1
      <3>2. CASE u # t
        BY <2>8, <2>10, <3>2 DEF ContentInv
      <3> QED
        BY <3>1, <3>2
    <2>11. ASSUME NEW s \in Request, NEW u \in Task, Unwritten(req'[s]), req'[s].task = u,
                  NEW z \in Yaml, Held(u, z)'
           PROVE  FALSE
      <3>1. s # r
        BY <2>3, <2>7, <2>11 DEF Unwritten
      <3>2. req'[s] = req[s]
        BY <2>7, <3>1
      <3>3. u # t
        BY <2>4, <2>11, <3>1, <3>2 DEF ContentInv, Unwritten
      <3> QED
        BY <2>8, <2>11, <3>2, <3>3 DEF ContentInv
    <2>12. ASSUME NEW s \in Request, NEW u \in Request, req'[s].op \in Gen, req'[u].op \in Gen,
                  req'[s].task = req'[u].task, req'[s].task # "none"
           PROVE  s = u
      <3>1. /\ req[s].op = req'[s].op /\ req[s].task = req'[s].task
            /\ req[u].op = req'[u].op /\ req[u].task = req'[u].task
        BY <2>3, <2>7
      <3> QED
        BY <2>12, <3>1 DEF ContentInv
    <2>13. \A s \in Request : ContentLocal(req'[s])
      BY <2>3, <2>7 DEF ContentInv, ContentLocal
    <2> QED
      BY <2>10, <2>11, <2>12, <2>13 DEF ContentInv
  <1> QED
    BY <1>2, <1>3 DEF CallModel

-----------------------------------------------------------------------------
(* The dispatch passes on the documents of its own copy of the row.         *)

\* An approved request takes its document from its copy of the row.
LEMMA AuditApproveContent ==
    ASSUME Inv, DispatchInv, ContentInv, NEW r \in Request, AuditApprove(r) PROVE ContentInv'
  <1> DEFINE q == req[r]
             q2 == AfterApproval(q)
  <1>1. q.pc = "auditApprove" /\ Continue(r, q2) /\ UNCHANGED <<tasks, pushed>>
    BY DEF AuditApprove, Audit
  <1>2. q \in Requests /\ q.row \in GoodRows
    BY <1>1, ReqHandling, HeldRow
  <1>3. /\ Moved(q2, q) /\ q2.yaml \in {q.yaml, q.row.yaml}
        /\ q2.pc \in {"end", "get", "lookup", "push", "resolve"}
        /\ q2.to = q.to \/ q2.to = "done"
    BY <1>2, AfterApprovalMoved
  <1> HIDE DEF q2
  <1> QED
    BY <1>1, <1>3, ContentMove DEF Unwritten, Moved

\* The loop over the collectors sends the document it was given.
LEMMA ResolveContent ==
    ASSUME Inv, DispatchInv, ContentInv, NEW r \in Request, Resolve(r) PROVE ContentInv'
  <1> DEFINE q == req[r]
  <1>1. q.pc = "resolve" /\ UNCHANGED <<tasks, pushed>>
    BY DEF Resolve
  <1>2. /\ q \in Requests /\ q.yaml \in Yaml /\ q.row \in Rows
    BY <1>1, ReqHandling, HeldRow, LifecycleAssumption DEF PointOK, Sending
  <1>3. CASE Continue(r, Call(q, "failed"))
    <2> DEFINE q2 == Call(q, "failed")
    <2>1. Kept(q2, q) /\ q2.pc = "get" /\ q2.to = "failed" /\ Continue(r, q2)
      BY <1>2, <1>3, CallKept DEF Status
    <2> HIDE DEF q2
    <2> QED
      BY <1>1, <2>1, KeptContent DEF Unwritten
  <1>4. CASE Continue(r, Send(q, q.yaml, Members[q.row.target]))
    <2> DEFINE q2 == Send(q, q.yaml, Members[q.row.target])
    <2>1. Members[q.row.target] \in SUBSET Collector
      BY <1>2, LifecycleAssumption DEF Rows
    <2>2. Moved(q2, q) /\ q2.pc = "push" /\ q2.to = q.to /\ q2.yaml = q.yaml /\ Continue(r, q2)
      BY <1>2, <1>4, <2>1, SendMoved
    <2> HIDE DEF q2
    <2> QED
      BY <1>1, <2>2, ContentMove DEF Unwritten, Moved
  <1> QED
    BY <1>3, <1>4 DEF Resolve

\* A built-in rollback takes the document its copy of the row names.
LEMMA LookupVersionContent ==
    ASSUME Inv, DispatchInv, ContentInv, NEW r \in Request, LookupVersion(r) PROVE ContentInv'
  <1> DEFINE q == req[r]
  <1>1. q.pc = "lookup" /\ UNCHANGED <<tasks, pushed>> /\ q \in Requests
    BY ReqHandling DEF LookupVersion
  <1>2. CASE Continue(r, End(q))
    <2> DEFINE q2 == End(q)
    <2>1. Kept(q2, q) /\ q2.pc = "end" /\ q2.to = q.to /\ Continue(r, q2)
      BY <1>1, <1>2, GotoKept DEF End, Pcs
    <2> HIDE DEF q2
    <2> QED
      BY <1>1, <2>1, KeptContent DEF Unwritten, Kept
  <1>3. CASE /\ [collector |-> q.row.target, yaml |-> q.row.version] \in versions
             /\ Continue(r, Send(q, q.row.version, {q.row.target}))
    <2> DEFINE q2 == Send(q, q.row.version, {q.row.target})
    <2>1. q.row.version \in Yaml /\ q.row.target \in Collector
      BY <1>3, LifecycleAssumption DEF Inv
    <2>2. /\ Moved(q2, q) /\ q2.pc = "push" /\ q2.to = q.to /\ q2.yaml = q.row.version
          /\ Continue(r, q2)
      BY <1>1, <1>3, <2>1, SendMoved
    <2> HIDE DEF q2
    <2> QED
      BY <1>1, <2>2, ContentMove DEF Unwritten, Moved
  <1> QED
    BY <1>2, <1>3 DEF LookupVersion

\* A version row is no place of a task.
LEMMA RecordVersionContent ==
    ASSUME Inv, DispatchInv, ContentInv, NEW r \in Request, RecordVersion(r) PROVE ContentInv'
  <1> DEFINE q == req[r]
             q2 == AfterTarget(q)
  <1>1. q.pc = "version" /\ Continue(r, q2) /\ UNCHANGED <<tasks, pushed>>
    BY DEF RecordVersion
  <1>2. /\ Kept(q2, q) /\ q2.pc \in {"push", "auditDone", "get"}
        /\ q2.to = q.to \/ q2.to = "done"
    BY ReqHandling, AfterTargetKept
  <1> HIDE DEF q2
  <1> QED
    BY <1>1, <1>2, KeptContent DEF Unwritten, Kept

\* A push sends the document its request carries.
LEMMA PushContent ==
    ASSUME Inv, DispatchInv, ContentInv, NEW r \in Request, Push(r) PROVE ContentInv'
  <1> DEFINE q == req[r]
  <1>1. q.pc = "push" /\ UNCHANGED tasks /\ q \in Requests
    BY ReqHandling DEF Push
  <1>2. PICK c \in q.todo :
           LET rest == [q EXCEPT !.at = c, !.todo = @ \ {c}] IN
           \/ /\ pushed' = pushed \cup {[task |-> q.task, req |-> r, collector |-> c,
                                         yaml |-> q.yaml]}
              /\ \E u \in {q.unconfirmed, TRUE} :
                    Continue(r, [Goto(rest, "version") EXCEPT !.unconfirmed = u])
           \/ /\ Continue(r, CASE q.op = "push_now" -> Goto(rest, "version")
                               [] q.op # "push_now" /\ q.row.type = "rollback" -> Call(q, "failed")
                               [] OTHER -> AfterTarget(rest))
              /\ UNCHANGED pushed
    BY DEF Push
  <1> DEFINE x == [q EXCEPT !.at = c]
             rest == [x EXCEPT !.todo = @ \ {c}]
             moved == Goto(rest, "version")
  <1>3. \/ /\ pushed' = pushed \cup {[task |-> q.task, req |-> r, collector |-> c,
                                      yaml |-> q.yaml]}
           /\ \E u \in {q.unconfirmed, TRUE} :
                 Continue(r, [moved EXCEPT !.unconfirmed = u])
        \/ /\ Continue(r, CASE q.op = "push_now" -> moved
                            [] q.op # "push_now" /\ q.row.type = "rollback" -> Call(q, "failed")
                            [] OTHER -> AfterTarget(rest))
           /\ UNCHANGED pushed
    BY <1>2
  <1>4. c \in Collector /\ q.todo \in SUBSET Collector
    BY <1>1 DEF Requests
  <1>5. x \in Requests /\ Moved(x, q) /\ x.yaml = q.yaml /\ x.todo = q.todo /\ x.to = q.to
    BY <1>1, <1>4 DEF Requests, Moved
  <1> HIDE DEF x
  <1>6. rest \in Requests /\ Moved(rest, q) /\ rest.yaml = q.yaml /\ rest.to = q.to
    BY <1>4, <1>5 DEF Requests, Moved
  <1> HIDE DEF rest
  <1>7. Kept(moved, rest) /\ moved.pc = "version" /\ moved.to = q.to
    BY <1>6, GotoKept DEF Pcs
  <1> HIDE DEF moved
  <1>8. ASSUME NEW q2, Continue(r, q2), Moved(q2, q), q2.yaml = q.yaml,
               q2.pc \in {"version", "push", "auditDone", "get"},
               q2.to = q.to \/ q2.to \in {"done", "failed"},
               \A p \in pushed' : p \in pushed \/ Carries(q, p.task, p.yaml)
        PROVE  ContentInv'
    <2>1. req' = [req EXCEPT ![r] = q2]
      BY <1>8 DEF Continue
    <2>2. \A t \in Task, y \in Yaml : Carries(q2, t, y) => Held(t, y)
      BY <1>8 DEF Carries, Held, Moved
    <2>3. \A t \in Task, y \in Yaml : y \in {tasks'[t].yaml, tasks'[t].version} => Held(t, y)
      BY <1>1 DEF Held
    <2>4. \A t \in Task, y \in Yaml : Held(t, y)' => Held(t, y)
      BY <1>8, <2>1, <2>2, <2>3, HeldShrinks
    <2>5. ContentLocal(q2)
      BY <1>8 DEF ContentLocal
    <2>6. q2.op = q.op /\ q2.task = q.task /\ (Unwritten(q2) => Unwritten(q))
      BY <1>8 DEF Unwritten, Moved
    <2> QED
      BY <2>1, <2>4, <2>5, <2>6, ContentStep
  <1>9. CASE /\ pushed' = pushed \cup {[task |-> q.task, req |-> r, collector |-> c,
                                        yaml |-> q.yaml]}
             /\ \E u \in {q.unconfirmed, TRUE} :
                   Continue(r, [moved EXCEPT !.unconfirmed = u])
    <2>1. PICK u \in {q.unconfirmed, TRUE} : Continue(r, [moved EXCEPT !.unconfirmed = u])
      BY <1>9
    <2> DEFINE q2 == [moved EXCEPT !.unconfirmed = u]
    <2>2. Moved(q2, q) /\ q2.pc = "version" /\ q2.yaml = q.yaml /\ q2.to = q.to
      BY <1>6, <1>7 DEF Kept, Moved, Requests
    <2>3. Continue(r, q2)
      BY <2>1
    <2> HIDE DEF q2
    <2>4. \A p \in pushed' : p \in pushed \/ Carries(q, p.task, p.yaml)
      BY <1>9 DEF Carries
    <2> QED
      BY <1>8, <2>2, <2>3, <2>4
  <1>10. CASE /\ Continue(r, CASE q.op = "push_now" -> moved
                               [] q.op # "push_now" /\ q.row.type = "rollback" -> Call(q, "failed")
                               [] OTHER -> AfterTarget(rest))
              /\ UNCHANGED pushed
    <2>1. CASE q.op = "push_now"
      <3>1. Continue(r, moved)
        BY <1>10, <2>1
      <3>2. Moved(moved, q) /\ moved.yaml = q.yaml
        BY <1>6, <1>7 DEF Kept, Moved
      <3> QED
        BY <1>7, <1>8, <1>10, <3>1, <3>2
    <2>2. CASE q.op # "push_now" /\ q.row.type = "rollback"
      <3> DEFINE q2 == Call(q, "failed")
      <3>1. Continue(r, q2)
        BY <1>10, <2>2
      <3>2. Kept(q2, q) /\ q2.pc = "get" /\ q2.to = "failed"
        BY <1>1, CallKept DEF Status
      <3> HIDE DEF q2
      <3> QED
        BY <1>8, <1>10, <3>1, <3>2 DEF Kept, Moved
    <2>3. CASE q.op # "push_now" /\ q.row.type # "rollback"
      <3> DEFINE q2 == AfterTarget(rest)
      <3>1. Continue(r, q2)
        BY <1>10, <2>3
      <3>2. /\ Kept(q2, rest) /\ q2.pc \in {"push", "auditDone", "get"}
            /\ q2.to = rest.to \/ q2.to = "done"
        BY <1>6, AfterTargetKept
      <3> HIDE DEF q2
      <3>3. Moved(q2, q) /\ q2.yaml = q.yaml
        BY <1>6, <3>2 DEF Kept, Moved
      <3> QED
        BY <1>6, <1>8, <1>10, <3>1, <3>2, <3>3
    <2> QED
      BY <2>1, <2>2, <2>3
  <1> QED
    BY <1>3, <1>9, <1>10

-----------------------------------------------------------------------------
(* A write of a row puts documents into it that are held already.           *)

\* The row written is made of documents its request carries.
LEMMA RowContent ==
    ASSUME Inv, ContentInv, NEW r \in Request, NEW q2, NEW t \in Task, NEW row,
           tasks' = [tasks EXCEPT ![t] = row], Continue(r, q2), UNCHANGED pushed,
           t = req[r].task, Kept(q2, req[r]),
           row.version = req[r].row.version, row.yaml \in {req[r].yaml, req[r].row.yaml},
           q2.to = req[r].to \/ q2.to = "applying",
           q2.pc \notin {"create", "createEvent", "auditCreate", "llm"}
    PROVE  ContentInv'
  <1> DEFINE q == req[r]
  <1>1. req' = [req EXCEPT ![r] = q2]
    BY DEF Continue
  <1>2. \A u \in Task, y \in Yaml : Carries(q2, u, y) => Held(u, y)
    BY DEF Carries, Held, Kept
  <1>3. \A u \in Task, y \in Yaml : y \in {tasks'[u].yaml, tasks'[u].version} => Held(u, y)
    <2> SUFFICES ASSUME NEW u \in Task, NEW y \in Yaml, y \in {tasks'[u].yaml, tasks'[u].version}
                 PROVE  Held(u, y)
      OBVIOUS
    <2>1. CASE u = t
      <3>1. Carries(q, t, y)
        BY <2>1 DEF Carries, Inv
      <3> QED
        BY <2>1, <3>1 DEF Held
    <2>2. CASE u # t
      BY <2>2 DEF Held, Inv
    <2> QED
      BY <2>1, <2>2
  <1>4. \A p \in pushed' : p \in pushed
    OBVIOUS
  <1>5. \A u \in Task, y \in Yaml : Held(u, y)' => Held(u, y)
    BY <1>1, <1>2, <1>3, <1>4, HeldShrinks
  <1>6. ContentLocal(q2)
    BY DEF ContentLocal
  <1>7. q2.op = q.op /\ q2.task = q.task /\ (Unwritten(q2) => Unwritten(q))
    BY DEF Kept, Unwritten
  <1> QED
    BY <1>1, <1>5, <1>6, <1>7, ContentStep

\* A transition writes back its copy of the row.
LEMMA PutTaskContent ==
    ASSUME Inv, DispatchInv, ContentInv, NEW r \in Request, PutTask(r) PROVE ContentInv'
  <1> DEFINE q == req[r]
  <1>1. q.pc = "put" /\ UNCHANGED pushed /\ q \in Requests
    BY ReqHandling DEF PutTask
  <1>2. CASE Continue(r, AfterError(q)) /\ UNCHANGED tasks
    BY <1>1, <1>2, ErrorContent
  <1>3. CASE tasks' = [tasks EXCEPT ![q.task] = q.row] /\ Continue(r, Goto(q, "event"))
    <2> DEFINE q2 == Goto(q, "event")
    <2>1. Kept(q2, q) /\ q2.pc = "event" /\ q2.to = q.to /\ Continue(r, q2)
      BY <1>1, <1>3, GotoKept DEF Pcs
    <2> HIDE DEF q2
    <2>2. q.task \in Task
      BY <1>1, WrittenRow
    <2> QED
      BY <1>1, <1>3, <2>1, <2>2, RowContent
  <1> QED
    BY <1>2, <1>3 DEF PutTask

\* The note is written with a copy of the row.
LEMMA ErrorPutContent ==
    ASSUME Inv, DispatchInv, ContentInv, NEW r \in Request, ErrorPut(r) PROVE ContentInv'
  <1> DEFINE q == req[r]
             q2 == AfterNote(q)
  <1>1. q.pc = "errPut" /\ Continue(r, q2) /\ UNCHANGED pushed
    BY DEF ErrorPut
  <1>2. Kept(q2, q) /\ q2.to = q.to /\ q2.pc \in {"auditUnconfirmed", "end"}
    BY ReqHandling, AfterNoteKept
  <1> HIDE DEF q2
  <1>3. CASE UNCHANGED tasks
    BY <1>1, <1>2, <1>3, KeptContent DEF Unwritten, Kept
  <1>4. CASE tasks' = [tasks EXCEPT ![q.task] = q.row]
    <2>1. q.task \in Task
      BY <1>1, WrittenRow
    <2> QED
      BY <1>1, <1>2, <1>4, <2>1, RowContent
  <1> QED
    BY <1>3, <1>4 DEF ErrorPut

\* The generated document is written by the request that carries it.
LEMMA SaveContentContent ==
    ASSUME Inv, DispatchInv, ContentInv, NEW r \in Request, SaveContent(r) PROVE ContentInv'
  <1> DEFINE q == req[r]
             row == [q.row EXCEPT !.yaml = q.yaml]
             q2 == IF RequireApproval THEN End(q) ELSE Call(q, "applying")
  <1>1. q.pc = "save" /\ Continue(r, q2) /\ UNCHANGED pushed /\ q \in Requests
    BY ReqHandling DEF SaveContent
  <1>2. /\ Kept(q2, q) /\ q2.pc \in {"end", "get"}
        /\ q2.to = q.to \/ q2.to = "applying"
    <2>1. Kept(End(q), q) /\ End(q).pc = "end" /\ End(q).to = q.to
      BY <1>1, GotoKept DEF End, Pcs
    <2>2. /\ Kept(Call(q, "applying"), q) /\ Call(q, "applying").pc = "get"
          /\ Call(q, "applying").to = "applying"
      BY <1>1, CallKept DEF Status
    <2> QED
      BY <2>1, <2>2
  <1>3. tasks' = [tasks EXCEPT ![q.task] = row] \/ UNCHANGED tasks
    BY DEF SaveContent
  <1> HIDE DEF q2
  <1>4. CASE UNCHANGED tasks
    BY <1>1, <1>2, <1>4, KeptContent DEF Unwritten, Kept
  <1>5. CASE tasks' = [tasks EXCEPT ![q.task] = row]
    <2>1. q.task \in Task /\ q.row \in Rows
      BY <1>1, WrittenRow
    <2>2. row.version = q.row.version /\ row.yaml = q.yaml
      BY <2>1 DEF Rows
    <2> HIDE DEF row
    <2> QED
      BY <1>1, <1>2, <1>5, <2>1, <2>2, RowContent
  <1> QED
    BY <1>3, <1>4, <1>5

-----------------------------------------------------------------------------
(* The theorems.                                                            *)

\* Every step of a handler keeps the documents of a task together.
LEMMA StepContent ==
    ASSUME Inv, DispatchInv, ContentInv, NEW r \in Request, Step(r) PROVE ContentInv'
  BY CreateTaskContent, CreateEventContent, AuditCreateContent, GetTaskContent,
     PutTaskContent, TransitionEventContent, CallModelContent, RevalidateContent,
     SaveContentContent, AuditApproveContent, ResolveContent, LookupVersionContent,
     PushContent, RecordVersionContent, ErrorGetContent, ErrorPutContent,
     LastAuditsContent DEF Step

\* All documents held for a task are the same one, in every reachable state.
THEOREM ContentInvariance == Spec => []ContentInv
  <1>1. Init => ContentInv
    BY InitContent
  <1>2. Inv /\ DispatchInv /\ ContentInv /\ [Next]_vars => ContentInv'
    <2> SUFFICES ASSUME Inv, DispatchInv, ContentInv, [Next]_vars PROVE ContentInv'
      OBVIOUS
    <2>1. CASE Crash
      BY <2>1, CrashContent
    <2>2. ASSUME NEW r \in Request, Arrive(r) PROVE ContentInv'
      BY <2>2, ArriveContent
    <2>3. ASSUME NEW r \in Request, Step(r) PROVE ContentInv'
      BY <2>3, StepContent
    <2>4. ASSUME NEW r \in Request, Cancel(r) PROVE ContentInv'
      BY <2>4, CancelContent
    <2>5. CASE UNCHANGED vars
      BY <2>5 DEF vars, ContentInv, Held
    <2> QED
      BY <2>1, <2>2, <2>3, <2>4, <2>5 DEF Next
  <1> QED
    BY <1>1, <1>2, Invariance, DispatchInvariance, PTL DEF Spec

\* Whatever approvals, rejections and stale whole-row writes race, no task ever
\* dispatches two different documents.
THEOREM OneContent == Spec => []OneContentPerTask
  <1>1. Inv /\ ContentInv => OneContentPerTask
    <2> SUFFICES ASSUME Inv, ContentInv, NEW p \in pushed, NEW q \in pushed,
                        p.task = q.task, p.task # "none"
                 PROVE  p.yaml = q.yaml
      BY DEF OneContentPerTask
    <2>1. p.task \in Task /\ p.yaml \in Yaml /\ q.yaml \in Yaml
      BY DEF Inv
    <2>2. Held(p.task, p.yaml) /\ Held(p.task, q.yaml)
      BY DEF Held
    <2> QED
      BY <2>1, <2>2 DEF ContentInv
  <1> QED
    BY <1>1, Invariance, ContentInvariance, PTL

-----------------------------------------------------------------------------
(* How a row develops.                                                      *)

\* A row that is written over one it fits, and takes no decision back.
LEMMA WriteEvolves ==
    ASSUME Inv, NEW t \in Task, NEW row, tasks' = [tasks EXCEPT ![t] = row], row # Absent,
           tasks[t] # Absent =>
              /\ Fits(tasks[t], row)
              /\ CreatedWhole(tasks[t]) /\ tasks[t].status # "awaiting_approval" =>
                    row.status # "awaiting_approval"
    PROVE  Evolves(tasks, tasks')
  <1>1. tasks'[t] = row /\ \A s \in Task : s # t => tasks'[s] = tasks[s]
    BY DEF Inv
  <1> QED
    BY <1>1 DEF Evolves, Fits

\* A request that arrives writes no row yet.
LEMMA ArriveKeepsRows ==
    ASSUME NEW r \in Request, Arrive(r)
    PROVE  UNCHANGED tasks
  <1>1. ASSUME NEW q, Begin(r, q) PROVE UNCHANGED tasks
    BY <1>1 DEF Begin
  <1>2. CASE Generate(r) \/ Optimize(r) \/ Upgrade(r)
    BY <1>1, <1>2 DEF Generate, Optimize, Upgrade
  <1>3. CASE Apply(r) \/ Rollback(r) \/ GitRollback(r)
    BY <1>1, <1>3 DEF Apply, Rollback, GitRollback
  <1>4. CASE PushNow(r)
    BY <1>1, <1>4 DEF PushNow
  <1>5. ASSUME NEW op, NEW to, Decide(r, op, to) PROVE UNCHANGED tasks
    BY <1>1, <1>5 DEF Decide
  <1>6. CASE Approve(r) \/ Reject(r)
    BY <1>5, <1>6 DEF Approve, Reject
  <1> QED
    BY <1>2, <1>3, <1>4, <1>6 DEF Arrive

\* Four steps of a handler write rows.
LEMMA StepKeepsRows ==
    ASSUME NEW r \in Request, Step(r),
           ~(CreateTask(r) \/ PutTask(r) \/ ErrorPut(r) \/ SaveContent(r))
    PROVE  UNCHANGED tasks
  <1>1. CASE CreateEvent(r) \/ AuditCreate(r) \/ GetTask(r)
    BY <1>1 DEF CreateEvent, AuditCreate, GetTask, Audit
  <1>2. CASE TransitionEvent(r) \/ CallModel(r) \/ Revalidate(r)
    BY <1>2 DEF TransitionEvent, CallModel, Revalidate
  <1>3. CASE AuditApprove(r) \/ Resolve(r) \/ LookupVersion(r)
    BY <1>3 DEF AuditApprove, Resolve, LookupVersion, Audit
  <1>4. CASE Push(r) \/ RecordVersion(r) \/ AuditDone(r)
    <2>1. CASE Push(r)
      BY <2>1 DEF Push
    <2>2. CASE RecordVersion(r) \/ AuditDone(r)
      BY <2>2 DEF RecordVersion, AuditDone, Audit
    <2> QED
      BY <1>4, <2>1, <2>2
  <1>5. CASE ErrorGet(r) \/ AuditUnconfirmed(r) \/ AuditReject(r)
    BY <1>5 DEF ErrorGet, AuditUnconfirmed, AuditReject, Audit
  <1> QED
    BY <1>1, <1>2, <1>3, <1>4, <1>5 DEF Step

\* Every write of a row, however old the copy it was made from, lets the rows evolve.
LEMMA StepEvolves ==
    ASSUME Inv, DispatchInv, [Next]_vars
    PROVE  Evolves(tasks, tasks')
  <1> DEFINE Develop == Evolves(tasks, tasks')
  <1> SUFFICES Develop
    OBVIOUS
  <1>1. CASE UNCHANGED tasks
    BY <1>1 DEF Evolves, Fits
  <1>2. ASSUME NEW r \in Request, CreateTask(r) PROVE Develop
    <2>1. ASSUME NEW t \in Task, tasks[t] = Absent, tasks' = [tasks EXCEPT ![t] = req[r].row],
                 req[r].pc = "create"
          PROVE  Develop
      <3>1. req[r].row # Absent
        BY <2>1, ReqHandling DEF Handling, Shape, Absent, Row
      <3> QED
        BY <2>1, <3>1, WriteEvolves
    <2> QED
      BY <1>1, <1>2, <2>1 DEF CreateTask
  <1>3. ASSUME NEW r \in Request, req[r].pc \in {"put", "errPut"},
               tasks' = [tasks EXCEPT ![req[r].task] = req[r].row]
        PROVE  Develop
    <2> DEFINE q == req[r]
               a == tasks[q.task]
    <2>1. q.row # Absent /\ q.task \in Task /\ q.task # "none" /\ Fits(a, q.row)
      BY <1>3, WrittenRow
    <2>2. Handling(q, r, tasks, audits, versions, faults)
      BY <1>3, ReqHandling
    <2>3. CreatedWhole(a) /\ a.status # "awaiting_approval" => q.row.status # "awaiting_approval"
      <3>1. CASE q.pc = "put"
        BY <2>1, <2>2, <3>1 DEF Handling, Shape, Generating
      <3>2. CASE q.pc = "errPut"
        BY <2>1, <2>2, <3>2 DEF Handling, Decided
      <3> QED
        BY <1>3, <3>1, <3>2
    <2> QED
      BY <1>3, <2>1, <2>3, WriteEvolves
  <1>4. ASSUME NEW r \in Request, SaveContent(r) PROVE Develop
    <2> DEFINE q == req[r]
               a == tasks[q.task]
               row == [q.row EXCEPT !.yaml = q.yaml]
    <2>1. q.pc = "save" /\ (tasks' = [tasks EXCEPT ![q.task] = row] \/ UNCHANGED tasks)
      BY <1>4 DEF SaveContent
    <2>2. ~CreatedWhole(a)
      BY <2>1, GenTask DEF Generating
    <2>3. q.row \in Rows /\ q.task \in Task /\ Fits(q.row, a)
      BY <2>1, WrittenRow
    <2>4. row.type = q.row.type /\ row.target = q.row.target /\ row.version = q.row.version
      BY <2>3 DEF Rows
    <2> HIDE DEF row
    <2>5. row # Absent
      BY <2>3, <2>4 DEF Rows, Types, Absent, Row
    <2>6. Fits(a, row)
      BY <2>2, <2>3, <2>4 DEF Fits, CreatedWhole
    <2> QED
      BY <1>1, <2>1, <2>2, <2>3, <2>5, <2>6, WriteEvolves
  <1> HIDE DEF Develop
  <1>5. ASSUME NEW r \in Request, PutTask(r) \/ ErrorPut(r) PROVE Develop
    BY <1>1, <1>3, <1>5 DEF PutTask, ErrorPut
  <1>6. ASSUME NEW r \in Request, Step(r) PROVE Develop
    <2>1. CASE CreateTask(r) \/ PutTask(r) \/ ErrorPut(r) \/ SaveContent(r)
      BY <1>2, <1>4, <1>5, <2>1
    <2>2. CASE ~(CreateTask(r) \/ PutTask(r) \/ ErrorPut(r) \/ SaveContent(r))
      <3>1. UNCHANGED tasks
        BY <1>6, <2>2, StepKeepsRows
      <3> QED
        BY <1>1, <3>1
    <2> QED
      BY <2>1, <2>2
  <1>7. ASSUME NEW r \in Request, Arrive(r) PROVE UNCHANGED tasks
    BY <1>7, ArriveKeepsRows
  <1>8. ASSUME NEW r \in Request, Cancel(r) PROVE UNCHANGED tasks
    BY <1>8 DEF Cancel
  <1>9. CASE Crash \/ UNCHANGED vars
    BY <1>1, <1>9 DEF Crash, vars
  <1> QED
    BY <1>1, <1>6, <1>7, <1>8, <1>9 DEF Next

\* Whatever races: no write of a row, stale or not, removes it or changes its type, its
\* target or its version, nor, of a task created with its content, the content; and none
\* opens such a task for approval again (UpdateTask writes the whole row).
THEOREM RowsEvolve == Spec => [][Evolves(tasks, tasks')]_vars
  <1>1. Inv /\ DispatchInv /\ [Next]_vars => [Evolves(tasks, tasks')]_vars
    BY StepEvolves
  <1> QED
    BY <1>1, Invariance, DispatchInvariance, PTL DEF Spec

-----------------------------------------------------------------------------
(* Requests that do not overlap.                                            *)

\* The request wrote a status whose event is still to be recorded.
Owes(q) == q.pc \in {"createEvent", "event"}

\* The row has the status the request's copy was read with, or was written with.
Current(q, tk) ==
    /\ q.pc = "put" => q.from = tk[q.task].status /\ CanTransition(q.from, q.to)
    /\ q.pc \in {"createEvent", "event", "save", "errPut"} =>
          q.row.status = tk[q.task].status
    /\ q.pc = "event" => q.row.status = q.to

\* The events up to the status the request wrote.
Before(q, ev) ==
    /\ q.pc = "createEvent" => ev[q.task] = <<>>
    /\ q.pc = "event" => /\ ev[q.task] # <<>>
                         /\ ev[q.task][Len(ev[q.task])][2] = q.from

\* The events form a chain that starts with the creation.
Chained(e) ==
    /\ e # <<>> => e[1][1] = "none"
    /\ \A i \in 1 .. Len(e) - 1 : e[i][2] = e[i + 1][1]

\* The chain ends with the status of the row.
Told(row, e) ==
    /\ row = Absent <=> e = <<>>
    /\ e # <<>> => e[Len(e)][2] = row.status

SerialInv ==
    /\ \A r, s \in Active : r = s
    /\ \A r \in Request : Current(req[r], tasks)
    /\ faults = 0 =>
          /\ \A r \in Request : Before(req[r], events)
          /\ \A t \in Task : Chained(events[t])
          /\ \A t \in Task : (\A r \in Request : Owes(req[r]) => req[r].task # t) =>
                Told(tasks[t], events[t])

\* The program points at which a request relies on more than Inv and DispatchInv.
Exposed == {"put", "createEvent", "event", "save", "errPut"}

-----------------------------------------------------------------------------
(* Frames.                                                                  *)

\* Requests that are not in flight are at none of these points.
LEMMA OthersRest ==
    ASSUME SerialInv, NEW r \in Active
    PROVE  \A s \in Request : s # r => req[s].pc \in {"idle", "end", "gone"}
  BY DEF SerialInv, Active

\* The only request in flight moves.
LEMMA SerialStep ==
    ASSUME Inv, SerialInv, NEW r \in Active, NEW q,
           req' = [req EXCEPT ![r] = q],
           Current(q, tasks'),
           faults' = 0 =>
              /\ Before(q, events')
              /\ \A t \in Task : Chained(events'[t])
              /\ \A t \in Task : (Owes(q) => q.task # t) => Told(tasks'[t], events'[t])
    PROVE  SerialInv'
  <1>1. r \in Request /\ req'[r] = q /\ \A s \in Request : s # r => req'[s] = req[s]
    BY DEF Inv, Active
  <1>2. \A s \in Request : s # r => req'[s].pc \in {"idle", "end", "gone"}
    BY <1>1, OthersRest
  <1>3. \A s \in Active' : s = r
    BY <1>2 DEF Active
  <1>4. \A s \in Request : Current(req'[s], tasks')
    BY <1>1, <1>2 DEF Current
  <1>5. \A s \in Request : Before(q, events') => Before(req'[s], events')
    BY <1>1, <1>2 DEF Before
  <1>6. \A t \in Task : (\A s \in Request : Owes(req'[s]) => req'[s].task # t) =>
           (Owes(q) => q.task # t)
    BY <1>1
  <1> QED
    BY <1>3, <1>4, <1>5, <1>6 DEF SerialInv

\* A step between program points where nothing is owed, that changes no status.
LEMMA SerialUnowed ==
    ASSUME Inv, SerialInv, NEW r \in Active, NEW q, Continue(r, q),
           UNCHANGED events, faults' = 0 => faults = 0,
           \A t \in Task : tasks'[t].status = tasks[t].status
                           /\ (tasks'[t] = Absent <=> tasks[t] = Absent),
           ~Owes(req[r]), ~Owes(q), Current(q, tasks')
    PROVE  SerialInv'
  <1>1. req' = [req EXCEPT ![r] = q]
    BY DEF Continue
  <1>2. ASSUME faults' = 0
        PROVE  /\ Before(q, events')
               /\ \A t \in Task : Chained(events'[t])
               /\ \A t \in Task : (Owes(q) => q.task # t) => Told(tasks'[t], events'[t])
    <2>1. Before(q, events')
      BY DEF Before, Owes
    <2>2. \A t \in Task : Chained(events'[t])
      BY <1>2 DEF SerialInv
    <2>3. \A s \in Request : ~Owes(req[s])
      BY OthersRest DEF Owes
    <2>4. \A t \in Task : Told(tasks[t], events[t])
      BY <1>2, <2>3 DEF SerialInv
    <2> QED
      BY <2>1, <2>2, <2>4 DEF Told
  <1> QED
    BY <1>1, <1>2, SerialStep

\* The same, to a program point without any claim.
LEMMA SerialQuiet ==
    ASSUME Inv, SerialInv, NEW r \in Active, NEW q, Continue(r, q),
           UNCHANGED <<tasks, events>>, faults' = 0 => faults = 0,
           ~Owes(req[r]), q.pc \notin Exposed
    PROVE  SerialInv'
  <1>1. ~Owes(q) /\ Current(q, tasks')
    BY DEF Owes, Current, Exposed
  <1> QED
    BY <1>1, SerialUnowed

-----------------------------------------------------------------------------
(* The initial state, arriving requests and the environment.                *)

\* No request is in flight, and there is no row and no event.
LEMMA InitSerial == Init => SerialInv
  <1> SUFFICES ASSUME Init PROVE SerialInv
    OBVIOUS
  <1>1. \A r \in Request : req[r].pc = "idle"
    BY DEF Init, NoRequest
  <1>2. \A t \in Task : tasks[t] = Absent /\ events[t] = <<>>
    BY DEF Init
  <1>3. \A t \in Task : Chained(events[t]) /\ Told(tasks[t], events[t])
    BY <1>2 DEF Chained, Told
  <1> QED
    BY <1>1, <1>3 DEF SerialInv, Active, Current, Before

\* A request comes in when no other is in flight.
LEMMA BeginSerial ==
    ASSUME MaxActive = 1, Inv, SerialInv, NEW r \in Request, NEW q, Begin(r, q),
           q.pc \notin Exposed
    PROVE  SerialInv'
  <1>1. req' = [req EXCEPT ![r] = q] /\ UNCHANGED <<tasks, events, faults>>
    BY DEF Begin, Continue
  <1>2. Active = {}
    <2> SUFFICES ASSUME NEW s \in Active PROVE FALSE
      OBVIOUS
    <2>1. Active = {s}
      BY DEF SerialInv
    <2>2. Cardinality({s}) = 1
      BY FS_Singleton
    <2> QED
      BY <2>1, <2>2 DEF Begin
  <1>3. /\ req'[r] = q /\ \A s \in Request : s # r => req'[s] = req[s]
        /\ \A s \in Request : req[s].pc \in {"idle", "end", "gone"}
    BY <1>1, <1>2 DEF Inv, Active
  <1>4. \A s \in Active' : s = r
    BY <1>3 DEF Active
  <1>5. \A s \in Request : Current(req'[s], tasks') /\ Before(req'[s], events')
    BY <1>3 DEF Current, Before, Exposed
  <1>6. \A s \in Request : ~Owes(req[s])
    BY <1>3 DEF Owes
  <1> QED
    BY <1>1, <1>4, <1>5, <1>6 DEF SerialInv

\* None of the entries is a point with a claim on the row.
LEMMA ArriveSerial ==
    ASSUME MaxActive = 1, Inv, SerialInv, NEW r \in Request, Arrive(r) PROVE SerialInv'
  <1>1. PICK q : Begin(r, q) /\ q.pc \in {"create", "push", "get"}
    <2>1. ASSUME NEW op, NEW row PROVE Creating(op, row).pc = "create"
      BY DEF Creating, NoRequest
    <2>2. CASE Generate(r) \/ Optimize(r) \/ Upgrade(r) \/ Apply(r) \/ Rollback(r)
                  \/ GitRollback(r)
      BY <2>1, <2>2 DEF Generate, Optimize, Upgrade, Apply, Rollback, GitRollback
    <2>3. CASE PushNow(r)
      <3>1. PICK g \in Target, y \in Yaml :
               Begin(r, [NoRequest EXCEPT !.op = "push_now", !.pc = "push",
                                          !.yaml = y, !.todo = Members[g]])
        BY <2>3 DEF PushNow
      <3>2. [NoRequest EXCEPT !.op = "push_now", !.pc = "push",
                              !.yaml = y, !.todo = Members[g]].pc = "push"
        BY DEF NoRequest
      <3> QED
        BY <3>1, <3>2
    <2>4. ASSUME NEW op, NEW to, Decide(r, op, to)
          PROVE  \E q : Begin(r, q) /\ q.pc \in {"create", "push", "get"}
      <3>1. PICK t \in Task :
               Begin(r, [Call(NoRequest, to) EXCEPT !.op = op, !.task = t,
                              !.late = (tasks[t].status = "rejected")])
        BY <2>4 DEF Decide
      <3> DEFINE l == tasks[t].status = "rejected"
                 q == [Call(NoRequest, to) EXCEPT !.op = op, !.task = t, !.late = l]
      <3>2. Begin(r, q)
        BY <3>1
      <3> HIDE DEF l
      <3>3. q.pc = "get"
        BY DEF Call, Goto, NoRequest
      <3> HIDE DEF q
      <3> QED
        BY <3>2, <3>3
    <2> QED
      BY <2>2, <2>3, <2>4 DEF Arrive, Approve, Reject
  <1> QED
    BY <1>1, BeginSerial DEF Exposed

\* A request whose client went away has the claims it had.
LEMMA CancelSerial ==
    ASSUME Inv, DispatchInv, SerialInv, NEW r \in Request, Cancel(r) PROVE SerialInv'
  <1> DEFINE q == req[r]
             q2 == [q EXCEPT !.live = FALSE]
  <1>1. /\ r \in Active /\ req' = [req EXCEPT ![r] = q2] /\ UNCHANGED <<tasks, events>>
        /\ q \in Requests /\ faults' # 0
    BY ReqHandling, LifecycleAssumption DEF Cancel, Continue, Fault, Inv, HistoryOK
  <1>2. /\ q2.pc = q.pc /\ q2.task = q.task /\ q2.to = q.to /\ q2.from = q.from
        /\ q2.row = q.row
    BY <1>1 DEF Requests
  <1> HIDE DEF q2
  <1>3. Current(q2, tasks')
    BY <1>1, <1>2 DEF SerialInv, Current
  <1> QED
    BY <1>1, <1>3, SerialStep

\* A crash leaves no request in flight.
LEMMA CrashSerial ==
    ASSUME Inv, DispatchInv, Crash PROVE SerialInv'
  <1>1. faults' # 0
    BY LifecycleAssumption DEF Crash, Fault, Inv, HistoryOK
  <1>2. \A r \in Request : req'[r].pc \in {"idle", "end", "gone"}
    <2> TAKE r \in Request
    <2>1. Goto(req[r], "gone").pc = "gone"
      BY ReqHandling, GotoKept DEF Pcs
    <2> QED
      BY <2>1 DEF Crash, Active
  <1> QED
    BY <1>1, <1>2 DEF SerialInv, Active, Current

-----------------------------------------------------------------------------
(* Steps that neither read nor write a row.                                 *)

\* A request that is to make a step is in flight.
LEMMA StepActive ==
    ASSUME Inv, NEW r \in Request, req[r].pc \notin {"idle", "end", "gone"}
    PROVE  r \in Active
  BY DEF Active

\* A failed service call has no claim any more.
LEMMA ErrorSerial ==
    ASSUME Inv, DispatchInv, SerialInv, NEW r \in Request, req[r].pc \in {"get", "put"},
           Continue(r, AfterError(req[r])), UNCHANGED <<tasks, events>>,
           faults' = 0 => faults = 0
    PROVE  SerialInv'
  <1> DEFINE q2 == AfterError(req[r])
  <1>1. q2.pc \in {"end", "get"} /\ Continue(r, q2)
    BY ReqHandling, AfterErrorKept
  <1> HIDE DEF q2
  <1> QED
    BY <1>1, StepActive, SerialQuiet DEF Owes, Exposed

\* The statements on the audit log and on config_versions.
LEMMA RecordsSerial ==
    ASSUME Inv, DispatchInv, SerialInv, NEW r \in Request,
           \/ AuditCreate(r) \/ AuditApprove(r) \/ AuditDone(r) \/ AuditUnconfirmed(r)
           \/ AuditReject(r) \/ LookupVersion(r) \/ RecordVersion(r)
    PROVE  SerialInv'
  <1> DEFINE q == req[r]
  <1>1. /\ q.pc \in {"auditCreate", "auditApprove", "auditDone", "auditUnconfirmed",
                     "auditReject", "lookup", "version"}
        /\ UNCHANGED <<tasks, events>> /\ (faults' = 0 => faults = 0)
    BY FaultsGrow DEF AuditCreate, AuditApprove, AuditDone, AuditUnconfirmed, AuditReject,
                      Audit, LookupVersion, RecordVersion
  <1>2. q \in Requests
    BY ReqHandling
  <1>3. ASSUME NEW q2, Continue(r, q2), q2.pc \notin Exposed PROVE SerialInv'
    BY <1>1, <1>3, StepActive, SerialQuiet DEF Owes
  <1>4. ASSUME NEW pc \in {"end", "errGet"}, Continue(r, Goto(q, pc)) PROVE SerialInv'
    <2>1. Goto(q, pc).pc = pc
      BY <1>2, GotoKept DEF Pcs
    <2> QED
      BY <1>3, <1>4, <2>1 DEF Exposed
  <1>5. CASE AuditCreate(r)
    <2>1. AfterAuditCreate(q).pc \in {"end", "get"}
      BY <1>2, AfterAuditCreateKept
    <2> QED
      BY <1>3, <1>5, <2>1 DEF AuditCreate, Audit, Exposed
  <1>6. CASE AuditApprove(r)
    <2>1. q.row \in GoodRows
      BY <1>6, HeldRow DEF AuditApprove
    <2>2. AfterApproval(q).pc \in {"end", "get", "lookup", "push", "resolve"}
      BY <1>2, <2>1, AfterApprovalMoved
    <2> QED
      BY <1>3, <1>6, <2>2 DEF AuditApprove, Audit, Exposed
  <1>7. CASE AuditDone(r) \/ AuditUnconfirmed(r) \/ AuditReject(r)
    BY <1>4, <1>7 DEF AuditDone, AuditUnconfirmed, AuditReject, Audit, End
  <1>8. CASE LookupVersion(r)
    <2>1. CASE Continue(r, End(q))
      BY <1>4, <2>1 DEF End
    <2>2. CASE Continue(r, Send(q, q.row.version, {q.row.target}))
      <3>1. Send(q, q.row.version, {q.row.target}).pc = "push"
        BY <1>2 DEF Send, Goto, Requests
      <3> QED
        BY <1>3, <2>2, <3>1 DEF Exposed
    <2> QED
      BY <1>8, <2>1, <2>2 DEF LookupVersion
  <1>9. CASE RecordVersion(r)
    <2>1. AfterTarget(q).pc \in {"push", "auditDone", "get"}
      BY <1>2, AfterTargetKept
    <2> QED
      BY <1>3, <1>9, <2>1 DEF RecordVersion, Exposed
  <1> QED
    BY <1>5, <1>6, <1>7, <1>8, <1>9

\* The calls of the model, the validator, the collectors' rows and the push.
LEMMA CallsSerial ==
    ASSUME Inv, DispatchInv, SerialInv, NEW r \in Request,
           CallModel(r) \/ Revalidate(r) \/ Resolve(r) \/ Push(r)
    PROVE  SerialInv'
  <1> DEFINE q == req[r]
  <1>0. UNCHANGED faults \/ StoreOk(r) \/ StoreError(r)
           \/ (\E kind \in FaultKinds : Fault(kind))
    BY DEF CallModel, Revalidate, Resolve, Push, Fault
  <1>1. /\ q.pc \in {"llm", "validate", "resolve", "push"}
        /\ UNCHANGED <<tasks, events>> /\ (faults' = 0 => faults = 0)
    BY <1>0, FaultsGrow DEF CallModel, Revalidate, Resolve, Push
  <1>2. q \in Requests
    BY ReqHandling
  <1>3. ASSUME NEW q2, Continue(r, q2), q2.pc \notin Exposed PROVE SerialInv'
    BY <1>1, <1>3, StepActive, SerialQuiet DEF Owes
  <1>4. ASSUME NEW to \in {"failed", "awaiting_approval"}, Continue(r, Call(q, to))
        PROVE  SerialInv'
    <2>1. Call(q, to).pc = "get"
      BY <1>2, CallKept DEF Status
    <2> QED
      BY <1>3, <1>4, <2>1 DEF Exposed
  <1>5. CASE CallModel(r)
    <2>1. ASSUME NEW y, Continue(r, [Call(q, "validating") EXCEPT !.yaml = y]) PROVE SerialInv'
      <3>1. [Call(q, "validating") EXCEPT !.yaml = y].pc = "get"
        BY <1>2 DEF Call, Goto, Requests
      <3> QED
        BY <1>3, <2>1, <3>1 DEF Exposed
    <2> QED
      BY <1>4, <1>5, <2>1 DEF CallModel
  <1>6. CASE Revalidate(r)
    BY <1>4, <1>6 DEF Revalidate
  <1>7. CASE Resolve(r)
    <2>1. CASE Continue(r, Send(q, q.yaml, Members[q.row.target]))
      <3>1. Send(q, q.yaml, Members[q.row.target]).pc = "push"
        BY <1>2 DEF Send, Goto, Requests
      <3> QED
        BY <1>3, <2>1, <3>1 DEF Exposed
    <2> QED
      BY <1>4, <1>7, <2>1 DEF Resolve
  <1>8. CASE Push(r)
    <2>1. PICK c \in q.todo :
             LET rest == [q EXCEPT !.at = c, !.todo = @ \ {c}] IN
             \/ \E u \in {q.unconfirmed, TRUE} :
                   Continue(r, [Goto(rest, "version") EXCEPT !.unconfirmed = u])
             \/ Continue(r, CASE q.op = "push_now" -> Goto(rest, "version")
                              [] q.op # "push_now" /\ q.row.type = "rollback" -> Call(q, "failed")
                              [] OTHER -> AfterTarget(rest))
      BY <1>8 DEF Push
    <2> DEFINE rest == [q EXCEPT !.at = c, !.todo = @ \ {c}]
               moved == Goto(rest, "version")
    <2>2. \/ \E u \in {q.unconfirmed, TRUE} : Continue(r, [moved EXCEPT !.unconfirmed = u])
          \/ Continue(r, CASE q.op = "push_now" -> moved
                           [] q.op # "push_now" /\ q.row.type = "rollback" -> Call(q, "failed")
                           [] OTHER -> AfterTarget(rest))
      BY <2>1
    <2>3. rest \in Requests
      BY <1>2, <2>1 DEF Requests
    <2> HIDE DEF rest
    <2>4. moved \in Requests /\ moved.pc = "version"
      BY <2>3, GotoKept DEF Pcs, Kept
    <2>5. AfterTarget(rest).pc \in {"push", "auditDone", "get"}
      BY <2>3, AfterTargetKept
    <2> HIDE DEF moved
    <2>6. \A u : [moved EXCEPT !.unconfirmed = u].pc = "version"
      BY <2>4 DEF Requests
    <2>7. CASE \E u \in {q.unconfirmed, TRUE} : Continue(r, [moved EXCEPT !.unconfirmed = u])
      <3>1. PICK u \in {q.unconfirmed, TRUE} : Continue(r, [moved EXCEPT !.unconfirmed = u])
        BY <2>7
      <3> QED
        BY <1>3, <2>6, <3>1 DEF Exposed
    <2>8. CASE Continue(r, CASE q.op = "push_now" -> moved
                             [] q.op # "push_now" /\ q.row.type = "rollback" -> Call(q, "failed")
                             [] OTHER -> AfterTarget(rest))
      <3>1. CASE q.op = "push_now"
        <4>1. Continue(r, moved)
          BY <2>8, <3>1
        <4> QED
          BY <1>3, <2>4, <4>1 DEF Exposed
      <3>2. CASE q.op # "push_now" /\ q.row.type = "rollback"
        <4>1. Continue(r, Call(q, "failed"))
          BY <2>8, <3>2
        <4> QED
          BY <1>4, <4>1
      <3>3. CASE q.op # "push_now" /\ q.row.type # "rollback"
        <4>1. Continue(r, AfterTarget(rest))
          BY <2>8, <3>3
        <4> QED
          BY <1>3, <2>5, <4>1 DEF Exposed
      <3> QED
        BY <3>1, <3>2, <3>3
    <2> QED
      BY <2>2, <2>7, <2>8
  <1> QED
    BY <1>5, <1>6, <1>7, <1>8

-----------------------------------------------------------------------------
(* Steps that read or write a row.                                          *)

\* The status read is the row's until it is written.
LEMMA GetTaskSerial ==
    ASSUME Inv, DispatchInv, SerialInv, NEW r \in Request, GetTask(r) PROVE SerialInv'
  <1> DEFINE q == req[r]
             a == tasks[q.task]
  <1>1. /\ q.pc = "get" /\ UNCHANGED <<tasks, events>> /\ q \in Requests
        /\ (faults' = 0 => faults = 0)
    BY FaultsGrow, ReqHandling DEF GetTask
  <1>2. CASE Continue(r, AfterError(q))
    BY <1>1, <1>2, ErrorSerial
  <1>3. CASE /\ CanTransition(a.status, q.to)
             /\ Continue(r, [q EXCEPT !.pc = "put", !.from = a.status,
                                      !.row = [a EXCEPT !.status = q.to]])
    <2> DEFINE row == [a EXCEPT !.status = q.to]
               q2 == [q EXCEPT !.pc = "put", !.from = a.status, !.row = row]
    <2>1. Continue(r, q2)
      BY <1>3
    <2> HIDE DEF row
    <2>2. q2.pc = "put" /\ q2.task = q.task /\ q2.to = q.to /\ q2.from = a.status
      BY <1>1 DEF Requests
    <2> HIDE DEF q2
    <2>3. ~Owes(q2) /\ ~Owes(q) /\ Current(q2, tasks')
      BY <1>1, <1>3, <2>2 DEF Owes, Current
    <2> QED
      BY <1>1, <2>1, <2>3, StepActive, SerialUnowed
  <1> QED
    BY <1>2, <1>3 DEF GetTask

\* The note is written with the status the row has.
LEMMA ErrorGetSerial ==
    ASSUME Inv, DispatchInv, SerialInv, NEW r \in Request, ErrorGet(r) PROVE SerialInv'
  <1> DEFINE q == req[r]
             a == tasks[q.task]
  <1>1. /\ q.pc = "errGet" /\ UNCHANGED <<tasks, events>> /\ q \in Requests
        /\ (faults' = 0 => faults = 0) /\ PointOK(q, "errGet", Known, GrantedTo(r))
    BY FaultsGrow, ReqHandling DEF ErrorGet
  <1>2. CASE Continue(r, AfterNote(q))
    <2>1. AfterNote(q).pc \in {"auditUnconfirmed", "end"}
      BY <1>1, AfterNoteKept
    <2> QED
      BY <1>1, <1>2, <2>1, StepActive, SerialQuiet DEF Owes, Exposed
  <1>3. CASE Continue(r, [Goto(q, "errPut") EXCEPT !.row = [a EXCEPT !.error = TRUE]])
    <2> DEFINE row == [a EXCEPT !.error = TRUE]
               x == Goto(q, "errPut")
               q2 == [x EXCEPT !.row = row]
    <2>1. Continue(r, q2)
      BY <1>3
    <2>2. a \in Rows
      BY <1>1, RowOfTask DEF PointOK, OnTask, GoodRows
    <2>3. row.status = a.status
      BY <2>2 DEF Rows
    <2>4. Kept(x, q) /\ x.pc = "errPut"
      BY <1>1, GotoKept DEF Pcs
    <2> HIDE DEF row, x
    <2>5. q2.pc = "errPut" /\ q2.task = q.task /\ q2.row = row
      BY <2>4 DEF Kept, Requests
    <2> HIDE DEF q2
    <2>6. ~Owes(q2) /\ ~Owes(q) /\ Current(q2, tasks')
      BY <1>1, <2>3, <2>5 DEF Owes, Current
    <2> QED
      BY <1>1, <2>1, <2>6, StepActive, SerialUnowed
  <1> QED
    BY <1>2, <1>3 DEF ErrorGet

\* The note and the late content are written without a change of status.
LEMMA SameStatus ==
    ASSUME Inv, DispatchInv, SerialInv, NEW r \in Request, ErrorPut(r) \/ SaveContent(r)
    PROVE  \A t \in Task : tasks'[t].status = tasks[t].status
                           /\ (tasks'[t] = Absent <=> tasks[t] = Absent)
  <1> DEFINE q == req[r]
             kept == [q.row EXCEPT !.yaml = q.yaml]
  <1>1. q.pc \in {"errPut", "save"}
    BY DEF ErrorPut, SaveContent
  <1>2. \/ UNCHANGED tasks \/ tasks' = [tasks EXCEPT ![q.task] = q.row]
        \/ tasks' = [tasks EXCEPT ![q.task] = kept]
    BY DEF ErrorPut, SaveContent
  <1>3. /\ q.row \in Rows /\ q.task \in Task /\ q.task # "none" /\ q.row # Absent
        /\ Fits(q.row, tasks[q.task])
    BY <1>1, WrittenRow
  <1>4. q.row.status = tasks[q.task].status
    BY <1>1 DEF SerialInv, Current
  <1>5. kept.status = q.row.status /\ kept.type \in Types
    BY <1>3 DEF Rows
  <1> HIDE DEF kept
  <1>6. kept # Absent
    BY <1>5 DEF Absent, Row, Types
  <1>7. tasks[q.task] # Absent
    BY <1>3, ReqHandling DEF Handling, Shape
  <1> QED
    BY <1>2, <1>3, <1>4, <1>5, <1>6, <1>7 DEF Inv

\* After the note and after the content nothing is claimed.
LEMMA RewriteSerial ==
    ASSUME Inv, DispatchInv, SerialInv, NEW r \in Request, ErrorPut(r) \/ SaveContent(r)
    PROVE  SerialInv'
  <1> DEFINE q == req[r]
  <1>1. /\ q.pc \in {"errPut", "save"} /\ UNCHANGED events /\ q \in Requests
        /\ (faults' = 0 => faults = 0)
    BY FaultsGrow, ReqHandling DEF ErrorPut, SaveContent
  <1>2. PICK q2 : Continue(r, q2) /\ q2.pc \in {"auditUnconfirmed", "end", "get"}
    <2>1. AfterNote(q).pc \in {"auditUnconfirmed", "end"}
      BY <1>1, AfterNoteKept
    <2>2. End(q).pc = "end" /\ Call(q, "applying").pc = "get"
      BY <1>1, GotoKept, CallKept DEF End, Pcs, Status
    <2> QED
      BY <2>1, <2>2 DEF ErrorPut, SaveContent
  <1>3. ~Owes(q2) /\ ~Owes(q) /\ Current(q2, tasks')
    BY <1>1, <1>2 DEF Owes, Current
  <1> QED
    BY <1>1, <1>2, <1>3, SameStatus, StepActive, SerialUnowed

\* A transition writes the status that was checked against the row's own.
LEMMA PutTaskSerial ==
    ASSUME Inv, DispatchInv, SerialInv, NEW r \in Request, PutTask(r) PROVE SerialInv'
  <1> DEFINE q == req[r]
  <1>1. /\ q.pc = "put" /\ UNCHANGED events /\ q \in Requests
        /\ (faults' = 0 => faults = 0)
    BY FaultsGrow, ReqHandling DEF PutTask
  <1>2. CASE Continue(r, AfterError(q)) /\ UNCHANGED tasks
    BY <1>1, <1>2, ErrorSerial
  <1>3. CASE tasks' = [tasks EXCEPT ![q.task] = q.row] /\ Continue(r, Goto(q, "event"))
    <2> DEFINE q2 == Goto(q, "event")
    <2>1. /\ q2.pc = "event" /\ q2.task = q.task /\ q2.to = q.to /\ q2.row = q.row
          /\ q2.from = q.from
      BY <1>1 DEF Goto, Requests
    <2>2. req' = [req EXCEPT ![r] = q2]
      BY <1>3 DEF Continue
    <2> HIDE DEF q2
    <2>3. PICK t \in Task : t = q.task /\ t # "none"
      BY <1>1, WrittenRow
    <2>4. /\ tasks'[t] = q.row /\ \A u \in Task : u # t => tasks'[u] = tasks[u]
          /\ tasks[t] # Absent
      BY <1>3, <2>3, ReqHandling DEF Inv, Handling, Shape
    <2>5. q.row.status = q.to /\ q.from = tasks[t].status
      BY <1>1, <2>3, ReqHandling DEF SerialInv, Current, Handling, Shape
    <2>6. Current(q2, tasks')
      BY <2>1, <2>3, <2>4, <2>5 DEF Current
    <2>7. ASSUME faults' = 0
          PROVE  /\ Before(q2, events')
                 /\ \A u \in Task : Chained(events'[u])
                 /\ \A u \in Task : (Owes(q2) => q2.task # u) => Told(tasks'[u], events'[u])
      <3>1. \A s \in Request : ~Owes(req[s])
        BY <1>1, StepActive, OthersRest DEF Owes
      <3>2. \A u \in Task : Told(tasks[u], events[u]) /\ Chained(events[u])
        BY <1>1, <2>7, <3>1 DEF SerialInv
      <3>3. Before(q2, events')
        BY <1>1, <2>1, <2>3, <2>4, <2>5, <3>2 DEF Before, Told
      <3>4. \A u \in Task : Owes(q2) /\ (q2.task # u => u # t)
        BY <2>1, <2>3 DEF Owes
      <3> QED
        BY <1>1, <2>4, <3>2, <3>3, <3>4
    <2> QED
      BY <1>1, <2>2, <2>6, <2>7, StepActive, SerialStep
  <1> QED
    BY <1>2, <1>3 DEF PutTask

\* A row is created before it has events.
LEMMA CreateTaskSerial ==
    ASSUME Inv, DispatchInv, SerialInv, NEW r \in Request, CreateTask(r) PROVE SerialInv'
  <1> DEFINE q == req[r]
  <1>1. /\ q.pc = "create" /\ UNCHANGED events /\ q \in Requests
        /\ (faults' = 0 => faults = 0) /\ PointOK(q, "create", Known, GrantedTo(r))
    BY FaultsGrow, ReqHandling DEF CreateTask
  <1>2. CASE Continue(r, End(q)) /\ UNCHANGED tasks
    <2>1. End(q).pc = "end"
      BY <1>1, GotoKept DEF End, Pcs
    <2> QED
      BY <1>1, <1>2, <2>1, StepActive, SerialQuiet DEF Owes, Exposed
  <1>3. ASSUME NEW t \in Task, tasks[t] = Absent, tasks' = [tasks EXCEPT ![t] = q.row],
               Continue(r, [Goto(q, "createEvent") EXCEPT !.task = t])
        PROVE  SerialInv'
    <2> DEFINE q2 == [Goto(q, "createEvent") EXCEPT !.task = t]
    <2>1. q2.pc = "createEvent" /\ q2.task = t /\ q2.row = q.row
      BY <1>1 DEF Goto, Requests
    <2>2. req' = [req EXCEPT ![r] = q2]
      BY <1>3 DEF Continue
    <2> HIDE DEF q2
    <2>3. /\ tasks'[t] = q.row /\ \A u \in Task : u # t => tasks'[u] = tasks[u]
      BY <1>3 DEF Inv
    <2>4. Current(q2, tasks')
      BY <2>1, <2>3 DEF Current
    <2>5. ASSUME faults' = 0
          PROVE  /\ Before(q2, events')
                 /\ \A u \in Task : Chained(events'[u])
                 /\ \A u \in Task : (Owes(q2) => q2.task # u) => Told(tasks'[u], events'[u])
      <3>1. \A s \in Request : ~Owes(req[s])
        BY <1>1, StepActive, OthersRest DEF Owes
      <3>2. \A u \in Task : Told(tasks[u], events[u]) /\ Chained(events[u])
        BY <1>1, <2>5, <3>1 DEF SerialInv
      <3>3. Before(q2, events')
        BY <1>1, <1>3, <2>1, <3>2 DEF Before, Told
      <3>4. \A u \in Task : Owes(q2) /\ (q2.task # u => u # t)
        BY <2>1 DEF Owes
      <3> QED
        BY <1>1, <2>3, <3>2, <3>3, <3>4
    <2> QED
      BY <1>1, <2>2, <2>4, <2>5, StepActive, SerialStep
  <1> QED
    BY <1>2, <1>3 DEF CreateTask

-----------------------------------------------------------------------------
(* The events.                                                              *)

\* An event that starts where the chain ends makes it longer.
LEMMA ChainGrows ==
    ASSUME NEW S, NEW e \in Seq(S), NEW from, NEW to, <<from, to>> \in S, Chained(e),
           e = <<>> => from = "none",
           e # <<>> => e[Len(e)][2] = from
    PROVE  LET e2 == Append(e, <<from, to>>) IN
           Chained(e2) /\ e2 # <<>> /\ e2[Len(e2)][2] = to
  <1> DEFINE e2 == Append(e, <<from, to>>)
  <1>a. /\ Len(e2) = Len(e) + 1 /\ e2[Len(e2)] = <<from, to>> /\ Len(e) \in Nat
        /\ \A i \in 1 .. Len(e) : e2[i] = e[i]
    OBVIOUS
  <1>b. e = <<>> <=> Len(e) = 0
    OBVIOUS
  <1>c. e2 # <<>>
    BY <1>a
  <1>1. /\ Len(e2) = Len(e) + 1 /\ e2[Len(e2)] = <<from, to>> /\ Len(e) \in Nat
        /\ \A i \in 1 .. Len(e) : e2[i] = e[i]
        /\ (e = <<>> <=> Len(e) = 0) /\ e2 # <<>>
    BY <1>a, <1>b, <1>c
  <1> HIDE DEF e2
  <1>2. e2[1][1] = "none"
    BY <1>1 DEF Chained
  <1>3. ASSUME NEW i \in 1 .. Len(e2) - 1 PROVE e2[i][2] = e2[i + 1][1]
    <2>1. CASE i = Len(e)
      BY <1>1, <1>3, <2>1
    <2>2. CASE i # Len(e)
      <3>1. i \in 1 .. Len(e) - 1 /\ i + 1 \in 1 .. Len(e)
        BY <1>1, <1>3, <2>2
      <3>2. e2[i] = e[i] /\ e2[i + 1] = e[i + 1]
        BY <1>1, <3>1
      <3> QED
        BY <3>1, <3>2 DEF Chained
    <2> QED
      BY <2>1, <2>2
  <1>4. Chained(e2) /\ e2 # <<>> /\ e2[Len(e2)][2] = to
    BY <1>1, <1>2, <1>3 DEF Chained
  <1> QED
    BY <1>4 DEF e2

\* The event of the status that was written.
LEMMA EventSerial ==
    ASSUME Inv, DispatchInv, SerialInv, NEW r \in Request, NEW from, NEW to, NEW q2,
           Owes(req[r]), RecordEvent(r, from, to), Continue(r, q2), UNCHANGED tasks,
           from \in Status \cup {"none"}, to \in Status,
           req[r].pc = "createEvent" => from = "none",
           req[r].pc = "event" => from = req[r].from,
           to = tasks[req[r].task].status,
           ~Owes(q2), Current(q2, tasks)
    PROVE  SerialInv'
  <1> DEFINE q == req[r]
  <1>1. /\ q.pc \in {"createEvent", "event"} /\ r \in Active
        /\ req' = [req EXCEPT ![r] = q2]
    BY StepActive DEF Owes, Continue
  <1>2. faults' = 0 => faults = 0
    BY FaultsGrow DEF RecordEvent
  <1>3. PICK t \in Task : t = q.task /\ tasks[t] # Absent /\ t # "none"
    BY <1>1, ReqHandling, LifecycleAssumption DEF PointOK, OnTask, Known
  <1>4. Current(q2, tasks')
    OBVIOUS
  <1>5. ASSUME faults' = 0
        PROVE  /\ Before(q2, events')
               /\ \A u \in Task : Chained(events'[u])
               /\ \A u \in Task : (Owes(q2) => q2.task # u) => Told(tasks'[u], events'[u])
    <2>1. events' = [events EXCEPT ![t] = Append(@, <<from, to>>)]
      BY <1>3, <1>5, ErrorIsFault DEF RecordEvent
    <2>2. /\ events \in [Task -> Seq((Status \cup {"none"}) \X Status)]
          /\ events'[t] = Append(events[t], <<from, to>>)
          /\ \A u \in Task : u # t => events'[u] = events[u]
      BY <2>1 DEF Inv, HistoryOK
    <2>3. /\ Chained(events[t])
          /\ events[t] = <<>> => from = "none"
          /\ events[t] # <<>> => events[t][Len(events[t])][2] = from
      BY <1>1, <1>2, <1>3, <1>5 DEF SerialInv, Before
    <2>4. Chained(events'[t]) /\ events'[t] # <<>> /\ events'[t][Len(events'[t])][2] = to
      BY <2>2, <2>3, ChainGrows
    <2>5. \A u \in Task : Chained(events[u]) /\ (u # t => Told(tasks[u], events[u]))
      <3>1. \A s \in Request : Owes(req[s]) => req[s].task = t
        BY <1>1, <1>3, OthersRest DEF Owes
      <3> QED
        BY <1>2, <1>5, <3>1 DEF SerialInv
    <2>6. Told(tasks[t], events'[t])
      BY <1>3, <2>4 DEF Told
    <2>7. Before(q2, events')
      BY DEF Before, Owes
    <2> QED
      BY <2>2, <2>4, <2>5, <2>6, <2>7
  <1> QED
    BY <1>1, <1>4, <1>5, SerialStep

\* The creation event.
LEMMA CreateEventSerial ==
    ASSUME Inv, DispatchInv, SerialInv, NEW r \in Request, CreateEvent(r) PROVE SerialInv'
  <1> DEFINE q == req[r]
             q2 == AfterCreate(q)
  <1>1. /\ q.pc = "createEvent" /\ RecordEvent(r, "none", q.row.status) /\ UNCHANGED tasks
        /\ Continue(r, q2) /\ q \in Requests /\ PointOK(q, q.pc, Known, GrantedTo(r))
    BY ReqHandling DEF CreateEvent
  <1>2. q2.pc \in {"auditCreate", "end", "get"}
    BY <1>1, AfterCreateKept
  <1> HIDE DEF q2
  <1>3. ~Owes(q2) /\ Current(q2, tasks) /\ Owes(q)
    BY <1>1, <1>2 DEF Owes, Current
  <1>4. q.row.status = tasks[q.task].status /\ q.row.status \in Status
    BY <1>1 DEF SerialInv, Current, PointOK, HoldsRow, GoodRows, Rows
  <1> QED
    BY <1>1, <1>3, <1>4, EventSerial

\* The event of a transition; the copy of the row is still what was written.
LEMMA TransitionEventSerial ==
    ASSUME Inv, DispatchInv, SerialInv, NEW r \in Request, TransitionEvent(r)
    PROVE  SerialInv'
  <1> DEFINE q == req[r]
             q2 == AfterOk(q)
  <1>1. /\ q.pc = "event" /\ RecordEvent(r, q.from, q.to) /\ UNCHANGED tasks
        /\ Continue(r, q2) /\ q \in Requests /\ PointOK(q, q.pc, Known, GrantedTo(r))
    BY ReqHandling DEF TransitionEvent
  <1>2. /\ Kept(q2, q)
        /\ q2.pc \in {"get", "llm", "validate", "save", "auditApprove", "auditDone",
                      "errGet", "auditReject", "end"}
    BY <1>1, AfterOkKept
  <1> HIDE DEF q2
  <1>3. /\ q.row.status = tasks[q.task].status /\ q.row.status = q.to
        /\ q.to \in Status /\ q.from \in Status \cup {"none"}
    BY <1>1 DEF SerialInv, Current, PointOK, Approving, Requests
  <1>4. ~Owes(q2) /\ Current(q2, tasks) /\ Owes(q)
    BY <1>1, <1>2, <1>3 DEF Owes, Current, Kept
  <1> QED
    BY <1>1, <1>3, <1>4, EventSerial

-----------------------------------------------------------------------------
(* The theorems.                                                            *)

\* Every step of a handler keeps the claims of the only request in flight.
LEMMA StepSerial ==
    ASSUME Inv, DispatchInv, SerialInv, NEW r \in Request, Step(r) PROVE SerialInv'
  BY CreateTaskSerial, CreateEventSerial, GetTaskSerial, PutTaskSerial,
     TransitionEventSerial, ErrorGetSerial, RewriteSerial, RecordsSerial, CallsSerial DEF Step

\* Requests that do not overlap find their row as they read it.
THEOREM SerialInvariance == ASSUME MaxActive = 1 PROVE Spec => []SerialInv
  <1>1. Init => SerialInv
    BY InitSerial
  <1>2. Inv /\ DispatchInv /\ SerialInv /\ [Next]_vars => SerialInv'
    <2> SUFFICES ASSUME Inv, DispatchInv, SerialInv, [Next]_vars PROVE SerialInv'
      OBVIOUS
    <2>1. CASE Crash
      BY <2>1, CrashSerial
    <2>2. ASSUME NEW r \in Request, Arrive(r) PROVE SerialInv'
      BY <2>2, ArriveSerial
    <2>3. ASSUME NEW r \in Request, Step(r) PROVE SerialInv'
      BY <2>3, StepSerial
    <2>4. ASSUME NEW r \in Request, Cancel(r) PROVE SerialInv'
      BY <2>4, CancelSerial
    <2>5. CASE UNCHANGED vars
      BY <2>5 DEF vars, SerialInv, Active
    <2> QED
      BY <2>1, <2>2, <2>3, <2>4, <2>5 DEF Next
  <1> QED
    BY <1>1, <1>2, Invariance, DispatchInvariance, PTL DEF Spec

\* Between requests the events of a task that no fault touched start with its
\* creation, follow each other, and end with the status of its row.
THEOREM EventsComplete == ASSUME MaxActive = 1 PROVE Spec => []EventsTellStatus
  <1>1. SerialInv => EventsTellStatus
    <2> SUFFICES ASSUME SerialInv, faults = 0, Active = {}, NEW t \in Task
                 PROVE  LET ev == events[t] IN
                        /\ tasks[t] = Absent <=> ev = <<>>
                        /\ ev # <<>> => ev[1][1] = "none" /\ ev[Len(ev)][2] = tasks[t].status
                        /\ \A i \in 1 .. Len(ev) - 1 : ev[i][2] = ev[i + 1][1]
      BY DEF EventsTellStatus
    <2>1. \A r \in Request : ~Owes(req[r])
      BY DEF Active, Owes
    <2>2. Chained(events[t]) /\ Told(tasks[t], events[t])
      BY <2>1 DEF SerialInv
    <2> QED
      BY <2>2 DEF Chained, Told
  <1> QED
    BY <1>1, SerialInvariance, PTL

\* A step creates a task, makes one transition of the table, or changes no status.
LEMMA MachineStep ==
    ASSUME Inv, DispatchInv, SerialInv, [Next]_vars
    PROVE  [Machine!Next]_[t \in Task |-> tasks[t].status]
  <1> DEFINE st == [t \in Task |-> tasks[t].status]
  <1> SUFFICES Machine!Next \/ st' = st
    OBVIOUS
  <1>1. CASE UNCHANGED tasks
    BY <1>1
  <1>2. ASSUME NEW r \in Request, ErrorPut(r) \/ SaveContent(r) PROVE st' = st
    BY <1>2, SameStatus
  <1>3. ASSUME NEW r \in Request, NEW t \in Task, req[r].pc = "create",
               tasks[t] = Absent, tasks' = [tasks EXCEPT ![t] = req[r].row]
        PROVE  Machine!Next
    <2>1. req[r].row.status \in {"pending", "awaiting_approval"}
      BY <1>3, ReqHandling DEF Handling, Shape
    <2>2. st[t] = "none"
      BY <1>3 DEF Absent, Row
    <2>3. st' = [st EXCEPT ![t] = req[r].row.status]
      BY <1>3 DEF Inv
    <2> HIDE DEF st
    <2>4. Machine!Create(t)
      BY <2>1, <2>2, <2>3 DEF Machine!Create, st
    <2> QED
      BY <2>4 DEF Machine!Next
  <1>4. ASSUME NEW r \in Request, req[r].pc = "put",
               tasks' = [tasks EXCEPT ![req[r].task] = req[r].row]
        PROVE  Machine!Next
    <2>1. PICK t \in Task : t = req[r].task /\ t # "none"
      BY <1>4, WrittenRow
    <2>2. PICK to \in Status : to = req[r].to
      BY <1>4, ReqHandling DEF PointOK, Approving
    <2>3. req[r].row.status = to /\ CanTransition(st[t], to)
      BY <1>4, <2>1, <2>2, ReqHandling DEF SerialInv, Current, Handling, Shape
    <2>4. st[t] # "none"
      <3>1. tasks[t] \in Rows
        BY <1>4, <2>1, RowOfTask, ReqHandling DEF Handling, Shape, Known, GoodRows
      <3> QED
        BY <3>1 DEF Rows, Status
    <2>5. st' = [st EXCEPT ![t] = to]
      BY <1>4, <2>1, <2>3 DEF Inv
    <2> HIDE DEF st
    <2>6. Machine!Transition(t, to)
      BY <2>3, <2>4, <2>5 DEF Machine!Transition, Machine!CanTransition, CanTransition, st
    <2> QED
      BY <2>6 DEF Machine!Next, Machine!Status, Status
  <1> HIDE DEF st
  <1>5. ASSUME NEW r \in Request, CreateTask(r) PROVE Machine!Next \/ st' = st
    BY <1>1, <1>3, <1>5 DEF CreateTask
  <1>6. ASSUME NEW r \in Request, PutTask(r) PROVE Machine!Next \/ st' = st
    BY <1>1, <1>4, <1>6 DEF PutTask
  <1>7. ASSUME NEW r \in Request, Step(r) PROVE Machine!Next \/ st' = st
    BY <1>1, <1>2, <1>5, <1>6, <1>7
       DEF Step, CreateEvent, AuditCreate, GetTask, TransitionEvent, CallModel, Revalidate,
           AuditApprove, Resolve, LookupVersion, Push, RecordVersion, AuditDone, ErrorGet,
           AuditUnconfirmed, AuditReject, Audit
  <1>8. ASSUME NEW r \in Request, Arrive(r) PROVE UNCHANGED tasks
    BY <1>8 DEF Arrive, Generate, Optimize, Upgrade, Apply, Rollback, GitRollback, PushNow,
                Approve, Reject, Decide, Begin
  <1>9. ASSUME NEW r \in Request, Cancel(r) PROVE UNCHANGED tasks
    BY <1>9 DEF Cancel
  <1>10. CASE Crash \/ UNCHANGED vars
    BY <1>1, <1>10 DEF Crash, vars
  <1> QED
    BY <1>1, <1>7, <1>8, <1>9, <1>10 DEF Next

\* With requests that do not overlap the lifecycle implements the task state
\* machine, faults, cancelled clients and crashes included.
THEOREM SerialRefinement == ASSUME MaxActive = 1 PROVE Spec => ImplementsStateMachine
  <1>1. Init => Machine!Init
    BY DEF Init, Machine!Init, Absent, Row
  <1>2. Inv /\ DispatchInv /\ SerialInv /\ [Next]_vars
           => [Machine!Next]_[t \in Task |-> tasks[t].status]
    BY MachineStep
  <1> QED
    BY <1>1, <1>2, Invariance, DispatchInvariance, SerialInvariance, PTL
       DEF Spec, ImplementsStateMachine, Machine!Spec

\* When requests do not overlap, a done or rejected task stays so: what the comment on
\* CanTransition says of terminal states is false only of requests that race.
THEOREM TerminalHolds == ASSUME MaxActive = 1 PROVE Spec => TerminalStable
  <1> DEFINE st == [t \in Task |-> tasks[t].status]
  <1>1. ASSUME Inv, DispatchInv, SerialInv, [Next]_vars, NEW t \in Task, st[t] \in Terminal
        PROVE  st'[t] = st[t]
    <2>1. Machine!Next \/ st' = st
      BY <1>1, MachineStep
    <2>2. ASSUME NEW u \in Task, NEW to, st' = [st EXCEPT ![u] = to],
                 st[u] = "none" \/ CanTransition(st[u], to)
          PROVE  st'[t] = st[t]
      <3>1. DOMAIN st = Task
        OBVIOUS
      <3> HIDE DEF st
      <3>2. u # t
        BY <1>1, <2>2 DEF CanTransition, Terminal
      <3> QED
        BY <2>2, <3>1, <3>2
    <2>3. CASE Machine!Next
      <3>1. PICK u \in Task : \/ Machine!Create(u)
                              \/ \E to \in Machine!Status : Machine!Transition(u, to)
        BY <2>3 DEF Machine!Next
      <3>2. CASE Machine!Create(u)
        <4>1. st[u] = "none" /\ \E s \in {"pending", "awaiting_approval"} :
                                   st' = [st EXCEPT ![u] = s]
          BY <3>2 DEF Machine!Create
        <4> HIDE DEF st
        <4> QED
          BY <2>2, <4>1
      <3>3. CASE \E to \in Machine!Status : Machine!Transition(u, to)
        <4>1. PICK to \in Machine!Status : Machine!Transition(u, to)
          BY <3>3
        <4>2. CanTransition(st[u], to) /\ st' = [st EXCEPT ![u] = to]
          BY <4>1 DEF Machine!Transition, Machine!CanTransition, CanTransition
        <4> HIDE DEF st
        <4> QED
          BY <2>2, <4>2
      <3> QED
        BY <3>1, <3>2, <3>3
    <2> QED
      BY <2>1, <2>3
  <1>2. Inv /\ DispatchInv /\ SerialInv /\ [Next]_vars
           => [\A t \in Task : tasks[t].status \in Terminal =>
                  tasks'[t].status = tasks[t].status]_tasks
    BY <1>1
  <1> QED
    BY <1>2, Invariance, DispatchInvariance, SerialInvariance, PTL DEF Spec, TerminalStable
================================================================================
