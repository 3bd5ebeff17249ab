---------------------------- MODULE TaskLifecycle ----------------------------
(***************************************************************************)
(* The life of a change task: internal/task (the service), the tool        *)
(* handlers of internal/agent/tools.go and the REST handlers that create,  *)
(* approve, reject and dispatch tasks.                                     *)
(*                                                                         *)
(* A request is one HTTP or tool call running in a goroutine of its own.   *)
(* Its program counter names the next statement it sends to the store, the *)
(* model or the OpAMP server; each of these is one action, so requests     *)
(* interleave exactly where the code holds no lock, which is everywhere:   *)
(* the task service reads a row, checks the transition on its copy and     *)
(* writes the whole row back without comparing (GetTask, Transition,       *)
(* UpdateTask).  Collectors, groups and YAML documents are members of      *)
(* small sets; audit details, approver names and error texts are left out. *)
(***************************************************************************)
EXTENDS TaskStatus, Naturals, Sequences, FiniteSets

CONSTANTS
    Request,            \* the requests of a run, each made at most once
    MayDo,              \* MayDo[r]: the operations request r may be
    Task,               \* task ids (ULIDs)
    Target,             \* instance uids and group ids
    Collector,          \* instance uids
    Members,            \* Members[g]: the collectors whose uid or group is g
    Yaml, ValidYaml,    \* documents, and those validator.Validate accepts
    InitialVersions,    \* config_versions when the server starts
    NoYaml,             \* the empty string
    RequireApproval,    \* REQUIRE_APPROVAL
    MaxActive,          \* how many requests may be in flight at once
    FaultKinds,         \* subset of {"store", "push", "cancel", "crash"}
    MaxFaults           \* how many faults a run may have

Ops == {"generate", "optimize", "upgrade", "apply", "rollback", "git_rollback",
        "push_now", "approve", "reject", "reject_tool"}
Types == {"generate", "optimize", "upgrade", "apply", "rollback"}

ASSUME LifecycleAssumption ==
    /\ MayDo \in [Request -> SUBSET Ops]
    /\ Collector \subseteq Target
    /\ Members \in [Target -> SUBSET Collector]
    /\ ValidYaml \subseteq Yaml
    /\ NoYaml \notin Yaml
    /\ InitialVersions \subseteq [collector : Collector, yaml : ValidYaml]
    /\ "none" \notin Task \cup Target
    /\ FaultKinds \subseteq {"store", "push", "cancel", "crash"}
    /\ RequireApproval \in BOOLEAN
    /\ MaxFaults \in Nat

VARIABLES
    tasks,      \* the rows of table tasks
    events,     \* events[t]: the rows of task_events of t, oldest first
    audits,     \* the rows of audit_log, as <<action, task, request>>
    versions,   \* the rows of config_versions, as [collector, yaml]
    req,        \* the requests' local state
    pushed,     \* history: the configurations handed to PushConfig
    granted,    \* history: <<task, request>> whose approval was written
    faults      \* number of faults so far

vars == <<tasks, events, audits, versions, req, pushed, granted, faults>>

Row(type, status, yaml, target, version) ==
    [type |-> type, status |-> status, yaml |-> yaml, target |-> target,
     version |-> version, error |-> FALSE]

Absent == Row("none", "none", NoYaml, "none", NoYaml)

AuditActions == Ops \cup {"unconfirmed"}

\* version abstracts rollback_version_id by the content of that version, which
\* no statement rewrites or deletes.
Rows == [type : Types, status : Status, yaml : Yaml \cup {NoYaml},
         target : Target, version : Yaml \cup {NoYaml}, error : BOOLEAN]

-----------------------------------------------------------------------------
(* Requests.  to is the target status of the service call in progress, row  *)
(* the copy of the task the handler holds, from the status it was read      *)
(* with, at and todo the dispatch loop, mark that markTaskFailed runs, live *)
(* that the request context is not cancelled.  late remembers whether the   *)
(* task was already rejected when the request came in.                      *)

NoRequest == [op |-> "none", pc |-> "idle", task |-> "none", to |-> "none",
              from |-> "none", row |-> Absent, yaml |-> NoYaml, at |-> "none",
              todo |-> {}, unconfirmed |-> FALSE, mark |-> FALSE,
              live |-> TRUE, late |-> FALSE]

Pcs == {"idle", "create", "createEvent", "auditCreate", "get", "put", "event",
        "llm", "validate", "save", "auditApprove", "resolve", "lookup", "push",
        "version", "auditDone", "errGet", "errPut", "auditUnconfirmed",
        "auditReject", "end", "gone"}

Active == {r \in Request : req[r].pc \notin {"idle", "end", "gone"}}

Init ==
    /\ tasks = [t \in Task |-> Absent]
    /\ events = [t \in Task |-> <<>>]
    /\ audits = {}
    /\ versions = InitialVersions
    /\ req = [r \in Request |-> NoRequest]
    /\ pushed = {}
    /\ granted = {}
    /\ faults = 0

Goto(q, pc) == [q EXCEPT !.pc = pc]
End(q) == Goto(q, "end")
Call(q, to) == [Goto(q, "get") EXCEPT !.to = to]
Send(q, yaml, todo) == [Goto(q, "push") EXCEPT !.yaml = yaml, !.todo = todo]
Continue(r, q) == req' = [req EXCEPT ![r] = q]

Fault(kind) == kind \in FaultKinds /\ faults < MaxFaults /\ faults' = faults + 1

\* A statement runs only under a live context, and may fail (a busy database).
StoreOk(r) == req[r].live /\ UNCHANGED faults
StoreError(r) ==
    \/ ~req[r].live /\ UNCHANGED faults
    \/ req[r].live /\ Fault("store")

-----------------------------------------------------------------------------
(* Where a handler goes when a service call returns.                        *)

\* generate_config validates the generated content once more; optimize does not.
AfterOk(q) ==
    CASE q.to = "generating" -> Goto(q, "llm")
      [] q.to = "validating" -> IF q.op = "generate"
                                THEN Goto(q, "validate")
                                ELSE Call(q, "awaiting_approval")
      [] q.to = "awaiting_approval" -> Goto(q, "save")
      [] q.to = "applying" -> Goto(q, "auditApprove")
      [] q.to = "done" /\ q.row.type # "upgrade" -> Goto(q, "auditDone")
      [] q.to = "failed" /\ q.mark -> Goto(q, "errGet")
      [] q.to = "rejected" /\ q.op = "reject_tool" -> Goto(q, "auditReject")
      [] OTHER -> End(q)

\* Mutant of AfterError: no fallback.
AfterErrorNoFallback(q) == End(q)

\* Only the write of the final status has a fallback: markTaskFailed.
AfterError(q) ==
    IF q.to = "done" /\ q.row.type # "upgrade"
    THEN [Call(q, "failed") EXCEPT !.mark = TRUE]
    ELSE End(q)

AfterCreate(q) ==
    CASE q.op \in {"generate", "apply", "git_rollback"} -> Goto(q, "auditCreate")
      [] q.op = "optimize" -> Call(q, "generating")
      [] OTHER -> End(q)

\* Mutant of AfterAuditCreate: an applied document is dispatched at once.
AfterAuditCreateUnguarded(q) ==
    CASE q.op = "generate" -> Call(q, "generating")
      [] q.op = "apply" -> Call(q, "applying")
      [] OTHER -> End(q)

AfterAuditCreate(q) ==
    CASE q.op = "generate" -> Call(q, "generating")
      [] q.op = "apply" /\ ~RequireApproval -> Call(q, "applying")
      [] OTHER -> End(q)

\* Mutant of AfterApproval: the check for empty content is missing.
AfterApprovalUnchecked(q) ==
    CASE q.row.type = "upgrade" -> Call(q, "done")
      [] q.row.type = "rollback" /\ q.row.version # NoYaml -> Goto(q, "lookup")
      [] q.row.type = "rollback" /\ q.row.version = NoYaml ->
            Send(q, q.row.yaml, {q.row.target})
      [] OTHER -> [Goto(q, "resolve") EXCEPT !.yaml = q.row.yaml]

\* DispatchApprove, by type: an upgrade only records the approval, a rollback
\* to a built-in version looks the version up, the others dispatch their YAML;
\* a task without content leaves the handler here, in status applying.
AfterApproval(q) ==
    CASE q.row.type = "upgrade" -> Call(q, "done")
      [] q.row.type = "rollback" /\ q.row.version # NoYaml -> Goto(q, "lookup")
      [] q.row.type = "rollback" /\ q.row.version = NoYaml /\ q.row.yaml # NoYaml ->
            Send(q, q.row.yaml, {q.row.target})
      [] q.row.type \notin {"upgrade", "rollback"} /\ q.row.yaml # NoYaml ->
            [Goto(q, "resolve") EXCEPT !.yaml = q.row.yaml]
      [] OTHER -> End(q)

AfterTarget(q) ==
    CASE q.todo # {} -> Goto(q, "push")
      [] q.todo = {} /\ q.op = "push_now" -> Goto(q, "auditDone")
      [] OTHER -> Call(q, "done")

AfterNote(q) == IF q.mark THEN End(q) ELSE Goto(q, "auditUnconfirmed")

-----------------------------------------------------------------------------
(* Arrival of a request: the checks that precede the first write.           *)

Begin(r, q) ==
    /\ req[r].pc = "idle"
    /\ q.op \in MayDo[r]
    /\ Cardinality(Active) < MaxActive
    /\ Continue(r, q)
    /\ UNCHANGED <<tasks, events, audits, versions, pushed, granted, faults>>

Creating(op, row) == [NoRequest EXCEPT !.op = op, !.pc = "create", !.row = row]

Generate(r) == \E g \in Target :
    Begin(r, Creating("generate", Row("generate", "pending", NoYaml, g, NoYaml)))

Optimize(r) == \E c \in Collector :
    Begin(r, Creating("optimize", Row("optimize", "pending", NoYaml, c, NoYaml)))

Upgrade(r) == \E g \in Target :
    Begin(r, Creating("upgrade", Row("upgrade", "awaiting_approval", NoYaml, g, NoYaml)))

\* Mutant of Apply: the editor's document is not validated.
ApplyUnvalidated(r) == \E c \in Collector, y \in Yaml :
    Begin(r, Creating("apply", Row("apply", "awaiting_approval", y, c, NoYaml)))

Apply(r) == \E c \in Collector, y \in Yaml :
    /\ y \in ValidYaml
    /\ Begin(r, Creating("apply", Row("apply", "awaiting_approval", y, c, NoYaml)))

Rollback(r) == \E v \in versions :
    /\ v.yaml \in ValidYaml
    /\ Begin(r, Creating("rollback",
                  Row("rollback", "awaiting_approval", NoYaml, v.collector, v.yaml)))

GitRollback(r) == \E c \in Collector, y \in Yaml :
    /\ y \in ValidYaml
    /\ Begin(r, Creating("git_rollback",
                  Row("rollback", "awaiting_approval", y, c, NoYaml)))

\* apply_config: straight to the dispatch loop, only without approval.
PushNow(r) == \E g \in Target, y \in Yaml :
    /\ ~RequireApproval
    /\ y \in ValidYaml /\ Members[g] # {}
    /\ Begin(r, [NoRequest EXCEPT !.op = "push_now", !.pc = "push",
                                  !.yaml = y, !.todo = Members[g]])

Decide(r, op, to) == \E t \in Task :
    /\ tasks[t] # Absent
    /\ Begin(r, [Call(NoRequest, to) EXCEPT !.op = op, !.task = t,
                     !.late = (tasks[t].status = "rejected")])

Approve(r) == Decide(r, "approve", "applying")
Reject(r) == Decide(r, "reject", "rejected") \/ Decide(r, "reject_tool", "rejected")

Arrive(r) == \/ Generate(r) \/ Optimize(r) \/ Upgrade(r) \/ Apply(r)
             \/ Rollback(r) \/ GitRollback(r) \/ PushNow(r)
             \/ Approve(r) \/ Reject(r)

-----------------------------------------------------------------------------
(* task.Service: Create, and the read, write and event of one transition.   *)

CreateTask(r) ==
    /\ req[r].pc = "create"
    /\ \/ /\ StoreOk(r)
          /\ \E t \in Task :
                /\ tasks[t] = Absent
                /\ tasks' = [tasks EXCEPT ![t] = req[r].row]
                /\ Continue(r, [Goto(req[r], "createEvent") EXCEPT !.task = t])
       \/ /\ StoreError(r)
          /\ Continue(r, End(req[r]))
          /\ UNCHANGED tasks
    /\ UNCHANGED <<events, audits, versions, pushed, granted>>

RecordEvent(r, from, to) ==
    \/ /\ StoreOk(r)
       /\ events' = [events EXCEPT ![req[r].task] = Append(@, <<from, to>>)]
    \/ StoreError(r) /\ UNCHANGED events

CreateEvent(r) ==
    /\ req[r].pc = "createEvent"
    /\ RecordEvent(r, "none", req[r].row.status)
    /\ Continue(r, AfterCreate(req[r]))
    /\ UNCHANGED <<tasks, audits, versions, pushed, granted>>

\* Mutant of GetTask: the transition is not checked.
GetTaskUnchecked(r) ==
    LET q == req[r] IN
    /\ q.pc = "get"
    /\ StoreOk(r)
    /\ Continue(r, [q EXCEPT !.pc = "put", !.from = tasks[q.task].status,
                             !.row = [tasks[q.task] EXCEPT !.status = q.to]])
    /\ UNCHANGED <<tasks, events, audits, versions, pushed, granted>>

GetTask(r) ==
    LET q == req[r] IN
    /\ q.pc = "get"
    /\ \/ /\ StoreOk(r)
          /\ CanTransition(tasks[q.task].status, q.to)
          /\ Continue(r, [q EXCEPT !.pc = "put", !.from = tasks[q.task].status,
                                   !.row = [tasks[q.task] EXCEPT !.status = q.to]])
       \/ /\ StoreOk(r)
          /\ ~CanTransition(tasks[q.task].status, q.to)
          /\ Continue(r, AfterError(q))
       \/ StoreError(r) /\ Continue(r, AfterError(q))
    /\ UNCHANGED <<tasks, events, audits, versions, pushed, granted>>

\* Mutant of PutTask: the transition is not recorded in task_events.
PutTaskSilent(r) ==
    LET q == req[r] IN
    /\ q.pc = "put" /\ StoreOk(r)
    /\ tasks' = [tasks EXCEPT ![q.task] = q.row]
    /\ granted' = IF q.to = "applying" THEN granted \cup {<<q.task, r>>} ELSE granted
    /\ Continue(r, AfterOk(q))
    /\ UNCHANGED <<events, audits, versions, pushed>>

PutTask(r) ==
    LET q == req[r] IN
    /\ q.pc = "put"
    /\ \/ /\ StoreOk(r)
          /\ tasks' = [tasks EXCEPT ![q.task] = q.row]
          /\ granted' = IF q.to = "applying" THEN granted \cup {<<q.task, r>>} ELSE granted
          /\ Continue(r, Goto(q, "event"))
       \/ /\ StoreError(r)
          /\ Continue(r, AfterError(q))
          /\ UNCHANGED <<tasks, granted>>
    /\ UNCHANGED <<events, audits, versions, pushed>>

TransitionEvent(r) ==
    /\ req[r].pc = "event"
    /\ RecordEvent(r, req[r].from, req[r].to)
    /\ Continue(r, AfterOk(req[r]))
    /\ UNCHANGED <<tasks, audits, versions, pushed, granted>>

-----------------------------------------------------------------------------
(* generate_config and optimize_config.                                     *)

\* generateYAML: a valid document, or failure after three attempts.
CallModel(r) ==
    /\ req[r].pc = "llm"
    /\ \/ /\ req[r].live
          /\ \E y \in ValidYaml :
                Continue(r, [Call(req[r], "validating") EXCEPT !.yaml = y])
       \/ Continue(r, Call(req[r], "failed"))
    /\ UNCHANGED <<tasks, events, audits, versions, pushed, granted, faults>>

\* The second validation runs the otelcol binary, which may fail by itself.
Revalidate(r) ==
    /\ req[r].pc = "validate"
    /\ \/ /\ req[r].yaml \in ValidYaml
          /\ Continue(r, Call(req[r], "awaiting_approval"))
       \/ Continue(r, Call(req[r], "failed"))
    /\ UNCHANGED <<tasks, events, audits, versions, pushed, granted, faults>>

\* The content is stored by a second whole-row write of the copy SetStatus
\* returned, after the task became visible as awaiting_approval.
SaveContent(r) ==
    LET q == req[r]
        row == [q.row EXCEPT !.yaml = q.yaml]
    IN
    /\ q.pc = "save"
    /\ \/ StoreOk(r) /\ tasks' = [tasks EXCEPT ![q.task] = row]
       \/ StoreError(r) /\ UNCHANGED tasks
    /\ Continue(r, IF RequireApproval THEN End(q) ELSE Call(q, "applying"))
    /\ UNCHANGED <<events, audits, versions, pushed, granted>>

-----------------------------------------------------------------------------
(* DispatchApprove, the rollbacks, apply_config and reject_task.            *)

\* AppendAudit is best effort: the handler goes on to next either way.
Audit(r, action, next) ==
    /\ \/ StoreOk(r) /\ audits' = audits \cup {<<action, req[r].task, r>>}
       \/ StoreError(r) /\ UNCHANGED audits
    /\ Continue(r, next)
    /\ UNCHANGED <<tasks, events, versions, pushed, granted>>

AuditCreate(r) ==
    /\ req[r].pc = "auditCreate"
    /\ Audit(r, req[r].op, AfterAuditCreate(req[r]))

\* Mutant of AuditApprove: no audit row for the approval.
AuditApproveMissing(r) ==
    /\ req[r].pc = "auditApprove"
    /\ Continue(r, AfterApproval(req[r]))
    /\ UNCHANGED <<tasks, events, audits, versions, pushed, granted, faults>>

AuditApprove(r) ==
    /\ req[r].pc = "auditApprove"
    /\ Audit(r, "approve", AfterApproval(req[r]))

\* targetCollectors: the rows whose uid or group is the task's target.
Resolve(r) ==
    LET q == req[r] IN
    /\ q.pc = "resolve"
    /\ \/ /\ StoreOk(r) /\ Members[q.row.target] # {}
          /\ Continue(r, Send(q, q.yaml, Members[q.row.target]))
       \/ /\ \/ StoreOk(r) /\ Members[q.row.target] = {}
             \/ StoreError(r)
          /\ Continue(r, Call(q, "failed"))
    /\ UNCHANGED <<tasks, events, audits, versions, pushed, granted>>

\* Mutant of LookupVersion: the newest version is taken instead of the chosen.
LookupAnyVersion(r) ==
    LET q == req[r] IN
    /\ q.pc = "lookup" /\ StoreOk(r)
    /\ \E v \in versions :
          Continue(r, Send(q, v.yaml, {q.row.target}))
    /\ UNCHANGED <<tasks, events, audits, versions, pushed, granted>>

\* dispatchRollback: no branch that fails here leaves status applying.
LookupVersion(r) ==
    LET q == req[r]
        found == [collector |-> q.row.target, yaml |-> q.row.version] \in versions
    IN
    /\ q.pc = "lookup"
    /\ \/ /\ StoreOk(r) /\ found
          /\ Continue(r, Send(q, q.row.version, {q.row.target}))
       \/ /\ (StoreOk(r) /\ ~found) \/ StoreError(r)
          /\ Continue(r, End(q))
    /\ UNCHANGED <<tasks, events, audits, versions, pushed, granted>>

\* pushAndConfirm on one collector: accepted, with or without the agent's
\* confirmation, or refused because there is no OpAMP server.  A refused
\* rollback fails, a refused dispatch skips the collector, and apply_config
\* only logs it.
Push(r) ==
    LET q == req[r] IN
    /\ q.pc = "push"
    /\ \E c \in q.todo :
       LET rest == [q EXCEPT !.at = c, !.todo = @ \ {c}] IN
       \/ /\ pushed' = pushed \cup {[task |-> q.task, req |-> r, collector |-> c,
                                     yaml |-> q.yaml]}
          /\ \E u \in {q.unconfirmed, TRUE} :
                Continue(r, [Goto(rest, "version") EXCEPT !.unconfirmed = u])
          /\ UNCHANGED faults
       \/ /\ Fault("push")
          /\ Continue(r, CASE q.op = "push_now" -> Goto(rest, "version")
                           [] q.op # "push_now" /\ q.row.type = "rollback" -> Call(q, "failed")
                           [] OTHER -> AfterTarget(rest))
          /\ UNCHANGED pushed
    /\ UNCHANGED <<tasks, events, audits, versions, granted>>

\* Mutant of RecordVersion: only a confirmed push gets a version.
RecordConfirmedVersion(r) ==
    LET q == req[r] IN
    /\ q.pc = "version" /\ StoreOk(r)
    /\ versions' = IF q.unconfirmed
                   THEN versions
                   ELSE versions \cup {[collector |-> q.at, yaml |-> q.yaml]}
    /\ Continue(r, AfterTarget(q))
    /\ UNCHANGED <<tasks, events, audits, pushed, granted>>

\* recordConfigVersion: the row is marked validated without another check.
RecordVersion(r) ==
    LET q == req[r] IN
    /\ q.pc = "version"
    /\ \/ /\ StoreOk(r)
          /\ versions' = versions \cup {[collector |-> q.at, yaml |-> q.yaml]}
       \/ StoreError(r) /\ UNCHANGED versions
    /\ Continue(r, AfterTarget(q))
    /\ UNCHANGED <<tasks, events, audits, pushed, granted>>

AuditDone(r) ==
    LET q == req[r] IN
    /\ q.pc = "auditDone"
    /\ Audit(r, "apply", IF q.unconfirmed /\ q.op # "push_now"
                         THEN Goto(q, "errGet") ELSE End(q))

\* setTaskError: the warning is written by one more read and whole-row write.
ErrorGet(r) ==
    LET q == req[r] IN
    /\ q.pc = "errGet"
    /\ \/ /\ StoreOk(r)
          /\ Continue(r, [Goto(q, "errPut") EXCEPT
                              !.row = [tasks[q.task] EXCEPT !.error = TRUE]])
       \/ StoreError(r) /\ Continue(r, AfterNote(q))
    /\ UNCHANGED <<tasks, events, audits, versions, pushed, granted>>

ErrorPut(r) ==
    LET q == req[r] IN
    /\ q.pc = "errPut"
    /\ \/ StoreOk(r) /\ tasks' = [tasks EXCEPT ![q.task] = q.row]
       \/ StoreError(r) /\ UNCHANGED tasks
    /\ Continue(r, AfterNote(q))
    /\ UNCHANGED <<events, audits, versions, pushed, granted>>

AuditUnconfirmed(r) ==
    /\ req[r].pc = "auditUnconfirmed"
    /\ Audit(r, "unconfirmed", End(req[r]))

AuditReject(r) ==
    /\ req[r].pc = "auditReject"
    /\ Audit(r, "reject", End(req[r]))

-----------------------------------------------------------------------------
(* The environment: a client that goes away cancels the request context,    *)
(* and a crash of the server ends every request in flight.                  *)

Cancel(r) ==
    /\ r \in Active /\ req[r].live
    /\ Fault("cancel")
    /\ Continue(r, [req[r] EXCEPT !.live = FALSE])
    /\ UNCHANGED <<tasks, events, audits, versions, pushed, granted>>

Crash ==
    /\ Active # {}
    /\ Fault("crash")
    /\ req' = [r \in Request |-> IF r \in Active THEN Goto(req[r], "gone") ELSE req[r]]
    /\ UNCHANGED <<tasks, events, audits, versions, pushed, granted>>

Step(r) ==
    \/ CreateTask(r) \/ CreateEvent(r) \/ AuditCreate(r)
    \/ GetTask(r) \/ PutTask(r) \/ TransitionEvent(r)
    \/ CallModel(r) \/ Revalidate(r) \/ SaveContent(r)
    \/ AuditApprove(r) \/ Resolve(r) \/ LookupVersion(r)
    \/ Push(r) \/ RecordVersion(r) \/ AuditDone(r)
    \/ ErrorGet(r) \/ ErrorPut(r) \/ AuditUnconfirmed(r) \/ AuditReject(r)

Next == Crash \/ \E r \in Request : Arrive(r) \/ Step(r) \/ Cancel(r)

Spec == Init /\ [][Next]_vars

\* A goroutine keeps running: every wait of a handler has a time limit.
FairSpec == Spec /\ \A r \in Request : WF_vars(Step(r))

-----------------------------------------------------------------------------
(* Properties.                                                              *)

Requests == [op : Ops \cup {"none"}, pc : Pcs, task : Task \cup {"none"},
             to : Status \cup {"none"}, from : Status \cup {"none"},
             row : Rows \cup {Absent}, yaml : Yaml \cup {NoYaml},
             at : Collector \cup {"none"}, todo : SUBSET Collector,
             unconfirmed : BOOLEAN, mark : BOOLEAN, live : BOOLEAN, late : BOOLEAN]

\* Every variable has its type: in particular no handler writes a row with a
\* status or a content outside the columns' domains.
TypeOK ==
    /\ tasks \in [Task -> Rows \cup {Absent}]
    /\ events \in [Task -> Seq((Status \cup {"none"}) \X Status)]
    /\ audits \subseteq AuditActions \X (Task \cup {"none"}) \X Request
    /\ versions \subseteq [collector : Collector, yaml : Yaml]
    /\ req \in [Request -> Requests]
    /\ pushed \subseteq [task : Task \cup {"none"}, req : Request,
                         collector : Collector, yaml : Yaml]
    /\ granted \subseteq Task \X Request
    /\ faults \in 0 .. MaxFaults

\* The approval gate of DispatchApprove and apply_config: whatever the
\* interleaving, a configuration leaves for a collector only on behalf of a
\* request that itself wrote the task's approval, and while approval is
\* required that request is an approve call, never the tool that generated it.
DispatchNeedsApproval ==
    \A p \in pushed :
        /\ p.task # "none" => <<p.task, p.req>> \in granted
        /\ RequireApproval => p.task # "none" /\ req[p.req].op = "approve"

\* recordConfigVersion stores every version as Validated without checking it,
\* and a later rollback relies on that: no path (generate, optimize, editor,
\* git, rollback of a rollback) pushes or records a document the validator
\* has not accepted.
OnlyValidated ==
    /\ \A p \in pushed : p.yaml \in ValidYaml
    /\ \A v \in versions : v.yaml \in ValidYaml

\* Approvals that race, and rows that are overwritten whole, never make one
\* task dispatch two different contents: what was approved first is what any
\* later dispatch of the same task sends.
OneContentPerTask ==
    \A p, q \in pushed : p.task = q.task /\ p.task # "none" => p.yaml = q.yaml

\* DispatchApprove appends the approval to the audit log before it pushes, so
\* while no statement fails a dispatched task always has an audited approval.
DispatchIsAudited ==
    faults = 0 => \A p \in pushed :
        p.task # "none" => <<"approve", p.task, p.req>> \in audits

\* A task whose content was written with its row, not by a later SaveContent.
CreatedWhole(row) == row.type \in {"apply", "rollback"}

\* An approval that arrives when the row already says rejected never leads to
\* a push, although approvals and rejections already in flight may overwrite
\* each other's status: no handler writes awaiting_approval back over a
\* rejection, but for the late SaveContent of generated tasks.
NoDispatchAfterRejection ==
    \A p \in pushed : req[p.req].late => ~CreatedWhole(req[p.req].row)

Content(row) == IF row.version # NoYaml THEN row.version ELSE row.yaml
Receivers(row) == IF row.type = "rollback" THEN {row.target} ELSE Members[row.target]

\* A task that reads done was dispatched: while nothing fails, each collector
\* its target names has a version row with the task's content, so it can be
\* rolled back to (a generated task may lose its content to a stale write).
DoneIsRecorded ==
    faults = 0 => \A t \in Task :
        tasks[t].status = "done" /\ CreatedWhole(tasks[t]) =>
            \A c \in Receivers(tasks[t]) :
                [collector |-> c, yaml |-> Content(tasks[t])] \in versions

\* task_events is what the statistics are computed from: with one request at
\* a time and no fault, the events of a task form a chain that starts with its
\* creation and ends with the status of its row.
EventsTellStatus ==
    faults = 0 /\ Active = {} => \A t \in Task :
        LET ev == events[t] IN
        /\ tasks[t] = Absent <=> ev = <<>>
        /\ ev # <<>> => ev[1][1] = "none" /\ ev[Len(ev)][2] = tasks[t].status
        /\ \A i \in 1 .. Len(ev) - 1 : ev[i][2] = ev[i + 1][1]

\* With one request at a time the whole lifecycle, faults included, implements
\* the task state machine: every write of a row is a creation, an edge of the
\* transition table or no change of status.
Machine == INSTANCE TaskStateMachine
           WITH status <- [t \in Task |-> tasks[t].status]
ImplementsStateMachine == Machine!Spec

\* Task t lost the request that moved it on: its client went away or the
\* server crashed.
Abandoned(t) == \E r \in Request :
    req[r].task = t /\ (~req[r].live \/ req[r].pc = "gone")

\* An approved task with its content in its row and a collector to receive it
\* does not stay in status applying: the dispatch ends in done or failed, even
\* when one collector refuses or one statement fails (DispatchApprove marks it
\* failed when the final status cannot be written), unless it is abandoned.
ApplyingResolves ==
    \A t \in Task :
        (tasks[t].status = "applying" /\ tasks[t].yaml # NoYaml /\ Receivers(tasks[t]) # {})
            ~> (tasks[t].status # "applying" \/ Abandoned(t))

\* "Terminal tasks do not transition": no step changes a done or rejected row's
\* status (task.go's comment on CanTransition).
TerminalStable ==
    [][\A t \in Task : tasks[t].status \in Terminal =>
          tasks'[t].status = tasks[t].status]_tasks

=============================================================================
