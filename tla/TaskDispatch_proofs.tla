------------------------- MODULE TaskDispatch_proofs -------------------------
(***************************************************************************)
(* Proofs about what TaskLifecycle dispatches: DispatchIsAudited,          *)
(* DoneIsRecorded and NoDispatchAfterRejection are invariants for every    *)
(* number of requests, tasks, collectors and documents and any number of   *)
(* faults.                                                                 *)
(*                                                                         *)
(* DispatchInv adds to Inv what a handler knows of the row it works on:    *)
(* a stored row never changes its type, its target and its version, and    *)
(* the row of a task created with its content never changes that content   *)
(* and never goes back to awaiting_approval.  Each clause speaks of the    *)
(* row as stored, of sets that only grow (audits, versions) and of faults  *)
(* not having happened, so other requests' steps keep it.                  *)
(***************************************************************************)
EXTENDS TaskLifecycle_proofs

\* The operations that write a task's content after the task itself.
Gen == {"generate", "optimize"}

\* What a later write of a row keeps of an earlier one.
Fits(row, stored) ==
    /\ row.type = stored.type
    /\ row.target = stored.target
    /\ row.version = stored.version
    /\ CreatedWhole(row) => row.yaml = stored.yaml

\* The program points that only a request generating content reaches.
Generating(q) ==
    \/ q.pc \in {"llm", "validate", "save"}
    \/ q.pc \in {"get", "put", "event"}
         /\ q.to \in {"generating", "validating", "awaiting_approval"}

\* The request has moved its task past awaiting_approval.
Past(q) ==
    \/ q.pc \in {"event", "auditApprove", "resolve", "lookup", "push", "version",
                 "auditDone", "errGet", "errPut"}
    \/ q.pc \in {"get", "put"} /\ q.to \in {"done", "failed"}

\* The collectors of the row that are not in rest have a version row.
RecordedBut(row, rest, ve) ==
    \A c \in Receivers(row) \ rest : [collector |-> c, yaml |-> Content(row)] \in ve

\* How the rows may develop.
Evolves(tk, tk2) ==
    \A t \in Task : tk[t] # Absent =>
        /\ tk2[t] # Absent
        /\ Fits(tk[t], tk2[t])
        /\ CreatedWhole(tk[t]) /\ tk[t].status # "awaiting_approval" =>
              tk2[t].status # "awaiting_approval"

\* The request's copy of the row is of the task as stored.
Shape(q, tk) ==
    /\ q.op \in Gen => ~CreatedWhole(q.row)
    /\ q.row.type # "rollback" => q.row.version = NoYaml
    /\ q.task # "none" =>
          /\ tk[q.task] # Absent
          /\ q.op \in Gen => ~CreatedWhole(tk[q.task])
          /\ q.row # Absent => Fits(q.row, tk[q.task])
    /\ Generating(q) => q.op \in Gen
    /\ q.pc = "create" => q.task = "none" /\ q.row.status \in {"pending", "awaiting_approval"}
    /\ q.pc = "put" => q.row.status = q.to
    /\ q.late => q.task # "none"

\* A decision about a task created with its content is not taken back.
Decided(q, tk) ==
    q.task # "none" /\ CreatedWhole(tk[q.task]) =>
        /\ Past(q) => tk[q.task].status # "awaiting_approval"
        /\ q.pc = "errPut" => q.row.status # "awaiting_approval"
        /\ q.late => /\ tk[q.task].status # "awaiting_approval"
                     /\ q.pc \in {"get", "end", "gone"}
                     /\ q.pc = "get" => q.to \in {"applying", "rejected"}

\* The approval is in the audit log before the dispatch starts.
Audited(q, r, au, fl) ==
    fl = 0 =>
        /\ q.live
        /\ q.op # "push_now" /\ q.pc \in {"resolve", "lookup", "push", "version"} =>
              <<"approve", q.task, r>> \in au

\* How far the dispatch of a task created with its content has come.
Recording(q, tk, ve, fl) ==
    fl = 0 /\ q.task # "none" /\ CreatedWhole(tk[q.task]) =>
        /\ q.pc = "resolve" => q.row.type # "rollback" /\ q.yaml = Content(tk[q.task])
        /\ q.pc = "lookup" => q.row.type = "rollback" /\ q.row.version # NoYaml
        /\ q.pc = "push" => /\ q.yaml = Content(tk[q.task])
                            /\ RecordedBut(tk[q.task], q.todo, ve)
        /\ q.pc = "version" => /\ q.yaml = Content(tk[q.task])
                               /\ RecordedBut(tk[q.task], q.todo \cup {q.at}, ve)
        /\ q.pc \in {"get", "put"} /\ q.to = "done" => RecordedBut(tk[q.task], {}, ve)
        /\ q.pc = "errPut" /\ q.row.status = "done" => RecordedBut(tk[q.task], {}, ve)

Handling(q, r, tk, au, ve, fl) ==
    /\ Shape(q, tk)
    /\ Decided(q, tk)
    /\ Audited(q, r, au, fl)
    /\ Recording(q, tk, ve, fl)

Stored(row, ve, fl) ==
    /\ row.type # "rollback" => row.version = NoYaml
    /\ fl = 0 /\ row.status = "done" /\ CreatedWhole(row) => RecordedBut(row, {}, ve)

\* A push was audited, and was not made for a rejected task created whole.
PushKnown(p, rq, tk, au, fl) ==
    /\ p.task # "none" => tk[p.task] # Absent
    /\ fl = 0 /\ p.task # "none" => <<"approve", p.task, p.req>> \in au
    /\ rq[p.req].late =>
          rq[p.req].task # "none" /\ ~CreatedWhole(tk[rq[p.req].task])

DispatchInv ==
    /\ \A r \in Request : Handling(req[r], r, tasks, audits, versions, faults)
    /\ \A t \in Task : Stored(tasks[t], versions, faults)
    /\ \A p \in pushed : PushKnown(p, req, tasks, audits, faults)

-----------------------------------------------------------------------------
(* The local facts depend on the shared state monotonically.                *)

\* Rows develop in steps.
LEMMA EvolvesTask ==
    ASSUME NEW tk, NEW tk2, NEW t \in Task, Evolves(tk, tk2), tk[t] # Absent
    PROVE  /\ tk2[t] # Absent
           /\ Fits(tk[t], tk2[t])
           /\ CreatedWhole(tk[t]) /\ tk[t].status # "awaiting_approval" =>
                 tk2[t].status # "awaiting_approval"
  BY DEF Evolves

\* Rows that fit have the same receivers and, created whole, the same content.
LEMMA FitsSame ==
    ASSUME NEW a, NEW b, Fits(a, b)
    PROVE  /\ CreatedWhole(a) <=> CreatedWhole(b)
           /\ Receivers(a) = Receivers(b)
           /\ CreatedWhole(a) => Content(a) = Content(b)
  BY DEF Fits, CreatedWhole, Receivers, Content

\* Rows that fit a row that fits another one fit it.
LEMMA FitsTransitive ==
    ASSUME NEW a, NEW b, NEW c, Fits(a, b), Fits(b, c)
    PROVE  Fits(a, c)
  BY DEF Fits, CreatedWhole

\* What is recorded stays recorded.
LEMMA RecordedMonotone ==
    ASSUME NEW a, NEW b, Fits(a, b), CreatedWhole(a), NEW rest, NEW ve, NEW ve2,
           ve \subseteq ve2, RecordedBut(a, rest, ve)
    PROVE  RecordedBut(b, rest, ve2)
  BY FitsSame DEF RecordedBut

\* Steps of other requests keep what a handler knows.
LEMMA HandlingMonotone ==
    ASSUME NEW q, q.task \in Task \cup {"none"}, NEW r, NEW tk, NEW tk2, NEW au, NEW au2,
           NEW ve, NEW ve2, NEW fl, NEW fl2,
           Evolves(tk, tk2), au \subseteq au2, ve \subseteq ve2, fl2 = 0 => fl = 0,
           Handling(q, r, tk, au, ve, fl)
    PROVE  Handling(q, r, tk2, au2, ve2, fl2)
  <1>1. CASE q.task = "none"
    BY <1>1 DEF Handling, Shape, Decided, Audited, Recording
  <1>2. CASE q.task # "none"
    <2> DEFINE a == tk[q.task]
               b == tk2[q.task]
    <2>1. /\ a # Absent /\ b # Absent /\ Fits(a, b)
          /\ CreatedWhole(a) /\ a.status # "awaiting_approval" => b.status # "awaiting_approval"
      BY <1>2, EvolvesTask DEF Handling, Shape
    <2>2. CreatedWhole(a) <=> CreatedWhole(b)
      BY <2>1, FitsSame
    <2>3. Content(a) = Content(b) \/ ~CreatedWhole(a)
      BY <2>1, FitsSame
    <2>4. \A rest : CreatedWhole(a) /\ RecordedBut(a, rest, ve) => RecordedBut(b, rest, ve2)
      BY <2>1, RecordedMonotone
    <2>5. q.row # Absent => Fits(q.row, b)
      BY <1>2, <2>1, FitsTransitive DEF Handling, Shape
    <2> HIDE DEF a, b
    <2>6. Shape(q, tk2)
      <3>1. b = tk2[q.task] /\ a = tk[q.task]
        BY DEF a, b
      <3> QED
        BY <3>1, <1>2, <2>1, <2>2, <2>5 DEF Handling, Shape
    <2>7. Decided(q, tk2)
      <3>1. b = tk2[q.task] /\ a = tk[q.task]
        BY DEF a, b
      <3> QED
        BY <3>1, <1>2, <2>1, <2>2 DEF Handling, Decided
    <2>8. Audited(q, r, au2, fl2)
      BY DEF Handling, Audited
    <2>9. Recording(q, tk2, ve2, fl2)
      <3>1. b = tk2[q.task] /\ a = tk[q.task]
        BY DEF a, b
      <3> QED
        BY <3>1, <1>2, <2>2, <2>3, <2>4 DEF Handling, Recording
    <2> QED
      BY <2>6, <2>7, <2>8, <2>9 DEF Handling
  <1> QED
    BY <1>1, <1>2

\* An earlier push stays justified.
LEMMA PushKnownMonotone ==
    ASSUME NEW p, p.task \in Task \cup {"none"}, NEW rq, NEW rq2, NEW tk, NEW tk2,
           NEW au, NEW au2, NEW fl, NEW fl2,
           Evolves(tk, tk2), au \subseteq au2, fl2 = 0 => fl = 0,
           rq[p.req].late => tk[rq[p.req].task] # Absent /\ rq[p.req].task \in Task \cup {"none"},
           rq2[p.req].late = rq[p.req].late,
           rq[p.req].late => rq2[p.req].task = rq[p.req].task,
           PushKnown(p, rq, tk, au, fl)
    PROVE  PushKnown(p, rq2, tk2, au2, fl2)
  <1>1. p.task # "none" => tk2[p.task] # Absent
    BY EvolvesTask DEF PushKnown
  <1>2. fl2 = 0 /\ p.task # "none" => <<"approve", p.task, p.req>> \in au2
    BY DEF PushKnown
  <1>3. rq2[p.req].late => rq2[p.req].task # "none" /\ ~CreatedWhole(tk2[rq2[p.req].task])
    <2> SUFFICES ASSUME rq2[p.req].late
                 PROVE  rq2[p.req].task # "none" /\ ~CreatedWhole(tk2[rq2[p.req].task])
      OBVIOUS
    <2> DEFINE t == rq[p.req].task
    <2>1. t # "none" /\ ~CreatedWhole(tk[t]) /\ rq2[p.req].task = t /\ t \in Task
          /\ tk[t] # Absent
      BY DEF PushKnown
    <2> HIDE DEF t
    <2>2. Fits(tk[t], tk2[t])
      BY <2>1, EvolvesTask
    <2> QED
      BY <2>1, <2>2, FitsSame
  <1> QED
    BY <1>1, <1>2, <1>3 DEF PushKnown

\* One request moves and the shared state grows.
LEMMA DispatchStep ==
    ASSUME Inv, DispatchInv, NEW r \in Request, NEW q,
           req' = [req EXCEPT ![r] = q],
           Evolves(tasks, tasks'), audits \subseteq audits', versions \subseteq versions',
           faults' = 0 => faults = 0,
           Handling(q, r, tasks', audits', versions', faults'),
           \A t \in Task : Stored(tasks'[t], versions', faults'),
           \/ req[r].pc = "idle"
           \/ q.late = req[r].late /\ (req[r].late => q.task = req[r].task),
           \A p \in pushed' : p \in pushed \/ PushKnown(p, req', tasks', audits', faults')
    PROVE  DispatchInv'
  <1>0. req \in [Request -> Requests]
    BY DEF Inv
  <1>1. ASSUME NEW s \in Request
        PROVE  Handling(req'[s], s, tasks', audits', versions', faults')
    <2>1. CASE s = r
      BY <2>1, <1>0
    <2>2. CASE s # r
      <3>1. req'[s] = req[s] /\ req[s].task \in Task \cup {"none"}
        BY <2>2, <1>0 DEF Requests
      <3>2. Handling(req[s], s, tasks, audits, versions, faults)
        BY DEF DispatchInv
      <3> QED
        BY <3>1, <3>2, HandlingMonotone
    <2> QED
      BY <2>1, <2>2
  <1>2. ASSUME NEW p \in pushed PROVE PushKnown(p, req', tasks', audits', faults')
    <2>1. /\ PushOK(p) /\ p.req \in Request /\ p.task \in Task \cup {"none"}
          /\ PushKnown(p, req, tasks, audits, faults)
      BY DEF Inv, DispatchInv
    <2>2. req[p.req].pc # "idle" /\ req[p.req].task \in Task \cup {"none"}
      BY <1>0, <2>1 DEF PushOK, Requests
    <2>3. req[p.req].late => tasks[req[p.req].task] # Absent
      BY <2>1 DEF DispatchInv, Handling, Shape
    <2>4. /\ req'[p.req].late = req[p.req].late
          /\ req[p.req].late => req'[p.req].task = req[p.req].task
      BY <1>0, <2>1, <2>2
    <2> QED
      BY <2>1, <2>2, <2>3, <2>4, PushKnownMonotone
  <1> QED
    BY <1>1, <1>2 DEF DispatchInv

\* A step that leaves rows and pushes alone.
LEMMA LocalDispatch ==
    ASSUME Inv, DispatchInv, NEW r \in Request, NEW q,
           req' = [req EXCEPT ![r] = q],
           UNCHANGED <<tasks, pushed>>, audits \subseteq audits', versions \subseteq versions',
           faults' = 0 => faults = 0,
           Handling(q, r, tasks, audits', versions', faults'),
           \/ req[r].pc = "idle"
           \/ q.late = req[r].late /\ (req[r].late => q.task = req[r].task)
    PROVE  DispatchInv'
  <1>1. Evolves(tasks, tasks')
    BY DEF Evolves, Fits
  <1>2. ASSUME NEW t \in Task PROVE Stored(tasks'[t], versions', faults')
    <2>1. Stored(tasks[t], versions, faults)
      BY DEF DispatchInv
    <2> QED
      BY <2>1 DEF Stored, RecordedBut
  <1>3. Handling(q, r, tasks', audits', versions', faults')
    OBVIOUS
  <1> QED
    BY <1>1, <1>2, <1>3, DispatchStep

-----------------------------------------------------------------------------
(* Continuations: what they keep of a request, and where they lead.         *)

Kept(q2, q) ==
    /\ q2 \in Requests
    /\ q2.op = q.op /\ q2.task = q.task /\ q2.row = q.row /\ q2.yaml = q.yaml
    /\ q2.todo = q.todo /\ q2.at = q.at /\ q2.live = q.live /\ q2.late = q.late

\* Goto changes the program counter only.
LEMMA GotoKept ==
    ASSUME NEW q \in Requests, NEW pc \in Pcs
    PROVE  Kept(Goto(q, pc), q) /\ Goto(q, pc).pc = pc /\ Goto(q, pc).to = q.to
  BY DEF Goto, Requests, Kept

\* Call enters the read of a transition to the given status.
LEMMA CallKept ==
    ASSUME NEW q \in Requests, NEW to \in Status
    PROVE  Kept(Call(q, to), q) /\ Call(q, to).pc = "get" /\ Call(q, to).to = to
  <1> DEFINE x == Goto(q, "get")
  <1>1. Kept(x, q) /\ x.pc = "get"
    BY GotoKept DEF Pcs
  <1>2. Call(q, to) = [x EXCEPT !.to = to]
    BY DEF Call
  <1> HIDE DEF x
  <1> QED
    BY <1>1, <1>2 DEF Requests, Kept

\* The program points at which nothing is known of the dispatch.
Quiet == {"idle", "createEvent", "auditCreate", "get", "event", "llm", "validate", "save",
          "auditApprove", "auditDone", "errGet", "auditUnconfirmed", "auditReject",
          "end", "gone"}

\* A move to such a point needs little.
LEMMA QuietHandling ==
    ASSUME NEW q, NEW q2, NEW r, NEW tk, NEW au, NEW ve, NEW fl,
           Handling(q, r, tk, au, ve, fl), Kept(q2, q), q2.pc \in Quiet,
           Generating(q2) => q.op \in Gen,
           Past(q2) /\ q.task # "none" /\ CreatedWhole(tk[q.task]) =>
              tk[q.task].status # "awaiting_approval",
           \/ q2.pc \in {"end", "gone"}
           \/ ~(q.late /\ q.task # "none" /\ CreatedWhole(tk[q.task])),
           q2.pc = "get" /\ q2.to = "done" /\ fl = 0 /\ q.task # "none"
              /\ CreatedWhole(tk[q.task]) => RecordedBut(tk[q.task], {}, ve)
    PROVE  Handling(q2, r, tk, au, ve, fl)
  <1>1. Shape(q2, tk)
    BY DEF Handling, Shape, Kept, Quiet
  <1>2. Decided(q2, tk)
    BY DEF Handling, Decided, Kept, Quiet
  <1>3. Audited(q2, r, au, fl)
    BY DEF Handling, Audited, Kept, Quiet
  <1>4. Recording(q2, tk, ve, fl)
    BY DEF Handling, Recording, Kept, Quiet
  <1> QED
    BY <1>1, <1>2, <1>3, <1>4 DEF Handling

\* From a quiet point a task does not start the rest of the dispatch by itself.
LEMMA AfterOkKept ==
    ASSUME NEW q \in Requests
    PROVE  LET q2 == AfterOk(q) IN
           /\ Kept(q2, q)
           /\ q2.pc \in {"get", "llm", "validate", "save", "auditApprove", "auditDone",
                         "errGet", "auditReject", "end"}
           /\ q2.pc \in {"get", "llm", "validate", "save"} =>
                 q.to \in {"generating", "validating", "awaiting_approval"}
           /\ IF q2.pc = "get" THEN q2.to = "awaiting_approval" ELSE q2.to = q.to
           /\ q2.pc = "llm" => q.to = "generating"
  <1> DEFINE P(q2) ==
           /\ Kept(q2, q)
           /\ q2.pc \in {"get", "llm", "validate", "save", "auditApprove", "auditDone",
                         "errGet", "auditReject", "end"}
           /\ q2.pc \in {"get", "llm", "validate", "save"} =>
                 q.to \in {"generating", "validating", "awaiting_approval"}
           /\ IF q2.pc = "get" THEN q2.to = "awaiting_approval" ELSE q2.to = q.to
           /\ q2.pc = "llm" => q.to = "generating"
  <1>1. ASSUME NEW pc \in {"auditApprove", "auditDone", "errGet", "auditReject", "end"}
        PROVE  P(Goto(q, pc))
    BY GotoKept DEF Pcs
  <1>2. ASSUME NEW pc \in {"llm", "validate", "save"},
               q.to \in {"generating", "validating", "awaiting_approval"},
               pc = "llm" => q.to = "generating"
        PROVE  P(Goto(q, pc))
    BY <1>2, GotoKept DEF Pcs
  <1>3. q.to = "validating" => P(Call(q, "awaiting_approval"))
    BY CallKept DEF Status
  <1> HIDE DEF P
  <1>4. P(AfterOk(q))
    BY <1>1, <1>2, <1>3, Zenon DEF AfterOk, End
  <1> QED
    BY <1>4 DEF P

\* A failed service call ends the request, or leads to the fallback of done.
LEMMA AfterErrorKept ==
    ASSUME NEW q \in Requests
    PROVE  LET q2 == AfterError(q) IN
           /\ Kept(q2, q)
           /\ \/ q2.pc = "end" /\ q2.to = q.to
              \/ q2.pc = "get" /\ q2.to = "failed" /\ q.to = "done"
  <1>1. CASE q.to = "done" /\ q.row.type # "upgrade"
    <2> DEFINE x == Call(q, "failed")
    <2>1. Kept(x, q) /\ x.pc = "get" /\ x.to = "failed"
      BY CallKept DEF Status
    <2> DEFINE y == [x EXCEPT !.mark = TRUE]
    <2>2. AfterError(q) = y
      BY <1>1 DEF AfterError
    <2> HIDE DEF x
    <2>3. Kept(y, q) /\ y.pc = "get" /\ y.to = "failed"
      BY <2>1 DEF Kept, Requests
    <2> QED
      BY <1>1, <2>2, <2>3
  <1>2. CASE ~(q.to = "done" /\ q.row.type # "upgrade")
    BY <1>2, GotoKept DEF AfterError, End, Pcs
  <1> QED
    BY <1>1, <1>2

\* Generated tasks go on, the others wait for their approval.
LEMMA AfterCreateKept ==
    ASSUME NEW q \in Requests
    PROVE  LET q2 == AfterCreate(q) IN
           /\ Kept(q2, q)
           /\ \/ q2.pc \in {"auditCreate", "end"} /\ q2.to = q.to
              \/ q2.pc = "get" /\ q2.to = "generating" /\ q.op \in Gen
  <1>1. Kept(Goto(q, "auditCreate"), q) /\ Goto(q, "auditCreate").pc = "auditCreate"
        /\ Goto(q, "auditCreate").to = q.to
    BY GotoKept DEF Pcs
  <1>2. Kept(Goto(q, "end"), q) /\ Goto(q, "end").pc = "end"
        /\ Goto(q, "end").to = q.to
    BY GotoKept DEF Pcs
  <1>3. /\ Kept(Call(q, "generating"), q) /\ Call(q, "generating").pc = "get"
        /\ Call(q, "generating").to = "generating"
    BY CallKept DEF Status
  <1> QED
    BY <1>1, <1>2, <1>3 DEF AfterCreate, End, Gen

\* Without approval an applied document is approved by its own request.
LEMMA AfterAuditCreateKept ==
    ASSUME NEW q \in Requests
    PROVE  LET q2 == AfterAuditCreate(q) IN
           /\ Kept(q2, q)
           /\ \/ q2.pc = "end" /\ q2.to = q.to
              \/ q2.pc = "get" /\ q2.to = "generating" /\ q.op \in Gen
              \/ q2.pc = "get" /\ q2.to = "applying"
  <1>1. Kept(Goto(q, "end"), q) /\ Goto(q, "end").pc = "end"
        /\ Goto(q, "end").to = q.to
    BY GotoKept DEF Pcs
  <1>2. ASSUME NEW to \in Status
        PROVE  Kept(Call(q, to), q) /\ Call(q, to).pc = "get" /\ Call(q, to).to = to
    BY CallKept
  <1> QED
    BY <1>1, <1>2 DEF AfterAuditCreate, End, Gen, Status

\* The dispatch goes on with the next collector or ends.
LEMMA AfterTargetKept ==
    ASSUME NEW q \in Requests
    PROVE  LET q2 == AfterTarget(q) IN
           /\ Kept(q2, q)
           /\ \/ q2.pc = "push" /\ q2.to = q.to
              \/ q2.pc = "auditDone" /\ q2.to = q.to /\ q.todo = {}
              \/ q2.pc = "get" /\ q2.to = "done" /\ q.todo = {}
  <1>1. ASSUME NEW pc \in {"push", "auditDone"}
        PROVE  Kept(Goto(q, pc), q) /\ Goto(q, pc).pc = pc /\ Goto(q, pc).to = q.to
    BY GotoKept DEF Pcs
  <1>2. Kept(Call(q, "done"), q) /\ Call(q, "done").pc = "get" /\ Call(q, "done").to = "done"
    BY CallKept DEF Status
  <1> QED
    BY <1>1, <1>2 DEF AfterTarget

\* The note about a missing confirmation is the last write but for its audit row.
LEMMA AfterNoteKept ==
    ASSUME NEW q \in Requests
    PROVE  /\ Kept(AfterNote(q), q) /\ AfterNote(q).to = q.to
           /\ AfterNote(q).pc \in {"auditUnconfirmed", "end"}
  BY GotoKept DEF AfterNote, End, Pcs

-----------------------------------------------------------------------------
(* The initial state and arriving requests.                                 *)

\* A request that has not come in knows nothing.
LEMMA InitDispatch == Init => DispatchInv
  <1> SUFFICES ASSUME Init PROVE DispatchInv
    OBVIOUS
  <1>1. \A r \in Request : req[r] = NoRequest
    BY DEF Init
  <1>2. ASSUME NEW r PROVE Handling(NoRequest, r, tasks, audits, versions, faults)
    BY DEF Handling, Shape, Decided, Audited, Recording, NoRequest, CreatedWhole, Absent, Row,
           Generating, Past, Gen
  <1>3. \A t \in Task : Stored(tasks[t], versions, faults)
    BY DEF Init, Stored, Absent, Row
  <1> QED
    BY <1>1, <1>2, <1>3 DEF Init, DispatchInv

\* A request that comes in.
LEMMA BeginDispatch ==
    ASSUME Inv, DispatchInv, NEW r \in Request, NEW q, Begin(r, q),
           Handling(q, r, tasks, audits, versions, faults)
    PROVE  DispatchInv'
  BY LocalDispatch DEF Begin, Continue

\* What the creating requests start with.
LEMMA CreatingHandling ==
    ASSUME NEW op \in Ops \ {"push_now"}, NEW row, NEW r, NEW tk, NEW au, NEW ve, NEW fl,
           op \in Gen => ~CreatedWhole(row),
           row.type # "rollback" => row.version = NoYaml,
           row.status \in {"pending", "awaiting_approval"}
    PROVE  Handling(Creating(op, row), r, tk, au, ve, fl)
  <1> DEFINE x == Creating(op, row)
  <1>1. /\ x.op = op /\ x.row = row /\ x.pc = "create" /\ x.task = "none"
        /\ x.late = FALSE /\ x.live = TRUE
    BY DEF Creating, NoRequest
  <1> HIDE DEF x
  <1>2. Handling(x, r, tk, au, ve, fl)
    BY <1>1 DEF Handling, Shape, Decided, Audited, Recording, Generating
  <1> QED
    BY <1>2 DEF x

\* A request that creates a task starts with the row it will write.
LEMMA CreationDispatch ==
    ASSUME Inv, DispatchInv, NEW r \in Request,
           \/ Generate(r) \/ Optimize(r) \/ Upgrade(r) \/ Apply(r) \/ Rollback(r) \/ GitRollback(r)
    PROVE  DispatchInv'
  <1>1. SUFFICES ASSUME NEW op \in Ops \ {"push_now"}, NEW row,
                        op \in Gen => ~CreatedWhole(row),
                        row.type # "rollback" => row.version = NoYaml,
                        row.status \in {"pending", "awaiting_approval"},
                        Begin(r, Creating(op, row))
                 PROVE  DispatchInv'
    <2>1. ASSUME NEW type \in {"generate", "optimize", "upgrade", "apply"},
                 NEW st, NEW y, NEW g
          PROVE  LET row == Row(type, st, y, g, NoYaml) IN
                 /\ row.version = NoYaml /\ row.status = st
                 /\ CreatedWhole(row) => type = "apply"
      BY DEF Row, CreatedWhole
    <2>2. ASSUME NEW y, NEW g, NEW v
          PROVE  LET row == Row("rollback", "awaiting_approval", y, g, v) IN
                 row.type = "rollback" /\ row.status = "awaiting_approval"
      BY DEF Row
    <2>3. {"generate", "optimize", "upgrade", "apply", "rollback", "git_rollback"}
             \subseteq Ops \ {"push_now"}
      BY DEF Ops
    <2>4. CASE Generate(r)
      BY <1>1, <2>1, <2>3, <2>4 DEF Generate
    <2>5. CASE Optimize(r)
      BY <1>1, <2>1, <2>3, <2>5 DEF Optimize
    <2>6. CASE Upgrade(r)
      BY <1>1, <2>1, <2>3, <2>6 DEF Upgrade
    <2>7. CASE Apply(r)
      BY <1>1, <2>1, <2>3, <2>7 DEF Apply, Gen
    <2>8. CASE Rollback(r)
      BY <1>1, <2>2, <2>3, <2>8 DEF Rollback, Gen
    <2>9. CASE GitRollback(r)
      BY <1>1, <2>2, <2>3, <2>9 DEF GitRollback, Gen
    <2> QED
      BY <2>4, <2>5, <2>6, <2>7, <2>8, <2>9
  <1> QED
    BY <1>1, CreatingHandling, BeginDispatch

\* apply_config works on no task.
LEMMA PushNowDispatch ==
    ASSUME Inv, DispatchInv, NEW r \in Request, PushNow(r) PROVE DispatchInv'
  <1>1. PICK g \in Target, y \in Yaml :
           Begin(r, [NoRequest EXCEPT !.op = "push_now", !.pc = "push",
                                      !.yaml = y, !.todo = Members[g]])
    BY DEF PushNow
  <1> DEFINE x == [NoRequest EXCEPT !.op = "push_now", !.pc = "push",
                                    !.yaml = y, !.todo = Members[g]]
  <1>2. /\ x.op = "push_now" /\ x.row = Absent /\ x.pc = "push" /\ x.task = "none"
        /\ x.late = FALSE /\ x.live = TRUE
    BY DEF NoRequest
  <1>3. Begin(r, x)
    BY <1>1
  <1> HIDE DEF x
  <1>4. Absent.type = "none" /\ Absent.version = NoYaml
    BY DEF Absent, Row
  <1>5. Handling(x, r, tasks, audits, versions, faults)
    BY <1>2, <1>4
       DEF Handling, Shape, Decided, Audited, Recording, Generating, Gen, CreatedWhole
  <1> QED
    BY <1>3, <1>5, BeginDispatch

\* A decision that comes in when the row says rejected can lead to nothing.
LEMMA DecideDispatch ==
    ASSUME Inv, DispatchInv, NEW r \in Request, Approve(r) \/ Reject(r) PROVE DispatchInv'
  <1>1. PICK op \in {"approve", "reject", "reject_tool"}, to \in {"applying", "rejected"},
             t \in Task :
           /\ tasks[t] # Absent
           /\ Begin(r, [Call(NoRequest, to) EXCEPT !.op = op, !.task = t,
                            !.late = (tasks[t].status = "rejected")])
    BY DEF Approve, Reject, Decide
  <1> DEFINE l == tasks[t].status = "rejected"
             x == [Call(NoRequest, to) EXCEPT !.op = op, !.task = t, !.late = l]
  <1>2. Begin(r, x)
    BY <1>1
  <1>3. l \in BOOLEAN /\ (l => tasks[t].status = "rejected")
    OBVIOUS
  <1> HIDE DEF l
  <1>4. NoRequest \in Requests /\ NoRequest.row = Absent /\ NoRequest.live
    BY DEF NoRequest, Requests, Pcs
  <1>5. /\ x.op = op /\ x.row = Absent /\ x.pc = "get" /\ x.task = t /\ x.to = to
        /\ x.late = l /\ x.live
    BY <1>4 DEF Call, Goto, Requests
  <1> HIDE DEF x
  <1>6. Absent.type = "none" /\ Absent.version = NoYaml
    BY DEF Absent, Row
  <1>7. t # "none"
    BY LifecycleAssumption
  <1>8. Shape(x, tasks)
    BY <1>1, <1>5, <1>6, <1>7 DEF Shape, Generating, Gen, CreatedWhole
  <1>9. Decided(x, tasks)
    BY <1>3, <1>5 DEF Decided, Past
  <1>10. Audited(x, r, audits, faults) /\ Recording(x, tasks, versions, faults)
    BY <1>5 DEF Audited, Recording
  <1> QED
    BY <1>2, <1>8, <1>9, <1>10, BeginDispatch DEF Handling

-----------------------------------------------------------------------------
(* Steps that leave the rows alone.                                         *)

\* Faults are only counted up.
LEMMA FaultsGrow ==
    ASSUME Inv, NEW r \in Request,
           StoreOk(r) \/ StoreError(r) \/ UNCHANGED faults
              \/ (\E kind \in FaultKinds : Fault(kind))
    PROVE  faults' = 0 => faults = 0
  BY LifecycleAssumption DEF Inv, HistoryOK, StoreOk, StoreError, Fault

\* Without a fault no statement of a handler fails.
LEMMA ErrorIsFault ==
    ASSUME Inv, DispatchInv, NEW r \in Request, StoreError(r)
    PROVE  faults' # 0
  <1>1. faults \in Nat
    BY LifecycleAssumption DEF Inv, HistoryOK
  <1>2. faults = 0 => req[r].live
    BY DEF DispatchInv, Handling, Audited
  <1> QED
    BY <1>1, <1>2 DEF StoreError, Fault

\* What is known of the request that moves, when the audit log or the versions grow.
LEMMA ReqHandling ==
    ASSUME Inv, DispatchInv, NEW r \in Request
    PROVE  /\ req[r] \in Requests /\ PointOK(req[r], req[r].pc, Known, GrantedTo(r))
           /\ Handling(req[r], r, tasks, audits, versions, faults)
           /\ req[r].task \in Task \cup {"none"}
           /\ \A au, ve, fl : audits \subseteq au /\ versions \subseteq ve /\ (fl = 0 => faults = 0)
                 => Handling(req[r], r, tasks, au, ve, fl)
  <1>1. /\ req[r] \in Requests /\ PointOK(req[r], req[r].pc, Known, GrantedTo(r))
        /\ Handling(req[r], r, tasks, audits, versions, faults)
    BY ReqIsOK DEF DispatchInv, ReqOK
  <1>2. req[r].task \in Task \cup {"none"}
    BY <1>1 DEF Requests
  <1>3. Evolves(tasks, tasks)
    BY DEF Evolves, Fits
  <1> QED
    BY <1>1, <1>2, <1>3, HandlingMonotone

\* A quiet move that reads, writes an event, an audit row or a version.
LEMMA QuietStep ==
    ASSUME Inv, DispatchInv, NEW r \in Request, NEW q2, Continue(r, q2),
           UNCHANGED <<tasks, pushed>>, audits \subseteq audits', versions \subseteq versions',
           faults' = 0 => faults = 0,
           Kept(q2, req[r]), q2.pc \in Quiet,
           Generating(q2) => req[r].op \in Gen,
           Past(q2) /\ req[r].task # "none" /\ CreatedWhole(tasks[req[r].task]) =>
              tasks[req[r].task].status # "awaiting_approval",
           \/ q2.pc \in {"end", "gone"}
           \/ ~(req[r].late /\ req[r].task # "none" /\ CreatedWhole(tasks[req[r].task])),
           q2.pc = "get" /\ q2.to = "done" /\ faults' = 0 /\ req[r].task # "none"
              /\ CreatedWhole(tasks[req[r].task]) =>
                 RecordedBut(tasks[req[r].task], {}, versions')
    PROVE  DispatchInv'
  <1>1. Handling(req[r], r, tasks, audits', versions', faults')
    BY ReqHandling
  <1>2. Handling(q2, r, tasks, audits', versions', faults')
    BY <1>1, QuietHandling
  <1>3. q2.late = req[r].late /\ q2.task = req[r].task
    BY DEF Kept
  <1> QED
    BY <1>2, <1>3, LocalDispatch DEF Continue

\* A decision that came too late is not past its first read.
LEMMA LateWaits ==
    ASSUME Inv, DispatchInv, NEW r \in Request, req[r].pc \notin {"get", "end", "gone"}
    PROVE  ~(req[r].late /\ req[r].task # "none" /\ CreatedWhole(tasks[req[r].task]))
  BY ReqHandling DEF Handling, Decided

\* The creation event of a task starts its generation or ends the request.
LEMMA CreateEventDispatch ==
    ASSUME Inv, DispatchInv, NEW r \in Request, CreateEvent(r) PROVE DispatchInv'
  <1> DEFINE q2 == AfterCreate(req[r])
  <1>1. req[r].pc = "createEvent" /\ Continue(r, q2)
        /\ UNCHANGED <<tasks, pushed, audits, versions>>
    BY DEF CreateEvent
  <1>2. faults' = 0 => faults = 0
    BY FaultsGrow DEF CreateEvent, RecordEvent
  <1>3. /\ Kept(q2, req[r])
        /\ \/ q2.pc \in {"auditCreate", "end"}
           \/ q2.pc = "get" /\ q2.to = "generating" /\ req[r].op \in Gen
    BY ReqHandling, AfterCreateKept
  <1> HIDE DEF q2
  <1> QED
    BY <1>1, <1>2, <1>3, LateWaits, QuietStep DEF Quiet, Generating, Past

\* The audit row of a creation is followed by no dispatch of its own.
LEMMA AuditCreateDispatch ==
    ASSUME Inv, DispatchInv, NEW r \in Request, AuditCreate(r) PROVE DispatchInv'
  <1> DEFINE q2 == AfterAuditCreate(req[r])
  <1>1. req[r].pc = "auditCreate" /\ Continue(r, q2) /\ audits \subseteq audits'
        /\ UNCHANGED <<tasks, pushed, versions>>
    BY DEF AuditCreate, Audit
  <1>2. faults' = 0 => faults = 0
    BY FaultsGrow DEF AuditCreate, Audit
  <1>3. /\ Kept(q2, req[r])
        /\ \/ q2.pc = "end"
           \/ q2.pc = "get" /\ q2.to = "generating" /\ req[r].op \in Gen
           \/ q2.pc = "get" /\ q2.to = "applying"
    BY ReqHandling, AfterAuditCreateKept
  <1> HIDE DEF q2
  <1> QED
    BY <1>1, <1>2, <1>3, LateWaits, QuietStep DEF Quiet, Generating, Past

\* After a transition the status written decides what may follow.
LEMMA TransitionEventDispatch ==
    ASSUME Inv, DispatchInv, NEW r \in Request, TransitionEvent(r) PROVE DispatchInv'
  <1> DEFINE q == req[r]
             q2 == AfterOk(q)
  <1>1. q.pc = "event" /\ Continue(r, q2) /\ UNCHANGED <<tasks, pushed, audits, versions>>
    BY DEF TransitionEvent
  <1>2. faults' = 0 => faults = 0
    BY FaultsGrow DEF TransitionEvent, RecordEvent
  <1>3. /\ Kept(q2, q)
        /\ q2.pc \in {"get", "llm", "validate", "save", "auditApprove", "auditDone",
                      "errGet", "auditReject", "end"}
        /\ q2.pc \in {"get", "llm", "validate", "save"} =>
              q.to \in {"generating", "validating", "awaiting_approval"}
        /\ q2.pc = "get" => q2.to = "awaiting_approval"
    BY ReqHandling, AfterOkKept
  <1>4. Handling(q, r, tasks, audits, versions, faults)
    BY ReqHandling
  <1> HIDE DEF q2
  <1>5. Generating(q2) => q.op \in Gen
    BY <1>1, <1>3, <1>4 DEF Handling, Shape, Generating
  <1>6. q.task # "none" /\ CreatedWhole(tasks[q.task]) =>
           tasks[q.task].status # "awaiting_approval"
    BY <1>1, <1>4 DEF Handling, Decided, Past
  <1>7. q2.pc \in Quiet
    BY <1>3 DEF Quiet
  <1> QED
    BY <1>1, <1>2, <1>3, <1>5, <1>6, <1>7, LateWaits, QuietStep

\* A failed service call.
LEMMA ErrorDispatch ==
    ASSUME Inv, DispatchInv, NEW r \in Request, req[r].pc \in {"get", "put"},
           Continue(r, AfterError(req[r])),
           UNCHANGED <<tasks, pushed, audits, versions>>,
           faults' = 0 => faults = 0
    PROVE  DispatchInv'
  <1> DEFINE q == req[r]
             q2 == AfterError(q)
  <1>1. /\ Kept(q2, q)
        /\ q2.pc = "end" \/ (q2.pc = "get" /\ q2.to = "failed" /\ q.to = "done")
    BY ReqHandling, AfterErrorKept
  <1>2. Handling(q, r, tasks, audits, versions, faults)
    BY ReqHandling
  <1>3. Continue(r, q2)
    OBVIOUS
  <1> HIDE DEF q2
  <1>4. q2.pc \in Quiet /\ ~Generating(q2)
    BY <1>1 DEF Quiet, Generating
  <1>5. Past(q2) => Past(q)
    BY <1>1 DEF Past
  <1>6. q2.pc # "end" => ~(q.late /\ q.task # "none" /\ CreatedWhole(tasks[q.task]))
    BY <1>1, <1>2 DEF Handling, Decided
  <1>7. Past(q2) /\ q.task # "none" /\ CreatedWhole(tasks[q.task]) =>
           tasks[q.task].status # "awaiting_approval"
    BY <1>2, <1>5 DEF Handling, Decided
  <1> QED
    BY <1>1, <1>3, <1>4, <1>6, <1>7, QuietStep

\* The copy of the row that GetTask takes is of the row as stored.
LEMMA GetTaskDispatch ==
    ASSUME Inv, DispatchInv, NEW r \in Request, GetTask(r) PROVE DispatchInv'
  <1> DEFINE q == req[r]
  <1>1. q.pc = "get" /\ UNCHANGED <<tasks, pushed, audits, versions>>
        /\ (faults' = 0 => faults = 0)
    BY FaultsGrow DEF GetTask
  <1>2. CASE Continue(r, AfterError(q))
    BY <1>1, <1>2, ErrorDispatch
  <1>3. CASE /\ CanTransition(tasks[q.task].status, q.to)
             /\ Continue(r, [q EXCEPT !.pc = "put", !.from = tasks[q.task].status,
                                      !.row = [tasks[q.task] EXCEPT !.status = q.to]])
    <2> DEFINE a == tasks[q.task]
               row == [a EXCEPT !.status = q.to]
               q2 == [q EXCEPT !.pc = "put", !.from = a.status, !.row = row]
    <2>1. /\ q \in Requests /\ PointOK(q, "get", Known, GrantedTo(r))
          /\ Handling(q, r, tasks, audits, versions, faults)
      BY <1>1, ReqHandling
    <2>2. q.task \in Known /\ q.task \in Task /\ a \in GoodRows /\ a \in Rows
          /\ q.task # "none"
      BY <2>1, RowOfTask, LifecycleAssumption DEF PointOK, OnTask, GoodRows
    <2>3. Stored(a, versions, faults)
      BY <2>2 DEF DispatchInv
    <2>4. Continue(r, q2)
      BY <1>3
    <2>5. /\ row.type = a.type /\ row.target = a.target /\ row.version = a.version
          /\ row.yaml = a.yaml /\ row.status = q.to
      BY <2>2 DEF Rows
    <2>6. /\ q2.pc = "put" /\ q2.op = q.op /\ q2.task = q.task /\ q2.to = q.to
          /\ q2.row = row /\ q2.live = q.live /\ q2.late = q.late
      BY <2>1 DEF Requests
    <2> HIDE DEF q2, row
    <2>7. Shape(q2, tasks)
      BY <1>1, <2>1, <2>2, <2>3, <2>5, <2>6
         DEF Handling, Shape, Stored, Fits, CreatedWhole, Generating
    <2>8. Decided(q2, tasks)
      <3>1. Past(q2) => Past(q)
        BY <1>1, <2>6 DEF Past
      <3>2. ~(q.late /\ CreatedWhole(a))
        BY <1>1, <1>3, <2>1, <2>2 DEF Handling, Decided, CanTransition
      <3> QED
        BY <2>1, <2>2, <2>6, <3>1, <3>2 DEF Handling, Decided
    <2>9. Audited(q2, r, audits, faults)
      BY <2>1, <2>6 DEF Handling, Audited
    <2>10. Recording(q2, tasks, versions, faults)
      BY <1>1, <2>1, <2>6 DEF Handling, Recording
    <2>11. Handling(q2, r, tasks, audits, versions, faults)
      BY <2>7, <2>8, <2>9, <2>10 DEF Handling
    <2>12. Evolves(tasks, tasks)
      BY DEF Evolves, Fits
    <2>13. Handling(q2, r, tasks, audits', versions', faults')
      BY <1>1, <2>2, <2>6, <2>11, <2>12, HandlingMonotone
    <2> QED
      BY <1>1, <2>4, <2>6, <2>13, LocalDispatch DEF Continue
  <1> QED
    BY <1>2, <1>3 DEF GetTask

\* Content is made for tasks that are not created whole.
LEMMA GenTask ==
    ASSUME Inv, DispatchInv, NEW r \in Request, Generating(req[r])
    PROVE  /\ req[r].op \in Gen /\ req[r].task # "none"
           /\ ~CreatedWhole(tasks[req[r].task])
  <1>1. req[r].task \in Known
    BY ReqHandling DEF Generating, PointOK, OnTask
  <1> QED
    BY <1>1, ReqHandling, LifecycleAssumption DEF Handling, Shape, Known

\* The model answers only requests that generate content.
LEMMA CallModelDispatch ==
    ASSUME Inv, DispatchInv, NEW r \in Request, CallModel(r) PROVE DispatchInv'
  <1> DEFINE q == req[r]
  <1>1. q.pc = "llm" /\ UNCHANGED <<tasks, pushed, audits, versions, faults>>
    BY DEF CallModel
  <1>2. q \in Requests /\ Handling(q, r, tasks, audits, versions, faults)
    BY ReqHandling
  <1>3. q.op \in Gen /\ q.task # "none" /\ ~CreatedWhole(tasks[q.task])
    BY <1>1, GenTask DEF Generating
  <1>4. CASE Continue(r, Call(q, "failed"))
    <2> DEFINE q2 == Call(q, "failed")
    <2>1. Kept(q2, q) /\ q2.pc = "get" /\ q2.to = "failed" /\ Continue(r, q2)
      BY <1>2, <1>4, CallKept DEF Status
    <2> HIDE DEF q2
    <2> QED
      BY <1>1, <1>3, <2>1, QuietStep DEF Quiet
  <1>5. ASSUME NEW y \in ValidYaml, Continue(r, [Call(q, "validating") EXCEPT !.yaml = y])
        PROVE  DispatchInv'
    <2> DEFINE x == Call(q, "validating")
               q2 == [x EXCEPT !.yaml = y]
    <2>1. Kept(x, q) /\ x.pc = "get" /\ x.to = "validating"
      BY <1>2, CallKept DEF Status
    <2>2. Continue(r, q2)
      BY <1>5
    <2> HIDE DEF x
    <2>3. /\ q2.pc = "get" /\ q2.to = "validating" /\ q2.op = q.op /\ q2.task = q.task
          /\ q2.row = q.row /\ q2.live = q.live /\ q2.late = q.late
      BY <2>1 DEF Kept, Requests
    <2> HIDE DEF q2
    <2>4. Shape(q2, tasks)
      BY <1>2, <1>3, <2>3 DEF Handling, Shape
    <2>5. Decided(q2, tasks) /\ Recording(q2, tasks, versions, faults)
      BY <1>3, <2>3 DEF Decided, Recording
    <2>6. Audited(q2, r, audits, faults)
      BY <1>2, <2>3 DEF Handling, Audited
    <2>7. Handling(q2, r, tasks, audits', versions', faults')
      BY <1>1, <2>4, <2>5, <2>6 DEF Handling
    <2> QED
      BY <1>1, <2>2, <2>3, <2>7, LocalDispatch DEF Continue
  <1> QED
    BY <1>4, <1>5 DEF CallModel

\* The second validation leads to approval or failure.
LEMMA RevalidateDispatch ==
    ASSUME Inv, DispatchInv, NEW r \in Request, Revalidate(r) PROVE DispatchInv'
  <1> DEFINE q == req[r]
  <1>1. q.pc = "validate" /\ UNCHANGED <<tasks, pushed, audits, versions, faults>>
    BY DEF Revalidate
  <1>2. q.op \in Gen /\ q.task # "none" /\ ~CreatedWhole(tasks[q.task])
    BY <1>1, GenTask DEF Generating
  <1>3. PICK to \in {"awaiting_approval", "failed"} : Continue(r, Call(q, to))
    BY DEF Revalidate
  <1> DEFINE q2 == Call(q, to)
  <1>4. Kept(q2, q) /\ q2.pc = "get" /\ q2.to = to /\ Continue(r, q2)
    BY <1>3, ReqHandling, CallKept DEF Status
  <1> HIDE DEF q2
  <1> QED
    BY <1>1, <1>2, <1>4, QuietStep DEF Quiet

\* The row that the note is added to is not awaiting approval, if it was created whole.
LEMMA ErrorGetDispatch ==
    ASSUME Inv, DispatchInv, NEW r \in Request, ErrorGet(r) PROVE DispatchInv'
  <1> DEFINE q == req[r]
  <1>1. q.pc = "errGet" /\ UNCHANGED <<tasks, pushed, audits, versions>>
        /\ (faults' = 0 => faults = 0)
    BY FaultsGrow DEF ErrorGet
  <1>2. /\ q \in Requests /\ PointOK(q, "errGet", Known, GrantedTo(r))
        /\ Handling(q, r, tasks, audits, versions, faults)
    BY <1>1, ReqHandling
  <1>3. CASE Continue(r, AfterNote(q))
    <2> DEFINE q2 == AfterNote(q)
    <2>1. Kept(q2, q) /\ q2.pc \in {"auditUnconfirmed", "end"} /\ Continue(r, q2)
      BY <1>2, <1>3, AfterNoteKept
    <2> HIDE DEF q2
    <2> QED
      BY <1>1, <2>1, LateWaits, QuietStep DEF Quiet, Generating, Past
  <1>4. CASE Continue(r, [Goto(q, "errPut") EXCEPT
                              !.row = [tasks[q.task] EXCEPT !.error = TRUE]])
    <2> DEFINE a == tasks[q.task]
               row == [a EXCEPT !.error = TRUE]
               x == Goto(q, "errPut")
               q2 == [x EXCEPT !.row = row]
    <2>1. q.task \in Known /\ q.task \in Task /\ a \in GoodRows /\ a \in Rows
          /\ q.task # "none"
      BY <1>2, RowOfTask, LifecycleAssumption DEF PointOK, OnTask, GoodRows
    <2>2. Stored(a, versions, faults)
      BY <2>1 DEF DispatchInv
    <2>3. /\ row.type = a.type /\ row.target = a.target /\ row.version = a.version
          /\ row.yaml = a.yaml /\ row.status = a.status
      BY <2>1 DEF Rows
    <2>4. Continue(r, q2)
      BY <1>4
    <2>5. Kept(x, q) /\ x.pc = "errPut" /\ x.to = q.to
      BY <1>2, GotoKept DEF Pcs
    <2> HIDE DEF x, row
    <2>6. /\ q2.pc = "errPut" /\ q2.op = q.op /\ q2.task = q.task /\ q2.to = q.to
          /\ q2.row = row /\ q2.live = q.live /\ q2.late = q.late
      BY <2>5 DEF Kept, Requests
    <2> HIDE DEF q2
    <2>7. Shape(q2, tasks)
      BY <1>2, <2>1, <2>2, <2>3, <2>6
         DEF Handling, Shape, Stored, Fits, CreatedWhole, Generating
    <2>8. Decided(q2, tasks)
      BY <1>1, <1>2, <2>1, <2>3, <2>6 DEF Handling, Decided, Past
    <2>9. Audited(q2, r, audits, faults)
      BY <1>2, <2>6 DEF Handling, Audited
    <2>10. Recording(q2, tasks, versions, faults)
      BY <2>1, <2>2, <2>3, <2>6 DEF Recording, Stored
    <2>11. Handling(q2, r, tasks, audits, versions, faults)
      BY <2>7, <2>8, <2>9, <2>10 DEF Handling
    <2>12. Evolves(tasks, tasks)
      BY DEF Evolves, Fits
    <2>13. Handling(q2, r, tasks, audits', versions', faults')
      BY <1>1, <2>1, <2>6, <2>11, <2>12, HandlingMonotone
    <2> QED
      BY <1>1, <2>4, <2>6, <2>13, LocalDispatch DEF Continue
  <1> QED
    BY <1>3, <1>4 DEF ErrorGet

\* The audit rows that end a request.
LEMMA LastAuditsDispatch ==
    ASSUME Inv, DispatchInv, NEW r \in Request,
           AuditDone(r) \/ AuditUnconfirmed(r) \/ AuditReject(r)
    PROVE  DispatchInv'
  <1> DEFINE q == req[r]
  <1>1. PICK action, q2 : /\ Audit(r, action, q2)
                          /\ q.pc \in {"auditDone", "auditUnconfirmed", "auditReject"}
                          /\ q2 = End(q) \/ (q.pc = "auditDone" /\ q2 = Goto(q, "errGet"))
    BY DEF AuditDone, AuditUnconfirmed, AuditReject
  <1>2. /\ Continue(r, q2) /\ audits \subseteq audits' /\ UNCHANGED <<tasks, pushed, versions>>
        /\ (faults' = 0 => faults = 0)
    BY <1>1, FaultsGrow DEF Audit
  <1>3. /\ Kept(q2, q)
        /\ q2.pc = "end" \/ (q.pc = "auditDone" /\ q2.pc = "errGet")
    BY <1>1, ReqHandling, GotoKept DEF End, Pcs
  <1>4. q.pc = "auditDone" /\ q.task # "none" /\ CreatedWhole(tasks[q.task]) =>
           tasks[q.task].status # "awaiting_approval"
    BY ReqHandling DEF Handling, Decided, Past
  <1> QED
    BY <1>1, <1>2, <1>3, <1>4, LateWaits, QuietStep DEF Quiet, Generating, Past

\* A cancelled request keeps what it knows, but for being live.
LEMMA CancelDispatch ==
    ASSUME Inv, DispatchInv, NEW r \in Request, Cancel(r) PROVE DispatchInv'
  <1> DEFINE q == req[r]
             q2 == [q EXCEPT !.live = FALSE]
  <1>1. Continue(r, q2) /\ UNCHANGED <<tasks, pushed, audits, versions>> /\ faults' # 0
    BY LifecycleAssumption DEF Cancel, Fault, Inv, HistoryOK
  <1>2. q \in Requests /\ Handling(q, r, tasks, audits, versions, faults)
    BY ReqHandling
  <1>3. /\ q2.pc = q.pc /\ q2.op = q.op /\ q2.task = q.task /\ q2.to = q.to
        /\ q2.row = q.row /\ q2.late = q.late
    BY <1>2 DEF Requests
  <1> HIDE DEF q2
  <1>4. Shape(q2, tasks) /\ Decided(q2, tasks)
    BY <1>2, <1>3 DEF Handling, Shape, Decided, Generating, Past
  <1>5. Handling(q2, r, tasks, audits', versions', faults')
    BY <1>1, <1>4 DEF Handling, Audited, Recording
  <1> QED
    BY <1>1, <1>3, <1>5, LocalDispatch DEF Continue

\* What happened before a crash stays as it was.
LEMMA CrashDispatch ==
    ASSUME Inv, DispatchInv, Crash PROVE DispatchInv'
  <1>1. faults' # 0 /\ UNCHANGED <<tasks, pushed, audits, versions>>
    BY LifecycleAssumption DEF Crash, Fault, Inv, HistoryOK
  <1>2. ASSUME NEW r \in Request
        PROVE  /\ Handling(req'[r], r, tasks', audits', versions', faults')
               /\ req'[r].late = req[r].late /\ req'[r].task = req[r].task
    <2> DEFINE q == req[r]
               q2 == req'[r]
    <2>1. q \in Requests /\ Handling(q, r, tasks, audits, versions, faults)
      BY ReqHandling
    <2>2. /\ q2.pc \in {q.pc, "gone"} /\ q2.op = q.op /\ q2.task = q.task /\ q2.to = q.to
          /\ q2.row = q.row /\ q2.late = q.late
      <3>1. q2 = q \/ q2 = Goto(q, "gone")
        BY DEF Crash
      <3>2. Kept(Goto(q, "gone"), q) /\ Goto(q, "gone").pc = "gone" /\ Goto(q, "gone").to = q.to
        BY <2>1, GotoKept DEF Pcs
      <3> QED
        BY <3>1, <3>2 DEF Kept
    <2> HIDE DEF q2
    <2>3. Shape(q2, tasks) /\ Decided(q2, tasks)
      BY <2>1, <2>2 DEF Handling, Shape, Decided, Generating, Past
    <2>4. Handling(q2, r, tasks', audits', versions', faults')
      BY <1>1, <2>3 DEF Handling, Audited, Recording
    <2> QED
      BY <2>2, <2>4 DEF q2
  <1>3. \A t \in Task : Stored(tasks'[t], versions', faults')
    BY <1>1 DEF DispatchInv, Stored
  <1>4. ASSUME NEW p \in pushed PROVE PushKnown(p, req', tasks', audits', faults')
    <2>1. p.req \in Request /\ PushKnown(p, req, tasks, audits, faults)
      BY DEF Inv, DispatchInv
    <2>2. req'[p.req].late = req[p.req].late /\ req'[p.req].task = req[p.req].task
      BY <1>2, <2>1
    <2> QED
      BY <1>1, <2>1, <2>2 DEF PushKnown
  <1> QED
    BY <1>1, <1>2, <1>3, <1>4 DEF DispatchInv

-----------------------------------------------------------------------------
(* The dispatch.                                                            *)

\* The request goes on with the same task, row and history.
Moved(q2, q) ==
    /\ q2.op = q.op /\ q2.task = q.task /\ q2.row = q.row
    /\ q2.live = q.live /\ q2.late = q.late

\* Send starts the loop over the collectors.
LEMMA SendMoved ==
    ASSUME NEW q \in Requests, NEW yaml \in Yaml, NEW todo \in SUBSET Collector
    PROVE  LET q2 == Send(q, yaml, todo) IN
           /\ Moved(q2, q) /\ q2.to = q.to
           /\ q2.pc = "push" /\ q2.yaml = yaml /\ q2.todo = todo
  <1> DEFINE x == Goto(q, "push")
             q2 == [x EXCEPT !.yaml = yaml, !.todo = todo]
  <1>1. Kept(x, q) /\ x.pc = "push" /\ x.to = q.to
    BY GotoKept DEF Pcs
  <1>2. Send(q, yaml, todo) = q2
    BY DEF Send
  <1> HIDE DEF x
  <1>3. Moved(q2, q) /\ q2.to = q.to /\ q2.pc = "push" /\ q2.yaml = yaml /\ q2.todo = todo
    BY <1>1 DEF Kept, Moved, Requests
  <1> QED
    BY <1>2, <1>3

\* The steps of the dispatch of a task: what is left to show of the new state.
LEMMA DispatchGoesOn ==
    ASSUME Inv, DispatchInv, NEW r \in Request, NEW q2, Continue(r, q2),
           Moved(q2, req[r]),
           req[r].pc \in {"auditApprove", "resolve", "lookup", "push", "version"},
           UNCHANGED tasks, audits \subseteq audits', versions \subseteq versions',
           \A p \in pushed' :
              p \in pushed \/ (req[r].pc = "push" /\ p.req = r /\ p.task = req[r].task),
           faults' = 0 => faults = 0,
           /\ q2.pc \in {"resolve", "lookup", "push", "version", "auditDone", "get", "end"}
           /\ q2.pc = "get" => q2.to \in {"done", "failed"},
           q2.pc \in {"resolve", "lookup", "push", "version"} =>
              Audited(q2, r, audits', faults'),
           Recording(q2, tasks, versions', faults')
    PROVE  DispatchInv'
  <1> DEFINE q == req[r]
  <1>1. Handling(q, r, tasks, audits', versions', faults')
    BY ReqHandling
  <1>2. ~(q.late /\ q.task # "none" /\ CreatedWhole(tasks[q.task]))
    BY LateWaits
  <1>3. Shape(q2, tasks)
    BY <1>1 DEF Handling, Shape, Moved, Generating
  <1>4. q.task # "none" /\ CreatedWhole(tasks[q.task]) =>
           tasks[q.task].status # "awaiting_approval"
    BY <1>1 DEF Handling, Decided, Past
  <1>5. Decided(q2, tasks)
    BY <1>2, <1>4 DEF Decided, Moved
  <1>6. Audited(q2, r, audits', faults')
    BY <1>1 DEF Handling, Audited, Moved
  <1>7. Handling(q2, r, tasks, audits', versions', faults')
    BY <1>3, <1>5, <1>6 DEF Handling
  <1>8. ASSUME NEW p \in pushed', p \notin pushed
        PROVE  PushKnown(p, req', tasks', audits', faults')
    <2>1. q.pc = "push" /\ p.req = r /\ p.task = q.task
      BY <1>8
    <2>2. req'[r] = q2
      BY DEF Continue, Inv
    <2>3. q.op = "push_now" => q.task = "none"
      BY ReqHandling DEF PointOK
    <2>4. faults' = 0 /\ q.task # "none" => <<"approve", q.task, r>> \in audits'
      BY <1>1, <2>1, <2>3 DEF Handling, Audited
    <2>5. /\ q.task # "none" => tasks[q.task] # Absent
          /\ q.late => q.task # "none"
      BY <1>1 DEF Handling, Shape
    <2> QED
      BY <1>2, <2>1, <2>2, <2>4, <2>5 DEF PushKnown, Moved
  <1>9. \A t \in Task : Stored(tasks'[t], versions', faults')
    BY DEF DispatchInv, Stored, RecordedBut
  <1>10. Evolves(tasks, tasks')
    BY DEF Evolves, Fits
  <1>11. Handling(q2, r, tasks', audits', versions', faults')
    BY <1>7
  <1> QED
    BY <1>8, <1>9, <1>10, <1>11, DispatchStep DEF Moved, Continue

\* The same, when nothing is pushed.
LEMMA DispatchMove ==
    ASSUME Inv, DispatchInv, NEW r \in Request, NEW q2, Continue(r, q2),
           Moved(q2, req[r]),
           req[r].pc \in {"auditApprove", "resolve", "lookup", "push", "version"},
           UNCHANGED <<tasks, pushed>>, audits \subseteq audits', versions \subseteq versions',
           faults' = 0 => faults = 0,
           /\ q2.pc \in {"resolve", "lookup", "push", "version", "auditDone", "get", "end"}
           /\ q2.pc = "get" => q2.to \in {"done", "failed"},
           q2.pc \in {"resolve", "lookup", "push", "version"} =>
              Audited(q2, r, audits', faults'),
           Recording(q2, tasks, versions', faults')
    PROVE  DispatchInv'
  <1>1. UNCHANGED tasks
    OBVIOUS
  <1>2. \A p \in pushed' :
              p \in pushed \/ (req[r].pc = "push" /\ p.req = r /\ p.task = req[r].task)
    OBVIOUS
  <1> QED
    BY <1>1, <1>2, DispatchGoesOn

\* The row a handler holds when it dispatches is the row as stored.
LEMMA HeldRow ==
    ASSUME Inv, DispatchInv, NEW r \in Request,
           req[r].pc \in {"auditApprove", "resolve", "lookup"}
    PROVE  /\ req[r].row \in GoodRows /\ req[r].row \in Rows
           /\ req[r].task \in Task /\ req[r].task # "none"
           /\ Fits(req[r].row, tasks[req[r].task])
           /\ req[r].row.type # "rollback" => req[r].row.version = NoYaml
  <1> DEFINE q == req[r]
  <1>1. q.row \in GoodRows /\ q.row \in Rows /\ q.task \in Known
    BY ReqHandling DEF PointOK, HoldsRow, OnTask, GoodRows
  <1>2. q.row # Absent
    BY <1>1 DEF Rows, Types, Absent, Row
  <1>3. q.task \in Task /\ q.task # "none"
    BY <1>1, LifecycleAssumption DEF Known
  <1> QED
    BY <1>1, <1>2, <1>3, ReqHandling DEF Handling, Shape

\* By type of the task, and only with content.
LEMMA AfterApprovalMoved ==
    ASSUME NEW q \in Requests, q.row \in GoodRows
    PROVE  LET q2 == AfterApproval(q) IN
           /\ Moved(q2, q) /\ q2.yaml \in {q.yaml, q.row.yaml}
           /\ q2.pc = "get" \/ q2.to = q.to
           /\ \/ q2.pc = "end"
              \/ q2.pc = "get" /\ q2.to = "done" /\ q.row.type = "upgrade"
              \/ q2.pc = "lookup" /\ q.row.type = "rollback" /\ q.row.version # NoYaml
              \/ /\ q2.pc = "push" /\ q.row.type = "rollback" /\ q.row.version = NoYaml
                 /\ q2.yaml = q.row.yaml /\ q2.todo = {q.row.target}
              \/ q2.pc = "resolve" /\ q.row.type # "rollback" /\ q2.yaml = q.row.yaml
  <1> DEFINE P(q2) ==
           /\ Moved(q2, q) /\ q2.yaml \in {q.yaml, q.row.yaml}
           /\ q2.pc = "get" \/ q2.to = q.to
           /\ \/ q2.pc = "end"
              \/ q2.pc = "get" /\ q2.to = "done" /\ q.row.type = "upgrade"
              \/ q2.pc = "lookup" /\ q.row.type = "rollback" /\ q.row.version # NoYaml
              \/ /\ q2.pc = "push" /\ q.row.type = "rollback" /\ q.row.version = NoYaml
                 /\ q2.yaml = q.row.yaml /\ q2.todo = {q.row.target}
              \/ q2.pc = "resolve" /\ q.row.type # "rollback" /\ q2.yaml = q.row.yaml
  <1>0. q.row.yaml \in ValidYaml \cup {NoYaml} /\ ValidYaml \subseteq Yaml
        /\ (q.row.type = "rollback" => q.row.target \in Collector)
    BY LifecycleAssumption DEF GoodRows
  <1>1. P(Goto(q, "end"))
    BY GotoKept DEF Pcs, Kept, Moved
  <1>2. q.row.type = "upgrade" => P(Call(q, "done"))
    BY CallKept DEF Status, Kept, Moved
  <1>3. q.row.type = "rollback" /\ q.row.version # NoYaml => P(Goto(q, "lookup"))
    BY GotoKept DEF Pcs, Kept, Moved
  <1>4. q.row.type = "rollback" /\ q.row.version = NoYaml /\ q.row.yaml # NoYaml =>
           P(Send(q, q.row.yaml, {q.row.target}))
    BY <1>0, SendMoved
  <1>5. q.row.type \notin {"upgrade", "rollback"} /\ q.row.yaml # NoYaml =>
           P([Goto(q, "resolve") EXCEPT !.yaml = q.row.yaml])
    <2> DEFINE x == Goto(q, "resolve")
               q2 == [x EXCEPT !.yaml = q.row.yaml]
    <2>1. Kept(x, q) /\ x.pc = "resolve" /\ x.to = q.to
      BY GotoKept DEF Pcs
    <2> HIDE DEF x
    <2>2. Moved(q2, q) /\ q2.to = q.to /\ q2.pc = "resolve" /\ q2.yaml = q.row.yaml
      BY <2>1 DEF Kept, Moved, Requests
    <2> QED
      BY <2>2 DEF x
  <1> HIDE DEF P
  <1>6. P(AfterApproval(q))
    BY <1>1, <1>2, <1>3, <1>4, <1>5, Zenon DEF AfterApproval, End
  <1> QED
    BY <1>6 DEF P

\* The approval is audited before anything of the dispatch is known.
LEMMA AuditApproveDispatch ==
    ASSUME Inv, DispatchInv, NEW r \in Request, AuditApprove(r) PROVE DispatchInv'
  <1> DEFINE q == req[r]
             q2 == AfterApproval(q)
             a == tasks[q.task]
  <1>1. /\ q.pc = "auditApprove" /\ Continue(r, q2) /\ audits \subseteq audits'
        /\ UNCHANGED <<tasks, pushed, versions>>
        /\ (faults' = 0 => faults = 0)
    BY FaultsGrow DEF AuditApprove, Audit
  <1>2. faults' = 0 => q.live /\ <<"approve", q.task, r>> \in audits'
    <2>1. faults' = 0 => ~StoreError(r)
      BY ErrorIsFault
    <2>2. faults' = 0 => q.live
      BY <1>1, ReqHandling DEF Handling, Audited
    <2> QED
      BY <2>1, <2>2 DEF AuditApprove, Audit
  <1>3. /\ q.row \in GoodRows /\ q.task # "none" /\ Fits(q.row, a)
        /\ q.row.type # "rollback" => q.row.version = NoYaml
    BY <1>1, HeldRow
  <1>4. q \in Requests
    BY ReqHandling
  <1>5. /\ Moved(q2, q)
        /\ \/ q2.pc = "end"
           \/ q2.pc = "get" /\ q2.to = "done" /\ q.row.type = "upgrade"
           \/ q2.pc = "lookup" /\ q.row.type = "rollback" /\ q.row.version # NoYaml
           \/ /\ q2.pc = "push" /\ q.row.type = "rollback" /\ q.row.version = NoYaml
              /\ q2.yaml = q.row.yaml /\ q2.todo = {q.row.target}
           \/ q2.pc = "resolve" /\ q.row.type # "rollback" /\ q2.yaml = q.row.yaml
    BY <1>3, <1>4, AfterApprovalMoved
  <1> HIDE DEF q2
  <1>6. Audited(q2, r, audits', faults')
    BY <1>2, <1>5 DEF Audited, Moved
  <1>7. Recording(q2, tasks, versions', faults')
    <2> SUFFICES ASSUME CreatedWhole(a) PROVE Recording(q2, tasks, versions', faults')
      BY <1>5 DEF Recording, Moved
    <2>1. /\ a.yaml = q.row.yaml /\ a.version = q.row.version /\ a.target = q.row.target
          /\ a.type = q.row.type /\ a.type \in {"apply", "rollback"}
      BY <1>3 DEF Fits, CreatedWhole
    <2>2. q2.task = q.task /\ q2.row = q.row
      BY <1>5 DEF Moved
    <2>3. CASE q2.pc = "push"
      <3>1. q2.yaml = Content(a) /\ Receivers(a) = q2.todo
        BY <1>5, <2>1, <2>3 DEF Content, Receivers
      <3>2. RecordedBut(a, q2.todo, versions')
        BY <3>1 DEF RecordedBut
      <3> QED
        BY <2>2, <2>3, <3>1, <3>2 DEF Recording
    <2>4. CASE q2.pc = "resolve"
      <3>1. q2.yaml = Content(a)
        BY <1>3, <1>5, <2>1, <2>4 DEF Content
      <3> QED
        BY <1>5, <2>2, <2>4, <3>1 DEF Recording
    <2>5. CASE q2.pc \in {"end", "get", "lookup"}
      <3>1. ~(q2.pc = "get")
        BY <1>5, <2>1, <2>5
      <3> QED
        BY <1>5, <2>2, <2>5, <3>1 DEF Recording
    <2> QED
      BY <1>5, <2>3, <2>4, <2>5
  <1> QED
    BY <1>1, <1>5, <1>6, <1>7, DispatchMove

\* The collectors of the loop are the receivers of the row.
LEMMA ResolveDispatch ==
    ASSUME Inv, DispatchInv, NEW r \in Request, Resolve(r) PROVE DispatchInv'
  <1> DEFINE q == req[r]
             a == tasks[q.task]
  <1>1. /\ q.pc = "resolve" /\ UNCHANGED <<tasks, pushed, audits, versions>>
        /\ (faults' = 0 => faults = 0)
    BY FaultsGrow DEF Resolve
  <1>2. /\ q.row \in Rows /\ q.task # "none" /\ Fits(q.row, a)
    BY <1>1, HeldRow
  <1>3. /\ q \in Requests /\ q.yaml \in Yaml
        /\ Handling(q, r, tasks, audits', versions', faults')
    BY <1>1, ReqHandling, LifecycleAssumption DEF PointOK, Sending
  <1>4. CASE Continue(r, Call(q, "failed"))
    <2> DEFINE q2 == Call(q, "failed")
    <2>1. Kept(q2, q) /\ q2.pc = "get" /\ q2.to = "failed" /\ Continue(r, q2)
      BY <1>3, <1>4, CallKept DEF Status
    <2> HIDE DEF q2
    <2> QED
      BY <1>1, <2>1, DispatchMove DEF Kept, Moved, Recording
  <1>5. CASE Continue(r, Send(q, q.yaml, Members[q.row.target]))
    <2> DEFINE q2 == Send(q, q.yaml, Members[q.row.target])
    <2>1. Members[q.row.target] \in SUBSET Collector
      BY <1>2, LifecycleAssumption DEF Rows
    <2>2. /\ Moved(q2, q) /\ q2.pc = "push" /\ q2.yaml = q.yaml
          /\ q2.todo = Members[q.row.target] /\ Continue(r, q2)
      BY <1>3, <1>5, <2>1, SendMoved
    <2> HIDE DEF q2
    <2>3. Audited(q2, r, audits', faults')
      BY <1>1, <1>3, <2>2 DEF Handling, Audited, Moved
    <2>4. Recording(q2, tasks, versions', faults')
      <3> SUFFICES ASSUME faults' = 0, CreatedWhole(a)
                   PROVE  Recording(q2, tasks, versions', faults')
        BY <2>2 DEF Recording, Moved
      <3>1. q.row.type # "rollback" /\ q.yaml = Content(a)
        BY <1>1, <1>2, <1>3 DEF Handling, Recording
      <3>2. Receivers(a) = q2.todo
        BY <1>2, <2>2, <3>1 DEF Receivers, Fits
      <3>3. RecordedBut(a, q2.todo, versions')
        BY <3>2 DEF RecordedBut
      <3> QED
        BY <2>2, <3>1, <3>3 DEF Recording, Moved
    <2> QED
      BY <1>1, <2>2, <2>3, <2>4, DispatchMove
  <1> QED
    BY <1>4, <1>5 DEF Resolve

\* A built-in rollback sends the version its row names.
LEMMA LookupVersionDispatch ==
    ASSUME Inv, DispatchInv, NEW r \in Request, LookupVersion(r) PROVE DispatchInv'
  <1> DEFINE q == req[r]
             a == tasks[q.task]
  <1>1. /\ q.pc = "lookup" /\ UNCHANGED <<tasks, pushed, audits, versions>>
        /\ (faults' = 0 => faults = 0)
    BY FaultsGrow DEF LookupVersion
  <1>2. /\ q.row \in Rows /\ q.task # "none" /\ Fits(q.row, a)
    BY <1>1, HeldRow
  <1>3. q \in Requests /\ Handling(q, r, tasks, audits', versions', faults')
    BY <1>1, ReqHandling
  <1>4. CASE Continue(r, End(q))
    <2> DEFINE q2 == End(q)
    <2>1. Kept(q2, q) /\ q2.pc = "end" /\ Continue(r, q2)
      BY <1>3, <1>4, GotoKept DEF Pcs, End
    <2> HIDE DEF q2
    <2> QED
      BY <1>1, <2>1, DispatchMove DEF Kept, Moved, Recording
  <1>5. CASE /\ [collector |-> q.row.target, yaml |-> q.row.version] \in versions
             /\ Continue(r, Send(q, q.row.version, {q.row.target}))
    <2> DEFINE q2 == Send(q, q.row.version, {q.row.target})
    <2>1. q.row.version \in Yaml /\ q.row.target \in Collector
      BY <1>5, LifecycleAssumption DEF Inv
    <2>2. /\ Moved(q2, q) /\ q2.pc = "push" /\ q2.yaml = q.row.version
          /\ q2.todo = {q.row.target} /\ Continue(r, q2)
      BY <1>3, <1>5, <2>1, SendMoved
    <2> HIDE DEF q2
    <2>3. Audited(q2, r, audits', faults')
      BY <1>1, <1>3, <2>2 DEF Handling, Audited, Moved
    <2>4. Recording(q2, tasks, versions', faults')
      <3> SUFFICES ASSUME faults' = 0, CreatedWhole(a)
                   PROVE  Recording(q2, tasks, versions', faults')
        BY <2>2 DEF Recording, Moved
      <3>1. q.row.type = "rollback" /\ q.row.version # NoYaml
        BY <1>1, <1>2, <1>3 DEF Handling, Recording
      <3>2. Receivers(a) = q2.todo /\ Content(a) = q2.yaml
        BY <1>2, <2>2, <3>1 DEF Receivers, Content, Fits
      <3>3. RecordedBut(a, q2.todo, versions')
        BY <3>2 DEF RecordedBut
      <3> QED
        BY <2>2, <3>2, <3>3 DEF Recording, Moved
    <2> QED
      BY <1>1, <2>2, <2>3, <2>4, DispatchMove
  <1> QED
    BY <1>4, <1>5 DEF LookupVersion

\* One collector of the loop is done, with a version row or with a fault.
LEMMA RecordVersionDispatch ==
    ASSUME Inv, DispatchInv, NEW r \in Request, RecordVersion(r) PROVE DispatchInv'
  <1> DEFINE q == req[r]
             q2 == AfterTarget(q)
             a == tasks[q.task]
  <1>1. /\ q.pc = "version" /\ Continue(r, q2) /\ UNCHANGED <<tasks, pushed, audits>>
        /\ versions \subseteq versions' /\ (faults' = 0 => faults = 0)
    BY FaultsGrow DEF RecordVersion
  <1>2. faults' = 0 => [collector |-> q.at, yaml |-> q.yaml] \in versions'
    BY ErrorIsFault DEF RecordVersion
  <1>3. q \in Requests /\ Handling(q, r, tasks, audits', versions', faults')
    BY <1>1, ReqHandling
  <1>4. /\ Kept(q2, q)
        /\ \/ q2.pc = "push"
           \/ q2.pc = "auditDone" /\ q.todo = {}
           \/ q2.pc = "get" /\ q2.to = "done" /\ q.todo = {}
    BY <1>3, AfterTargetKept
  <1> HIDE DEF q2
  <1>5. Audited(q2, r, audits', faults')
    BY <1>1, <1>3, <1>4 DEF Handling, Audited, Kept
  <1>6. Recording(q2, tasks, versions', faults')
    <2> SUFFICES ASSUME faults' = 0, q.task # "none", CreatedWhole(a)
                 PROVE  Recording(q2, tasks, versions', faults')
      BY <1>4 DEF Recording, Kept
    <2>1. q.yaml = Content(a) /\ RecordedBut(a, q.todo \cup {q.at}, versions')
      BY <1>1, <1>3 DEF Handling, Recording
    <2>2. RecordedBut(a, q.todo, versions')
      BY <1>2, <2>1 DEF RecordedBut
    <2> QED
      BY <1>4, <2>1, <2>2 DEF Recording, Kept
  <1> QED
    BY <1>1, <1>4, <1>5, <1>6, DispatchMove DEF Kept, Moved

\* A push takes its collector out of the loop, or is a fault.
LEMMA PushDispatch ==
    ASSUME Inv, DispatchInv, NEW r \in Request, Push(r) PROVE DispatchInv'
  <1> DEFINE q == req[r]
             a == tasks[q.task]
  <1>a. UNCHANGED faults \/ (\E kind \in FaultKinds : Fault(kind))
    BY DEF Push, Fault
  <1>b. faults' = 0 => faults = 0
    BY <1>a, FaultsGrow
  <1>1. /\ q.pc = "push" /\ UNCHANGED <<tasks, audits, versions>>
        /\ (faults' = 0 => faults = 0)
    BY <1>b DEF Push
  <1>2. q \in Requests /\ Handling(q, r, tasks, audits', versions', faults')
    BY <1>1, ReqHandling
  <1>3. PICK c \in q.todo :
           LET rest == [q EXCEPT !.at = c, !.todo = @ \ {c}] IN
           \/ /\ pushed' = pushed \cup {[task |-> q.task, req |-> r, collector |-> c,
                                         yaml |-> q.yaml]}
              /\ \E u \in {q.unconfirmed, TRUE} :
                    Continue(r, [Goto(rest, "version") EXCEPT !.unconfirmed = u])
           \/ /\ Fault("push")
              /\ Continue(r, CASE q.op = "push_now" -> Goto(rest, "version")
                               [] q.op # "push_now" /\ q.row.type = "rollback" -> Call(q, "failed")
                               [] OTHER -> AfterTarget(rest))
              /\ UNCHANGED pushed
    BY DEF Push
  <1> DEFINE x == [q EXCEPT !.at = c]
             rest == [x EXCEPT !.todo = @ \ {c}]
             moved == Goto(rest, "version")
  <1>4. \/ /\ pushed' = pushed \cup {[task |-> q.task, req |-> r, collector |-> c,
                                      yaml |-> q.yaml]}
           /\ \E u \in {q.unconfirmed, TRUE} :
                 Continue(r, [moved EXCEPT !.unconfirmed = u])
        \/ /\ Fault("push")
           /\ Continue(r, CASE q.op = "push_now" -> moved
                            [] q.op # "push_now" /\ q.row.type = "rollback" -> Call(q, "failed")
                            [] OTHER -> AfterTarget(rest))
           /\ UNCHANGED pushed
    BY <1>3
  <1>5. c \in Collector /\ q.todo \in SUBSET Collector
    BY <1>2 DEF Requests
  <1>6. x \in Requests /\ Moved(x, q) /\ x.yaml = q.yaml /\ x.todo = q.todo /\ x.at = c
    BY <1>2, <1>5 DEF Requests, Moved
  <1> HIDE DEF x
  <1>7. /\ rest \in Requests /\ Moved(rest, q) /\ rest.yaml = q.yaml
        /\ rest.todo = q.todo \ {c} /\ rest.at = c
    BY <1>5, <1>6 DEF Requests, Moved
  <1> HIDE DEF rest
  <1>8. Kept(moved, rest) /\ moved.pc = "version"
    BY <1>7, GotoKept DEF Pcs
  <1> HIDE DEF moved
  <1>9. CASE /\ pushed' = pushed \cup {[task |-> q.task, req |-> r, collector |-> c,
                                        yaml |-> q.yaml]}
             /\ \E u \in {q.unconfirmed, TRUE} :
                   Continue(r, [moved EXCEPT !.unconfirmed = u])
    <2>1. PICK u \in {q.unconfirmed, TRUE} : Continue(r, [moved EXCEPT !.unconfirmed = u])
      BY <1>9
    <2> DEFINE q2 == [moved EXCEPT !.unconfirmed = u]
    <2>2. /\ Moved(q2, q) /\ q2.pc = "version" /\ q2.yaml = q.yaml
          /\ q2.todo = q.todo \ {c} /\ q2.at = c
      BY <1>7, <1>8 DEF Kept, Moved, Requests
    <2>3. Continue(r, q2)
      BY <2>1
    <2> HIDE DEF q2
    <2>4. Audited(q2, r, audits', faults')
      BY <1>1, <1>2, <2>2 DEF Handling, Audited, Moved
    <2>5. Recording(q2, tasks, versions', faults')
      <3> SUFFICES ASSUME faults' = 0, q.task # "none", CreatedWhole(a)
                   PROVE  Recording(q2, tasks, versions', faults')
        BY <2>2 DEF Recording, Moved
      <3>1. q.yaml = Content(a) /\ RecordedBut(a, q.todo, versions')
        BY <1>1, <1>2 DEF Handling, Recording
      <3>2. q2.todo \cup {q2.at} = q.todo
        BY <1>5, <2>2
      <3> QED
        BY <2>2, <3>1, <3>2 DEF Recording, Moved
    <2>6. \A p \in pushed' :
              p \in pushed \/ (req[r].pc = "push" /\ p.req = r /\ p.task = req[r].task)
      BY <1>1, <1>9
    <2> QED
      BY <1>1, <2>2, <2>3, <2>4, <2>5, <2>6, DispatchGoesOn
  <1>10. ASSUME NEW q2, Fault("push"), Continue(r, q2), UNCHANGED pushed, Moved(q2, q),
                q2.pc \in {"push", "version", "auditDone", "get"},
                q2.pc = "get" => q2.to \in {"done", "failed"}
         PROVE  DispatchInv'
    <2>1. faults' # 0
      BY <1>10, LifecycleAssumption DEF Fault, Inv, HistoryOK
    <2>2. Audited(q2, r, audits', faults') /\ Recording(q2, tasks, versions', faults')
      BY <2>1 DEF Audited, Recording
    <2> QED
      BY <1>1, <1>10, <2>2, DispatchMove
  <1>11. CASE /\ Fault("push")
              /\ Continue(r, CASE q.op = "push_now" -> moved
                               [] q.op # "push_now" /\ q.row.type = "rollback" -> Call(q, "failed")
                               [] OTHER -> AfterTarget(rest))
              /\ UNCHANGED pushed
    <2>1. CASE q.op = "push_now"
      <3>1. Continue(r, moved)
        BY <1>11, <2>1
      <3>2. Moved(moved, q)
        BY <1>7, <1>8 DEF Kept, Moved
      <3> QED
        BY <1>8, <1>10, <1>11, <3>1, <3>2
    <2>2. CASE q.op # "push_now" /\ q.row.type = "rollback"
      <3> DEFINE q2 == Call(q, "failed")
      <3>1. Continue(r, q2)
        BY <1>11, <2>2
      <3>2. Kept(q2, q) /\ q2.pc = "get" /\ q2.to = "failed"
        BY <1>2, CallKept DEF Status
      <3> HIDE DEF q2
      <3> QED
        BY <1>10, <1>11, <3>1, <3>2 DEF Kept, Moved
    <2>3. CASE q.op # "push_now" /\ q.row.type # "rollback"
      <3> DEFINE q2 == AfterTarget(rest)
      <3>1. Continue(r, q2)
        BY <1>11, <2>3
      <3>2. /\ Kept(q2, rest)
            /\ q2.pc \in {"push", "auditDone"} \/ (q2.pc = "get" /\ q2.to = "done")
        BY <1>7, AfterTargetKept
      <3> HIDE DEF q2
      <3>3. Moved(q2, q)
        BY <1>7, <3>2 DEF Kept, Moved
      <3> QED
        BY <1>10, <1>11, <3>1, <3>2, <3>3
    <2> QED
      BY <2>1, <2>2, <2>3
  <1> QED
    BY <1>4, <1>9, <1>11

-----------------------------------------------------------------------------
(* The writes of whole rows.                                                *)

\* A write of a row that keeps what Evolves asks for.
LEMMA RowDispatch ==
    ASSUME Inv, DispatchInv, NEW r \in Request, NEW q2, NEW t \in Task, NEW row,
           tasks' = [tasks EXCEPT ![t] = row], Continue(r, q2),
           UNCHANGED <<audits, versions, pushed>>, faults' = 0 => faults = 0,
           row # Absent,
           tasks[t] # Absent =>
              /\ Fits(tasks[t], row)
              /\ CreatedWhole(tasks[t]) /\ tasks[t].status # "awaiting_approval" =>
                    row.status # "awaiting_approval",
           Stored(row, versions, faults'),
           Evolves(tasks, tasks') => Handling(q2, r, tasks', audits', versions', faults'),
           q2.late = req[r].late, req[r].late => q2.task = req[r].task
    PROVE  DispatchInv'
  <1>1. tasks' \in [Task -> GoodRows \cup {Absent} \cup {row}] /\ tasks'[t] = row
        /\ \A s \in Task : s # t => tasks'[s] = tasks[s]
    BY DEF Inv
  <1>2. Evolves(tasks, tasks')
    BY <1>1 DEF Evolves, Fits
  <1>3. \A s \in Task : Stored(tasks'[s], versions', faults')
    BY <1>1 DEF DispatchInv, Stored
  <1>4. Handling(q2, r, tasks', audits', versions', faults')
    BY <1>2
  <1>5. \A p \in pushed' : p \in pushed
    OBVIOUS
  <1> QED
    BY <1>2, <1>3, <1>4, <1>5, DispatchStep DEF Continue

\* What a row keeps of another one, the other keeps of it.
LEMMA FitsSymmetric ==
    ASSUME NEW a, NEW b, Fits(a, b)
    PROVE  Fits(b, a)
  BY DEF Fits, CreatedWhole

\* A fresh row is not done, and nothing works on it yet.
LEMMA CreateTaskDispatch ==
    ASSUME Inv, DispatchInv, NEW r \in Request, CreateTask(r) PROVE DispatchInv'
  <1> DEFINE q == req[r]
  <1>1. q.pc = "create" /\ UNCHANGED <<audits, versions, pushed>>
        /\ (faults' = 0 => faults = 0)
    BY FaultsGrow DEF CreateTask
  <1>2. /\ q \in Requests /\ PointOK(q, "create", Known, GrantedTo(r))
        /\ Handling(q, r, tasks, audits, versions, faults)
    BY <1>1, ReqHandling
  <1>3. CASE Continue(r, End(q)) /\ UNCHANGED tasks
    <2> DEFINE q2 == End(q)
    <2>1. Kept(q2, q) /\ q2.pc = "end" /\ Continue(r, q2)
      BY <1>2, <1>3, GotoKept DEF End, Pcs
    <2> HIDE DEF q2
    <2> QED
      BY <1>1, <1>3, <2>1, QuietStep DEF Quiet, Generating, Past
  <1>4. ASSUME NEW t \in Task, tasks[t] = Absent, tasks' = [tasks EXCEPT ![t] = q.row],
               Continue(r, [Goto(q, "createEvent") EXCEPT !.task = t])
        PROVE  DispatchInv'
    <2> DEFINE x == Goto(q, "createEvent")
               q2 == [x EXCEPT !.task = t]
    <2>1. Kept(x, q) /\ x.pc = "createEvent" /\ x.to = q.to
      BY <1>2, GotoKept DEF Pcs
    <2>2. Continue(r, q2)
      BY <1>4
    <2> HIDE DEF x
    <2>3. /\ q2.pc = "createEvent" /\ q2.op = q.op /\ q2.task = t
          /\ q2.row = q.row /\ q2.live = q.live /\ q2.late = q.late
      BY <2>1 DEF Kept, Requests
    <2> HIDE DEF q2
    <2>4. /\ q.row \in GoodRows /\ q.row # Absent /\ q.task = "none" /\ ~q.late
          /\ q.row.status # "done"
          /\ q.row.type # "rollback" => q.row.version = NoYaml
          /\ q.op \in Gen => ~CreatedWhole(q.row)
      BY <1>1, <1>2
         DEF PointOK, HoldsRow, Handling, Shape, GoodRows, Rows, Types, Absent, Row
    <2>5. Stored(q.row, versions, faults')
      BY <2>4 DEF Stored
    <2>6. tasks'[t] = q.row
      BY <1>4 DEF Inv
    <2>7. Shape(q2, tasks')
      BY <2>3, <2>4, <2>6 DEF Shape, Fits, Generating
    <2>8. Decided(q2, tasks') /\ Recording(q2, tasks', versions', faults')
      BY <2>3, <2>4 DEF Decided, Recording, Past
    <2>9. Audited(q2, r, audits', faults')
      BY <1>1, <1>2, <2>3 DEF Handling, Audited
    <2>10. Handling(q2, r, tasks', audits', versions', faults')
      BY <2>7, <2>8, <2>9 DEF Handling
    <2> QED
      BY <1>1, <1>4, <2>2, <2>3, <2>4, <2>5, <2>10, RowDispatch
  <1> QED
    BY <1>3, <1>4 DEF CreateTask

\* The copy that PutTask and ErrorPut write is of the row as stored.
LEMMA WrittenRow ==
    ASSUME Inv, DispatchInv, NEW r \in Request, req[r].pc \in {"put", "errPut", "save"}
    PROVE  LET q == req[r] IN
           /\ q.row \in GoodRows /\ q.row \in Rows /\ q.row # Absent
           /\ q.task \in Task /\ q.task # "none"
           /\ Fits(q.row, tasks[q.task]) /\ Fits(tasks[q.task], q.row)
           /\ q.row.type # "rollback" => q.row.version = NoYaml
           /\ tasks' = [tasks EXCEPT ![q.task] = q.row] => tasks'[q.task] = q.row
  <1> DEFINE q == req[r]
  <1>1. q.row \in GoodRows /\ q.row \in Rows /\ q.task \in Known
    BY ReqHandling DEF PointOK, HoldsRow, OnTask, GoodRows
  <1>2. q.row # Absent
    BY <1>1 DEF Rows, Types, Absent, Row
  <1>3. q.task \in Task /\ q.task # "none"
    BY <1>1, LifecycleAssumption DEF Known
  <1>4. Fits(q.row, tasks[q.task]) /\ (q.row.type # "rollback" => q.row.version = NoYaml)
    BY <1>2, <1>3, ReqHandling DEF Handling, Shape
  <1> QED
    BY <1>1, <1>2, <1>3, <1>4, FitsSymmetric DEF Inv

\* A transition writes back a copy that fits the row.
LEMMA PutTaskDispatch ==
    ASSUME Inv, DispatchInv, NEW r \in Request, PutTask(r) PROVE DispatchInv'
  <1> DEFINE q == req[r]
             a == tasks[q.task]
  <1>1. q.pc = "put" /\ UNCHANGED <<audits, versions, pushed>>
        /\ (faults' = 0 => faults = 0)
    BY FaultsGrow DEF PutTask
  <1>2. q \in Requests /\ Handling(q, r, tasks, audits, versions, faults)
    BY ReqHandling
  <1>3. CASE Continue(r, AfterError(q)) /\ UNCHANGED tasks
    BY <1>1, <1>3, ErrorDispatch
  <1>4. CASE tasks' = [tasks EXCEPT ![q.task] = q.row] /\ Continue(r, Goto(q, "event"))
    <2> DEFINE q2 == Goto(q, "event")
    <2>1. Kept(q2, q) /\ q2.pc = "event" /\ q2.to = q.to /\ Continue(r, q2)
      BY <1>2, <1>4, GotoKept DEF Pcs
    <2> HIDE DEF q2
    <2>2. /\ q.row # Absent /\ q.task \in Task /\ q.task # "none"
          /\ Fits(q.row, a) /\ Fits(a, q.row) /\ tasks'[q.task] = q.row
          /\ q.row.type # "rollback" => q.row.version = NoYaml
      BY <1>1, <1>4, WrittenRow
    <2>3. CreatedWhole(a) <=> CreatedWhole(q.row)
      BY <2>2, FitsSame
    <2>4. CreatedWhole(a) => q.row.status # "awaiting_approval"
      BY <1>1, <1>2, <2>2 DEF Handling, Shape, Generating
    <2>5. Stored(q.row, versions, faults')
      <3> SUFFICES ASSUME faults' = 0, q.row.status = "done", CreatedWhole(q.row)
                   PROVE  RecordedBut(q.row, {}, versions)
        BY <2>2 DEF Stored
      <3>1. RecordedBut(a, {}, versions)
        BY <1>1, <1>2, <2>2, <2>3 DEF Handling, Shape, Recording
      <3> QED
        BY <2>2, <2>3, <3>1, RecordedMonotone
    <2>6. ASSUME Evolves(tasks, tasks')
          PROVE  Handling(q2, r, tasks', audits', versions', faults')
      <3>1. Handling(q, r, tasks', audits', versions', faults')
        BY <1>1, <1>2, <2>2, <2>6, HandlingMonotone
      <3>2. Generating(q2) => q.op \in Gen
        BY <1>1, <1>2, <2>1 DEF Handling, Shape, Generating
      <3>3. CreatedWhole(tasks'[q.task]) =>
               tasks'[q.task].status # "awaiting_approval"
        BY <2>2, <2>3, <2>4
      <3>4. ~(q.late /\ q.task # "none" /\ CreatedWhole(tasks'[q.task]))
        BY <1>1, <2>2, <2>3, LateWaits
      <3> QED
        BY <2>1, <3>1, <3>2, <3>3, <3>4, QuietHandling DEF Quiet
    <2>7. q2.late = q.late /\ q2.task = q.task
      BY <2>1 DEF Kept
    <2> QED
      BY <1>1, <1>4, <2>1, <2>2, <2>4, <2>5, <2>6, <2>7, RowDispatch
  <1> QED
    BY <1>3, <1>4 DEF PutTask

\* The note about a missing confirmation does not undo a decision.
LEMMA ErrorPutDispatch ==
    ASSUME Inv, DispatchInv, NEW r \in Request, ErrorPut(r) PROVE DispatchInv'
  <1> DEFINE q == req[r]
             a == tasks[q.task]
             q2 == AfterNote(q)
  <1>1. q.pc = "errPut" /\ Continue(r, q2) /\ UNCHANGED <<audits, versions, pushed>>
        /\ (faults' = 0 => faults = 0)
    BY FaultsGrow DEF ErrorPut
  <1>2. q \in Requests /\ Handling(q, r, tasks, audits, versions, faults)
    BY ReqHandling
  <1>3. Kept(q2, q) /\ q2.pc \in {"auditUnconfirmed", "end"}
    BY <1>2, AfterNoteKept
  <1> HIDE DEF q2
  <1>4. CASE UNCHANGED tasks
    BY <1>1, <1>3, <1>4, LateWaits, QuietStep DEF Quiet, Generating, Past
  <1>5. CASE tasks' = [tasks EXCEPT ![q.task] = q.row]
    <2>2. /\ q.row # Absent /\ q.task \in Task /\ q.task # "none"
          /\ Fits(q.row, a) /\ Fits(a, q.row) /\ tasks'[q.task] = q.row
          /\ q.row.type # "rollback" => q.row.version = NoYaml
      BY <1>1, <1>5, WrittenRow
    <2>3. CreatedWhole(a) <=> CreatedWhole(q.row)
      BY <2>2, FitsSame
    <2>4. CreatedWhole(a) => q.row.status # "awaiting_approval"
      BY <1>1, <1>2, <2>2 DEF Handling, Decided
    <2>5. Stored(q.row, versions, faults')
      <3> SUFFICES ASSUME faults' = 0, q.row.status = "done", CreatedWhole(q.row)
                   PROVE  RecordedBut(q.row, {}, versions)
        BY <2>2 DEF Stored
      <3>1. RecordedBut(a, {}, versions)
        BY <1>1, <1>2, <2>2, <2>3 DEF Handling, Recording
      <3> QED
        BY <2>2, <2>3, <3>1, RecordedMonotone
    <2>6. ASSUME Evolves(tasks, tasks')
          PROVE  Handling(q2, r, tasks', audits', versions', faults')
      <3>1. Handling(q, r, tasks', audits', versions', faults')
        BY <1>1, <1>2, <2>2, <2>6, HandlingMonotone
      <3>2. ~(q.late /\ q.task # "none" /\ CreatedWhole(tasks'[q.task]))
        BY <1>1, <2>2, <2>3, LateWaits
      <3> QED
        BY <1>3, <3>1, <3>2, QuietHandling DEF Quiet, Generating, Past
    <2>7. q2.late = q.late /\ q2.task = q.task
      BY <1>3 DEF Kept
    <2> QED
      BY <1>1, <1>5, <2>2, <2>4, <2>5, <2>6, <2>7, RowDispatch
  <1> QED
    BY <1>4, <1>5 DEF ErrorPut

\* Only content that was missing is written late.
LEMMA SaveContentDispatch ==
    ASSUME Inv, DispatchInv, NEW r \in Request, SaveContent(r) PROVE DispatchInv'
  <1> DEFINE q == req[r]
             a == tasks[q.task]
             row == [q.row EXCEPT !.yaml = q.yaml]
             q2 == IF RequireApproval THEN End(q) ELSE Call(q, "applying")
  <1>1. q.pc = "save" /\ Continue(r, q2) /\ UNCHANGED <<audits, versions, pushed>>
        /\ (faults' = 0 => faults = 0)
    BY FaultsGrow DEF SaveContent
  <1>2. q \in Requests /\ Handling(q, r, tasks, audits, versions, faults)
    BY ReqHandling
  <1>3. q.op \in Gen /\ ~CreatedWhole(a)
    BY <1>1, GenTask DEF Generating
  <1>4. Kept(q2, q) /\ (q2.pc = "end" \/ (q2.pc = "get" /\ q2.to = "applying"))
    <2>1. Kept(End(q), q) /\ End(q).pc = "end"
      BY <1>2, GotoKept DEF End, Pcs
    <2>2. /\ Kept(Call(q, "applying"), q) /\ Call(q, "applying").pc = "get"
          /\ Call(q, "applying").to = "applying"
      BY <1>2, CallKept DEF Status
    <2> QED
      BY <2>1, <2>2
  <1>5. tasks' = [tasks EXCEPT ![q.task] = row] \/ UNCHANGED tasks
    BY DEF SaveContent
  <1> HIDE DEF q2
  <1>6. CASE UNCHANGED tasks
    BY <1>1, <1>3, <1>4, <1>6, QuietStep DEF Quiet, Generating, Past
  <1>7. CASE tasks' = [tasks EXCEPT ![q.task] = row]
    <2>1. /\ q.row \in Rows /\ q.task \in Task /\ q.task # "none"
          /\ Fits(q.row, a) /\ (q.row.type # "rollback" => q.row.version = NoYaml)
      BY <1>1, WrittenRow
    <2>2. /\ row.type = q.row.type /\ row.target = q.row.target /\ row.version = q.row.version
          /\ row.status = q.row.status
      BY <2>1 DEF Rows
    <2> HIDE DEF row
    <2>3. row # Absent
      BY <2>1, <2>2 DEF Rows, Types, Absent, Row
    <2>4. ~CreatedWhole(row) /\ Fits(a, row)
      BY <1>3, <2>1, <2>2 DEF Fits, CreatedWhole
    <2>5. Stored(row, versions, faults')
      BY <2>1, <2>2, <2>4 DEF Stored
    <2>6. tasks'[q.task] = row
      BY <1>7, <2>1 DEF Inv
    <2>7. ASSUME Evolves(tasks, tasks')
          PROVE  Handling(q2, r, tasks', audits', versions', faults')
      <3>1. Handling(q, r, tasks', audits', versions', faults')
        BY <1>1, <1>2, <2>1, <2>7, HandlingMonotone
      <3>2. ~CreatedWhole(tasks'[q.task])
        BY <2>4, <2>6
      <3> QED
        BY <1>3, <1>4, <3>1, <3>2, QuietHandling DEF Quiet, Generating
    <2>8. q2.late = q.late /\ q2.task = q.task
      BY <1>4 DEF Kept
    <2> QED
      BY <1>1, <1>3, <1>7, <2>1, <2>3, <2>4, <2>5, <2>7, <2>8, RowDispatch
  <1> QED
    BY <1>5, <1>6, <1>7

-----------------------------------------------------------------------------
(* The theorems.                                                            *)

\* Every step of a handler keeps what handlers know.
LEMMA StepDispatch ==
    ASSUME Inv, DispatchInv, NEW r \in Request, Step(r) PROVE DispatchInv'
  BY CreateTaskDispatch, CreateEventDispatch, AuditCreateDispatch, GetTaskDispatch,
     PutTaskDispatch, TransitionEventDispatch, CallModelDispatch, RevalidateDispatch,
     SaveContentDispatch, AuditApproveDispatch, ResolveDispatch, LookupVersionDispatch,
     PushDispatch, RecordVersionDispatch, ErrorGetDispatch, ErrorPutDispatch,
     LastAuditsDispatch DEF Step

\* DispatchInv is an invariant, together with Inv.
THEOREM DispatchInvariance == Spec => []DispatchInv
  <1>1. Init => DispatchInv
    BY InitDispatch
  <1>2. Inv /\ DispatchInv /\ [Next]_vars => DispatchInv'
    <2> SUFFICES ASSUME Inv, DispatchInv, [Next]_vars PROVE DispatchInv'
      OBVIOUS
    <2>1. CASE Crash
      BY <2>1, CrashDispatch
    <2>2. ASSUME NEW r \in Request, Arrive(r) PROVE DispatchInv'
      BY <2>2, CreationDispatch, PushNowDispatch, DecideDispatch DEF Arrive
    <2>3. ASSUME NEW r \in Request, Step(r) PROVE DispatchInv'
      BY <2>3, StepDispatch
    <2>4. ASSUME NEW r \in Request, Cancel(r) PROVE DispatchInv'
      BY <2>4, CancelDispatch
    <2>5. CASE UNCHANGED vars
      BY <2>5 DEF vars, DispatchInv
    <2> QED
      BY <2>1, <2>2, <2>3, <2>4, <2>5 DEF Next
  <1> QED
    BY <1>1, <1>2, Invariance, PTL DEF Spec

\* DispatchInv is what the three properties of the dispatch say, and more.
LEMMA DispatchInvSafe ==
    Inv /\ DispatchInv => DispatchIsAudited /\ NoDispatchAfterRejection /\ DoneIsRecorded
  <1> SUFFICES ASSUME Inv, DispatchInv
               PROVE  DispatchIsAudited /\ NoDispatchAfterRejection /\ DoneIsRecorded
    OBVIOUS
  <1>1. DispatchIsAudited
    BY DEF DispatchInv, PushKnown, DispatchIsAudited
  <1>2. NoDispatchAfterRejection
    <2> SUFFICES ASSUME NEW p \in pushed, req[p.req].late
                 PROVE  ~CreatedWhole(req[p.req].row)
      BY DEF NoDispatchAfterRejection
    <2> DEFINE q == req[p.req]
    <2>1. p.req \in Request
      BY DEF Inv
    <2>2. q.task # "none" /\ ~CreatedWhole(tasks[q.task])
      BY DEF DispatchInv, PushKnown
    <2>3. q.row # Absent => Fits(q.row, tasks[q.task])
      BY <2>1, <2>2, ReqHandling DEF Handling, Shape
    <2>4. ~CreatedWhole(Absent)
      BY DEF CreatedWhole, Absent, Row
    <2> QED
      BY <2>2, <2>3, <2>4, FitsSame
  <1>3. DoneIsRecorded
    BY DEF DispatchInv, Stored, RecordedBut, DoneIsRecorded
  <1> QED
    BY <1>1, <1>2, <1>3

\* While nothing fails, every dispatched task has an audited approval of the
\* request that dispatched it, for any number of requests and tasks.
THEOREM AuditedDispatch == Spec => []DispatchIsAudited
  BY Invariance, DispatchInvariance, DispatchInvSafe, PTL

\* A decision that arrives after a rejection never dispatches a task that was
\* created with its content, whatever else is in flight.
THEOREM RejectionHolds == Spec => []NoDispatchAfterRejection
  BY Invariance, DispatchInvariance, DispatchInvSafe, PTL

\* While nothing fails, a task that reads done has a version row for every
\* collector its target names.
THEOREM DoneRecorded == Spec => []DoneIsRecorded
  BY Invariance, DispatchInvariance, DispatchInvSafe, PTL

=============================================================================
