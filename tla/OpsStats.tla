------------------------------ MODULE OpsStats ------------------------------
(***************************************************************************)
(* internal/api/stats.go: the efficiency figures of GET /stats/ops,        *)
(* computed from the task rows [id, rollback, status] and the status       *)
(* events of a window of days: a log is a function from the ids of the     *)
(* events to [task, from, to, at].  Times are milliseconds.  A time that   *)
(* is not set, or a duration that is not measured, is an empty set;        *)
(* durations are filed under numbers that tell their order.                *)
(***************************************************************************)
EXTENDS Integers, FiniteSets, Functions

\* A span: the events of one task.
Span(log, t) == {i \in DOMAIN log : log[i].task = t}

\* When the first, or the last, of some events happened.
FirstAt(log, events) == {log[i].at : i \in {i \in events : \A j \in events : i <= j}}
LastAt(log, events) == {log[i].at : i \in {i \in events : \A j \in events : j <= i}}

Started(log, t) == FirstAt(log, Span(log, t))
EnterWait(log, t) == FirstAt(log, {i \in Span(log, t) : log[i].to = "awaiting_approval"})
LeaveWait(log, t) == FirstAt(log, {i \in Span(log, t) : log[i].from = "awaiting_approval"})
EnterApply(log, t) == FirstAt(log, {i \in Span(log, t) : log[i].to = "applying"})
Terminated(log, t) == LastAt(log, {i \in Span(log, t) : log[i].to \in {"done", "failed"}})

\* Only what takes time is measured.
Between(from, to) == {p[2] - p[1] : p \in {q \in from \X to : q[2] > q[1]}}

Wait(log, t) == Between(EnterWait(log, t), LeaveWait(log, t))

\* Mutant of Dispatch: always from the task's first event.
DispatchFromFirst(log, t) == Between(Started(log, t), Terminated(log, t))

\* Without an event of applying the task's first event counts.
Dispatch(log, t) ==
    Between(IF EnterApply(log, t) = {} THEN Started(log, t) ELSE EnterApply(log, t),
            Terminated(log, t))

Whole(log, t) == Between(Started(log, t), Terminated(log, t))

\* The tasks in the order of their first events: each stands for its first event.
Order(log) == {i \in DOMAIN log : \A j \in Span(log, log[i].task) : i <= j}

\* The durations of a sample that are measured.
Measured(times) == [i \in {i \in DOMAIN times : times[i] # {}} |-> CHOOSE d \in times[i] : TRUE]

\* Mutant of Rank: rounds down.
RankDown(n, p) == LET r == (p * n) \div 100 IN IF r < 1 THEN 1 ELSE IF r > n THEN n ELSE r

\* Nearest rank, rounded up and kept within the sample.
Rank(n, p) == LET r == (p * n + 99) \div 100 IN IF r < 1 THEN 1 ELSE IF r > n THEN n ELSE r

\* The durations in ascending order: at each place the one that so many precede.
Shorter(durations, i) ==
    {j \in DOMAIN durations : \/ durations[j] < durations[i]
                              \/ durations[j] = durations[i] /\ j < i}

Ascending(durations) ==
    [n \in 1..Cardinality(DOMAIN durations) |->
        durations[CHOOSE i \in DOMAIN durations : Cardinality(Shorter(durations, i)) = n - 1]]

Percentile(durations, p) == Ascending(durations)[Rank(Cardinality(DOMAIN durations), p)]

Average(durations) == SumFunction(durations) \div Cardinality(DOMAIN durations)

Summarize(durations) ==
    IF DOMAIN durations = {} THEN [count |-> 0, avg |-> 0, p50 |-> 0, p90 |-> 0]
    ELSE [count |-> Cardinality(DOMAIN durations), avg |-> Average(durations),
          p50 |-> Percentile(durations, 50), p90 |-> Percentile(durations, 90)]

\* computeOpsStats; success_rate is done / (done + failed).
OpsStats(rows, log) ==
    LET undone == {i \in Order(log) : \E row \in rows : row.id = log[i].task /\ row.rollback}
        rollbacks == Measured([i \in undone |-> Whole(log, log[i].task)])
        In(status) == Cardinality({row \in rows : row.status = status})
    IN  [total |-> Cardinality(rows), done |-> In("done"), failed |-> In("failed"),
         wait |-> Summarize(Measured([i \in Order(log) |-> Wait(log, log[i].task)])),
         dispatch |-> Summarize(Measured([i \in Order(log) |-> Dispatch(log, log[i].task)])),
         rollback |-> [count |-> Cardinality(DOMAIN rollbacks),
                       avg |-> IF DOMAIN rollbacks = {} THEN 0 ELSE Average(rollbacks)]]

-----------------------------------------------------------------------------
(* What the figures may be trusted for.                                     *)

\* The percentile p of a sample: the least value that p in a hundred of the
\* durations do not exceed.
IsNearestRank(durations, p, value) ==
    LET AtMost(d) == Cardinality({i \in DOMAIN durations : durations[i] <= d})
        Enough == {d \in Range(durations) : 100 * AtMost(d) >= p * Cardinality(DOMAIN durations)}
    IN  value \in Enough /\ \A d \in Enough : value <= d

\* p50 and p90 are percentiles of the sample.
PercentilesAreRanks(durations) ==
    DOMAIN durations # {} => /\ IsNearestRank(durations, 50, Summarize(durations).p50)
                             /\ IsNearestRank(durations, 90, Summarize(durations).p90)

\* Nothing is measured that did not happen.  log is what the window and lost
\* event writes leave of the events all: a waiting time, and the dispatch time of
\* a task whose applying was recorded, are those of the task's whole history.
MeasuresHistory(all, log) ==
    \A t \in {log[i].task : i \in DOMAIN log} :
        /\ Wait(log, t) \subseteq Wait(all, t)
        /\ EnterApply(log, t) # {} => Dispatch(log, t) \subseteq Dispatch(all, t)
=============================================================================
