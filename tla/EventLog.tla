------------------------------ MODULE EventLog ------------------------------
(***************************************************************************)
(* The status events that the task service records, one for each change of *)
(* a status, and what the statistics make of what is left of them          *)
(* (internal/task/task.go, internal/api/stats.go).  An event's id is its   *)
(* place in the history.                                                   *)
(***************************************************************************)
EXTENDS OpsStats, TaskStatus, Sequences

CONSTANTS
    Tasks,
    MaxEvents,      \* bound: events
    Lasting,        \* durations of a sample
    MaxSample       \* bound: durations of a sample

ASSUME LogAssumption == Lasting \subseteq Nat

VARIABLES
    history,        \* the events
    sample          \* durations to be summarized

logging == <<history, sample>>

LogInit == history = <<>> /\ sample = <<>>

StatusOf(t) ==
    IF Span(history, t) = {} THEN "none"
    ELSE history[CHOOSE i \in Span(history, t) : \A j \in Span(history, t) : j <= i].to

Now == IF history = <<>> THEN 0 ELSE history[Len(history)].at

\* A task is created or changes its status, at once or a moment later.  No
\* operation of the service retries a failed task.
Happen ==
    /\ Len(history) < MaxEvents
    /\ \E t \in Tasks, to \in Status, later \in 0..1 :
          /\ \/ StatusOf(t) = "none" /\ to \in {"pending", "awaiting_approval"}
             \/ /\ StatusOf(t) \notin {"none", "pending", "failed"}
                /\ CanTransition(StatusOf(t), to)
             \/ StatusOf(t) = "pending" /\ to \in {"generating", "failed"}
          /\ history' = Append(history, [task |-> t, from |-> StatusOf(t), to |-> to,
                                         at |-> Now + later])
    /\ UNCHANGED sample

Measure ==
    /\ Len(sample) < MaxSample
    /\ \E d \in Lasting : sample' = Append(sample, d)
    /\ UNCHANGED history

LogNext == Happen \/ Measure

LogSpec == LogInit /\ [][LogNext]_logging

-----------------------------------------------------------------------------

\* The figures of the statistics are measured: whatever events the window cuts off and
\* whichever event writes were lost, no waiting and no dispatch time is invented, and
\* the percentiles are nearest ranks (computeOpsStats, summarize, percentile).
FiguresAreMeasured ==
    /\ \A kept \in SUBSET DOMAIN history : MeasuresHistory(history, Restrict(history, kept))
    /\ PercentilesAreRanks(sample)
=============================================================================
