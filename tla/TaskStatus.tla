----------------------------- MODULE TaskStatus -----------------------------
(***************************************************************************)
(* The statuses of a change task and the transition table of               *)
(* internal/task: CanTransition is the guard every status change of the    *)
(* task service passes through.                                            *)
(***************************************************************************)

Status == {"pending", "generating", "validating", "awaiting_approval",
           "applying", "done", "rejected", "failed"}

\* done and rejected; failed may be retried (failed -> generating).
Terminal == {"done", "rejected"}

\* Mutant of CanTransition: a rejected task may still be approved.
ApproveRejected(from, to) ==
    \/ to = "applying" /\ from \in {"awaiting_approval", "rejected"}
    \/ to = "generating" /\ from \in {"pending", "failed"}
    \/ to = "validating" /\ from = "generating"
    \/ to = "awaiting_approval" /\ from = "validating"
    \/ to = "done" /\ from = "applying"
    \/ to = "rejected" /\ from = "awaiting_approval"
    \/ to = "failed" /\ from \notin {"done", "rejected", "failed"}

CanTransition(from, to) ==
    \/ to = "failed" /\ from \notin {"done", "rejected", "failed"}
    \/ to = "generating" /\ from \in {"pending", "failed"}
    \/ to = "validating" /\ from = "generating"
    \/ to = "awaiting_approval" /\ from = "validating"
    \/ to = "applying" /\ from = "awaiting_approval"
    \/ to = "done" /\ from = "applying"
    \/ to = "rejected" /\ from = "awaiting_approval"
    \/ to = "pending" /\ from = "pending"

=============================================================================
