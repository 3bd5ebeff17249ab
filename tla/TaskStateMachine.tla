-------------------------- MODULE TaskStateMachine --------------------------
(***************************************************************************)
(* What the task service promises: a task is created as pending or, when   *)
(* its content is already there, as awaiting_approval, and from then on    *)
(* every change of its status is an edge of the transition table.          *)
(***************************************************************************)
EXTENDS TaskStatus

CONSTANT Task

VARIABLE status     \* status[t]; "none" before the row exists

Init == status = [t \in Task |-> "none"]

Create(t) ==
    /\ status[t] = "none"
    /\ \E s \in {"pending", "awaiting_approval"} :
          status' = [status EXCEPT ![t] = s]

Transition(t, to) ==
    /\ status[t] # "none"
    /\ CanTransition(status[t], to)
    /\ status' = [status EXCEPT ![t] = to]

Next == \E t \in Task : Create(t) \/ \E to \in Status : Transition(t, to)

Spec == Init /\ [][Next]_status

=============================================================================
