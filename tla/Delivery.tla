------------------------------- MODULE Delivery -------------------------------
(***************************************************************************)
(* What PushConfig promises its callers about a dispatch, whichever way it *)
(* takes to the collector: the connection, the response to a message, or   *)
(* the queue of one.                                                       *)
(***************************************************************************)
EXTENDS Naturals, Sequences

CONSTANTS
    Push, PushTo    \* the dispatches and their collectors

VARIABLES
    fate,       \* of each dispatch
    order,      \* the dispatches in the order of issue
    disturbed,  \* a connection broke, a collector fell silent or the server restarted
    polling     \* the collectors that poll

promised == <<fate, order, disturbed, polling>>

Init ==
    /\ fate = [p \in Push |-> "new"]
    /\ order = <<>>
    /\ disturbed = FALSE
    /\ polling \subseteq {PushTo[p] : p \in Push}

\* The dispatches to the same collector issued after p.
Later(p) ==
    {order[j] : j \in {i \in DOMAIN order :
        PushTo[order[i]] = PushTo[p] /\ \E h \in 1 .. i - 1 : order[h] = p}}

Accept(p) ==
    /\ fate[p] = "new"
    /\ fate' = [fate EXCEPT ![p] = "accepted"]
    /\ order' = Append(order, p)
    /\ UNCHANGED <<disturbed, polling>>

\* To a collector that polls, in the order of issue; over a WebSocket the response
\* to a report may come after what was sent meanwhile.
Deliver(p) ==
    /\ fate[p] = "accepted"
    /\ PushTo[p] \in polling => \A q \in Later(p) : fate[q] # "delivered"
    /\ fate' = [fate EXCEPT ![p] = "delivered"]
    /\ UNCHANGED <<order, disturbed, polling>>

\* Replaced by a later one, or lost.
Forget(p) ==
    /\ fate[p] = "accepted"
    /\ Later(p) # {} \/ disturbed
    /\ fate' = [fate EXCEPT ![p] = "gone"]
    /\ UNCHANGED <<order, disturbed, polling>>

\* What goes wrong may take dispatches with it.
Disturb ==
    /\ disturbed' = TRUE
    /\ fate' \in [Push -> {"new", "accepted", "delivered", "gone"}]
    /\ \A p \in Push : fate'[p] = fate[p] \/ (fate[p] = "accepted" /\ fate'[p] = "gone")
    /\ UNCHANGED <<order, polling>>

Next == Disturb \/ \E p \in Push : Accept(p) \/ Deliver(p) \/ Forget(p)

\* What has happened is right,
Safety == Init /\ [][Next]_promised

\* and no dispatch stays under way for ever.
Spec ==
    /\ Safety
    /\ \A p \in Push : WF_promised(Deliver(p) \/ Forget(p))
=============================================================================
