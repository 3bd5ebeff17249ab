---------------------------- MODULE MCWebRequests ----------------------------
(* An instance of WebRequests for TLC.                                       *)
EXTENDS WebRequests

CONSTANTS r1, r2, t1, t2, main, dev, c1, c2, good, bad, alice

\* c1 holds a valid document, c2 one that the validator refuses.
FileOf == [c \in {c1, c2} |-> IF c = c1 THEN good ELSE bad]

TwoBranches == [branch |-> [b \in {main, dev} |-> IF b = main THEN c1 ELSE c2], head |-> main]

Plan(m, reqs, kinds, refs, commits, events) ==
    [mode |-> m, reqs |-> reqs, kinds |-> kinds, refs |-> refs, commits |-> commits,
     events |-> events]

\* The page and its sessions; decisions with and without protection; tasks from a
\* repository that changes; the cached status of one that changes while time passes.
PagePlan(m, events) == Plan(m, {r1, r2}, {"commits"}, {Refused}, {None}, events)
PagePlans ==
    {PagePlan("simple", {"logout", "expire"}),
     PagePlan("simple", {"reload", "logout", "restart"}),
     PagePlan("simple", {"reload", "logout", "lose"}),
     PagePlan("simple", {"reload", "lose", "restart"}),
     PagePlan("off", {"reload", "lose", "restart"})}
DecidePlans ==
    {Plan("simple", {r1, r2}, {"approve", "reject"}, {None}, {None}, {"expire"}),
     Plan("simple", {r1, r2}, {"reject"}, {None}, {None}, {"logout"}),
     Plan("off", {r1}, {"approve", "reject"}, {None}, {None}, {"restart"})}
TaskPlan ==
    Plan("simple", {r1}, {"file", "apply", "rollback"}, {None, "HEAD", dev}, {None, c1}, {"move"})
StatusPlan ==
    Plan("off", {r1, r2}, {"status"}, {None}, {None}, {"move", "tick"})
AllPlans == PagePlans \cup DecidePlans \cup {TaskPlan, StatusPlan}
=============================================================================
