--------------------------- MODULE MCTaskLifecycle ---------------------------
(* Instances of TaskLifecycle for TLC.                                      *)
EXTENDS TaskLifecycle, TLC

CONSTANTS r1, r2, r3, r4, t1, t2, c1, c2, group, nobody, y1, y2, y3, bad

MCMembers == (c1 :> {c1}) @@ (c2 :> {c2}) @@ (group :> {c1, c2})
MCMembersOne == (c1 :> {c1}) @@ (nobody :> {})
MCMembersSolo == c1 :> {c1}

\* Two earlier configurations of c1, either may be rolled back to.
MCVersions == {[collector |-> c1, yaml |-> y] : y \in {y1, y2}}
MCOneVersion == {[collector |-> c1, yaml |-> y1]}
MCNoVersions == {}

\* One task, however it is created, is approved twice and rejected.
MCRace ==
    (r1 :> {"generate", "optimize", "apply", "rollback", "git_rollback"})
      @@ (r2 :> {"approve"}) @@ (r3 :> {"approve"}) @@ (r4 :> {"reject", "reject_tool"})

\* The two approvals are interchangeable.
MCApprovers == Permutations({r2, r3})

\* Every operation, by requests that do not overlap; approval is off.
MCSerial ==
    (r1 :> Ops) @@ (r2 :> {"approve", "reject_tool"}) @@ (r3 :> {"approve", "reject"})

MCApproveReject == (r1 :> {"apply"}) @@ (r2 :> {"approve"}) @@ (r3 :> {"reject", "reject_tool"})
=============================================================================
