----------------------------- MODULE WebRequests -----------------------------
(***************************************************************************)
(* The console and the endpoints it uses, from the browser to the git      *)
(* commands: a request of WebAuth that is let in (Router.Handler puts all  *)
(* of /api behind the middleware) is handled by the call of GitSource with *)
(* the same name, and its answer goes back to the page.  A restart ends    *)
(* both.                                                                   *)
(*                                                                         *)
(* A behaviour is explored under a plan: the login mode, the requests the  *)
(* page makes and the events that may disturb them.  Plans keep questions  *)
(* apart that do not interact; what the code does is the same in all.      *)
(***************************************************************************)
EXTENDS WebAuth, GitSource

CONSTANTS
    Name,       \* names that the body of a request may give for its approver
    Plans

DecideKind == {"approve", "reject"}
EventKind == {"reload", "logout", "expire", "restart", "lose", "move", "tick"}

ASSUME WebAssumption ==
    /\ Call = Req
    /\ Nobody \notin Name
    /\ Plans \subseteq [mode : {"simple", "off"}, reqs : SUBSET Req, kinds : SUBSET (GitKind \cup DecideKind),
                        refs : SUBSET (Ref \cup {None}), commits : SUBSET (Commit \cup {None}),
                        events : SUBSET EventKind]

VARIABLES
    decided,    \* the decisions taken on tasks, with the approver recorded
    plan

vars == <<authVars, gitVars, decided, plan>>

Init ==
    /\ AuthInit
    /\ GitInit
    /\ decided = {}
    /\ plan \in Plans
    /\ plan.mode = mode

May(event) == event \in plan.events

\* The page's requests and their way to the handlers.
Page(r) ==
    /\ \/ Load(r) /\ (tab.boot = "ready" => May("reload"))
       \/ AskLogin(r) \/ AskData(r)
       \/ May("logout") /\ AskLogout(r)
       \/ May("lose") /\ Lose(r)
    /\ UNCHANGED <<gitVars, decided, plan>>
Answering(r) == (Handler(r) \/ Reader(r)) /\ UNCHANGED <<gitVars, decided, plan>>

\* The handler of the request runs as a call of GitSource.
Enter(r) ==
    /\ Serving(r)
    /\ \E kind \in plan.kinds \cap GitKind, gitRef \in plan.refs, gitCommit \in plan.commits :
          Begin(r, kind, gitRef, gitCommit, approverOf(r, Nobody))
    /\ UNCHANGED <<authVars, decided, plan>>
Leave(r) == Serve(r) /\ EndCall(r) /\ UNCHANGED <<decided, plan>>
Git(r) == GitStep(r) /\ UNCHANGED <<authVars, decided, plan>>

\* ApproveTask and RejectTask: the body may name somebody, and the decision is
\* refused or recorded with its approver; what it does to the task is in
\* TaskLifecycle.
Decide(r) ==
    /\ call[r].pc = "idle"
    /\ \E kind \in plan.kinds \cap DecideKind, body \in Name \cup {Nobody} :
          decided' \in {decided, decided \cup {[kind |-> kind, actor |-> approverOf(r, body)]}}
    /\ Serve(r)
    /\ UNCHANGED <<gitVars, plan>>

Disturb ==
    \/ /\ \/ May("expire") /\ \E t \in Token : Expire(t)
          \/ CookieExpires
       /\ UNCHANGED <<gitVars, decided, plan>>
    \/ /\ \/ May("move") /\ RepoChanges
          \/ May("tick") /\ Tick
       /\ UNCHANGED <<authVars, decided, plan>>
    \/ May("restart") /\ AuthRestart /\ GitRestart /\ UNCHANGED <<decided, plan>>

\* What a request goes through once it has been sent.
Progress(r) == Answering(r) \/ Enter(r) \/ Git(r) \/ Leave(r) \/ Decide(r)

Next ==
    \/ \E r \in plan.reqs : Page(r) \/ Progress(r)
    \/ Disturb

\* Handlers and git commands run on, and the page reads its answers.
Spec ==
    /\ Init /\ [][Next]_vars
    /\ \A r \in Req : WF_vars(Progress(r))

-----------------------------------------------------------------------------
TypeOK ==
    /\ AuthTypeOK /\ GitTypeOK
    /\ decided \subseteq [kind : DecideKind, actor : {Admin, "user"} \cup Name]
    /\ plan \in Plans

ActorIsUser == \A a \in audits \cup decided : a.actor = Admin

\* Who approves, rejects, deploys and rolls back over the REST interface is the
\* logged-in user, and a name in the request's body is ignored (design-web-p0.md,
\* P0-3): with login protection no request gets to the handlers that was sent after
\* its session had ended, and every decision and every audit record of a new task
\* names the administrator, also one written while the session that the request
\* came with is being ended.
OnlyUserActs == LoggedOutStaysOut /\ (mode = "simple" => ActorIsUser)
=============================================================================
