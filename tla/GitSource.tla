------------------------------ MODULE GitSource ------------------------------
(***************************************************************************)
(* GitOps mode: the read-only view of a local repository                   *)
(* (internal/gitsource/gitsource.go) and the handlers that answer from it: *)
(* git/status, git/commits and git/file (internal/api/git.go), and the git *)
(* branches of apply (apply.go) and rollback (handlers.go), up to the task *)
(* they create; what happens to the task then is TaskLifecycle.            *)
(*                                                                         *)
(* Every answer is put together from several git commands.  A command is a *)
(* process of its own: it reads the repository at one moment, ends within  *)
(* CmdTimeout, and nothing keeps the repository still until the next one.  *)
(* The repository is external.  There is one collector and so one path.    *)
(***************************************************************************)
EXTENDS Naturals, FiniteSets

CONSTANTS
    Call,               \* the requests served
    Branch, Commit,
    Doc, ValidDoc,      \* documents, and those the validator accepts
    File,               \* File[c]: the collector's document in c, or NoDoc
    Refused,            \* stands for a ref the whitelist refuses
    Start,              \* the repository at first: branches and HEAD
    DefaultRef,         \* GIT_REF
    CacheTTL,           \* lifetime of a cached status, in ticks
    CmdTimeout,         \* time limit of a command, in ticks
    MaxMoves, MaxRows,  \* bounds: moves of a branch or of HEAD, tasks created
    NoDoc, None

Ref == Branch \cup Commit \cup {"HEAD", Refused}
GitKind == {"status", "commits", "file", "apply", "rollback"}

ASSUME GitAssumption ==
    /\ File \in [Commit -> Doc \cup {NoDoc}]
    /\ ValidDoc \subseteq Doc
    /\ Start \in [branch : [Branch -> Commit], head : Branch]
    /\ DefaultRef \in Ref
    /\ {CacheTTL, CmdTimeout, MaxMoves, MaxRows} \subseteq Nat
    /\ CacheTTL > 0
    /\ None \notin Ref \cup Doc
    /\ NoDoc \notin Doc
    /\ Commit \cap (Branch \cup {"HEAD", Refused}) = {}
    /\ "HEAD" \notin Branch

VARIABLES
    branch,     \* the commit each branch points to, or None when deleted
    head,       \* the branch HEAD stands for
    moves,
    stale,      \* history: ticks since a commit was last HEAD's
    cache,      \* Repo.cached: the status of HEAD and the ticks since cachedAt
    call,       \* the handler of each request
    moved,      \* history: the calls whose ref was moved while they ran
    rows,       \* the tasks created
    audits      \* the audit records of their creation

repo == <<branch, head, moves>>
gitVars == <<repo, stale, cache, call, moved, rows, audits>>

NoStatus == [commit |-> None, since |-> 0]
IdleCall == [pc |-> "idle", kind |-> "status", ref |-> "HEAD", actor |-> None, doc |-> NoDoc,
             commit |-> None, cmd |-> 0, late |-> 0]

GitInit ==
    /\ branch = Start.branch /\ head = Start.head
    /\ moves = 0
    /\ stale = [c \in Commit |-> 0]
    /\ cache = NoStatus
    /\ call = [r \in Call |-> IdleCall]
    /\ moved = {}
    /\ rows = {}
    /\ audits = {}

\* What rev-parse makes of a ref.
PointIn(branches, current, ref) ==
    CASE ref \in Commit -> ref
      [] ref \in Branch -> branches[ref]
      [] ref = "HEAD"   -> branches[current]
      [] OTHER          -> None
Point(ref) == PointIn(branch, head, ref)

-----------------------------------------------------------------------------
(* The handlers.                                                            *)

\* The ref a request is about.  An apply without one has its content in the
\* request, and a rollback without either goes to a stored version.
RefOf(kind, gitRef, gitCommit) ==
    CASE kind = "rollback" -> IF gitCommit = None THEN gitRef ELSE gitCommit
      [] kind = "apply"    -> gitRef
      [] OTHER             -> IF gitRef = None THEN DefaultRef ELSE gitRef

\* validateRef comes first, except that Commits hands the ref to git as it is.
Begin(r, kind, gitRef, gitCommit, actor) ==
    LET ref == RefOf(kind, gitRef, gitCommit) IN
    /\ call[r].pc = "idle"
    /\ ref # None
    /\ call' = [call EXCEPT ![r] = [IdleCall EXCEPT
                   !.kind = kind, !.ref = ref, !.actor = actor,
                   !.pc = CASE kind = "commits" -> "log"
                            [] kind # "commits" /\ ref = Refused -> "error"
                            [] kind = "status" /\ ref # Refused -> "cache"
                            [] OTHER -> "show"]]
    /\ moved' = moved \ {r}
    /\ UNCHANGED <<repo, stale, cache, rows, audits>>

Fresh == cache.commit # None /\ cache.since < CacheTTL

\* Mutant of StatusFromCache: a hit renews the entry.
StatusFromCacheSliding(r) ==
    /\ call[r].pc = "cache" /\ call[r].ref = "HEAD" /\ Fresh
    /\ call' = [call EXCEPT ![r].pc = "ok", ![r].commit = cache.commit,
                            ![r].late = stale[cache.commit]]
    /\ cache' = [cache EXCEPT !.since = 0]
    /\ UNCHANGED <<repo, stale, moved, rows, audits>>

\* StatusOf: the status of HEAD is remembered for CacheTTL.
StatusFromCache(r) ==
    /\ call[r].pc = "cache" /\ call[r].ref = "HEAD" /\ Fresh
    /\ call' = [call EXCEPT ![r].pc = "ok", ![r].commit = cache.commit,
                            ![r].late = stale[cache.commit]]
    /\ UNCHANGED <<repo, stale, cache, moved, rows, audits>>

\* The lock is released before git is asked.
StatusMiss(r) ==
    /\ call[r].pc = "cache" /\ ~(call[r].ref = "HEAD" /\ Fresh)
    /\ call' = [call EXCEPT ![r].pc = "revparse"]
    /\ UNCHANGED <<repo, stale, cache, moved, rows, audits>>

\* ShowFile: git show ref:path.
Show(r) ==
    LET c == Point(call[r].ref) IN
    /\ call[r].pc = "show"
    /\ c # None /\ File[c] # NoDoc
    /\ call' = [call EXCEPT ![r].pc = "revparse", ![r].doc = File[c], ![r].cmd = 0]
    /\ UNCHANGED <<repo, stale, cache, moved, rows, audits>>

\* Mutant of Resolve: the configured ref is resolved, not the requested one.
ResolveDefault(r) ==
    LET c == Point(DefaultRef) IN
    /\ call[r].pc = "revparse"
    /\ c # None
    /\ call' = [call EXCEPT ![r].pc = "resolved", ![r].commit = c]
    /\ UNCHANGED <<repo, stale, cache, moved, rows, audits>>

\* Resolve: git rev-parse --verify ref^{commit}.
Resolve(r) ==
    LET c == Point(call[r].ref) IN
    /\ call[r].pc = "revparse"
    /\ c # None
    /\ call' = [call EXCEPT ![r].pc = "resolved", ![r].commit = c]
    /\ UNCHANGED <<repo, stale, cache, moved, rows, audits>>

\* rev-parse has ended: a status goes on with log and status --porcelain, the
\* file is complete, a task is validated.
Resolved(r) ==
    /\ call[r].pc = "resolved"
    /\ call' = [call EXCEPT ![r].cmd = 0,
                            ![r].pc = CASE call[r].kind = "status" -> "log"
                                        [] call[r].kind = "file" -> "ok"
                                        [] OTHER -> "check"]
    /\ UNCHANGED <<repo, stale, cache, moved, rows, audits>>

\* git log: of the resolved commit for a status, of the ref for git/commits,
\* which may be one that the other commands refuse, a range for instance.
Log(r) ==
    /\ call[r].pc = "log"
    /\ call[r].kind = "commits" => call[r].ref = Refused \/ Point(call[r].ref) # None
    /\ call' = [call EXCEPT ![r].cmd = 0,
                            ![r].pc = IF call[r].kind = "status" THEN "porcelain" ELSE "ok"]
    /\ UNCHANGED <<repo, stale, cache, moved, rows, audits>>

\* git status --porcelain completes the status, and the cache is written with
\* the time of now.
Porcelain(r) ==
    /\ call[r].pc = "porcelain"
    /\ cache' = IF call[r].ref = "HEAD" THEN [commit |-> call[r].commit, since |-> 0] ELSE cache
    /\ call' = [call EXCEPT ![r].pc = "ok", ![r].cmd = 0, ![r].late = stale[call[r].commit]]
    /\ UNCHANGED <<repo, stale, moved, rows, audits>>

Running(r) == call[r].pc \in {"show", "revparse", "resolved", "log", "porcelain"}

\* A command may fail, run into its time limit or be killed because the client
\* left; a ref that does not exist and a file that is not there make it fail.
CommandFails(r) ==
    /\ Running(r)
    /\ call' = [call EXCEPT ![r].pc = "error"]
    /\ UNCHANGED <<repo, stale, cache, moved, rows, audits>>

\* Only apply looks the collector up, and may not find it.
Check(r) ==
    /\ call[r].pc = "check"
    /\ \/ /\ call[r].doc \in ValidDoc
          /\ call' = [call EXCEPT ![r].pc = "create"]
       \/ /\ call[r].doc \notin ValidDoc \/ call[r].kind = "apply"
          /\ call' = [call EXCEPT ![r].pc = "error"]
    /\ UNCHANGED <<repo, stale, cache, moved, rows, audits>>

Row(r) == [kind |-> call[r].kind, doc |-> call[r].doc, commit |-> call[r].commit,
           ref |-> call[r].ref, moved |-> r \in moved]

Create(r) ==
    /\ call[r].pc = "create"
    /\ \/ /\ Cardinality(rows) < MaxRows
          /\ rows' = rows \cup {Row(r)}
          /\ call' = [call EXCEPT ![r].pc = IF call[r].kind = "apply"
                                            THEN "audit" ELSE "auditgit"]
       \/ call' = [call EXCEPT ![r].pc = "error"] /\ UNCHANGED rows
    /\ UNCHANGED <<repo, stale, cache, moved, audits>>

\* auditApply, and the record that names commit and ref; a failure is ignored.
Audit(r) ==
    /\ call[r].pc \in {"audit", "auditgit"}
    /\ \/ audits' = audits \cup
             {[kind |-> call[r].kind, actor |-> call[r].actor,
               commit |-> IF call[r].pc = "auditgit" THEN call[r].commit ELSE None]}
       \/ UNCHANGED audits
    /\ call' = [call EXCEPT ![r].pc = IF @ = "audit" THEN "auditgit" ELSE "ok"]
    /\ UNCHANGED <<repo, stale, cache, moved, rows>>

\* The answer has been taken from the handler.
Answered(r) == call[r].pc \in {"ok", "error"}
EndCall(r) ==
    /\ Answered(r)
    /\ call' = [call EXCEPT ![r] = IdleCall]
    /\ UNCHANGED <<repo, stale, cache, moved, rows, audits>>

GitStep(r) ==
    \/ StatusFromCache(r) \/ StatusMiss(r) \/ Show(r) \/ Resolve(r) \/ Resolved(r) \/ Log(r)
    \/ Porcelain(r) \/ CommandFails(r) \/ Check(r) \/ Create(r) \/ Audit(r)

-----------------------------------------------------------------------------
(* External: commits, resets and checkouts in the repository; time.         *)

RepoChanges ==
    /\ moves < MaxMoves
    /\ moves' = moves + 1
    /\ \/ \E b \in Branch, c \in Commit \cup {None} :
             branch' = [branch EXCEPT ![b] = c] /\ UNCHANGED head
       \/ head' \in Branch /\ UNCHANGED branch
    /\ moved' = moved \cup {r \in Call :
           Running(r) /\ PointIn(branch', head', call[r].ref) # Point(call[r].ref)}
    /\ stale' = [c \in Commit |-> IF c = branch'[head'] THEN 0 ELSE stale[c]]
    /\ UNCHANGED <<cache, call, rows, audits>>

\* Ages are counted up to the largest one that matters.
MaxAge == CacheTTL + 3 * CmdTimeout + 1
Older(n) == IF n < MaxAge THEN n + 1 ELSE n

\* No command runs for longer than CmdTimeout.
Tick ==
    /\ \A r \in Call : Running(r) => call[r].cmd < CmdTimeout
    /\ call' = [r \in Call |-> IF Running(r) THEN [call[r] EXCEPT !.cmd = @ + 1] ELSE call[r]]
    /\ cache' = [cache EXCEPT !.since = IF cache = NoStatus THEN 0 ELSE Older(@)]
    /\ stale' = [c \in Commit |-> IF c = Point("HEAD") THEN 0 ELSE Older(stale[c])]
    /\ UNCHANGED <<repo, moved, rows, audits>>

\* The cache and the calls are in memory.
GitRestart ==
    /\ cache' = NoStatus
    /\ call' = [r \in Call |-> IdleCall]
    /\ UNCHANGED <<repo, stale, moved, rows, audits>>

-----------------------------------------------------------------------------
(* Properties.                                                              *)

GitTypeOK ==
    /\ branch \in [Branch -> Commit \cup {None}] /\ head \in Branch
    /\ moves \in Nat
    /\ stale \in [Commit -> Nat]
    /\ cache \in [commit : Commit \cup {None}, since : Nat]
    /\ \A r \in Call :
          /\ call[r].pc \in {"idle", "cache", "show", "revparse", "resolved", "log", "porcelain",
                             "check", "create", "audit", "auditgit", "ok", "error"}
          /\ call[r].kind \in GitKind /\ call[r].ref \in Ref
          /\ call[r].doc \in Doc \cup {NoDoc} /\ call[r].commit \in Commit \cup {None}
          /\ {call[r].cmd, call[r].late} \subseteq Nat
    /\ moved \subseteq Call
    /\ rows \subseteq [kind : {"apply", "rollback"}, doc : Doc, commit : Commit, ref : Ref,
                       moved : BOOLEAN]

Exact(doc, commit, ref, wasMoved) ==
    File[commit] = doc \/ (wasMoved /\ ref \notin Commit)

\* git_commit is where the content is from (design-gitops.md 3.2): the content a
\* task carries, or git/file returns, is that of the commit named with it,
\* unless the ref was moved between the two commands; a full commit cannot be.
TraceableContent ==
    /\ \A t \in rows : Exact(t.doc, t.commit, t.ref, t.moved)
    /\ \A r \in Call : call[r].kind = "file" /\ call[r].pc = "ok" =>
          Exact(call[r].doc, call[r].commit, call[r].ref, r \in moved)

\* A status of HEAD is one that HEAD had not long ago.  Not within CacheTTL as
\* one may think: it is read in the first of three commands, and the lifetime in
\* the cache starts after the last of them, also when a faster request has
\* stored a newer one in between.
StatusIsRecent ==
    \A r \in Call : call[r].kind = "status" /\ call[r].ref = "HEAD" /\ call[r].pc = "ok" =>
        call[r].late < CacheTTL + 3 * CmdTimeout

=============================================================================
