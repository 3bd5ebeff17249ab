-------------------------- MODULE WebRequests_proofs --------------------------
(***************************************************************************)
(* Proofs about WebRequests, for any number of requests, tokens, branches, *)
(* commits and documents and any plans: only the logged-in user acts, a    *)
(* login holds until something ends it, the page is never silently open,   *)
(* the content of a task from git is that of the commit named with it, and *)
(* a status answer is as recent as its cache promises.                     *)
(***************************************************************************)
EXTENDS WebRequests, TLAPS

-----------------------------------------------------------------------------
(* Sessions and requests.  A token that was ever dead stays dead, so what a *)
(* request was sent with tells whether the middleware may let it in; and a  *)
(* request for the console's data that was let in has a user.               *)

Points == {"idle", "arrive", "evict", "handle", "answer"}
Answers == {"none", "ok", "denied", "conflict", "error"}

ReqRec(tokens) ==
    [pc : Points, kind : AuthKind, token : tokens \cup {Nobody}, user : {Nobody, Admin},
     late : BOOLEAN, gone : BOOLEAN, answer : Answers, cookie : tokens \cup {"keep", "clear"}]

SessionsInv ==
    /\ mode \in {"simple", "off"}
    /\ given \subseteq Token
    /\ sessions \subseteq given \ ended /\ ended \subseteq given
    /\ cookie \in given \cup {Nobody}

LateIsDead(q, dead) == q.late => q.token = Nobody \/ q.token \in dead
Admitted(q, m) == m = "simple" /\ q.pc = "handle" /\ q.kind = "data" => ~q.late /\ q.user = Admin

ReqsOK ==
    /\ req \in [Req -> ReqRec(given)]
    /\ \A r \in Req : LateIsDead(req[r], ended \cup expired) /\ Admitted(req[r], mode)

AuthInv ==
    /\ SessionsInv
    /\ ReqsOK

\* What the server knows of a token only grows.
Grows ==
    /\ given \subseteq given' /\ ended \subseteq ended' /\ expired \subseteq expired'
    /\ mode' = mode

\* One request changes, to what the invariant allows.
LEMMA OneRequest ==
    ASSUME AuthInv, Grows, NEW r \in Req, NEW q,
           req' = [req EXCEPT ![r] = q],
           q \in ReqRec(given'), LateIsDead(q, ended' \cup expired'), Admitted(q, mode')
    PROVE  ReqsOK'
<1> DEFINE dead == ended \cup expired
<1>1. \A s \in Req : req'[s] = IF s = r THEN q ELSE req[s]
  BY DEF AuthInv, ReqsOK
<1>2. \A s \in Req : req[s] \in ReqRec(given')
  BY DEF AuthInv, ReqsOK, ReqRec, Grows
<1>3. \A s \in Req : req'[s] \in ReqRec(given')
  BY <1>1, <1>2
<1>4. req' \in [Req -> ReqRec(given')]
  BY <1>3 DEF AuthInv, ReqsOK
<1>5. \A s \in Req : LateIsDead(req[s], dead') /\ Admitted(req[s], mode')
  BY DEF AuthInv, ReqsOK, Grows, LateIsDead, Admitted
<1>6. \A s \in Req : LateIsDead(req'[s], dead') /\ Admitted(req'[s], mode')
  BY <1>1, <1>5
<1> QED
  BY <1>4, <1>6 DEF ReqsOK

\* An answer keeps what the request was sent with.
LEMMA AnswerKeeps ==
    ASSUME AuthInv, Grows, NEW r \in Req, NEW a \in Answers,
           NEW c \in given' \cup {"keep", "clear"},
           Answer(r, a, c)
    PROVE  ReqsOK'
<1> DEFINE q == [req[r] EXCEPT !.pc = "answer", !.answer = a, !.cookie = c]
<1>1. req' = [req EXCEPT ![r] = q]
  BY DEF Answer, AuthInv, ReqsOK
<1>2. req[r] \in ReqRec(given)
  BY DEF AuthInv, ReqsOK
<1>3. q \in ReqRec(given')
  <2> DEFINE q1 == [req[r] EXCEPT !.pc = "answer"]
             q2 == [q1 EXCEPT !.answer = a]
  <2>1. req[r] \in ReqRec(given')
    BY <1>2 DEF ReqRec, Grows
  <2>2. q1 \in ReqRec(given')
    BY <2>1 DEF ReqRec, Points
  <2>3. q2 \in ReqRec(given')
    BY <2>2 DEF ReqRec
  <2>4. [q2 EXCEPT !.cookie = c] \in ReqRec(given')
    BY <2>3 DEF ReqRec
  <2> QED
    BY <2>4
<1>4. q.late = req[r].late /\ q.token = req[r].token /\ q.pc = "answer"
  BY <1>2 DEF ReqRec
<1>5. LateIsDead(q, ended' \cup expired') /\ Admitted(q, mode')
  BY <1>4 DEF AuthInv, ReqsOK, Grows, LateIsDead, Admitted
<1> HIDE DEF q
<1> QED
  BY <1>1, <1>3, <1>5, OneRequest

\* A step of the middleware, to the handler or to the eviction.
LEMMA ToKeeps ==
    ASSUME AuthInv, Grows, NEW r \in Req, NEW p \in Points, NEW u \in {Nobody, Admin},
           To(r, p, u),
           mode = "simple" /\ p = "handle" /\ req[r].kind = "data" => ~req[r].late /\ u = Admin
    PROVE  ReqsOK'
<1> DEFINE q == [req[r] EXCEPT !.pc = p, !.user = u]
<1>1. req' = [req EXCEPT ![r] = q]
  BY DEF To, AuthInv, ReqsOK
<1>2. req[r] \in ReqRec(given)
  BY DEF AuthInv, ReqsOK
<1>3. q \in ReqRec(given')
  BY <1>2 DEF ReqRec, Grows
<1>4. /\ q.late = req[r].late /\ q.token = req[r].token /\ q.kind = req[r].kind
      /\ q.pc = p /\ q.user = u
  BY <1>2 DEF ReqRec
<1>5. LateIsDead(q, ended' \cup expired') /\ Admitted(q, mode')
  BY <1>4 DEF AuthInv, ReqsOK, Grows, LateIsDead, Admitted
<1> HIDE DEF q
<1> QED
  BY <1>1, <1>3, <1>5, OneRequest

\* Without a session only an exempt endpoint is reached.
LEMMA AnonymousKeeps ==
    ASSUME AuthInv, Grows, NEW r \in Req, Anonymous(r)
    PROVE  ReqsOK'
<1>1. CASE Exempt(req[r].kind)
  BY <1>1, ToKeeps DEF Anonymous, Exempt, Points
<1>2. CASE ~Exempt(req[r].kind)
  BY <1>2, AnswerKeeps DEF Anonymous, Answers
<1> QED
  BY <1>1, <1>2

\* A new request names the cookie, which is dead when the request is late.
LEMMA NewReqOK ==
    ASSUME AuthInv, NEW kind \in AuthKind
    PROVE  /\ NewReq(kind) \in ReqRec(given)
           /\ LateIsDead(NewReq(kind), ended \cup expired)
           /\ Admitted(NewReq(kind), mode)
<1> DEFINE late == cookie \notin given \ (ended \cup expired)
           Sent(l) == [IdleReq EXCEPT !.pc = "arrive", !.kind = kind, !.token = cookie,
                                      !.late = l]
<1>1. NewReq(kind) = Sent(late)
  BY Zenon DEF NewReq
<1>2. late \in BOOLEAN
  OBVIOUS
<1>3. late => cookie = Nobody \/ cookie \in ended \cup expired
  BY DEF AuthInv, SessionsInv
<1>4. cookie \in given \cup {Nobody}
  BY DEF AuthInv, SessionsInv
<1> HIDE DEF late
<1>5. ASSUME NEW l \in BOOLEAN
      PROVE  /\ Sent(l) \in ReqRec(given)
             /\ Sent(l).late = l /\ Sent(l).token = cookie /\ Sent(l).pc = "arrive"
  BY <1>4 DEF IdleReq, ReqRec, Points, Answers, AuthKind
<1> HIDE DEF Sent
<1>6. NewReq(kind) \in ReqRec(given)
  BY <1>1, <1>2, <1>5
<1>7. NewReq(kind).late = late /\ NewReq(kind).token = cookie /\ NewReq(kind).pc = "arrive"
  BY <1>1, <1>2, <1>5
<1>8. LateIsDead(NewReq(kind), ended \cup expired)
  BY <1>3, <1>7, Zenon DEF LateIsDead
<1>9. Admitted(NewReq(kind), mode)
  BY <1>7 DEF Admitted
<1> QED
  BY <1>6, <1>8, <1>9

\* A request that is not under way claims nothing.
LEMMA IdleReqOK ==
    ASSUME NEW tokens, NEW dead, NEW m
    PROVE  IdleReq \in ReqRec(tokens) /\ LateIsDead(IdleReq, dead) /\ Admitted(IdleReq, m)
  BY DEF IdleReq, ReqRec, LateIsDead, Admitted, Points, Answers, AuthKind

\* What the server's map, the handlers and the page do to requests and tokens.
LEMMA HandlerKeeps ==
    ASSUME AuthInv, NEW r \in Req, Handler(r)
    PROVE  AuthInv'
<1>1. ASSUME Middleware(r)
      PROVE  AuthInv'
  <2>1. Grows /\ UNCHANGED <<mode, sessions, given, ended, cookie>>
    BY <1>1 DEF Middleware, Grows
  <2>2. CASE mode = "off"
    <3>1. To(r, "handle", Nobody)
      BY <1>1, <2>2 DEF Middleware
    <3> QED
      BY <2>1, <2>2, <3>1, ToKeeps DEF Points, AuthInv, SessionsInv
  <2>3. CASE mode = "simple" /\ Live(req[r].token)
    <3>1. To(r, "handle", Admin)
      BY <1>1, <2>3 DEF Middleware, Live
    <3>2. ~req[r].late
      BY <2>3, AuthAssumption DEF AuthInv, ReqsOK, SessionsInv, LateIsDead, Live
    <3> QED
      BY <2>1, <3>1, <3>2, ToKeeps DEF Points, AuthInv, SessionsInv
  <2>4. CASE mode = "simple" /\ req[r].token \in sessions \cap expired
    <3>1. To(r, "evict", Nobody)
      BY <1>1, <2>4 DEF Middleware, Live
    <3> QED
      BY <2>1, <3>1, ToKeeps DEF Points, AuthInv, SessionsInv
  <2>5. CASE mode = "simple" /\ req[r].token \notin sessions
    <3>1. Anonymous(r)
      BY <1>1, <2>5 DEF Middleware, Live
    <3> QED
      BY <2>1, <3>1, AnonymousKeeps DEF AuthInv, SessionsInv
  <2> QED
    BY <2>2, <2>3, <2>4, <2>5 DEF AuthInv, SessionsInv, Live
<1>2. ASSUME Evict(r)
      PROVE  AuthInv'
  <2>1. Grows /\ SessionsInv'
    BY <1>2 DEF Evict, Grows, AuthInv, SessionsInv
  <2> QED
    BY <1>2, <2>1, AnonymousKeeps DEF Evict, AuthInv
<1>3. ASSUME HandleLogin(r)
      PROVE  AuthInv'
  <2>1. CASE UNCHANGED <<sessions, given>>
    <3>1. Grows /\ SessionsInv'
      BY <1>3, <2>1 DEF HandleLogin, Grows, AuthInv, SessionsInv
    <3>2. PICK a \in Answers : Answer(r, a, "keep")
      BY <1>3, <2>1 DEF HandleLogin, Answers, AuthInv, SessionsInv
    <3> QED
      BY <3>1, <3>2, AnswerKeeps DEF AuthInv
  <2>2. ASSUME NEW t \in Token \ given, given' = given \cup {t},
               sessions' = sessions \cup {t}, Answer(r, "ok", t)
        PROVE  AuthInv'
    <3>1. Grows /\ SessionsInv'
      BY <1>3, <2>2 DEF HandleLogin, Grows, AuthInv, SessionsInv
    <3> QED
      BY <2>2, <3>1, AnswerKeeps DEF AuthInv, Answers
  <2> QED
    BY <1>3, <2>1, <2>2 DEF HandleLogin, AuthInv, SessionsInv
<1>4. ASSUME HandleLogout(r)
      PROVE  AuthInv'
  <2>1. Grows /\ SessionsInv'
    BY <1>4 DEF HandleLogout, Grows, AuthInv, SessionsInv
  <2> QED
    BY <1>4, <2>1, AnswerKeeps DEF HandleLogout, AuthInv, Answers
<1>5. ASSUME HandleMe(r) \/ SystemInfo(r) \/ Serve(r)
      PROVE  AuthInv'
  <2>1. Grows /\ SessionsInv'
    BY <1>5 DEF HandleMe, SystemInfo, Serve, Grows, AuthInv, SessionsInv
  <2>2. PICK a \in Answers : Answer(r, a, "keep")
    BY <1>5 DEF HandleMe, SystemInfo, Serve, Answers
  <2> QED
    BY <2>1, <2>2, AnswerKeeps DEF AuthInv
<1> QED
  BY <1>1, <1>2, <1>3, <1>4, <1>5 DEF Handler

\* The page sends with its cookie and takes what an answer sets.
LEMMA SendKeeps ==
    ASSUME AuthInv, Grows, SessionsInv', UNCHANGED <<given, ended, expired>>,
           NEW r \in Req, NEW kind \in AuthKind, req' = [req EXCEPT ![r] = NewReq(kind)]
    PROVE  AuthInv'
<1>1. mode' = mode
  BY DEF Grows
<1>2. /\ NewReq(kind) \in ReqRec(given')
      /\ LateIsDead(NewReq(kind), ended' \cup expired')
      /\ Admitted(NewReq(kind), mode')
  BY <1>1, NewReqOK
<1> QED
  BY <1>2, OneRequest DEF AuthInv

\* The page has read an answer.
LEMMA DoneKeeps ==
    ASSUME AuthInv, Grows, SessionsInv', NEW r \in Req, Done(r)
    PROVE  AuthInv'
  BY IdleReqOK, OneRequest DEF AuthInv, Done

\* The page, loaded or used, only sends what its cookie says.
LEMMA PageKeeps ==
    ASSUME AuthInv, NEW r \in Req,
           Load(r) \/ AskLogin(r) \/ AskData(r) \/ AskLogout(r) \/ Lose(r)
    PROVE  AuthInv'
<1>1. Grows /\ SessionsInv' /\ UNCHANGED <<mode, given, ended, expired>>
  BY DEF Load, AskLogin, AskData, AskLogout, Lose, Grows, AuthInv, SessionsInv
<1>2. ASSUME Load(r)
      PROVE  AuthInv'
  <2>1. \A q \in Req : req'[q] = IF q = r THEN NewReq("me")
                                ELSE [req[q] EXCEPT !.gone = req[q].pc # "idle"]
    BY <1>2 DEF Load
  <2>2. ASSUME NEW q \in Req
        PROVE  /\ req'[q] \in ReqRec(given)
               /\ LateIsDead(req'[q], ended \cup expired) /\ Admitted(req'[q], mode)
    <3>1. CASE q = r
      BY <2>1, <3>1, NewReqOK DEF AuthKind
    <3>2. CASE q # r
      <4> DEFINE gone == req[q].pc # "idle"
                 Left(g) == [req[q] EXCEPT !.gone = g]
      <4>1. req'[q] = Left(gone)
        BY <2>1, <3>2, Zenon
      <4>2. gone \in BOOLEAN
        OBVIOUS
      <4> HIDE DEF gone
      <4>3. ASSUME NEW g \in BOOLEAN
            PROVE  /\ Left(g) \in ReqRec(given)
                   /\ Left(g).late = req[q].late /\ Left(g).token = req[q].token
                   /\ Left(g).pc = req[q].pc /\ Left(g).kind = req[q].kind
                   /\ Left(g).user = req[q].user
        BY DEF AuthInv, ReqsOK, ReqRec
      <4> HIDE DEF Left
      <4> QED
        BY <4>1, <4>2, <4>3 DEF AuthInv, ReqsOK, LateIsDead, Admitted
    <3> QED
      BY <3>1, <3>2
  <2>3. req' \in [Req -> ReqRec(given)]
    BY <1>2, <2>2 DEF Load
  <2> QED
    BY <1>1, <2>2, <2>3 DEF AuthInv, ReqsOK
<1>3. ASSUME AskLogin(r) \/ AskData(r) \/ AskLogout(r)
      PROVE  AuthInv'
  <2>1. PICK kind \in AuthKind : req' = [req EXCEPT ![r] = NewReq(kind)]
    BY <1>3 DEF AskLogin, AskData, AskLogout, Send, AuthKind
  <2> QED
    BY <1>1, <2>1, SendKeeps
<1>4. ASSUME Lose(r)
      PROVE  AuthInv'
  BY <1>1, <1>4, AnswerKeeps DEF Lose, AuthInv, Answers
<1> QED
  BY <1>2, <1>3, <1>4

\* Reading an answer may change the cookie, to a token that was given.
LEMMA ReaderKeeps ==
    ASSUME AuthInv, NEW r \in Req, Reader(r)
    PROVE  AuthInv'
<1>1. Grows /\ UNCHANGED <<mode, sessions, given, ended, expired>>
  BY DEF Reader, ReadMe, ReadInfo, ReadLogin, ReadLogout, ReadData, Drop, Grows
<1>2. cookie' \in given \cup {Nobody}
  <2>1. req[r].cookie \in given \cup {"keep", "clear"} /\ cookie \in given \cup {Nobody}
    BY DEF AuthInv, ReqsOK, ReqRec, SessionsInv
  <2>2. CASE Drop(r)
    BY <2>1, <2>2 DEF Drop
  <2>3. CASE \E kind \in AuthKind : Read(r, kind)
    BY <2>1, <2>3 DEF Read
  <2> QED
    BY <2>2, <2>3 DEF Reader, ReadMe, ReadInfo, ReadLogin, ReadLogout, ReadData, AuthKind
<1>3. SessionsInv'
  BY <1>1, <1>2 DEF AuthInv, SessionsInv
<1>4. CASE Done(r)
  BY <1>1, <1>3, <1>4, DoneKeeps
<1>5. CASE req' = [req EXCEPT ![r] = NewReq("info")]
  BY <1>1, <1>3, <1>5, SendKeeps DEF AuthKind
<1> QED
  BY <1>4, <1>5 DEF Reader, ReadMe, ReadInfo, ReadLogin, ReadLogout, ReadData, Drop

\* Expiry and restart only take tokens away.
LEMMA DisturbKeeps ==
    ASSUME AuthInv, (\E t \in Token : Expire(t)) \/ CookieExpires \/ AuthRestart
    PROVE  AuthInv'
<1>1. CASE (\E t \in Token : Expire(t)) \/ CookieExpires
  BY <1>1 DEF Expire, CookieExpires, AuthInv, SessionsInv, ReqsOK, LateIsDead, Admitted
<1>2. CASE AuthRestart
  <2>1. SessionsInv' /\ UNCHANGED <<mode, given, expired>> /\ ended' = given
    BY <1>2 DEF AuthRestart, AuthInv, SessionsInv
  <2>2. ASSUME NEW r \in Req
        PROVE  /\ req'[r] \in ReqRec(given)
               /\ LateIsDead(req'[r], ended' \cup expired) /\ Admitted(req'[r], mode)
    <3>1. CASE req'[r] = req[r]
      BY <2>1, <3>1 DEF AuthInv, ReqsOK, SessionsInv, LateIsDead, Admitted
    <3>2. CASE req'[r] = [req[r] EXCEPT !.pc = "answer", !.answer = "error", !.cookie = "keep"]
      <4>1. req[r] \in ReqRec(given)
        BY DEF AuthInv, ReqsOK
      <4> DEFINE q == [req[r] EXCEPT !.pc = "answer", !.answer = "error", !.cookie = "keep"]
      <4>2. q \in ReqRec(given) /\ q.late = req[r].late /\ q.token = req[r].token /\ q.pc = "answer"
        BY <4>1 DEF ReqRec, Points, Answers
      <4> HIDE DEF q
      <4>3. req'[r] = q
        BY <3>2 DEF q
      <4> QED
        BY <2>1, <4>2, <4>3 DEF AuthInv, ReqsOK, SessionsInv, LateIsDead, Admitted
    <3> QED
      BY <1>2, <3>1, <3>2 DEF AuthRestart
  <2>3. req' \in [Req -> ReqRec(given)]
    BY <1>2, <2>2 DEF AuthRestart
  <2> QED
    BY <2>1, <2>2, <2>3 DEF AuthInv, ReqsOK
<1> QED
  BY <1>1, <1>2

-----------------------------------------------------------------------------
(* The calls.  Between show and rev-parse the ref still stands for the      *)
(* commit the document is from, or it was moved; from then on the call has  *)
(* the commit.  A call works for the user its request was let in with.      *)

GitPoints == {"idle", "cache", "show", "revparse", "resolved", "log", "porcelain",
              "check", "create", "audit", "auditgit", "ok", "error"}
Showing == {"file", "apply", "rollback"}
HasCommit == {"resolved", "check", "create", "audit", "auditgit", "ok"}

CallRec ==
    [pc : GitPoints, kind : GitKind, ref : Ref, actor : {Admin, "user", None},
     doc : Doc \cup {NoDoc}, commit : Commit \cup {None}, cmd : Nat, late : Nat]

RepoInv ==
    /\ branch \in [Branch -> Commit \cup {None}] /\ head \in Branch
    /\ stale \in [Commit -> Nat]
    /\ cache \in [commit : Commit \cup {None}, since : Nat]

CallOK(c, point, wasMoved) ==
    /\ c.pc \in {"cache", "log", "porcelain"} => c.kind \notin Showing
    /\ c.pc \in {"cache", "revparse", "resolved"} => c.kind # "commits"
    /\ c.pc \in {"show", "check", "create", "audit", "auditgit"} => c.kind \in Showing
    /\ c.pc \in {"resolved", "porcelain"} \/ (c.pc = "log" /\ c.kind = "status") =>
          c.commit # None
    /\ c.pc = "revparse" /\ c.kind \in Showing =>
          \/ point # None /\ File[point] = c.doc
          \/ wasMoved /\ c.ref \notin Commit
    /\ c.pc \in HasCommit /\ c.kind \in Showing => Exact(c.doc, c.commit, c.ref, wasMoved)
ActorOK(c, m) == m = "simple" /\ c.pc # "idle" => c.actor = Admin

CallsOK ==
    /\ call \in [Call -> CallRec]
    /\ \A r \in Call : /\ CallOK(call[r], Point(call[r].ref), r \in moved)
                       /\ ActorOK(call[r], mode)

RowsOK == \A t \in rows : Exact(t.doc, t.commit, t.ref, t.moved)
AuditsOK == mode = "simple" => \A a \in audits : a.actor = Admin

GitInv == RepoInv /\ CallsOK /\ RowsOK /\ AuditsOK

\* A ref stands for a commit or for nothing, a full commit for itself.
LEMMA PointType ==
    ASSUME RepoInv, NEW ref \in Ref
    PROVE  /\ Point(ref) \in Commit \cup {None}
           /\ ref \in Commit => Point(ref) = ref
  BY GitAssumption DEF RepoInv, Point, PointIn, Ref

\* One call changes, while the repository stands still.
LEMMA OneCall ==
    ASSUME CallsOK, NEW r \in Call, NEW c,
           call' = [call EXCEPT ![r] = c], c \in CallRec,
           UNCHANGED <<branch, head, mode>>,
           \A q \in Call : q # r => (q \in moved' <=> q \in moved),
           CallOK(c, Point(c.ref), r \in moved'), ActorOK(c, mode)
    PROVE  CallsOK'
<1>1. \A q \in Call : call'[q] = IF q = r THEN c ELSE call[q]
  BY DEF CallsOK
<1>2. call' \in [Call -> CallRec]
  BY <1>1 DEF CallsOK
<1>3. \A ref : PointIn(branch', head', ref) = Point(ref)
  BY DEF Point
<1>4. ASSUME NEW q \in Call
      PROVE  /\ CallOK(call'[q], PointIn(branch', head', call'[q].ref), q \in moved')
             /\ ActorOK(call'[q], mode')
  <2>1. CASE q # r
    <3>1. call'[q] = call[q] /\ PointIn(branch', head', call'[q].ref) = Point(call[q].ref)
      BY <1>1, <1>3, <2>1
    <3>2. CallOK(call[q], Point(call[q].ref), q \in moved) /\ ActorOK(call[q], mode)
      BY DEF CallsOK
    <3>3. CallOK(call[q], Point(call[q].ref), q \in moved')
      BY <2>1, <3>2 DEF CallOK, Exact
    <3> QED
      BY <3>1, <3>2, <3>3
  <2>2. CASE q = r
    <3>1. call'[q] = c /\ PointIn(branch', head', call'[q].ref) = Point(c.ref)
      BY <1>1, <1>3, <2>2
    <3> QED
      BY <2>2, <3>1, Zenon
  <2> QED
    BY <2>1, <2>2
<1> QED
  BY <1>2, <1>4 DEF CallsOK, Point

\* A call goes on for the same user, kind and ref.
LEMMA Advance ==
    ASSUME GitInv, NEW r \in Call, NEW c \in CallRec, call[r].pc # "idle",
           call' = [call EXCEPT ![r] = c], UNCHANGED <<branch, head, mode, moved>>,
           c.actor = call[r].actor, CallOK(c, Point(c.ref), r \in moved)
    PROVE  CallsOK'
<1>1. ActorOK(c, mode)
  BY DEF GitInv, CallsOK, ActorOK
<1>2. \A q \in Call : q # r => (q \in moved' <=> q \in moved)
  OBVIOUS
<1> QED
  BY <1>1, <1>2, OneCall DEF GitInv

\* What the invariant says of one call.
LEMMA CallFacts ==
    ASSUME GitInv, NEW r \in Call
    PROVE  /\ call[r] \in CallRec
           /\ CallOK(call[r], Point(call[r].ref), r \in moved)
           /\ Point(call[r].ref) \in Commit \cup {None}
           /\ call[r].ref \in Commit => Point(call[r].ref) = call[r].ref
<1>1. call[r] \in CallRec /\ CallOK(call[r], Point(call[r].ref), r \in moved)
  BY DEF GitInv, CallsOK
<1>2. call[r].ref \in Ref
  BY <1>1 DEF CallRec
<1> QED
  BY <1>1, <1>2, PointType DEF GitInv

\* Steps that only move the call on.
LEMMA ReadingStep ==
    ASSUME GitInv, NEW r \in Call, UNCHANGED mode,
           StatusFromCache(r) \/ StatusMiss(r) \/ Show(r) \/ Resolve(r) \/ Resolved(r) \/ Log(r)
    PROVE  GitInv'
<1>1. UNCHANGED <<branch, head, stale, cache, moved, rows, audits>>
  BY DEF StatusFromCache, StatusMiss, Show, Resolve, Resolved, Log, repo
<1>2. RepoInv' /\ RowsOK' /\ AuditsOK'
  BY <1>1 DEF GitInv, RepoInv, RowsOK, AuditsOK
<1> SUFFICES CallsOK'
  BY <1>2 DEF GitInv
<1> DEFINE k == call[r]
<1>3. /\ k \in CallRec /\ CallOK(k, Point(k.ref), r \in moved)
      /\ Point(k.ref) \in Commit \cup {None} /\ (k.ref \in Commit => Point(k.ref) = k.ref)
  BY CallFacts
<1>4. ASSUME StatusFromCache(r)
      PROVE  CallsOK'
  <2> DEFINE c == [k EXCEPT !.pc = "ok", !.commit = cache.commit, !.late = stale[cache.commit]]
  <2>1. call' = [call EXCEPT ![r] = c] /\ k.pc = "cache"
    BY <1>4 DEF StatusFromCache
  <2>2. cache.commit \in Commit /\ stale[cache.commit] \in Nat
    BY <1>4 DEF StatusFromCache, Fresh, GitInv, RepoInv
  <2>3. c \in CallRec
    <3>1. [k EXCEPT !.pc = "ok"] \in CallRec
      BY <1>3 DEF CallRec, GitPoints
    <3>2. [[k EXCEPT !.pc = "ok"] EXCEPT !.commit = cache.commit] \in CallRec
      BY <2>2, <3>1 DEF CallRec
    <3> QED
      BY <2>2, <3>2 DEF CallRec
  <2>4. c.pc = "ok" /\ c.kind = k.kind /\ c.ref = k.ref /\ c.actor = k.actor
    BY <1>3 DEF CallRec
  <2> HIDE DEF c
  <2>5. CallOK(c, Point(c.ref), r \in moved)
    BY <1>3, <2>1, <2>4 DEF CallOK
  <2> QED
    BY <1>1, <2>1, <2>3, <2>4, <2>5, Advance
<1>5. ASSUME StatusMiss(r)
      PROVE  CallsOK'
  <2> DEFINE c == [k EXCEPT !.pc = "revparse"]
  <2>1. call' = [call EXCEPT ![r] = c] /\ k.pc = "cache"
    BY <1>5 DEF StatusMiss
  <2>2. c \in CallRec /\ c.pc = "revparse" /\ c.kind = k.kind /\ c.ref = k.ref /\ c.actor = k.actor
    BY <1>3 DEF CallRec, GitPoints
  <2> HIDE DEF c
  <2>3. CallOK(c, Point(c.ref), r \in moved)
    BY <1>3, <2>1, <2>2 DEF CallOK, HasCommit
  <2> QED
    BY <1>1, <2>1, <2>2, <2>3, Advance
<1>6. ASSUME Show(r)
      PROVE  CallsOK'
  <2> DEFINE p == Point(k.ref)
             c == [k EXCEPT !.pc = "revparse", !.doc = File[p], !.cmd = 0]
  <2>1. call' = [call EXCEPT ![r] = c] /\ k.pc = "show" /\ p # None
    BY <1>6 DEF Show
  <2>2. File[p] \in Doc \cup {NoDoc}
    BY <1>3, <2>1, GitAssumption
  <2>3. c \in CallRec
    <3>1. [k EXCEPT !.pc = "revparse"] \in CallRec
      BY <1>3 DEF CallRec, GitPoints
    <3>2. [[k EXCEPT !.pc = "revparse"] EXCEPT !.doc = File[p]] \in CallRec
      BY <2>2, <3>1 DEF CallRec
    <3> QED
      BY <3>2 DEF CallRec
  <2>4. /\ c.pc = "revparse" /\ c.doc = File[p] /\ c.kind = k.kind /\ c.ref = k.ref
        /\ c.actor = k.actor
    BY <1>3 DEF CallRec
  <2> HIDE DEF c
  <2>5. CallOK(c, Point(c.ref), r \in moved)
    BY <1>3, <2>1, <2>4 DEF CallOK, HasCommit, Showing
  <2> QED
    BY <1>1, <2>1, <2>3, <2>4, <2>5, Advance
<1>7. ASSUME Resolve(r)
      PROVE  CallsOK'
  <2> DEFINE p == Point(k.ref)
             c == [k EXCEPT !.pc = "resolved", !.commit = p]
  <2>1. call' = [call EXCEPT ![r] = c] /\ k.pc = "revparse" /\ p # None
    BY <1>7 DEF Resolve
  <2>2. c \in CallRec
    <3>1. [k EXCEPT !.pc = "resolved"] \in CallRec
      BY <1>3 DEF CallRec, GitPoints
    <3> QED
      BY <1>3, <3>1 DEF CallRec
  <2>3. /\ c.pc = "resolved" /\ c.commit = p /\ c.doc = k.doc /\ c.kind = k.kind
        /\ c.ref = k.ref /\ c.actor = k.actor
    BY <1>3 DEF CallRec
  <2> HIDE DEF c
  <2>4. CallOK(c, Point(c.ref), r \in moved)
    BY <1>3, <2>1, <2>3 DEF CallOK, Exact
  <2> QED
    BY <1>1, <2>1, <2>2, <2>3, <2>4, Advance
<1>8. ASSUME Resolved(r)
      PROVE  CallsOK'
  <2> DEFINE p == CASE k.kind = "status" -> "log" [] k.kind = "file" -> "ok" [] OTHER -> "check"
             c == [k EXCEPT !.cmd = 0, !.pc = p]
  <2>1. call' = [call EXCEPT ![r] = c] /\ k.pc = "resolved"
    BY <1>8 DEF Resolved
  <2>2. /\ k.kind = "status" => p = "log"
        /\ k.kind # "status" => p \in {"ok", "check"}
        /\ p = "check" => k.kind \notin {"status", "file"}
    OBVIOUS
  <2>3. p \in GitPoints
    BY <2>2 DEF GitPoints
  <2> HIDE DEF p
  <2>4. c \in CallRec
    <3>1. [k EXCEPT !.cmd = 0] \in CallRec
      BY <1>3 DEF CallRec
    <3> QED
      BY <2>3, <3>1 DEF CallRec
  <2>5. /\ c.pc = p /\ c.commit = k.commit /\ c.doc = k.doc /\ c.kind = k.kind
        /\ c.ref = k.ref /\ c.actor = k.actor
    BY <1>3 DEF CallRec
  <2> HIDE DEF c
  <2>6. CallOK(c, Point(c.ref), r \in moved)
    <3>1. p = "check" => k.kind \in Showing
      BY <1>3, <2>1, <2>2 DEF CallOK, CallRec, GitKind, Showing
    <3> QED
      BY <1>3, <2>1, <2>2, <2>5, <3>1 DEF CallOK, HasCommit, Showing
  <2> QED
    BY <1>1, <2>1, <2>4, <2>5, <2>6, Advance
<1>9. ASSUME Log(r)
      PROVE  CallsOK'
  <2> DEFINE p == IF k.kind = "status" THEN "porcelain" ELSE "ok"
             c == [k EXCEPT !.cmd = 0, !.pc = p]
  <2>1. call' = [call EXCEPT ![r] = c] /\ k.pc = "log"
    BY <1>9 DEF Log
  <2>2. p \in GitPoints
    BY DEF GitPoints
  <2> HIDE DEF p
  <2>3. c \in CallRec
    <3>1. [k EXCEPT !.cmd = 0] \in CallRec
      BY <1>3 DEF CallRec
    <3> QED
      BY <2>2, <3>1 DEF CallRec
  <2>4. /\ c.pc = p /\ c.kind = k.kind /\ c.ref = k.ref /\ c.actor = k.actor
        /\ c.commit = k.commit
    BY <1>3 DEF CallRec
  <2>5. p = IF k.kind = "status" THEN "porcelain" ELSE "ok"
    BY DEF p
  <2> HIDE DEF c
  <2>6. CallOK(c, Point(c.ref), r \in moved)
    BY <1>3, <2>1, <2>4, <2>5 DEF CallOK
  <2> QED
    BY <1>1, <2>1, <2>3, <2>4, <2>6, Advance
<1> QED
  BY <1>4, <1>5, <1>6, <1>7, <1>8, <1>9

\* A call whose document is complete goes on with it, or ends.
LEMMA PointOnly ==
    ASSUME GitInv, NEW r \in Call, NEW p \in {"error", "create", "audit", "auditgit", "ok"},
           call' = [call EXCEPT ![r] = [call[r] EXCEPT !.pc = p]],
           UNCHANGED <<branch, head, mode, moved>>,
           p = "error" \/ call[r].pc \in {"check", "create", "audit", "auditgit"},
           call[r].pc # "idle"
    PROVE  CallsOK'
<1> DEFINE c == [call[r] EXCEPT !.pc = p]
<1>1. /\ c \in CallRec /\ c.pc = p /\ c.kind = call[r].kind /\ c.ref = call[r].ref
      /\ c.actor = call[r].actor /\ c.doc = call[r].doc /\ c.commit = call[r].commit
  BY CallFacts DEF CallRec, GitPoints
<1>2. call' = [call EXCEPT ![r] = c]
  OBVIOUS
<1> HIDE DEF c
<1>3. CallOK(c, Point(c.ref), r \in moved)
  BY <1>1, CallFacts DEF CallOK, HasCommit
<1> QED
  BY <1>1, <1>2, <1>3, Advance

\* Steps that end a status, check a document or write a row or a record.
LEMMA WritingStep ==
    ASSUME GitInv, NEW r \in Call, UNCHANGED mode,
           Porcelain(r) \/ CommandFails(r) \/ Check(r) \/ Create(r) \/ Audit(r)
    PROVE  GitInv'
<1>1. UNCHANGED <<branch, head, stale, moved>>
  BY DEF Porcelain, CommandFails, Check, Create, Audit, repo
<1> DEFINE k == call[r]
<1>2. /\ k \in CallRec /\ CallOK(k, Point(k.ref), r \in moved)
      /\ Point(k.ref) \in Commit \cup {None}
  BY CallFacts
<1>3. ASSUME Porcelain(r)
      PROVE  GitInv'
  <2> DEFINE c == [k EXCEPT !.pc = "ok", !.cmd = 0, !.late = stale[k.commit]]
  <2>1. call' = [call EXCEPT ![r] = c] /\ k.pc = "porcelain" /\ UNCHANGED <<rows, audits>>
    BY <1>3 DEF Porcelain
  <2>2. k.kind \notin Showing
    BY <1>2, <2>1 DEF CallOK
  <2>3. k.commit \in Commit /\ stale[k.commit] \in Nat
    <3>1. k.commit # None
      BY <1>2, <2>1 DEF CallOK
    <3> QED
      BY <1>2, <3>1 DEF CallRec, GitInv, RepoInv
  <2>4. c \in CallRec
    <3>1. [k EXCEPT !.pc = "ok"] \in CallRec
      BY <1>2 DEF CallRec, GitPoints
    <3>2. [[k EXCEPT !.pc = "ok"] EXCEPT !.cmd = 0] \in CallRec
      BY <3>1 DEF CallRec
    <3> QED
      BY <2>3, <3>2 DEF CallRec
  <2>5. c.pc = "ok" /\ c.kind = k.kind /\ c.actor = k.actor
    BY <1>2 DEF CallRec
  <2> HIDE DEF c
  <2>6. CallOK(c, Point(c.ref), r \in moved)
    BY <2>2, <2>5 DEF CallOK
  <2>7. CallsOK'
    BY <1>1, <2>1, <2>4, <2>5, <2>6, Advance
  <2>8. cache' \in [commit : Commit \cup {None}, since : Nat]
    BY <1>3, <2>3 DEF Porcelain, GitInv, RepoInv
  <2>9. RepoInv'
    BY <1>1, <2>8 DEF GitInv, RepoInv
  <2> QED
    BY <2>1, <2>7, <2>9 DEF GitInv, RowsOK, AuditsOK
<1>4. ASSUME CommandFails(r) \/ Check(r)
      PROVE  GitInv'
  <2>1. UNCHANGED <<cache, rows, audits>> /\ k.pc # "idle"
    BY <1>4 DEF CommandFails, Check, Running
  <2>2. CallsOK'
    <3>1. CASE CommandFails(r)
      BY <1>1, <2>1, <3>1, PointOnly DEF CommandFails
    <3>2. CASE Check(r)
      BY <1>1, <2>1, <3>2, PointOnly DEF Check
    <3> QED
      BY <1>4, <3>1, <3>2
  <2> QED
    BY <1>1, <2>1, <2>2 DEF GitInv, RepoInv, RowsOK, AuditsOK
<1>5. ASSUME Create(r)
      PROVE  GitInv'
  <2>1. UNCHANGED <<cache, audits>> /\ k.pc = "create"
    BY <1>5 DEF Create
  <2>2. PICK p \in {"audit", "auditgit", "error"} :
           call' = [call EXCEPT ![r] = [call[r] EXCEPT !.pc = p]]
    BY <1>5 DEF Create
  <2>3. CallsOK'
    BY <1>1, <2>1, <2>2, PointOnly
  <2>4. Exact(k.doc, k.commit, k.ref, r \in moved)
    BY <1>2, <2>1 DEF CallOK, HasCommit
  <2>5. RowsOK'
    <3> DEFINE was == r \in moved
               New(w) == [kind |-> k.kind, doc |-> k.doc, commit |-> k.commit, ref |-> k.ref,
                          moved |-> w]
    <3>1. Row(r) = New(was)
      BY Zenon DEF Row
    <3>2. was \in BOOLEAN /\ Exact(k.doc, k.commit, k.ref, was)
      BY <2>4
    <3> HIDE DEF was
    <3>3. ASSUME NEW w \in BOOLEAN, Exact(k.doc, k.commit, k.ref, w)
          PROVE  Exact(New(w).doc, New(w).commit, New(w).ref, New(w).moved)
      BY <3>3 DEF Exact
    <3> HIDE DEF New
    <3>4. rows' = rows \/ rows' = rows \cup {New(was)}
      BY <1>5, <3>1 DEF Create
    <3> QED
      BY <3>2, <3>3, <3>4 DEF RowsOK, GitInv
  <2> QED
    BY <1>1, <2>1, <2>3, <2>5 DEF GitInv, RepoInv, AuditsOK
<1>6. ASSUME Audit(r)
      PROVE  GitInv'
  <2>1. UNCHANGED <<cache, rows>> /\ k.pc \in {"audit", "auditgit"}
    BY <1>6 DEF Audit
  <2>2. PICK p \in {"auditgit", "ok"} : call' = [call EXCEPT ![r] = [call[r] EXCEPT !.pc = p]]
    BY <1>6 DEF Audit
  <2>3. CallsOK'
    BY <1>1, <2>1, <2>2, PointOnly
  <2>4. mode = "simple" => k.actor = Admin
    BY <2>1 DEF GitInv, CallsOK, ActorOK
  <2>5. AuditsOK'
    BY <1>6, <2>4 DEF Audit, AuditsOK, GitInv
  <2> QED
    BY <1>1, <2>1, <2>3, <2>5 DEF GitInv, RepoInv, RowsOK
<1> QED
  BY <1>3, <1>4, <1>5, <1>6

\* A call that has not begun claims nothing.
LEMMA IdleCallOK ==
    ASSUME NEW point, NEW wasMoved, NEW m
    PROVE  IdleCall \in CallRec /\ CallOK(IdleCall, point, wasMoved) /\ ActorOK(IdleCall, m)
  BY DEF IdleCall, CallRec, GitPoints, GitKind, Ref, CallOK, ActorOK, HasCommit

\* A call begins for the user the middleware has let in, and ends.
LEMMA EdgeStep ==
    ASSUME GitInv, NEW r \in Call, UNCHANGED mode,
           \/ EndCall(r)
           \/ \E kind \in GitKind, gitRef \in Ref \cup {None}, gitCommit \in Commit \cup {None},
                 actor \in {Admin, "user"} :
                 /\ Begin(r, kind, gitRef, gitCommit, actor)
                 /\ mode = "simple" => actor = Admin
    PROVE  GitInv'
<1>1. UNCHANGED <<branch, head, stale, cache, rows, audits>>
  BY DEF EndCall, Begin, repo
<1>2. RepoInv' /\ RowsOK' /\ AuditsOK'
  BY <1>1 DEF GitInv, RepoInv, RowsOK, AuditsOK
<1>3. ASSUME EndCall(r)
      PROVE  CallsOK'
  BY <1>1, <1>3, IdleCallOK, OneCall DEF EndCall, GitInv
<1>4. ASSUME NEW kind \in GitKind, NEW gitRef \in Ref \cup {None},
             NEW gitCommit \in Commit \cup {None}, NEW actor \in {Admin, "user"},
             Begin(r, kind, gitRef, gitCommit, actor), mode = "simple" => actor = Admin
      PROVE  CallsOK'
  <2> DEFINE ref == RefOf(kind, gitRef, gitCommit)
             p == CASE kind = "commits" -> "log"
                    [] kind # "commits" /\ ref = Refused -> "error"
                    [] kind = "status" /\ ref # Refused -> "cache"
                    [] OTHER -> "show"
             c == [IdleCall EXCEPT !.kind = kind, !.ref = ref, !.actor = actor, !.pc = p]
  <2>1. call' = [call EXCEPT ![r] = c] /\ ref # None /\ moved' = moved \ {r}
    BY <1>4 DEF Begin
  <2>2. ref \in Ref
    BY <2>1, GitAssumption DEF RefOf, Ref
  <2>3. \/ p = "log" /\ kind = "commits"
        \/ p = "error"
        \/ p = "cache" /\ kind = "status"
        \/ p = "show" /\ kind \in Showing
    BY DEF GitKind, Showing
  <2>4. p \in GitPoints
    BY <2>3 DEF GitPoints
  <2> HIDE DEF p, ref
  <2>5. /\ c \in CallRec
        /\ c.pc = p /\ c.kind = kind /\ c.ref = ref /\ c.actor = actor
    BY <2>2, <2>4 DEF IdleCall, CallRec
  <2> HIDE DEF c
  <2>6. CallOK(c, Point(c.ref), r \in moved')
    BY <2>3, <2>5 DEF CallOK, HasCommit, Showing
  <2>7. ActorOK(c, mode)
    BY <1>4, <2>5 DEF ActorOK
  <2>8. \A q \in Call : q # r => (q \in moved' <=> q \in moved)
    BY <2>1
  <2> QED
    BY <1>1, <2>1, <2>5, <2>6, <2>7, <2>8, OneCall DEF GitInv
<1> QED
  BY <1>2, <1>3, <1>4 DEF GitInv

\* A branch or HEAD moves: every call whose command that affects is counted as
\* moved, and a full commit stands for itself all the same.
LEMMA MoveStep ==
    ASSUME GitInv, UNCHANGED mode, RepoChanges
    PROVE  GitInv'
<1>1. UNCHANGED <<cache, call, rows, audits>>
  BY DEF RepoChanges
<1>2. branch' \in [Branch -> Commit \cup {None}] /\ head' \in Branch
  BY DEF RepoChanges, GitInv, RepoInv
<1>3. stale' \in [Commit -> Nat]
  BY DEF RepoChanges, GitInv, RepoInv
<1>4. RepoInv' /\ RowsOK' /\ AuditsOK'
  BY <1>1, <1>2, <1>3 DEF GitInv, RepoInv, RowsOK, AuditsOK
<1>5. ASSUME NEW q \in Call
      PROVE  /\ CallOK(call[q], PointIn(branch', head', call[q].ref), q \in moved')
             /\ ActorOK(call[q], mode)
  <2> DEFINE k == call[q]
             now == PointIn(branch', head', k.ref)
  <2>1. /\ k \in CallRec /\ CallOK(k, Point(k.ref), q \in moved)
        /\ (k.ref \in Commit => Point(k.ref) = k.ref)
    BY CallFacts
  <2>2. k.ref \in Commit => now = Point(k.ref)
    BY <2>1, GitAssumption DEF PointIn, Ref
  <2>3. q \in moved => q \in moved'
    BY DEF RepoChanges
  <2>4. k.pc = "revparse" /\ now # Point(k.ref) => q \in moved'
    BY DEF RepoChanges, Running
  <2>5. CallOK(k, now, q \in moved')
    <3> HIDE DEF now
    <3> QED
      BY <2>1, <2>2, <2>3, <2>4 DEF CallOK, Exact
  <2> QED
    BY <2>5 DEF GitInv, CallsOK
<1>6. CallsOK'
  BY <1>1, <1>5 DEF CallsOK, Point, GitInv
<1> QED
  BY <1>4, <1>6 DEF GitInv

\* Time passes.
LEMMA TickStep ==
    ASSUME GitInv, UNCHANGED mode, Tick
    PROVE  GitInv'
<1>1. UNCHANGED <<branch, head, moved, rows, audits>>
  BY DEF Tick, repo
<1>2. stale' \in [Commit -> Nat]
  BY DEF Tick, Older, GitInv, RepoInv
<1>3. cache' \in [commit : Commit \cup {None}, since : Nat]
  BY DEF Tick, Older, GitInv, RepoInv
<1>4. RepoInv' /\ RowsOK' /\ AuditsOK'
  BY <1>1, <1>2, <1>3 DEF GitInv, RepoInv, RowsOK, AuditsOK
<1>5. ASSUME NEW q \in Call
      PROVE  /\ call'[q] \in CallRec
             /\ CallOK(call'[q], PointIn(branch', head', call'[q].ref), q \in moved')
             /\ ActorOK(call'[q], mode)
  <2> DEFINE k == call[q]
             c == [k EXCEPT !.cmd = k.cmd + 1]
  <2>1. k \in CallRec /\ CallOK(k, Point(k.ref), q \in moved) /\ ActorOK(k, mode)
    BY DEF GitInv, CallsOK
  <2>2. /\ c \in CallRec /\ c.pc = k.pc /\ c.kind = k.kind /\ c.ref = k.ref
        /\ c.doc = k.doc /\ c.commit = k.commit /\ c.actor = k.actor
    BY <2>1 DEF CallRec
  <2>3. call'[q] = c \/ call'[q] = k
    BY DEF Tick
  <2> HIDE DEF c
  <2>4. PointIn(branch', head', k.ref) = Point(k.ref)
    BY <1>1 DEF Point
  <2>5. CallOK(c, Point(k.ref), q \in moved) /\ ActorOK(c, mode)
    BY <2>1, <2>2 DEF CallOK, ActorOK
  <2> QED
    BY <1>1, <2>1, <2>2, <2>3, <2>4, <2>5
<1>6. call' \in [Call -> CallRec]
  BY <1>5 DEF Tick
<1>7. CallsOK'
  BY <1>5, <1>6 DEF CallsOK, Point
<1> QED
  BY <1>4, <1>7 DEF GitInv

\* A restart takes the calls and the cache, and leaves the rows and records.
LEMMA GitRestartStep ==
    ASSUME GitInv, UNCHANGED mode, GitRestart
    PROVE  GitInv'
<1>1. UNCHANGED <<branch, head, stale, moved, rows, audits>>
  BY DEF GitRestart, repo
<1>2. RepoInv' /\ RowsOK' /\ AuditsOK'
  BY <1>1 DEF GitRestart, NoStatus, GitInv, RepoInv, RowsOK, AuditsOK
<1>3. call' \in [Call -> CallRec] /\ \A q \in Call : call'[q] = IdleCall
  BY IdleCallOK DEF GitRestart
<1>4. CallsOK'
  BY <1>3, IdleCallOK DEF CallsOK
<1> QED
  BY <1>2, <1>4 DEF GitInv

-----------------------------------------------------------------------------
(* The whole.                                                               *)

DecidedOK ==
    /\ decided \subseteq [kind : DecideKind, actor : {Admin, "user"} \cup Name]
    /\ mode = "simple" => \A d \in decided : d.actor = Admin

Inv ==
    /\ AuthInv
    /\ GitInv
    /\ DecidedOK
    /\ plan \in Plans

\* Before the first request there is nothing to protect.
LEMMA InitInv == Init => Inv
<1> SUFFICES ASSUME Init PROVE Inv
  OBVIOUS
<1>1. AuthInv
  <2>1. SessionsInv
    BY DEF Init, AuthInit, SessionsInv
  <2>2. req = [r \in Req |-> IdleReq]
    BY DEF Init, AuthInit
  <2>3. req \in [Req -> ReqRec(given)]
    BY <2>2, IdleReqOK
  <2> QED
    BY <2>1, <2>2, <2>3, IdleReqOK DEF AuthInv, ReqsOK
<1>2. GitInv
  <2>1. RepoInv
    BY GitAssumption DEF Init, GitInit, RepoInv, NoStatus
  <2>2. call = [r \in Call |-> IdleCall]
    BY DEF Init, GitInit
  <2>3. CallsOK
    BY <2>2, IdleCallOK DEF CallsOK
  <2> QED
    BY <2>1, <2>3 DEF GitInv, RowsOK, AuditsOK, Init, GitInit
<1> QED
  BY <1>1, <1>2 DEF Inv, DecidedOK, Init

\* Steps of one side leave the other as it is.
LEMMA AuthFrame ==
    ASSUME AuthInv, UNCHANGED authVars
    PROVE  AuthInv' /\ UNCHANGED mode
<1>1. UNCHANGED <<mode, sessions, expired, given, ended, cookie, req>>
  BY DEF authVars
<1>2. SessionsInv' /\ ReqsOK'
  BY <1>1 DEF AuthInv, SessionsInv, ReqsOK
<1> QED
  BY <1>1, <1>2 DEF AuthInv

\* The same for the calls and the repository.
LEMMA GitFrame ==
    ASSUME GitInv, UNCHANGED <<gitVars, mode>>
    PROVE  GitInv'
<1>1. UNCHANGED <<branch, head, stale, cache, call, moved, rows, audits, mode>>
  BY DEF gitVars, repo
<1>2. RepoInv' /\ RowsOK' /\ AuditsOK'
  BY <1>1 DEF GitInv, RepoInv, RowsOK, AuditsOK
<1>3. \A ref : PointIn(branch', head', ref) = Point(ref)
  BY <1>1 DEF Point
<1>4. CallsOK'
  BY <1>1, <1>3 DEF GitInv, CallsOK, Point
<1> QED
  BY <1>2, <1>4 DEF GitInv

\* With protection a request that is served acts for the administrator, whatever its
\* body says; without, for the one it names.
LEMMA Approver ==
    ASSUME AuthInv, NEW r \in Req, Serving(r), NEW body \in Name \cup {Nobody}
    PROVE  /\ approverOf(r, body) \in {Admin, "user"} \cup (Name \cap {body})
           /\ mode = "simple" => approverOf(r, body) = Admin
<1>1. req[r].user \in {Nobody, Admin} /\ Admitted(req[r], mode)
  BY DEF AuthInv, ReqsOK, ReqRec
<1>2. mode = "simple" => req[r].user = Admin
  BY <1>1 DEF Admitted, Serving, Handling
<1> QED
  BY <1>1, <1>2, AuthAssumption DEF approverOf

\* What lets a request in fixes for whom its call works.
LEMMA EnterKeeps ==
    ASSUME Inv, NEW r \in Req, Enter(r)
    PROVE  GitInv'
<1>1. Serving(r) /\ UNCHANGED mode
  BY DEF Enter, authVars
<1>2. /\ approverOf(r, Nobody) \in {Admin, "user"}
      /\ mode = "simple" => approverOf(r, Nobody) = Admin
  BY <1>1, Approver, WebAssumption DEF Inv
<1>3. PICK kind \in plan.kinds \cap GitKind, gitRef \in plan.refs, gitCommit \in plan.commits :
         Begin(r, kind, gitRef, gitCommit, approverOf(r, Nobody))
  BY DEF Enter
<1>4. kind \in GitKind /\ gitRef \in Ref \cup {None} /\ gitCommit \in Commit \cup {None}
  BY WebAssumption DEF Inv
<1> QED
  BY <1>1, <1>2, <1>3, <1>4, EdgeStep, WebAssumption DEF Inv

\* The middleware does not depend on what the calls do.
LEMMA ServeKeeps ==
    ASSUME AuthInv, NEW r \in Req, Serve(r)
    PROVE  AuthInv'
<1>1. Grows /\ SessionsInv'
  BY DEF Serve, Grows, AuthInv, SessionsInv
<1> QED
  BY <1>1, AnswerKeeps DEF AuthInv, Serve, Answers

\* A decision is recorded for the session's user.
LEMMA DecideKeeps ==
    ASSUME Inv, NEW r \in Req, Decide(r)
    PROVE  AuthInv' /\ GitInv' /\ DecidedOK'
<1>1. Serve(r) /\ Serving(r) /\ UNCHANGED <<gitVars, mode>>
  BY DEF Decide, Serve
<1>2. AuthInv' /\ GitInv'
  BY <1>1, ServeKeeps, GitFrame DEF Inv
<1>3. PICK kind \in DecideKind, body \in Name \cup {Nobody} :
         decided' \in {decided, decided \cup {[kind |-> kind, actor |-> approverOf(r, body)]}}
  BY DEF Decide
<1>4. /\ approverOf(r, body) \in {Admin, "user"} \cup Name
      /\ mode = "simple" => approverOf(r, body) = Admin
  BY <1>1, Approver DEF Inv
<1>5. DecidedOK'
  BY <1>1, <1>3, <1>4 DEF Inv, DecidedOK
<1> QED
  BY <1>2, <1>5

\* Every step of the page, the server, git and their surroundings keeps the whole.
LEMMA NextInv == Inv /\ [Next]_vars => Inv'
<1> SUFFICES ASSUME Inv, [Next]_vars PROVE Inv'
  OBVIOUS
<1>1. plan' \in Plans
  BY DEF Inv, Next, Page, Progress, Answering, Enter, Leave, Git, Decide, Disturb, vars
<1>2. plan.reqs \subseteq Req
  BY WebAssumption DEF Inv
<1>3. ASSUME NEW r \in Req, Page(r)
      PROVE  AuthInv' /\ GitInv'
  <2>1. UNCHANGED <<gitVars, mode>>
    BY <1>3 DEF Page, Load, AskLogin, AskData, AskLogout, Lose
  <2>2. AuthInv'
    BY <1>3, PageKeeps DEF Page, Inv
  <2> QED
    BY <2>1, <2>2, GitFrame DEF Inv
<1>4. ASSUME NEW r \in Req, Answering(r)
      PROVE  AuthInv' /\ GitInv'
  <2>1. UNCHANGED <<gitVars, mode>>
    BY <1>4 DEF Answering, Handler, Middleware, Evict, HandleLogin, HandleLogout, HandleMe,
       SystemInfo, Reader, ReadMe, ReadInfo, ReadLogin, ReadLogout, ReadData, Drop
  <2>2. AuthInv'
    BY <1>4, HandlerKeeps, ReaderKeeps DEF Answering, Inv
  <2> QED
    BY <2>1, <2>2, GitFrame DEF Inv
<1>5. ASSUME NEW r \in Req, Enter(r)
      PROVE  AuthInv' /\ GitInv'
  BY <1>5, EnterKeeps, AuthFrame DEF Enter, Inv
<1>6. ASSUME NEW r \in Req, Leave(r)
      PROVE  AuthInv' /\ GitInv'
  <2>1. UNCHANGED mode
    BY <1>6 DEF Leave, Serve
  <2> QED
    BY <1>6, <2>1, ServeKeeps, EdgeStep, WebAssumption DEF Leave, Inv
<1>7. ASSUME NEW r \in Req, Git(r)
      PROVE  AuthInv' /\ GitInv'
  <2>1. AuthInv' /\ UNCHANGED mode
    BY <1>7, AuthFrame DEF Git, Inv
  <2> QED
    BY <1>7, <2>1, ReadingStep, WritingStep, WebAssumption DEF Git, GitStep, Inv
<1>8. ASSUME Disturb
      PROVE  AuthInv' /\ GitInv'
  <2>1. CASE ((\E t \in Token : Expire(t)) \/ CookieExpires) /\ UNCHANGED gitVars
    <3>1. UNCHANGED mode
      BY <2>1 DEF Expire, CookieExpires
    <3> QED
      BY <2>1, <3>1, DisturbKeeps, GitFrame DEF Inv
  <2>2. CASE (RepoChanges \/ Tick) /\ UNCHANGED authVars
    BY <2>2, AuthFrame, MoveStep, TickStep DEF Inv
  <2>3. CASE AuthRestart /\ GitRestart
    <3>1. UNCHANGED mode
      BY <2>3 DEF AuthRestart
    <3> QED
      BY <2>3, <3>1, DisturbKeeps, GitRestartStep DEF Inv
  <2> QED
    BY <1>8, <2>1, <2>2, <2>3 DEF Disturb
<1>9. ASSUME UNCHANGED vars
      PROVE  AuthInv' /\ GitInv'
  BY <1>9, AuthFrame, GitFrame DEF vars, Inv
<1>10. ASSUME NEW r \in Req, Decide(r)
       PROVE  AuthInv' /\ GitInv' /\ DecidedOK'
  BY <1>10, DecideKeeps
<1>11. ASSUME UNCHANGED <<decided, mode>>
       PROVE  DecidedOK'
  BY <1>11 DEF Inv, DecidedOK
<1>12. UNCHANGED mode
  BY DEF Next, Page, Progress, Answering, Enter, Leave, Git, Decide, Disturb, vars, authVars,
     Handler, Middleware, Evict, HandleLogin, HandleLogout, HandleMe, SystemInfo, Serve, Reader,
     ReadMe, ReadInfo, ReadLogin, ReadLogout, ReadData, Drop, Load, AskLogin, AskData, AskLogout,
     Lose, Expire, CookieExpires, AuthRestart
<1>13. UNCHANGED decided \/ \E r \in Req : Decide(r)
  BY <1>2 DEF Next, Page, Progress, Answering, Enter, Leave, Git, Disturb, vars
<1>14. DecidedOK'
  BY <1>10, <1>11, <1>12, <1>13
<1>15. AuthInv' /\ GitInv'
  BY <1>2, <1>3, <1>4, <1>5, <1>6, <1>7, <1>8, <1>9, <1>10 DEF Next, Progress
<1> QED
  BY <1>1, <1>14, <1>15 DEF Inv

\* The inductive invariant holds whatever the plan, the disturbances and the
\* order of the requests.
THEOREM InvHolds == Spec => []Inv
  BY InitInv, NextInv, PTL DEF Spec

\* With login protection nothing reaches the console's handlers on a session that
\* had ended before the request was sent (Middleware and lookup, auth.go); every
\* approval and rejection over the REST interface and every audit record of a new
\* task names the administrator, whatever name the request's body gives
\* (approverOf, handlers.go).
THEOREM OnlyUser == Spec => []OnlyUserActs
<1>1. Inv => OnlyUserActs
  BY DEF Inv, AuthInv, ReqsOK, Admitted, GitInv, AuditsOK, DecidedOK, OnlyUserActs, ActorIsUser,
     LoggedOutStaysOut, Serving, Handling
<1> QED
  BY <1>1, InvHolds, PTL

\* The document of a task, or of a git/file answer, is the one of the commit
\* named with it (ShowFile and Resolve, gitsource.go), unless its ref was moved
\* between the two commands; for a full commit it always is.
THEOREM Traceable == Spec => []TraceableContent
<1>1. Inv => TraceableContent
  <2> SUFFICES ASSUME Inv PROVE TraceableContent
    OBVIOUS
  <2>1. ASSUME NEW r \in Call, call[r].kind = "file", call[r].pc = "ok"
        PROVE  Exact(call[r].doc, call[r].commit, call[r].ref, r \in moved)
    <3>1. CallOK(call[r], Point(call[r].ref), r \in moved)
      BY DEF Inv, GitInv, CallsOK
    <3> QED
      BY <2>1, <3>1 DEF CallOK, HasCommit, Showing
  <2> QED
    BY <2>1 DEF Inv, GitInv, RowsOK, TraceableContent
<1> QED
  BY <1>1, InvHolds, PTL

-----------------------------------------------------------------------------
(* Ages.  A status of HEAD is at most as old as the commands that have run  *)
(* since rev-parse answered, and none runs longer than CmdTimeout; what the *)
(* cache holds grows older with its entry.  A call that has got to the      *)
(* check is for a task, of a commit.                                        *)

Created == {"check", "create", "audit", "auditgit"}
Steady(c, age) ==
    /\ c.cmd <= CmdTimeout
    /\ c.kind = "status" /\ c.ref = "HEAD" =>
          /\ c.pc = "resolved" => age[c.commit] <= c.cmd
          /\ c.pc = "log" => age[c.commit] <= CmdTimeout + c.cmd
          /\ c.pc = "porcelain" => age[c.commit] <= 2 * CmdTimeout + c.cmd
          /\ c.pc = "ok" => c.late < CacheTTL + 3 * CmdTimeout
    /\ c.pc = "porcelain" => c.kind = "status"
    /\ c.pc \in Created => c.kind \in {"apply", "rollback"} /\ c.commit # None
    /\ c.pc = "create" => c.doc \in Doc

AgeInv ==
    /\ \A r \in Call : Steady(call[r], stale)
    /\ Fresh => stale[cache.commit] <= 3 * CmdTimeout + cache.since
    /\ \A c \in Commit : c = Point("HEAD") => stale[c] = 0
    /\ moves \in Nat /\ moved \subseteq Call
    /\ rows \subseteq [kind : {"apply", "rollback"}, doc : Doc, commit : Commit, ref : Ref,
                       moved : BOOLEAN]

\* What the constants of time are.
LEMMA Times == CmdTimeout \in Nat /\ CacheTTL \in Nat /\ CacheTTL > 0
  BY GitAssumption

\* Ages and times are numbers.
LEMMA AgeTypes ==
    ASSUME GitInv, NEW r \in Call
    PROVE  /\ call[r].cmd \in Nat /\ call[r].late \in Nat
           /\ cache.since \in Nat
           /\ \A c \in Commit : stale[c] \in Nat
           /\ call[r].commit \in Commit \cup {None}
           /\ call[r].pc = "resolved" \/ call[r].pc = "porcelain"
              \/ (call[r].pc = "log" /\ call[r].kind = "status") => call[r].commit \in Commit
<1>1. call[r] \in CallRec /\ CallOK(call[r], Point(call[r].ref), r \in moved)
  BY CallFacts
<1>2. call[r].cmd \in Nat /\ call[r].late \in Nat /\ call[r].commit \in Commit \cup {None}
  BY <1>1 DEF CallRec
<1>3. cache.since \in Nat /\ \A c \in Commit : stale[c] \in Nat
  BY DEF GitInv, RepoInv
<1>4. call[r].pc = "resolved" \/ call[r].pc = "porcelain"
      \/ (call[r].pc = "log" /\ call[r].kind = "status") => call[r].commit # None
  BY <1>1 DEF CallOK
<1> QED
  BY <1>2, <1>3, <1>4

\* The other calls are not touched by one.
LEMMA SteadyOthers ==
    ASSUME GitInv, AgeInv, NEW r \in Call, NEW c,
           call' = [call EXCEPT ![r] = c], UNCHANGED <<branch, head, stale>>,
           Steady(c, stale)
    PROVE  /\ \A q \in Call : Steady(call'[q], stale')
           /\ \A p \in Commit : p = PointIn(branch', head', "HEAD") => stale'[p] = 0
<1>1. \A q \in Call : call'[q] = IF q = r THEN c ELSE call[q]
  BY DEF GitInv, CallsOK
<1>2. ASSUME NEW q \in Call
      PROVE  Steady(call'[q], stale)
  BY <1>1 DEF AgeInv
<1> QED
  BY <1>2 DEF AgeInv, Point

\* Steps that move a call on leave the cache, the repository and the tables.
LEMMA AgeReading ==
    ASSUME GitInv, AgeInv, NEW r \in Call,
           StatusFromCache(r) \/ StatusMiss(r) \/ Show(r) \/ Resolve(r) \/ Resolved(r) \/ Log(r)
    PROVE  AgeInv'
<1>1. UNCHANGED <<branch, head, moves, stale, cache, moved, rows>>
  BY DEF StatusFromCache, StatusMiss, Show, Resolve, Resolved, Log, repo
<1> DEFINE k == call[r]
           Step(c) == call' = [call EXCEPT ![r] = c] /\ Steady(c, stale)
<1>2. ASSUME NEW c, Step(c)
      PROVE  AgeInv'
  <2>1. /\ \A q \in Call : Steady(call'[q], stale')
        /\ \A p \in Commit : p = PointIn(branch', head', "HEAD") => stale'[p] = 0
    BY <1>1, <1>2, SteadyOthers
  <2> QED
    BY <1>1, <2>1 DEF AgeInv, Fresh, Point
<1>3. k \in CallRec /\ CallOK(k, Point(k.ref), r \in moved) /\ Steady(k, stale)
  BY CallFacts DEF AgeInv
<1>4. /\ k.cmd \in Nat /\ cache.since \in Nat /\ (\A c \in Commit : stale[c] \in Nat)
      /\ k.pc = "resolved" \/ (k.pc = "log" /\ k.kind = "status") => k.commit \in Commit
  BY AgeTypes
<1>5. CASE StatusFromCache(r)
  <2> DEFINE old == stale[cache.commit]
             c == [k EXCEPT !.pc = "ok", !.commit = cache.commit, !.late = old]
  <2>1. call' = [call EXCEPT ![r] = c] /\ Fresh
    BY <1>5 DEF StatusFromCache
  <2>2. old < CacheTTL + 3 * CmdTimeout
    <3>1. cache.commit \in Commit /\ cache.since < CacheTTL
      BY <2>1 DEF Fresh, GitInv, RepoInv
    <3>2. old <= 3 * CmdTimeout + cache.since /\ old \in Nat
      BY <1>4, <2>1, <3>1 DEF AgeInv
    <3> HIDE DEF old
    <3> QED
      BY <1>4, <3>1, <3>2, Times
  <2>3. c.pc = "ok" /\ c.cmd = k.cmd /\ c.late = old
    BY <1>3 DEF CallRec
  <2> HIDE DEF c, old
  <2>4. Steady(c, stale)
    BY <1>3, <2>2, <2>3 DEF Steady, Created
  <2> QED
    BY <1>2, <2>1, <2>4
<1>6. CASE StatusMiss(r)
  <2> DEFINE c == [k EXCEPT !.pc = "revparse"]
  <2>1. call' = [call EXCEPT ![r] = c]
    BY <1>6 DEF StatusMiss
  <2>2. c.pc = "revparse" /\ c.cmd = k.cmd
    BY <1>3 DEF CallRec
  <2> HIDE DEF c
  <2>3. Steady(c, stale)
    BY <1>3, <2>2 DEF Steady, Created
  <2> QED
    BY <1>2, <2>1, <2>3
<1>7. CASE Show(r)
  <2> DEFINE c == [k EXCEPT !.pc = "revparse", !.doc = File[Point(k.ref)], !.cmd = 0]
  <2>1. call' = [call EXCEPT ![r] = c]
    BY <1>7 DEF Show
  <2>2. c.pc = "revparse" /\ c.cmd = 0
    BY <1>3 DEF CallRec
  <2> HIDE DEF c
  <2>3. Steady(c, stale)
    BY <2>2, Times DEF Steady, Created
  <2> QED
    BY <1>2, <2>1, <2>3
<1>8. CASE Resolve(r)
  <2> DEFINE p == Point(k.ref)
             c == [k EXCEPT !.pc = "resolved", !.commit = p]
  <2>1. call' = [call EXCEPT ![r] = c] /\ p # None
    BY <1>8 DEF Resolve
  <2>2. c.pc = "resolved" /\ c.cmd = k.cmd /\ c.commit = p /\ c.kind = k.kind /\ c.ref = k.ref
    BY <1>3 DEF CallRec
  <2>3. k.ref = "HEAD" => stale[p] <= k.cmd
    <3>1. p \in Commit
      BY <2>1, CallFacts
    <3>2. k.ref = "HEAD" => stale[p] = 0
      BY <3>1 DEF AgeInv
    <3> HIDE DEF p
    <3> QED
      BY <1>4, <3>2
  <2> HIDE DEF c, p
  <2>4. Steady(c, stale)
    BY <1>3, <2>2, <2>3 DEF Steady, Created
  <2> QED
    BY <1>2, <2>1, <2>4
<1>9. CASE Resolved(r)
  <2> DEFINE p == CASE k.kind = "status" -> "log" [] k.kind = "file" -> "ok" [] OTHER -> "check"
             c == [k EXCEPT !.cmd = 0, !.pc = p]
  <2>1. call' = [call EXCEPT ![r] = c] /\ k.pc = "resolved"
    BY <1>9 DEF Resolved
  <2>2. /\ k.kind = "status" => p = "log"
        /\ p \in {"log", "ok", "check"}
        /\ p = "check" => k.kind \in {"apply", "rollback"}
    <3>1. k.kind # "commits" /\ k.kind \in GitKind
      BY <1>3, <2>1 DEF CallOK, CallRec
    <3> QED
      BY <3>1 DEF GitKind
  <2>3. c.pc = p /\ c.cmd = 0 /\ c.commit = k.commit /\ c.kind = k.kind /\ c.ref = k.ref
    BY <1>3 DEF CallRec
  <2> HIDE DEF c, p
  <2>4. k.commit # None /\ (k.kind = "status" /\ k.ref = "HEAD" => stale[k.commit] <= k.cmd)
    BY <1>3, <2>1 DEF Steady, CallOK
  <2>5. k.commit \in Commit /\ stale[k.commit] \in Nat
    BY <1>4, <2>1
  <2>6. k.cmd <= CmdTimeout
    BY <1>3 DEF Steady
  <2>7. k.kind = "status" /\ k.ref = "HEAD" => stale[k.commit] <= CmdTimeout + 0
    BY <1>4, <2>4, <2>5, <2>6, Times
  <2>8. 0 <= CmdTimeout
    BY Times
  <2>9. Steady(c, stale)
    BY <2>2, <2>3, <2>4, <2>7, <2>8, Zenon DEF Steady, Created
  <2> QED
    BY <1>2, <2>1, <2>9
<1>10. CASE Log(r)
  <2> DEFINE p == IF k.kind = "status" THEN "porcelain" ELSE "ok"
             c == [k EXCEPT !.cmd = 0, !.pc = p]
  <2>1. call' = [call EXCEPT ![r] = c] /\ k.pc = "log"
    BY <1>10 DEF Log
  <2>2. k.kind = "status" <=> p = "porcelain"
    OBVIOUS
  <2>10. p \in {"porcelain", "ok"}
    OBVIOUS
  <2>3. c.pc = p /\ c.cmd = 0 /\ c.commit = k.commit /\ c.kind = k.kind /\ c.ref = k.ref
    BY <1>3 DEF CallRec
  <2> HIDE DEF c, p
  <2>4. ASSUME k.kind = "status", k.ref = "HEAD"
        PROVE  stale[k.commit] <= 2 * CmdTimeout + 0
    <3>1. stale[k.commit] <= CmdTimeout + k.cmd /\ k.cmd <= CmdTimeout
      BY <1>3, <2>1, <2>4 DEF Steady
    <3>2. stale[k.commit] \in Nat
      BY <1>4, <2>1, <2>4
    <3> QED
      BY <1>4, <3>1, <3>2, Times
  <2>8. 0 <= CmdTimeout
    BY Times
  <2>9. Steady(c, stale)
    BY <2>2, <2>10, <2>3, <2>4, <2>8, Zenon DEF Steady, Created
  <2> QED
    BY <1>2, <2>1, <2>9
<1> QED
  BY <1>5, <1>6, <1>7, <1>8, <1>9, <1>10

\* Steps that end a status, check a document or write a row or a record.
LEMMA AgeWriting ==
    ASSUME GitInv, AgeInv, NEW r \in Call,
           Porcelain(r) \/ CommandFails(r) \/ Check(r) \/ Create(r) \/ Audit(r)
    PROVE  AgeInv'
<1> DEFINE k == call[r]
<1>1. UNCHANGED <<branch, head, moves, stale, moved>>
  BY DEF Porcelain, CommandFails, Check, Create, Audit, repo
<1>2. ASSUME NEW c, call' = [call EXCEPT ![r] = c], Steady(c, stale), UNCHANGED <<cache, rows>>
      PROVE  AgeInv'
  <2>1. /\ \A q \in Call : Steady(call'[q], stale')
        /\ \A p \in Commit : p = PointIn(branch', head', "HEAD") => stale'[p] = 0
    BY <1>1, <1>2, SteadyOthers
  <2> QED
    BY <1>1, <1>2, <2>1 DEF AgeInv, Fresh, Point
<1>3. k \in CallRec /\ CallOK(k, Point(k.ref), r \in moved) /\ Steady(k, stale)
  BY CallFacts DEF AgeInv
<1>4. ASSUME NEW p
      PROVE  LET c == [k EXCEPT !.pc = p] IN
             c.pc = p /\ c.cmd = k.cmd /\ c.kind = k.kind /\ c.commit = k.commit /\ c.doc = k.doc
  BY <1>3 DEF CallRec
<1>5. CASE Porcelain(r)
  <2> DEFINE c == [k EXCEPT !.pc = "ok", !.cmd = 0, !.late = stale[k.commit]]
             age == stale[k.commit]
  <2>1. /\ call' = [call EXCEPT ![r] = c] /\ k.pc = "porcelain"
        /\ cache' = IF k.ref = "HEAD" THEN [commit |-> k.commit, since |-> 0] ELSE cache
        /\ UNCHANGED rows
    BY <1>5 DEF Porcelain
  <2>2. k.commit \in Commit /\ age \in Nat /\ k.cmd \in Nat
    BY <2>1, AgeTypes
  <2>3. k.kind = "status"
    BY <1>3, <2>1 DEF Steady
  <2>4. k.ref = "HEAD" => age <= 2 * CmdTimeout + k.cmd
    BY <1>3, <2>1, <2>3 DEF Steady
  <2>5. k.cmd <= CmdTimeout
    BY <1>3 DEF Steady
  <2>6. c.pc = "ok" /\ c.cmd = 0 /\ c.late = age /\ c.ref = k.ref
    BY <1>3 DEF CallRec
  <2> HIDE DEF c, age
  <2>7. k.ref = "HEAD" => age <= 3 * CmdTimeout /\ age < CacheTTL + 3 * CmdTimeout
    BY <2>2, <2>4, <2>5, Times
  <2>8. Steady(c, stale)
    BY <2>6, <2>7, Times DEF Steady, Created
  <2>9. /\ \A q \in Call : Steady(call'[q], stale')
        /\ \A p \in Commit : p = PointIn(branch', head', "HEAD") => stale'[p] = 0
    BY <1>1, <2>1, <2>8, SteadyOthers
  <2>10. Fresh' => stale'[cache'.commit] <= 3 * CmdTimeout + cache'.since
    <3>1. CASE k.ref = "HEAD"
      <4>1. cache'.commit = k.commit /\ cache'.since = 0
        BY <2>1, <3>1
      <4>2. age <= 3 * CmdTimeout + 0
        BY <2>2, <2>7, <3>1, Times
      <4> QED
        BY <1>1, <4>1, <4>2 DEF age
    <3>2. CASE k.ref # "HEAD"
      BY <1>1, <2>1, <3>2 DEF AgeInv, Fresh
    <3> QED
      BY <3>1, <3>2
  <2> QED
    BY <1>1, <2>1, <2>9, <2>10 DEF AgeInv, Point
<1>6. CASE CommandFails(r)
  <2> DEFINE c == [k EXCEPT !.pc = "error"]
  <2>1. call' = [call EXCEPT ![r] = c] /\ UNCHANGED <<cache, rows>>
    BY <1>6 DEF CommandFails
  <2>2. c.pc = "error" /\ c.cmd = k.cmd
    BY <1>4
  <2> HIDE DEF c
  <2>3. Steady(c, stale)
    BY <1>3, <2>2 DEF Steady, Created
  <2> QED
    BY <1>2, <2>1, <2>3
<1>7. CASE Check(r)
  <2>1. PICK p \in {"create", "error"} :
           /\ call' = [call EXCEPT ![r] = [k EXCEPT !.pc = p]]
           /\ k.pc = "check" /\ (p = "create" => k.doc \in ValidDoc)
           /\ UNCHANGED <<cache, rows>>
    BY <1>7 DEF Check
  <2> DEFINE c == [k EXCEPT !.pc = p]
  <2>2. /\ c.pc = p /\ c.cmd = k.cmd /\ c.kind = k.kind /\ c.commit = k.commit /\ c.doc = k.doc
    BY <1>4
  <2>3. p = "create" => k.doc \in Doc
    BY <2>1, GitAssumption
  <2>4. call' = [call EXCEPT ![r] = c]
    BY <2>1
  <2> HIDE DEF c
  <2>5. Steady(c, stale)
    BY <1>3, <2>1, <2>2, <2>3 DEF Steady, Created
  <2> QED
    BY <1>2, <2>1, <2>4, <2>5
<1>8. CASE Create(r)
  <2>1. PICK p \in {"audit", "auditgit", "error"} :
           call' = [call EXCEPT ![r] = [k EXCEPT !.pc = p]]
    BY <1>8 DEF Create
  <2>2. k.pc = "create" /\ UNCHANGED cache /\ (rows' = rows \/ rows' = rows \cup {Row(r)})
    BY <1>8 DEF Create
  <2> DEFINE c == [k EXCEPT !.pc = p]
  <2>3. c.pc = p /\ c.cmd = k.cmd /\ c.kind = k.kind /\ c.commit = k.commit
    BY <1>4
  <2>4. call' = [call EXCEPT ![r] = c]
    BY <2>1
  <2> HIDE DEF c
  <2>5. Steady(c, stale)
    BY <1>3, <2>2, <2>3 DEF Steady, Created
  <2>6. /\ \A q \in Call : Steady(call'[q], stale')
        /\ \A q \in Commit : q = PointIn(branch', head', "HEAD") => stale'[q] = 0
    BY <1>1, <2>4, <2>5, SteadyOthers
  <2>7. /\ k.kind \in {"apply", "rollback"} /\ k.doc \in Doc /\ k.commit \in Commit
        /\ k.ref \in Ref
    BY <1>3, <2>2 DEF Steady, Created, CallRec
  <2>8. Row(r) \in [kind : {"apply", "rollback"}, doc : Doc, commit : Commit, ref : Ref,
                    moved : BOOLEAN]
    <3> DEFINE was == r \in moved
               New(w) == [kind |-> k.kind, doc |-> k.doc, commit |-> k.commit, ref |-> k.ref,
                          moved |-> w]
    <3>1. Row(r) = New(was)
      BY Zenon DEF Row
    <3>2. was \in BOOLEAN
      OBVIOUS
    <3> HIDE DEF was
    <3> QED
      BY <2>7, <3>1, <3>2
  <2> QED
    BY <1>1, <2>2, <2>6, <2>8 DEF AgeInv, Fresh, Point
<1>9. CASE Audit(r)
  <2>1. PICK p \in {"auditgit", "ok"} : call' = [call EXCEPT ![r] = [k EXCEPT !.pc = p]]
    BY <1>9 DEF Audit
  <2>2. k.pc \in {"audit", "auditgit"} /\ UNCHANGED <<cache, rows>>
    BY <1>9 DEF Audit
  <2> DEFINE c == [k EXCEPT !.pc = p]
  <2>3. c.pc = p /\ c.cmd = k.cmd /\ c.kind = k.kind /\ c.commit = k.commit
    BY <1>4
  <2>4. call' = [call EXCEPT ![r] = c]
    BY <2>1
  <2> HIDE DEF c
  <2>5. Steady(c, stale)
    BY <1>3, <2>2, <2>3 DEF Steady, Created
  <2> QED
    BY <1>2, <2>2, <2>4, <2>5
<1> QED
  BY <1>5, <1>6, <1>7, <1>8, <1>9

\* A call that has not begun is steady.
LEMMA SteadyIdle == \A age : Steady(IdleCall, age)
  BY Times DEF IdleCall, Steady, Created

\* A call ends.
LEMMA AgeEnd ==
    ASSUME GitInv, AgeInv, NEW r \in Call, EndCall(r)
    PROVE  AgeInv'
<1>1. /\ UNCHANGED <<branch, head, moves, stale, cache, moved, rows>>
      /\ call' = [call EXCEPT ![r] = IdleCall]
  BY DEF EndCall, repo
<1>2. /\ \A q \in Call : Steady(call'[q], stale')
      /\ \A p \in Commit : p = PointIn(branch', head', "HEAD") => stale'[p] = 0
  BY <1>1, SteadyIdle, SteadyOthers
<1> QED
  BY <1>1, <1>2 DEF AgeInv, Fresh, Point

\* A call begins, with no command run.
LEMMA AgeBegin ==
    ASSUME GitInv, AgeInv, NEW r \in Call, NEW kind, NEW gitRef, NEW gitCommit, NEW actor,
           Begin(r, kind, gitRef, gitCommit, actor)
    PROVE  AgeInv'
<1> DEFINE ref == RefOf(kind, gitRef, gitCommit)
           p == CASE kind = "commits" -> "log"
                  [] kind # "commits" /\ ref = Refused -> "error"
                  [] kind = "status" /\ ref # Refused -> "cache"
                  [] OTHER -> "show"
           c == [IdleCall EXCEPT !.kind = kind, !.ref = ref, !.actor = actor, !.pc = p]
<1>1. /\ UNCHANGED <<branch, head, moves, stale, cache, rows>> /\ moved' = moved \ {r}
      /\ call' = [call EXCEPT ![r] = c]
  BY DEF Begin, repo
<1>2. p \in {"log", "error", "cache", "show"} /\ (p = "log" => kind # "status")
  OBVIOUS
<1> HIDE DEF p, ref
<1>3. c.pc = p /\ c.kind = kind /\ c.cmd = 0
  BY DEF IdleCall
<1> HIDE DEF c
<1>4. Steady(c, stale)
  BY <1>2, <1>3, Times DEF Steady, Created
<1>5. /\ \A q \in Call : Steady(call'[q], stale')
      /\ \A q \in Commit : q = PointIn(branch', head', "HEAD") => stale'[q] = 0
  BY <1>1, <1>4, SteadyOthers
<1> QED
  BY <1>1, <1>5 DEF AgeInv, Fresh, Point

\* A branch or HEAD moves: no commit gets older by that.
LEMMA AgeMove ==
    ASSUME GitInv, AgeInv, RepoChanges
    PROVE  AgeInv'
<1>1. UNCHANGED <<cache, call, rows>> /\ moves' \in Nat /\ moved' \subseteq Call
  BY DEF RepoChanges, AgeInv
<1>2. \A c \in Commit : stale'[c] = IF c = branch'[head'] THEN 0 ELSE stale[c]
  BY DEF RepoChanges
<1>3. \A c \in Commit : stale[c] \in Nat
  BY DEF GitInv, RepoInv
<1>4. \A c \in Commit : stale'[c] \in Nat /\ stale'[c] <= stale[c]
  BY <1>2, <1>3
<1>5. ASSUME NEW q \in Call
      PROVE  Steady(call[q], stale')
  <2> DEFINE k == call[q]
  <2>1. Steady(k, stale) /\ k.cmd \in Nat
    BY AgeTypes DEF AgeInv
  <2>2. ASSUME NEW n \in Nat, k.commit \in Commit, stale[k.commit] <= n
        PROVE  stale'[k.commit] <= n
    BY <1>3, <1>4, <2>2
  <2>3. k.pc = "resolved" \/ k.pc = "porcelain" \/ (k.pc = "log" /\ k.kind = "status")
           => k.commit \in Commit
    BY AgeTypes
  <2>4. CmdTimeout + k.cmd \in Nat /\ 2 * CmdTimeout + k.cmd \in Nat
    BY <2>1, Times
  <2> HIDE DEF k
  <2> QED
    BY <2>1, <2>2, <2>3, <2>4 DEF Steady, k
<1>6. Fresh => stale'[cache.commit] <= 3 * CmdTimeout + cache.since
  <2> DEFINE n == 3 * CmdTimeout + cache.since
  <2>1. cache.commit \in Commit \cup {None} /\ cache.since \in Nat
    BY DEF GitInv, RepoInv
  <2>2. Fresh => cache.commit \in Commit /\ stale[cache.commit] <= n
    BY <2>1 DEF Fresh, AgeInv
  <2>3. n \in Nat
    BY <2>1, Times
  <2> HIDE DEF n
  <2>4. Fresh => stale'[cache.commit] <= n
    BY <1>3, <1>4, <2>2, <2>3
  <2> QED
    BY <2>4 DEF n
<1>7. \A c \in Commit : c = PointIn(branch', head', "HEAD") => stale'[c] = 0
  BY <1>2, GitAssumption DEF PointIn
<1> QED
  BY <1>1, <1>5, <1>6, <1>7 DEF AgeInv, Fresh, Point

\* An age that is counted up grows by one tick at most.
LEMMA OlderAge ==
    ASSUME NEW n \in Nat
    PROVE  /\ Older(n) \in Nat /\ n <= Older(n) /\ Older(n) <= n + 1
           /\ Older(n) < CacheTTL => Older(n) = n + 1
  BY Times DEF Older, MaxAge

\* Time passes: what is bound by the time of a command grows with it.
LEMMA AgeTick ==
    ASSUME GitInv, AgeInv, Tick
    PROVE  AgeInv'
<1>1. UNCHANGED <<branch, head, moves, moved, rows>>
  BY DEF Tick, repo
<1>2. \A c \in Commit : stale'[c] = IF c = Point("HEAD") THEN 0 ELSE Older(stale[c])
  BY DEF Tick
<1>3. \A c \in Commit : stale[c] \in Nat
  BY DEF GitInv, RepoInv
<1>4. ASSUME NEW c \in Commit
      PROVE  stale'[c] \in Nat /\ stale'[c] <= stale[c] + 1
  <2>1. stale[c] \in Nat
    BY <1>3
  <2>2. Older(stale[c]) \in Nat /\ Older(stale[c]) <= stale[c] + 1
    BY <2>1, OlderAge
  <2> DEFINE old == Older(stale[c])
  <2> HIDE DEF old
  <2>3. stale'[c] = 0 \/ stale'[c] = old
    BY <1>2 DEF old
  <2> QED
    BY <2>1, <2>2, <2>3 DEF old
<1>5. ASSUME NEW q \in Call
      PROVE  Steady(call'[q], stale')
  <2> DEFINE k == call[q]
             c == [k EXCEPT !.cmd = k.cmd + 1]
  <2>1. k \in CallRec /\ Steady(k, stale) /\ k.cmd \in Nat
    BY CallFacts, AgeTypes DEF AgeInv
  <2>2. CASE Running(q)
    <3>1. call'[q] = c /\ k.cmd < CmdTimeout
      BY <2>2 DEF Tick
    <3>2. /\ c.pc = k.pc /\ c.kind = k.kind /\ c.ref = k.ref
          /\ c.commit = k.commit /\ c.cmd = k.cmd + 1
      BY <2>1 DEF CallRec
    <3>3. k.pc # "ok" /\ k.pc \notin Created
      BY <2>2 DEF Running, Created
    <3>4. ASSUME NEW n \in Nat, k.commit \in Commit, stale[k.commit] <= n + k.cmd
          PROVE  stale'[k.commit] <= n + (k.cmd + 1)
      <4> DEFINE was == stale[k.commit]
                 now == stale'[k.commit]
                 cmd == k.cmd
      <4>1. was \in Nat /\ now \in Nat /\ now <= was + 1 /\ cmd \in Nat /\ was <= n + cmd
        BY <1>3, <1>4, <2>1, <3>4
      <4> HIDE DEF was, now, cmd
      <4>2. now <= n + (cmd + 1)
        BY <4>1
      <4> QED
        BY <4>2 DEF now, cmd
    <3>5. k.pc = "resolved" \/ k.pc = "porcelain" \/ (k.pc = "log" /\ k.kind = "status")
             => k.commit \in Commit
      BY AgeTypes
    <3>6. /\ k.cmd + 1 <= CmdTimeout /\ 0 \in Nat
          /\ CmdTimeout \in Nat /\ 2 * CmdTimeout \in Nat
          /\ 0 + k.cmd = k.cmd /\ 0 + (k.cmd + 1) = k.cmd + 1
      BY <2>1, <3>1, Times
    <3>7. k.kind = "status" /\ k.ref = "HEAD" =>
             /\ k.pc = "resolved" => stale'[k.commit] <= k.cmd + 1
             /\ k.pc = "log" => stale'[k.commit] <= CmdTimeout + (k.cmd + 1)
             /\ k.pc = "porcelain" => stale'[k.commit] <= 2 * CmdTimeout + (k.cmd + 1)
      <4>1. ASSUME k.kind = "status", k.ref = "HEAD", k.pc = "resolved"
            PROVE  stale'[k.commit] <= k.cmd + 1
        <5>1. stale[k.commit] <= 0 + k.cmd
          BY <2>1, <3>6, <4>1 DEF Steady
        <5> QED
          BY <3>4, <3>5, <3>6, <4>1, <5>1
      <4>2. ASSUME k.kind = "status", k.ref = "HEAD", k.pc = "log"
            PROVE  stale'[k.commit] <= CmdTimeout + (k.cmd + 1)
        <5>1. stale[k.commit] <= CmdTimeout + k.cmd
          BY <2>1, <4>2 DEF Steady
        <5> QED
          BY <3>4, <3>5, <3>6, <4>2, <5>1
      <4>3. ASSUME k.kind = "status", k.ref = "HEAD", k.pc = "porcelain"
            PROVE  stale'[k.commit] <= 2 * CmdTimeout + (k.cmd + 1)
        <5>1. stale[k.commit] <= 2 * CmdTimeout + k.cmd
          BY <2>1, <4>3 DEF Steady
        <5> QED
          BY <3>4, <3>5, <3>6, <4>3, <5>1
      <4> QED
        BY <4>1, <4>2, <4>3
    <3>8. k.pc = "porcelain" => k.kind = "status"
      BY <2>1 DEF Steady
    <3> HIDE DEF c, k
    <3>9. Steady(c, stale')
      BY <3>2, <3>3, <3>6, <3>7, <3>8, Zenon DEF Steady, Created
    <3> QED
      BY <3>1, <3>9
  <2>3. CASE ~Running(q)
    <3>1. call'[q] = k
      BY <2>3 DEF Tick
    <3>2. k.pc \notin {"resolved", "log", "porcelain"}
      BY <2>3 DEF Running
    <3> QED
      BY <2>1, <3>1, <3>2 DEF Steady
  <2> QED
    BY <2>2, <2>3
<1>6. Fresh' => stale'[cache'.commit] <= 3 * CmdTimeout + cache'.since
  <2> SUFFICES ASSUME Fresh'
               PROVE  stale'[cache'.commit] <= 3 * CmdTimeout + cache'.since
    OBVIOUS
  <2> DEFINE s == cache.since
             now == IF cache = NoStatus THEN 0 ELSE Older(s)
             c == cache.commit
  <2>1. cache \in [commit : Commit \cup {None}, since : Nat]
    BY DEF GitInv, RepoInv
  <2>2. cache' = [cache EXCEPT !.since = now]
    BY DEF Tick
  <2>3. cache'.commit = c /\ cache'.since = now /\ s \in Nat
    BY <2>1, <2>2
  <2>4. c # None /\ now < CacheTTL /\ c \in Commit
    BY <2>1, <2>3 DEF Fresh
  <2>5. now = Older(s)
    BY <2>4 DEF NoStatus
  <2>6. now = s + 1
    BY <2>3, <2>4, <2>5, OlderAge
  <2>7. s < CacheTTL
    BY <2>3, <2>4, <2>6, Times
  <2>8. stale[c] <= 3 * CmdTimeout + s
    BY <2>4, <2>7 DEF AgeInv, Fresh
  <2> DEFINE was == stale[c]
             age == stale'[c]
  <2>9. was \in Nat /\ age \in Nat /\ age <= was + 1
    BY <1>3, <1>4, <2>4
  <2> HIDE DEF s, now, c, was, age
  <2>10. age <= 3 * CmdTimeout + now
    BY <2>3, <2>6, <2>8, <2>9, Times DEF was
  <2> QED
    BY <2>3, <2>10 DEF age
<1>7. \A c \in Commit : c = PointIn(branch', head', "HEAD") => stale'[c] = 0
  BY <1>1, <1>2 DEF Point
<1> QED
  BY <1>1, <1>5, <1>6, <1>7 DEF AgeInv, Point

\* A restart forgets the calls and the cache.
LEMMA AgeRestart ==
    ASSUME GitInv, AgeInv, GitRestart
    PROVE  AgeInv'
<1>1. UNCHANGED <<branch, head, moves, stale, moved, rows>>
  BY DEF GitRestart, repo
<1>2. \A q \in Call : call'[q] = IdleCall
  BY DEF GitRestart
<1>3. cache'.commit = None
  BY DEF GitRestart, NoStatus
<1> QED
  BY <1>1, <1>2, <1>3, SteadyIdle DEF AgeInv, Fresh, Point

\* The bounds hold before the first request.
LEMMA AgeInit == GitInit => AgeInv
<1> SUFFICES ASSUME GitInit
             PROVE  AgeInv
  OBVIOUS
<1>1. /\ \A q \in Call : call[q] = IdleCall
      /\ \A c \in Commit : stale[c] = 0
      /\ cache.commit = None /\ moves = 0 /\ moved = {} /\ rows = {}
  BY DEF GitInit, NoStatus
<1> QED
  BY <1>1, SteadyIdle DEF AgeInv, Fresh

\* Steps of the other side do not change them.
LEMMA AgeFrame ==
    ASSUME AgeInv, UNCHANGED gitVars
    PROVE  AgeInv'
<1>1. UNCHANGED <<branch, head, moves, stale, cache, call, moved, rows>>
  BY DEF gitVars, repo
<1> QED
  BY <1>1 DEF AgeInv, Fresh, Point

\* Every step keeps the bounds.
LEMMA AgeNext == Inv /\ AgeInv /\ [Next]_vars => AgeInv'
<1> SUFFICES ASSUME Inv, AgeInv, [Next]_vars
             PROVE  AgeInv'
  OBVIOUS
<1>1. GitInv /\ plan.reqs \subseteq Call
  BY WebAssumption DEF Inv
<1>2. CASE UNCHANGED gitVars
  BY <1>2, AgeFrame
<1>3. ASSUME NEW r \in Call, Enter(r)
      PROVE  AgeInv'
  BY <1>1, <1>3, AgeBegin DEF Enter
<1>4. ASSUME NEW r \in Call, Leave(r)
      PROVE  AgeInv'
  BY <1>1, <1>4, AgeEnd DEF Leave
<1>5. ASSUME NEW r \in Call, Git(r)
      PROVE  AgeInv'
  BY <1>1, <1>5, AgeReading, AgeWriting DEF Git, GitStep
<1>6. CASE Disturb
  BY <1>1, <1>6, AgeFrame, AgeMove, AgeTick, AgeRestart DEF Disturb
<1>7. CASE UNCHANGED vars
  BY <1>7, AgeFrame DEF vars
<1>8. ASSUME NEW r \in Call, Page(r) \/ Answering(r) \/ Decide(r)
      PROVE  AgeInv'
  BY <1>8, AgeFrame DEF Page, Answering, Decide
<1> QED
  BY <1>1, <1>3, <1>4, <1>5, <1>6, <1>7, <1>8, Zenon DEF Next, Progress

\* The bounds hold in every state.
LEMMA AgeInvariance == Spec => []AgeInv
<1>1. Init => AgeInv
  BY AgeInit DEF Init
<1> QED
  BY <1>1, InvHolds, AgeNext, PTL DEF Spec

\* A status of HEAD is one that HEAD had less than the cache's lifetime and three
\* commands ago (StatusOf and its cache, gitsource.go).
THEOREM StatusRecent == Spec => []StatusIsRecent
<1>1. AgeInv => StatusIsRecent
  BY DEF AgeInv, Steady, StatusIsRecent
<1> QED
  BY <1>1, AgeInvariance, PTL

-----------------------------------------------------------------------------
(* The page and its login.  Every token drawn is in the session map, or has *)
(* expired, or its logout was asked for, or the server was restarted.  While *)
(* the page is loading, it waits for one request, sent with the cookie; and  *)
(* no other answer than a login's or a logout's changes the cookie.         *)

TabRec(tokens) ==
    [boot : {"closed", "loading", "ready", "error"}, user : {Nobody, "user", Admin},
     mode : {"simple", "off"}, by : tokens \cup {Nobody}, alone : BOOLEAN,
     left : SUBSET (tokens \cup {Nobody})]

Active(q) == q.pc # "idle" /\ ~q.gone

\* What is known of one request, also of one that the page has forgotten.
Honest(q, tokens, dead, left, m) ==
    /\ q.pc = "evict" => q.token \in dead
    /\ q.kind = "logout" => q.token \in left
    /\ q.user # Nobody => q.token \in tokens
    /\ q.pc = "answer" =>
          /\ q.kind = "login" /\ q.answer = "ok" => q.cookie \in tokens
          /\ q.kind # "logout" /\ ~(q.kind = "login" /\ q.answer = "ok") => q.cookie = "keep"
          /\ q.kind = "me" /\ q.answer = "ok" /\ m = "simple" => q.user # Nobody

Waiting(q, boot, c, dead) ==
    Active(q) => IF boot = "loading"
                 THEN q.kind \in {"me", "info"} /\ (q.token = c \/ q.token \in dead)
                 ELSE q.kind \notin {"me", "info"}

Alone == tab.boot = "loading" =>
            \A q, r \in Req : Active(req[q]) /\ Active(req[r]) => q = r

Held == restarted \/ given \subseteq sessions \cup expired \cup tab.left

Over == restarted \/ tab.by \in expired \cup tab.left

LoggedIn ==
    tab.boot = "ready" /\ tab.by # Nobody /\ tab.alone =>
        Over \/ (cookie = tab.by /\ tab.user = Admin)

\* No logout of an earlier login is under way.
Quiet == tab.boot = "ready" /\ tab.by # Nobody /\ tab.alone => Over \/ ~LoggingOut

LoginInv ==
    /\ tab \in TabRec(given) /\ restarted \in BOOLEAN /\ expired \subseteq given
    /\ tab.mode = "off" => mode = "off"
    /\ Held
    /\ \A r \in Req : Honest(req[r], given, expired, tab.left, mode)
    /\ \A r \in Req : Waiting(req[r], tab.boot, cookie, expired)
    /\ Alone
    /\ LoggedIn
    /\ Quiet

\* What is known of a request stays known.
LEMMA HonestStays ==
    ASSUME NEW q, NEW t1, NEW t2, NEW d1, NEW d2, NEW l1, NEW l2, NEW m,
           t1 \subseteq t2, d1 \subseteq d2, l1 \subseteq l2,
           Honest(q, t1, d1, l1, m)
    PROVE  Honest(q, t2, d2, l2, m)
  BY DEF Honest

\* A request of the page goes on, or ends, while the page stays where it is.
LEMMA LoginRequest ==
    ASSUME AuthInv, LoginInv, Grows, UNCHANGED cookie, tab.left \subseteq tab'.left,
           tab'.boot = tab.boot, NEW r \in Req, NEW q,
           req' = [req EXCEPT ![r] = q],
           Honest(q, given', expired', tab'.left, mode),
           Waiting(q, tab.boot, cookie, expired'),
           tab.boot = "loading" /\ Active(q) => Active(req[r])
    PROVE  /\ \A s \in Req : Honest(req'[s], given', expired', tab'.left, mode')
           /\ \A s \in Req : Waiting(req'[s], tab'.boot, cookie', expired')
           /\ Alone'
           /\ LoggingOut' => LoggingOut \/ (Active(q) /\ q.kind = "logout")
<1>1. \A s \in Req : req'[s] = IF s = r THEN q ELSE req[s]
  BY DEF AuthInv, ReqsOK
<1>2. /\ mode' = mode /\ given \subseteq given' /\ expired \subseteq expired'
  BY DEF Grows
<1>3. ASSUME NEW s \in Req
      PROVE  Honest(req[s], given', expired', tab'.left, mode)
  BY <1>2, HonestStays DEF LoginInv
<1>4. ASSUME NEW s \in Req
      PROVE  Waiting(req[s], tab.boot, cookie, expired')
  BY <1>2 DEF LoginInv, Waiting
<1>5. Alone'
  BY <1>1 DEF LoginInv, Alone
<1>6. LoggingOut' => LoggingOut \/ (Active(q) /\ q.kind = "logout")
  BY <1>1 DEF LoggingOut, Active
<1> QED
  BY <1>1, <1>2, <1>3, <1>4, <1>5, <1>6

\* The same when it keeps what it was sent with, as the server's steps do.
LEMMA LoginServed ==
    ASSUME AuthInv, LoginInv, Grows, UNCHANGED <<cookie, tab>>, NEW r \in Req, NEW q,
           req' = [req EXCEPT ![r] = q], req[r].pc # "idle",
           q.token = req[r].token /\ q.kind = req[r].kind /\ q.gone = req[r].gone,
           Honest(q, given', expired', tab.left, mode)
    PROVE  /\ \A s \in Req : Honest(req'[s], given', expired', tab'.left, mode')
           /\ \A s \in Req : Waiting(req'[s], tab'.boot, cookie', expired')
           /\ Alone'
           /\ LoggingOut' => LoggingOut
<1>1. Active(q) => Active(req[r])
  BY DEF Active
<1>2. expired \subseteq expired'
  BY DEF Grows
<1>3. Waiting(q, tab.boot, cookie, expired')
  BY <1>1, <1>2 DEF LoginInv, Waiting
<1>4. Active(q) /\ q.kind = "logout" => LoggingOut
  BY DEF Active, LoggingOut
<1> QED
  BY <1>1, <1>3, <1>4, LoginRequest

\* What is said of the page alone holds after a step of the server.
LEMMA LoginPage ==
    ASSUME LoginInv, Grows, UNCHANGED <<tab, cookie, restarted>>, expired' \subseteq given',
           LoggingOut' => LoggingOut
    PROVE  /\ tab' \in TabRec(given') /\ restarted' \in BOOLEAN
           /\ tab'.mode = "off" => mode' = "off"
           /\ LoggedIn' /\ Quiet'
  BY DEF LoginInv, Grows, TabRec, LoggedIn, Quiet, Over

\* An answer keeps what the request was sent with.
LEMMA LoginAnswer ==
    ASSUME AuthInv, LoginInv, Grows, UNCHANGED <<cookie, tab>>, NEW r \in Req, NEW a, NEW c,
           Answer(r, a, c), req[r].pc # "idle",
           req[r].kind = "login" /\ a = "ok" => c \in given',
           req[r].kind # "logout" /\ ~(req[r].kind = "login" /\ a = "ok") => c = "keep",
           req[r].kind = "me" /\ a = "ok" /\ mode = "simple" => req[r].user # Nobody
    PROVE  /\ \A s \in Req : Honest(req'[s], given', expired', tab'.left, mode')
           /\ \A s \in Req : Waiting(req'[s], tab'.boot, cookie', expired')
           /\ Alone'
           /\ LoggingOut' => LoggingOut
<1> DEFINE q == [req[r] EXCEPT !.pc = "answer", !.answer = a, !.cookie = c]
<1>1. req' = [req EXCEPT ![r] = q]
  BY DEF Answer
<1>2. req[r] \in ReqRec(given)
  BY DEF AuthInv, ReqsOK
<1>3. /\ q.pc = "answer" /\ q.answer = a /\ q.cookie = c /\ q.token = req[r].token
      /\ q.kind = req[r].kind /\ q.gone = req[r].gone /\ q.user = req[r].user
  BY <1>2 DEF ReqRec
<1> HIDE DEF q
<1>4. Honest(q, given', expired', tab.left, mode)
  BY <1>3 DEF LoginInv, Honest, Grows
<1> QED
  BY <1>1, <1>3, <1>4, LoginServed

\* A step of the middleware keeps it too.
LEMMA LoginTo ==
    ASSUME AuthInv, LoginInv, Grows, UNCHANGED <<cookie, tab>>, NEW r \in Req, NEW p, NEW u,
           To(r, p, u), req[r].pc # "idle", p # "answer",
           p = "evict" => req[r].token \in expired',
           u # Nobody => req[r].token \in given'
    PROVE  /\ \A s \in Req : Honest(req'[s], given', expired', tab'.left, mode')
           /\ \A s \in Req : Waiting(req'[s], tab'.boot, cookie', expired')
           /\ Alone'
           /\ LoggingOut' => LoggingOut
<1> DEFINE q == [req[r] EXCEPT !.pc = p, !.user = u]
<1>1. req' = [req EXCEPT ![r] = q]
  BY DEF To
<1>2. req[r] \in ReqRec(given)
  BY DEF AuthInv, ReqsOK
<1>3. /\ q.pc = p /\ q.user = u /\ q.token = req[r].token
      /\ q.kind = req[r].kind /\ q.gone = req[r].gone
  BY <1>2 DEF ReqRec
<1> HIDE DEF q
<1>4. Honest(q, given', expired', tab.left, mode)
  BY <1>3 DEF LoginInv, Honest, Grows
<1> QED
  BY <1>1, <1>3, <1>4, LoginServed

\* Without a session only an exempt endpoint is reached.
LEMMA LoginAnonymous ==
    ASSUME AuthInv, LoginInv, Grows, UNCHANGED <<cookie, tab>>, NEW r \in Req,
           Anonymous(r), req[r].pc # "idle"
    PROVE  /\ \A s \in Req : Honest(req'[s], given', expired', tab'.left, mode')
           /\ \A s \in Req : Waiting(req'[s], tab'.boot, cookie', expired')
           /\ Alone'
           /\ LoggingOut' => LoggingOut
<1>1. CASE Exempt(req[r].kind)
  BY <1>1, LoginTo DEF Anonymous
<1>2. CASE ~Exempt(req[r].kind)
  BY <1>2, LoginAnswer DEF Anonymous, Exempt
<1> QED
  BY <1>1, <1>2

\* The server's steps.  A logout ends a session that the page wanted ended, and
\* what the middleware evicts has expired.
LEMMA LoginHandler ==
    ASSUME AuthInv, LoginInv, NEW r \in Req, Handler(r) \/ Serve(r)
    PROVE  LoginInv'
<1>1. UNCHANGED <<mode, expired, restarted, cookie, tab>> /\ req[r].pc # "idle"
  BY DEF Handler, Middleware, Evict, HandleLogin, HandleLogout, HandleMe, SystemInfo, Serve,
     Serving, Handling
<1>2. Grows
  BY DEF Handler, Middleware, Evict, HandleLogin, HandleLogout, HandleMe, SystemInfo, Serve, Grows
<1>3. expired' \subseteq given'
  BY <1>1, <1>2 DEF LoginInv, Grows
<1> DEFINE Requests ==
              /\ \A s \in Req : Honest(req'[s], given', expired', tab'.left, mode')
              /\ \A s \in Req : Waiting(req'[s], tab'.boot, cookie', expired')
              /\ Alone'
              /\ LoggingOut' => LoggingOut
<1>4. ASSUME Requests, Held'
      PROVE  LoginInv'
  BY <1>1, <1>2, <1>3, <1>4, LoginPage DEF LoginInv
<1>5. UNCHANGED <<sessions, given>> => Held'
  BY <1>1 DEF LoginInv, Held
<1>6. sessions \subseteq given /\ req[r] \in ReqRec(given) /\ mode \in {"simple", "off"}
  BY DEF AuthInv, SessionsInv, ReqsOK
<1>7. CASE Middleware(r)
  <2>1. UNCHANGED <<sessions, given>>
    BY <1>7 DEF Middleware
  <2>2. \/ To(r, "handle", Nobody)
        \/ To(r, "handle", Admin) /\ req[r].token \in sessions
        \/ To(r, "evict", Nobody) /\ req[r].token \in expired
        \/ Anonymous(r)
    BY <1>7 DEF Middleware, Live
  <2>3. Requests
    <3>1. CASE To(r, "handle", Nobody)
      BY <1>1, <1>2, <3>1, LoginTo
    <3>2. CASE To(r, "handle", Admin) /\ req[r].token \in sessions
      BY <1>1, <1>2, <1>6, <2>1, <3>2, LoginTo
    <3>3. CASE To(r, "evict", Nobody) /\ req[r].token \in expired
      BY <1>1, <1>2, <3>3, LoginTo
    <3>4. CASE Anonymous(r)
      BY <1>1, <1>2, <3>4, LoginAnonymous
    <3> QED
      BY <2>2, <3>1, <3>2, <3>3, <3>4
  <2> QED
    BY <1>4, <1>5, <2>1, <2>3
<1>8. CASE Evict(r)
  <2>1. sessions' = sessions \ {req[r].token} /\ given' = given /\ req[r].token \in expired
    BY <1>8 DEF Evict, LoginInv, Honest
  <2>2. Held'
    BY <1>1, <2>1 DEF LoginInv, Held
  <2>3. Requests
    BY <1>1, <1>2, <1>8, LoginAnonymous DEF Evict
  <2> QED
    BY <1>4, <2>2, <2>3
<1>9. CASE HandleLogin(r)
  <2>1. req[r].kind = "login"
    BY <1>9 DEF HandleLogin, Handling
  <2>2. ASSUME NEW a \in {"conflict", "denied", "error"}, Answer(r, a, "keep")
        PROVE  Requests
    BY <1>1, <1>2, <2>1, <2>2, LoginAnswer
  <2>3. CASE /\ UNCHANGED <<sessions, given>>
             /\ \E a \in {"conflict", "denied", "error"} : Answer(r, a, "keep")
    BY <1>4, <1>5, <2>2, <2>3
  <2>4. ASSUME NEW t \in Token \ given, given' = given \cup {t}, sessions' = sessions \cup {t},
               Answer(r, "ok", t)
        PROVE  LoginInv'
    <3>1. Held'
      BY <1>1, <2>4 DEF LoginInv, Held
    <3>2. Requests
      BY <1>1, <1>2, <2>1, <2>4, LoginAnswer
    <3> QED
      BY <1>4, <3>1, <3>2
  <2> QED
    BY <1>9, <2>3, <2>4 DEF HandleLogin
<1>10. CASE HandleLogout(r)
  <2>1. /\ sessions' = sessions \ {req[r].token} /\ given' = given /\ req[r].kind = "logout"
        /\ Answer(r, "ok", "clear")
    BY <1>10 DEF HandleLogout, Handling
  <2>2. req[r].token \in tab.left
    BY <2>1 DEF LoginInv, Honest
  <2>3. Held'
    BY <1>1, <2>1, <2>2 DEF LoginInv, Held
  <2>4. Requests
    BY <1>1, <1>2, <2>1, LoginAnswer
  <2> QED
    BY <1>4, <2>3, <2>4
<1>11. CASE HandleMe(r)
  <2>1. /\ UNCHANGED <<sessions, given>> /\ req[r].kind = "me"
        /\ Answer(r, IF mode = "off" \/ req[r].user # Nobody THEN "ok" ELSE "denied", "keep")
    BY <1>11 DEF HandleMe, Handling
  <2>2. Requests
    BY <1>1, <1>2, <2>1, LoginAnswer
  <2> QED
    BY <1>4, <1>5, <2>1, <2>2
<1>12. CASE SystemInfo(r) \/ Serve(r)
  <2>1. /\ UNCHANGED <<sessions, given>> /\ req[r].kind \in {"info", "data"}
        /\ Answer(r, "ok", "keep")
    BY <1>12 DEF SystemInfo, Serve, Serving, Handling
  <2>2. Requests
    BY <1>1, <1>2, <2>1, LoginAnswer
  <2> QED
    BY <1>4, <1>5, <2>1, <2>2
<1> QED
  BY <1>7, <1>8, <1>9, <1>10, <1>11, <1>12 DEF Handler

\* Expiry and restart: the server and the browser forget only what counts as expired
\* or restarted.
LEMMA LoginDisturb ==
    ASSUME AuthInv, LoginInv, (\E t \in Token : Expire(t)) \/ CookieExpires \/ AuthRestart
    PROVE  LoginInv'
<1>1. CASE \E t \in Token : Expire(t)
  <2>1. /\ UNCHANGED <<mode, sessions, given, restarted, cookie, req, tab>>
        /\ expired \subseteq expired' /\ expired' \subseteq given
    BY <1>1 DEF Expire, LoginInv
  <2>2. \A r \in Req : Honest(req[r], given, expired', tab.left, mode)
    BY <2>1, HonestStays DEF LoginInv
  <2>3. \A r \in Req : Waiting(req[r], tab.boot, cookie, expired')
    BY <2>1 DEF LoginInv, Waiting
  <2>4. Held' /\ Alone' /\ LoggedIn' /\ Quiet'
    BY <2>1 DEF LoginInv, Held, Alone, LoggedIn, Quiet, Over, LoggingOut
  <2> QED
    BY <2>1, <2>2, <2>3, <2>4 DEF LoginInv
<1>2. CASE CookieExpires
  <2>1. /\ UNCHANGED <<mode, sessions, given, expired, restarted, req, tab>>
        /\ cookie \in expired
    BY <1>2 DEF CookieExpires
  <2>2. \A r \in Req : Waiting(req[r], tab.boot, cookie', expired)
    BY <2>1 DEF LoginInv, Waiting
  <2>3. Held' /\ Alone' /\ LoggedIn' /\ Quiet'
    BY <2>1 DEF LoginInv, Held, Alone, LoggedIn, Quiet, Over, LoggingOut
  <2> QED
    BY <2>1, <2>2, <2>3 DEF LoginInv
<1>3. CASE AuthRestart
  <2>1. UNCHANGED <<mode, given, expired, cookie, tab>> /\ restarted' = TRUE
    BY <1>3, Zenon DEF AuthRestart
  <2>2. ASSUME NEW r \in Req
        PROVE  /\ Honest(req'[r], given, expired, tab.left, mode)
               /\ Waiting(req'[r], tab.boot, cookie, expired)
               /\ Active(req'[r]) => Active(req[r])
    <3> DEFINE q == [req[r] EXCEPT !.pc = "answer", !.answer = "error", !.cookie = "keep"]
    <3>1. req'[r] = req[r] \/ (req'[r] = q /\ req[r].pc # "idle")
      <4>1. req'[r] = IF req[r].pc \in {"idle", "answer"} THEN req[r] ELSE q
        BY <1>3, Zenon DEF AuthRestart
      <4> HIDE DEF q
      <4> QED
        BY <4>1
    <3>2. req[r] \in ReqRec(given)
      BY DEF AuthInv, ReqsOK
    <3>3. /\ q.pc = "answer" /\ q.answer = "error" /\ q.cookie = "keep" /\ q.user = req[r].user
          /\ q.token = req[r].token /\ q.kind = req[r].kind /\ q.gone = req[r].gone
      BY <3>2 DEF ReqRec
    <3> HIDE DEF q
    <3>4. /\ Honest(req[r], given, expired, tab.left, mode)
          /\ Waiting(req[r], tab.boot, cookie, expired)
      BY DEF LoginInv
    <3> QED
      BY <3>1, <3>3, <3>4 DEF Honest, Waiting, Active
  <2>3. Held' /\ Alone' /\ LoggedIn' /\ Quiet'
    BY <2>1, <2>2 DEF LoginInv, Held, Alone, LoggedIn, Quiet, Over
  <2> QED
    BY <2>1, <2>2, <2>3 DEF LoginInv
<1> QED
  BY <1>1, <1>2, <1>3

\* What a new request is sent with.
LEMMA NewReqFields ==
    ASSUME NEW kind
    PROVE  LET q == NewReq(kind) IN
           /\ q.pc = "arrive" /\ q.kind = kind /\ q.token = cookie /\ q.user = Nobody
           /\ q.gone = FALSE
<1> DEFINE late == cookie \notin given \ (ended \cup expired)
           Sent(l) == [IdleReq EXCEPT !.pc = "arrive", !.kind = kind, !.token = cookie,
                                      !.late = l]
<1>1. NewReq(kind) = Sent(late)
  BY Zenon DEF NewReq
<1> HIDE DEF late
<1>2. \A l : /\ Sent(l).pc = "arrive" /\ Sent(l).kind = kind /\ Sent(l).token = cookie
             /\ Sent(l).user = Nobody /\ Sent(l).gone = FALSE
  BY DEF IdleReq
<1> QED
  BY <1>1, <1>2

\* The page asks.  A logout is remembered with the session it is for.
LEMMA LoginAsks ==
    ASSUME AuthInv, LoginInv, NEW r \in Req,
           Load(r) \/ AskLogin(r) \/ AskData(r) \/ AskLogout(r) \/ Lose(r)
    PROVE  LoginInv'
<1>1. UNCHANGED <<mode, sessions, given, ended, expired, restarted, cookie>> /\ Grows
  BY DEF Load, AskLogin, AskData, AskLogout, Lose, Grows
<1>2. tab \in TabRec(given) /\ cookie \in given \cup {Nobody}
  BY DEF LoginInv, AuthInv, SessionsInv
<1> DEFINE Requests ==
              /\ \A s \in Req : Honest(req'[s], given', expired', tab'.left, mode')
              /\ \A s \in Req : Waiting(req'[s], tab'.boot, cookie', expired')
              /\ Alone'
              /\ LoggingOut' => LoggingOut
<1>3. ASSUME Requests, UNCHANGED tab
      PROVE  LoginInv'
  <2>1. Held'
    BY <1>1, <1>3 DEF LoginInv, Held
  <2>2. expired' \subseteq given'
    BY <1>1 DEF LoginInv
  <2> QED
    BY <1>1, <1>3, <2>1, <2>2, LoginPage DEF LoginInv
<1>4. CASE Load(r)
  <2> DEFINE n == NewReq("me")
  <2>1. /\ n.pc = "arrive" /\ n.kind = "me" /\ n.token = cookie /\ n.user = Nobody
        /\ n.gone = FALSE
    BY NewReqFields
  <2>2. \A s \in Req : req'[s] = IF s = r THEN n ELSE [req[s] EXCEPT !.gone = req[s].pc # "idle"]
    BY <1>4 DEF Load
  <2> HIDE DEF n
  <2>3. /\ tab'.boot = "loading" /\ tab'.user = Nobody /\ tab'.mode = "simple"
        /\ tab'.left = tab.left /\ tab' \in TabRec(given)
    <3>1. tab' = [ClosedTab EXCEPT !.boot = "loading", !.left = tab.left]
      BY <1>4 DEF Load
    <3> QED
      BY <1>2, <3>1 DEF ClosedTab, TabRec
  <2>4. ASSUME NEW s \in Req
        PROVE  /\ Honest(req'[s], given, expired, tab.left, mode)
               /\ Active(req'[s]) => s = r
    <3>1. CASE s = r
      BY <2>1, <2>2, <3>1 DEF Honest
    <3>2. CASE s # r
      <4> DEFINE busy == req[s].pc # "idle"
                 Left(g) == [req[s] EXCEPT !.gone = g]
      <4>1. req'[s] = Left(busy)
        BY <2>2, <3>2, Zenon
      <4>2. busy \in BOOLEAN /\ (busy <=> req[s].pc # "idle")
        OBVIOUS
      <4> HIDE DEF busy
      <4>3. req[s] \in ReqRec(given) /\ Honest(req[s], given, expired, tab.left, mode)
        BY DEF AuthInv, ReqsOK, LoginInv
      <4>4. ASSUME NEW g \in BOOLEAN
            PROVE  /\ Left(g).pc = req[s].pc /\ Left(g).kind = req[s].kind
                   /\ Left(g).token = req[s].token /\ Left(g).user = req[s].user
                   /\ Left(g).answer = req[s].answer /\ Left(g).cookie = req[s].cookie
                   /\ Left(g).gone = g
        BY <4>3 DEF ReqRec
      <4> HIDE DEF Left
      <4> QED
        BY <4>1, <4>2, <4>3, <4>4 DEF Honest, Active
    <3> QED
      BY <3>1, <3>2
  <2>5. \A s \in Req : Waiting(req'[s], tab'.boot, cookie', expired')
    BY <1>1, <2>1, <2>2, <2>3, <2>4 DEF Waiting
  <2>6. Alone' /\ Held' /\ LoggedIn' /\ Quiet'
    BY <1>1, <2>3, <2>4 DEF LoginInv, Alone, Held, LoggedIn, Quiet
  <2> QED
    BY <1>1, <2>3, <2>4, <2>5, <2>6 DEF LoginInv
<1>5. ASSUME NEW kind \in {"login", "data", "logout"}, tab.boot = "ready",
             req' = [req EXCEPT ![r] = NewReq(kind)],
             tab.left \subseteq tab'.left, tab'.boot = tab.boot,
             kind = "logout" => cookie \in tab'.left
      PROVE  /\ \A s \in Req : Honest(req'[s], given', expired', tab'.left, mode')
             /\ \A s \in Req : Waiting(req'[s], tab'.boot, cookie', expired')
             /\ Alone'
             /\ LoggingOut' => LoggingOut \/ kind = "logout"
  <2> DEFINE n == NewReq(kind)
  <2>1. /\ n.pc = "arrive" /\ n.kind = kind /\ n.token = cookie /\ n.user = Nobody
        /\ n.gone = FALSE
    BY NewReqFields
  <2>2. req' = [req EXCEPT ![r] = n]
    BY <1>5
  <2> HIDE DEF n
  <2>3. Honest(n, given', expired', tab'.left, mode)
    BY <1>1, <1>5, <2>1 DEF Honest
  <2>4. Waiting(n, tab.boot, cookie, expired')
    BY <1>5, <2>1 DEF Waiting
  <2> QED
    BY <1>1, <1>5, <2>1, <2>2, <2>3, <2>4, LoginRequest
<1>6. CASE AskLogin(r) \/ AskData(r)
  <2>1. PICK kind \in {"login", "data"} : req' = [req EXCEPT ![r] = NewReq(kind)]
    BY <1>6 DEF AskLogin, AskData, Send
  <2>2. tab.boot = "ready" /\ UNCHANGED tab
    BY <1>6 DEF AskLogin, AskData, OnLoginPage, InConsole
  <2> QED
    BY <1>3, <1>5, <2>1, <2>2
<1>7. CASE AskLogout(r)
  <2> DEFINE b == [tab EXCEPT !.left = tab.left \cup {cookie}]
  <2>1. /\ req' = [req EXCEPT ![r] = NewReq("logout")] /\ tab.boot = "ready" /\ tab' = b
    BY <1>7 DEF AskLogout, Send, InConsole
  <2>2. /\ b.left = tab.left \cup {cookie} /\ b.boot = tab.boot /\ b.user = tab.user
        /\ b.mode = tab.mode /\ b.by = tab.by /\ b.alone = tab.alone
    BY <1>2 DEF TabRec
  <2>3. tab.left \cup {cookie} \in SUBSET (given \cup {Nobody})
    BY <1>2 DEF TabRec
  <2>4. b \in TabRec(given)
    BY <1>2, <2>3 DEF TabRec
  <2> HIDE DEF b
  <2>5. /\ \A s \in Req : Honest(req'[s], given', expired', tab'.left, mode')
        /\ \A s \in Req : Waiting(req'[s], tab'.boot, cookie', expired')
        /\ Alone'
    BY <1>5, <2>1, <2>2
  <2>6. Held' /\ LoggedIn' /\ Quiet'
    BY <1>1, <2>1, <2>2 DEF LoginInv, Held, LoggedIn, Quiet, Over
  <2> QED
    BY <1>1, <2>1, <2>2, <2>4, <2>5, <2>6 DEF LoginInv
<1>8. CASE Lose(r)
  <2>1. Answer(r, "error", "keep") /\ req[r].pc # "idle" /\ UNCHANGED tab
    BY <1>8 DEF Lose
  <2>2. Requests
    BY <1>1, <2>1, LoginAnswer
  <2> QED
    BY <1>3, <2>1, <2>2
<1> QED
  BY <1>4, <1>6, <1>7, <1>8

\* The page has read an answer and waits for it no more.
LEMMA LoginDone ==
    ASSUME AuthInv, LoginInv, UNCHANGED <<mode, given, expired>>, NEW r \in Req, Done(r),
           tab'.left = tab.left,
           tab'.boot = "loading" => tab.boot = "loading" /\ cookie' = cookie,
           tab'.boot # "loading" /\ tab.boot = "loading" => Active(req[r])
    PROVE  /\ \A s \in Req : Honest(req'[s], given', expired', tab'.left, mode')
           /\ \A s \in Req : Waiting(req'[s], tab'.boot, cookie', expired')
           /\ Alone'
           /\ LoggingOut' => LoggingOut
<1>1. \A s \in Req : req'[s] = IF s = r THEN IdleReq ELSE req[s]
  BY DEF Done, AuthInv, ReqsOK
<1>2. IdleReq.pc = "idle" /\ IdleReq.kind = "me" /\ IdleReq.user = Nobody
  BY DEF IdleReq
<1>3. ASSUME NEW s \in Req
      PROVE  /\ Honest(req'[s], given', expired', tab'.left, mode')
             /\ Waiting(req'[s], tab'.boot, cookie', expired')
  <2>1. CASE s = r
    BY <1>1, <1>2, <2>1 DEF Honest, Waiting, Active
  <2>2. CASE s # r
    <3>1. /\ req'[s] = req[s]
          /\ Honest(req[s], given, expired, tab.left, mode)
          /\ Waiting(req[s], tab.boot, cookie, expired)
      BY <1>1, <2>2 DEF LoginInv
    <3>2. tab'.boot # "loading" /\ tab.boot = "loading" => ~Active(req[s])
      BY <2>2 DEF LoginInv, Alone
    <3> QED
      BY <3>1, <3>2 DEF Waiting
  <2> QED
    BY <2>1, <2>2
<1>4. Alone'
  BY <1>1, <1>2 DEF LoginInv, Alone, Active
<1>5. LoggingOut' => LoggingOut
  BY <1>1, <1>2 DEF LoggingOut
<1> QED
  BY <1>3, <1>4, <1>5

\* The answers.  A page that has just read that it is logged in holds the cookie of
\* that login, unless the session has expired meanwhile.
LEMMA LoginReads ==
    ASSUME AuthInv, LoginInv, NEW r \in Req, Reader(r)
    PROVE  LoginInv'
<1> DEFINE q == req[r]
<1>1. /\ UNCHANGED <<mode, sessions, given, ended, expired, restarted>> /\ Grows
      /\ q.pc = "answer"
  BY DEF Reader, ReadMe, ReadInfo, ReadLogin, ReadLogout, ReadData, Drop, Read, Grows
<1>2. /\ tab \in TabRec(given) /\ q \in ReqRec(given) /\ mode \in {"simple", "off"}
      /\ given \subseteq Token
  BY DEF LoginInv, AuthInv, SessionsInv, ReqsOK
<1>3. /\ Honest(q, given, expired, tab.left, mode)
      /\ Waiting(q, tab.boot, cookie, expired)
  BY DEF LoginInv
<1> DEFINE Requests ==
              /\ \A s \in Req : Honest(req'[s], given', expired', tab'.left, mode')
              /\ \A s \in Req : Waiting(req'[s], tab'.boot, cookie', expired')
              /\ Alone'
              /\ LoggingOut' => LoggingOut
<1>4. ASSUME Requests, tab' \in TabRec(given), tab'.left = tab.left,
             tab'.mode = "off" => mode = "off", LoggedIn', Quiet'
      PROVE  LoginInv'
  <2>1. Held'
    BY <1>1, <1>4 DEF LoginInv, Held
  <2> QED
    BY <1>1, <1>4, <2>1 DEF LoginInv
<1>5. ASSUME NEW kind, Read(r, kind)
      PROVE  /\ q.kind = kind /\ Active(q)
             /\ q.cookie = "keep" => cookie' = cookie
             /\ q.cookie \in given => cookie' = q.cookie
  <2>1. /\ q.kind = kind /\ Active(q)
        /\ cookie' = CASE q.cookie = "keep"  -> cookie
                       [] q.cookie = "clear" -> Nobody
                       [] OTHER              -> q.cookie
    BY <1>5 DEF Read, Active
  <2>2. q.cookie \in given => q.cookie \notin {"keep", "clear"}
    BY <1>2, AuthAssumption
  <2> QED
    BY <2>1, <2>2
<1>6. ASSUME NEW user \in {Nobody, "user", Admin}, NEW m \in {"simple", "off"},
             NEW by \in given \cup {Nobody}, Ready(user, m, by)
      PROVE  /\ tab'.boot = "ready" /\ tab'.user = user /\ tab'.mode = m /\ tab'.by = by
             /\ tab'.left = tab.left /\ tab' \in TabRec(given)
             /\ tab'.alone => ~LoggingOut
  <2> DEFINE b1 == [tab EXCEPT !.boot = "ready"]
             b2 == [b1 EXCEPT !.user = user]
             b3 == [b2 EXCEPT !.mode = m]
  <2>1. b1 \in TabRec(given)
    BY <1>2 DEF TabRec
  <2>2. b2 \in TabRec(given)
    BY <2>1 DEF TabRec
  <2>3. b3 \in TabRec(given)
    BY <2>2 DEF TabRec
  <2> DEFINE b4 == [b3 EXCEPT !.by = by]
             free == ~LoggingOut
  <2>4. b4 \in TabRec(given)
    BY <2>3 DEF TabRec
  <2>5. tab' = [b4 EXCEPT !.alone = free]
    BY <1>6, Zenon DEF Ready
  <2>6. free \in BOOLEAN /\ (free => ~LoggingOut)
    OBVIOUS
  <2>7. /\ b4.boot = "ready" /\ b4.user = user /\ b4.mode = m /\ b4.by = by
        /\ b4.left = tab.left
    BY <1>2 DEF TabRec
  <2> HIDE DEF b4, free
  <2> QED
    BY <2>4, <2>5, <2>6, <2>7 DEF TabRec
<1>7. Admin # Nobody /\ Admin # "user"
  BY AuthAssumption
<1>8. CASE ReadMe(r)
  <2>1. q.kind = "me" /\ Active(q) /\ q.cookie = "keep"
    BY <1>1, <1>3, <1>5, <1>8 DEF ReadMe, Honest
  <2>2. cookie' = cookie
    BY <1>5, <1>8, <2>1 DEF ReadMe
  <2>3. tab.boot = "loading" /\ (q.token = cookie \/ q.token \in expired)
    BY <1>3, <2>1 DEF Waiting
  <2>4. CASE q.answer = "ok" /\ mode = "simple"
    <3>1. Ready(Admin, "simple", q.token) /\ Done(r)
      BY <1>8, <2>4 DEF ReadMe
    <3>2. q.token \in given \cup {Nobody}
      BY <1>2 DEF ReqRec
    <3>3. /\ tab'.boot = "ready" /\ tab'.user = Admin /\ tab'.mode = "simple" /\ tab'.by = q.token
          /\ tab'.left = tab.left /\ tab' \in TabRec(given) /\ (tab'.alone => ~LoggingOut)
      BY <1>6, <3>1, <3>2
    <3>4. Requests
      BY <1>1, <2>1, <2>2, <2>3, <3>1, <3>3, LoginDone
    <3>5. LoggedIn' /\ Quiet'
      BY <1>1, <2>2, <2>3, <3>3, <3>4 DEF LoggedIn, Quiet, Over
    <3> QED
      BY <1>4, <3>3, <3>4, <3>5
  <2>5. CASE q.answer = "ok" /\ mode = "off"
    <3>1. Ready("user", "off", Nobody) /\ Done(r)
      BY <1>8, <2>5 DEF ReadMe
    <3>2. /\ tab'.boot = "ready" /\ tab'.by = Nobody /\ tab'.mode = "off"
          /\ tab'.left = tab.left /\ tab' \in TabRec(given)
      BY <1>6, <3>1
    <3>3. Requests
      BY <1>1, <2>1, <2>2, <2>3, <3>1, <3>2, LoginDone
    <3>4. LoggedIn' /\ Quiet'
      BY <3>2 DEF LoggedIn, Quiet
    <3> QED
      BY <1>4, <2>5, <3>2, <3>3, <3>4
  <2>6. CASE q.answer = "denied"
    <3>1. Ready(Nobody, "simple", Nobody) /\ Done(r)
      BY <1>8, <2>6 DEF ReadMe
    <3>2. /\ tab'.boot = "ready" /\ tab'.by = Nobody /\ tab'.mode = "simple"
          /\ tab'.left = tab.left /\ tab' \in TabRec(given)
      BY <1>6, <3>1
    <3>3. Requests
      BY <1>1, <2>1, <2>2, <2>3, <3>1, <3>2, LoginDone
    <3>4. LoggedIn' /\ Quiet'
      BY <3>2 DEF LoggedIn, Quiet
    <3> QED
      BY <1>4, <3>2, <3>3, <3>4
  <2>7. CASE q.answer \notin {"ok", "denied"}
    <3> DEFINE n == NewReq("info")
    <3>1. req' = [req EXCEPT ![r] = n] /\ UNCHANGED tab
      BY <1>8, <2>7 DEF ReadMe
    <3>2. n.pc = "arrive" /\ n.kind = "info" /\ n.token = cookie /\ n.user = Nobody
      BY NewReqFields
    <3> HIDE DEF n
    <3>3. /\ Honest(n, given', expired', tab'.left, mode)
          /\ Waiting(n, tab.boot, cookie, expired')
      BY <2>3, <3>2 DEF Honest, Waiting
    <3>4. Requests
      BY <1>1, <2>1, <2>2, <3>1, <3>2, <3>3, LoginRequest
    <3>5. LoggedIn' /\ Quiet' /\ (tab'.mode = "off" => mode = "off")
      BY <2>3, <3>1 DEF LoggedIn, Quiet, LoginInv
    <3> QED
      BY <1>2, <1>4, <3>1, <3>4, <3>5
  <2> QED
    BY <1>2, <2>4, <2>5, <2>6, <2>7
<1>9. CASE ReadInfo(r)
  <2>1. q.kind = "info" /\ Active(q) /\ q.cookie = "keep" /\ Done(r)
    BY <1>1, <1>3, <1>5, <1>9 DEF ReadInfo, Honest
  <2>2. cookie' = cookie
    BY <1>5, <1>9, <2>1 DEF ReadInfo
  <2>3. tab.boot = "loading"
    BY <1>3, <2>1 DEF Waiting
  <2>4. ASSUME tab'.boot \in {"ready", "error"}, tab'.left = tab.left, tab' \in TabRec(given),
               tab'.boot = "ready" => tab'.by = Nobody, tab'.mode = "off" => mode = "off"
        PROVE  LoginInv'
    <3>1. Requests
      BY <1>1, <2>1, <2>2, <2>3, <2>4, LoginDone
    <3>2. LoggedIn' /\ Quiet'
      BY <2>4 DEF LoggedIn, Quiet
    <3> QED
      BY <1>4, <2>4, <3>1, <3>2
  <2>5. CASE Ready("user", "off", Nobody) /\ mode = "off"
    BY <1>6, <1>7, <2>4, <2>5
  <2>6. CASE Ready(Nobody, "simple", Nobody)
    BY <1>6, <1>7, <2>4, <2>6
  <2>7. CASE tab' = [tab EXCEPT !.boot = "error"]
    <3>1. /\ tab'.boot = "error" /\ tab'.left = tab.left /\ tab'.mode = tab.mode
          /\ tab' \in TabRec(given)
      BY <1>2, <2>7 DEF TabRec
    <3> QED
      BY <2>4, <3>1 DEF LoginInv
  <2> QED
    BY <1>9, <2>5, <2>6, <2>7 DEF ReadInfo
<1>10. CASE ReadLogin(r)
  <2>1. q.kind = "login" /\ Active(q) /\ Done(r)
    BY <1>5, <1>10 DEF ReadLogin
  <2>2. tab.boot # "loading"
    BY <1>3, <2>1 DEF Waiting
  <2>3. CASE q.answer = "ok"
    <3>1. q.cookie \in given
      BY <1>1, <1>3, <2>1, <2>3 DEF Honest
    <3>2. cookie' = q.cookie /\ Ready(Admin, "simple", q.cookie)
      BY <1>5, <1>10, <2>3, <3>1 DEF ReadLogin
    <3>3. /\ tab'.boot = "ready" /\ tab'.mode = "simple" /\ tab'.by = q.cookie
          /\ tab'.left = tab.left /\ tab' \in TabRec(given) /\ tab'.user = Admin
          /\ tab'.alone => ~LoggingOut
      BY <1>6, <3>1, <3>2
    <3>4. Requests
      BY <1>1, <2>1, <2>2, <3>3, LoginDone
    <3>5. LoggedIn' /\ Quiet'
      BY <1>1, <3>2, <3>3, <3>4 DEF LoggedIn, Quiet
    <3> QED
      BY <1>4, <3>3, <3>4, <3>5
  <2>4. CASE q.answer # "ok"
    <3>1. cookie' = cookie /\ UNCHANGED tab
      BY <1>1, <1>3, <1>5, <1>10, <2>1, <2>4 DEF ReadLogin, Honest
    <3>2. Requests
      BY <1>1, <2>1, <2>2, <3>1, LoginDone
    <3>3. LoggedIn' /\ Quiet' /\ (tab'.mode = "off" => mode = "off")
      BY <1>1, <3>1, <3>2 DEF LoginInv, LoggedIn, Quiet, Over
    <3> QED
      BY <1>2, <1>4, <3>1, <3>2, <3>3
  <2> QED
    BY <2>3, <2>4
<1>11. CASE ReadLogout(r)
  <2>1. q.kind = "logout" /\ Active(q) /\ Done(r)
    BY <1>5, <1>11 DEF ReadLogout
  <2>2. tab.boot # "loading"
    BY <1>3, <2>1 DEF Waiting
  <2>3. /\ tab'.boot = tab.boot /\ tab'.by = tab.by /\ tab'.mode = tab.mode
        /\ tab'.alone = tab.alone /\ tab'.left = tab.left /\ tab' \in TabRec(given)
    <3>1. tab' = [tab EXCEPT !.user = Nobody]
      BY <1>11 DEF ReadLogout
    <3> QED
      BY <1>2, <3>1 DEF TabRec
  <2>4. Requests
    BY <1>1, <2>1, <2>2, <2>3, LoginDone
  <2>5. LoggingOut
    BY <2>1 DEF LoggingOut, Active
  <2>6. tab.boot = "ready" /\ tab.by # Nobody /\ tab.alone => Over
    BY <2>5 DEF LoginInv, Quiet
  <2>7. LoggedIn' /\ Quiet' /\ (tab'.mode = "off" => mode = "off")
    BY <1>1, <2>3, <2>6 DEF LoginInv, LoggedIn, Quiet, Over
  <2> QED
    BY <1>4, <2>3, <2>4, <2>7
<1>12. CASE ReadData(r) \/ Drop(r)
  <2>1. cookie' = cookie /\ UNCHANGED tab /\ Done(r)
    <3>1. CASE ReadData(r)
      BY <1>1, <1>3, <1>5, <3>1 DEF ReadData, Honest
    <3>2. CASE Drop(r)
      BY <3>2 DEF Drop
    <3> QED
      BY <1>12, <3>1, <3>2
  <2>2. Requests
    BY <1>1, <2>1, LoginDone
  <2>3. LoggedIn' /\ Quiet' /\ (tab'.mode = "off" => mode = "off")
    BY <1>1, <2>1, <2>2 DEF LoginInv, LoggedIn, Quiet, Over
  <2> QED
    BY <1>2, <1>4, <2>1, <2>2, <2>3
<1> QED
  BY <1>8, <1>9, <1>10, <1>11, <1>12 DEF Reader

\* A page that is not open yet holds nothing.
LEMMA LoginInit == AuthInit => LoginInv
<1> SUFFICES ASSUME AuthInit
             PROVE  LoginInv
  OBVIOUS
<1>1. /\ given = {} /\ expired = {} /\ restarted = FALSE /\ tab = ClosedTab
      /\ \A r \in Req : req[r] = IdleReq
  BY DEF AuthInit
<1>2. /\ tab \in TabRec(given) /\ tab.mode = "simple" /\ tab.boot = "closed"
  BY <1>1 DEF ClosedTab, TabRec
<1>3. \A r \in Req : req[r].pc = "idle" /\ req[r].kind = "me" /\ req[r].user = Nobody
  BY <1>1 DEF IdleReq
<1>4. /\ \A r \in Req : Honest(req[r], given, expired, tab.left, mode)
      /\ \A r \in Req : Waiting(req[r], tab.boot, cookie, expired)
  BY <1>3 DEF Honest, Waiting, Active
<1>5. Held /\ Alone /\ LoggedIn /\ Quiet /\ restarted \in BOOLEAN /\ expired \subseteq given
  BY <1>1, <1>2 DEF Held, Alone, LoggedIn, Quiet
<1> QED
  BY <1>2, <1>4, <1>5 DEF LoginInv

\* Steps of git leave the page and the sessions as they are.
LEMMA LoginFrame ==
    ASSUME LoginInv, UNCHANGED authVars
    PROVE  LoginInv'
<1>1. UNCHANGED <<mode, sessions, expired, given, restarted, cookie, req, tab>>
  BY DEF authVars
<1> QED
  BY <1>1 DEF LoginInv, Held, Alone, LoggedIn, Quiet, Over, LoggingOut

\* Every step keeps what is known of the page and its login.
LEMMA LoginNext == Inv /\ LoginInv /\ [Next]_vars => LoginInv'
<1> SUFFICES ASSUME Inv, LoginInv, [Next]_vars
             PROVE  LoginInv'
  OBVIOUS
<1>1. AuthInv /\ plan.reqs \subseteq Req
  BY WebAssumption DEF Inv
<1>2. ASSUME NEW r \in Req, Page(r)
      PROVE  LoginInv'
  BY <1>1, <1>2, LoginAsks DEF Page
<1>3. ASSUME NEW r \in Req, Answering(r)
      PROVE  LoginInv'
  BY <1>1, <1>3, LoginHandler, LoginReads DEF Answering
<1>4. ASSUME NEW r \in Req, Enter(r) \/ Git(r)
      PROVE  LoginInv'
  BY <1>4, LoginFrame DEF Enter, Git
<1>5. ASSUME NEW r \in Req, Leave(r) \/ Decide(r)
      PROVE  LoginInv'
  BY <1>1, <1>5, LoginHandler DEF Leave, Decide
<1>6. CASE Disturb
  BY <1>1, <1>6, LoginFrame, LoginDisturb DEF Disturb
<1>7. CASE UNCHANGED vars
  BY <1>7, LoginFrame DEF vars
<1> QED
  BY <1>1, <1>2, <1>3, <1>4, <1>5, <1>6, <1>7, Zenon DEF Next, Progress

\* It is known in every state.
LEMMA LoginInvariance == Spec => []LoginInv
<1>1. Init => LoginInv
  BY LoginInit DEF Init
<1> QED
  BY <1>1, InvHolds, LoginNext, PTL DEF Spec

\* The page shows the console without a login only if the server is in that mode
\* (the answers of me and system/info, auth.tsx).
THEOREM SilentlyOpenNever == Spec => []NeverSilentlyOpen
<1>1. LoginInv => NeverSilentlyOpen
  BY DEF LoginInv, NeverSilentlyOpen
<1> QED
  BY <1>1, LoginInvariance, PTL

\* A login holds until it expires, the server restarts or the page asks for its logout
\* (auth.go's session map, the cookie, auth.tsx): on the server always, in the
\* browser if no logout of an earlier login was under way when it was made.
THEOREM LoginKept == Spec => []LoginHolds
<1>1. LoginInv => LoginHolds
  <2> SUFFICES ASSUME LoginInv, tab.boot = "ready", tab.by # Nobody, ~Over
               PROVE  tab.by \in sessions /\ (tab.alone => cookie = tab.by /\ tab.user = Admin)
    BY DEF LoginHolds, Over
  <2>1. tab.by \in given
    BY DEF LoginInv, TabRec
  <2>2. tab.by \in sessions
    BY <2>1 DEF LoginInv, Held, Over
  <2>3. tab.alone => cookie = tab.by /\ tab.user = Admin
    BY DEF LoginInv, LoggedIn
  <2> QED
    BY <2>2, <2>3
<1> QED
  BY <1>1, LoginInvariance, PTL

\* Every variable of the page, the sessions, the calls and the repository has its
\* type; the tasks created name a document, a commit and a ref.
THEOREM TypeCorrect == Spec => []TypeOK
<1>1. Inv /\ LoginInv /\ AgeInv => TypeOK
  <2> SUFFICES ASSUME Inv, LoginInv, AgeInv
               PROVE  TypeOK
    OBVIOUS
  <2>1. AuthInv /\ GitInv /\ plan \in Plans
    BY DEF Inv
  <2>2. ASSUME NEW r \in Req
        PROVE  /\ req[r].pc \in {"idle", "arrive", "evict", "handle", "answer"}
               /\ req[r].kind \in AuthKind
               /\ req[r].token \in given \cup {Nobody} /\ req[r].user \in {Nobody, Admin}
               /\ {req[r].late, req[r].gone} \subseteq BOOLEAN
               /\ req[r].answer \in {"none", "ok", "denied", "conflict", "error"}
               /\ req[r].cookie \in given \cup {"keep", "clear"}
    <3>1. req[r] \in ReqRec(given)
      BY <2>1 DEF AuthInv, ReqsOK
    <3> QED
      BY <3>1 DEF ReqRec, Points, Answers
  <2>3. /\ mode \in {"simple", "off"} /\ restarted \in BOOLEAN
        /\ sessions \subseteq given /\ expired \subseteq given /\ given \subseteq Token
        /\ ended \subseteq given /\ cookie \in given \cup {Nobody}
    BY <2>1 DEF AuthInv, SessionsInv, LoginInv
  <2>4. /\ tab.boot \in {"closed", "loading", "ready", "error"}
        /\ tab.user \in {Nobody, "user", Admin} /\ tab.mode \in {"simple", "off"}
        /\ tab.by \in given \cup {Nobody} /\ tab.alone \in BOOLEAN /\ tab.left \subseteq given \cup {Nobody}
    <3>1. tab \in TabRec(given)
      BY DEF LoginInv
    <3> QED
      BY <3>1 DEF TabRec
  <2>5. AuthTypeOK
    BY <2>2, <2>3, <2>4, Zenon DEF AuthTypeOK
  <2>6. ASSUME NEW r \in Call
        PROVE  /\ call[r].pc \in {"idle", "cache", "show", "revparse", "resolved", "log",
                                  "porcelain", "check", "create", "audit", "auditgit", "ok",
                                  "error"}
               /\ call[r].kind \in GitKind /\ call[r].ref \in Ref
               /\ call[r].doc \in Doc \cup {NoDoc} /\ call[r].commit \in Commit \cup {None}
               /\ {call[r].cmd, call[r].late} \subseteq Nat
    <3>1. call[r] \in CallRec
      BY <2>1 DEF GitInv, CallsOK
    <3> QED
      BY <3>1 DEF CallRec, GitPoints
  <2>7. GitTypeOK
    BY <2>1, <2>6, Zenon DEF GitTypeOK, GitInv, RepoInv, AgeInv
  <2> QED
    BY <2>1, <2>5, <2>7 DEF TypeOK, Inv, DecidedOK
<1> QED
  BY <1>1, InvHolds, LoginInvariance, AgeInvariance, PTL

=============================================================================
