------------------------------- MODULE WebAuth -------------------------------
(***************************************************************************)
(* Login protection of the REST interface: the in-memory sessions, the     *)
(* middleware and the login, logout and me handlers (internal/api/auth.go),*)
(* system/info (system.go), and the page that decides from their answers   *)
(* whether to show the console (web/src/app/auth.tsx, api/client.ts).      *)
(*                                                                         *)
(* One administrator, one browser with one page, and a network that may    *)
(* lose a request or an answer.  Every request is a handler goroutine of   *)
(* its own; the session lock is held for a single lookup or change.  What  *)
(* the other endpoints do is not this module's business: their requests    *)
(* are of kind "data" and stay in Serving until Serve ends them.           *)
(***************************************************************************)
EXTENDS Naturals, FiniteSets

CONSTANTS
    Req,        \* requests under way at a time
    Token,      \* the tokens newToken draws
    Admin,      \* WEB_ADMIN_USER
    Nobody      \* no session, no user

AuthKind == {"me", "info", "login", "logout", "data"}

ASSUME AuthAssumption ==
    /\ Nobody \notin Token \cup {Admin, "user"} /\ Admin # "user"
    /\ Token \cap {"keep", "clear"} = {}

VARIABLES
    mode,       \* WEB_AUTH_MODE
    sessions,   \* tokens in the session map
    expired,    \* tokens whose expiresAt has passed
    given,      \* history: the tokens drawn
    ended,      \* history: those whose logout was carried out, or that a restart ended
    restarted,  \* history: the server has been restarted
    cookie,     \* the browser's session cookie
    req,        \* the requests
    tab         \* the page

authVars == <<mode, sessions, expired, given, ended, restarted, cookie, req, tab>>

\* late: history, it was sent without a session or when its session had ended.
\* gone: the page that sent it does not exist any more.
IdleReq == [pc |-> "idle", kind |-> "me", token |-> Nobody, user |-> Nobody, late |-> FALSE,
            gone |-> FALSE, answer |-> "none", cookie |-> "keep"]

\* History: by, the token of the page's last login; alone, no logout was under way
\* when it was read; left, the tokens whose logout the page has asked for.
ClosedTab == [boot |-> "closed", user |-> Nobody, mode |-> "simple", by |-> Nobody,
              alone |-> TRUE, left |-> {}]

AuthInit ==
    /\ mode \in {"simple", "off"}
    /\ sessions = {} /\ expired = {} /\ given = {} /\ ended = {}
    /\ restarted = FALSE
    /\ cookie = Nobody
    /\ req = [r \in Req |-> IdleReq]
    /\ tab = ClosedTab

Live(t) == t \in sessions \ expired

-----------------------------------------------------------------------------
(* The server.                                                              *)

Exempt(kind) == kind # "data"

To(r, pc, user) == req' = [req EXCEPT ![r].pc = pc, ![r].user = user]
Answer(r, answer, setCookie) ==
    req' = [req EXCEPT ![r].pc = "answer", ![r].answer = answer, ![r].cookie = setCookie]

\* Where a request goes that has no valid session.
Anonymous(r) == IF Exempt(req[r].kind) THEN To(r, "handle", Nobody) ELSE Answer(r, "denied", "keep")

\* Mutant of Middleware: the lookup does not compare expiresAt, and so does not
\* evict.
MiddlewareNoExpiry(r) ==
    LET t == req[r].token IN
    /\ req[r].pc = "arrive"
    /\ IF mode = "off" \/ t \in sessions
       THEN To(r, "handle", IF mode = "off" THEN Nobody ELSE Admin)
       ELSE Anonymous(r)
    /\ UNCHANGED <<mode, sessions, expired, given, ended, restarted, cookie, tab>>

\* Middleware and lookup: a session that has expired is deleted under a second
\* lock.  Without protection there is no middleware.
Middleware(r) ==
    LET t == req[r].token IN
    /\ req[r].pc = "arrive"
    /\ CASE mode = "off"      -> To(r, "handle", Nobody)
         [] mode = "simple" /\ Live(t) -> To(r, "handle", Admin)
         [] mode = "simple" /\ t \in sessions \cap expired -> To(r, "evict", Nobody)
         [] OTHER             -> Anonymous(r)
    /\ UNCHANGED <<mode, sessions, expired, given, ended, restarted, cookie, tab>>

Evict(r) ==
    /\ req[r].pc = "evict"
    /\ sessions' = sessions \ {req[r].token}
    /\ Anonymous(r)
    /\ UNCHANGED <<mode, expired, given, ended, restarted, cookie, tab>>

Handling(r, kind) == req[r].pc = "handle" /\ req[r].kind = kind

\* HandleLogin: refused, or a new session.  newToken may fail.
HandleLogin(r) ==
    /\ Handling(r, "login")
    /\ \/ /\ Answer(r, IF mode = "off" THEN "conflict" ELSE "denied", "keep")
          /\ UNCHANGED <<sessions, given>>
       \/ /\ mode = "simple"
          /\ Answer(r, "error", "keep")
          /\ UNCHANGED <<sessions, given>>
       \/ /\ mode = "simple"
          /\ \E t \in Token \ given :
                /\ given' = given \cup {t}
                /\ sessions' = sessions \cup {t}
                /\ Answer(r, "ok", t)
    /\ UNCHANGED <<mode, expired, ended, restarted, cookie, tab>>

\* Mutant of HandleLogout: every session is ended, as a "log out everywhere"
\* would.
HandleLogoutAll(r) ==
    /\ Handling(r, "logout")
    /\ sessions' = {}
    /\ ended' = ended \cup ({req[r].token} \cap given)
    /\ Answer(r, "ok", "clear")
    /\ UNCHANGED <<mode, expired, given, restarted, cookie, tab>>

HandleLogout(r) ==
    /\ Handling(r, "logout")
    /\ sessions' = sessions \ {req[r].token}
    /\ ended' = ended \cup ({req[r].token} \cap given)
    /\ Answer(r, "ok", "clear")
    /\ UNCHANGED <<mode, expired, given, restarted, cookie, tab>>

\* HandleMe and SystemInfo; what they tell is told from mode and the user.
HandleMe(r) ==
    /\ Handling(r, "me")
    /\ Answer(r, IF mode = "off" \/ req[r].user # Nobody THEN "ok" ELSE "denied", "keep")
    /\ UNCHANGED <<mode, sessions, expired, given, ended, restarted, cookie, tab>>

SystemInfo(r) ==
    /\ Handling(r, "info")
    /\ Answer(r, "ok", "keep")
    /\ UNCHANGED <<mode, sessions, expired, given, ended, restarted, cookie, tab>>

\* A request that has got through to the handlers of the console's data.
Serving(r) == Handling(r, "data")
Serve(r) ==
    /\ Serving(r)
    /\ Answer(r, "ok", "keep")
    /\ UNCHANGED <<mode, sessions, expired, given, ended, restarted, cookie, tab>>

\* Mutant of approverOf: the name in the request goes before the session's user.
approverOfBody(r, body) ==
    CASE body # Nobody -> body
      [] body = Nobody /\ req[r].user # Nobody -> req[r].user
      [] OTHER -> "user"

\* Whom a decision is attributed to: the session's user, or else the name that the
\* request's body gives (Nobody when it gives none).
approverOf(r, body) ==
    CASE req[r].user # Nobody -> req[r].user
      [] req[r].user = Nobody /\ body # Nobody -> body
      [] OTHER -> "user"

Expire(t) ==
    /\ t \in given \ expired
    /\ expired' = expired \cup {t}
    /\ UNCHANGED <<mode, sessions, given, ended, restarted, cookie, req, tab>>

\* The server restarts: the sessions are gone, what it was handling is cut.
AuthRestart ==
    /\ restarted' = TRUE
    /\ sessions' = {}
    /\ ended' = given
    /\ req' = [r \in Req |-> IF req[r].pc \in {"idle", "answer"} THEN req[r]
                             ELSE [req[r] EXCEPT !.pc = "answer", !.answer = "error",
                                                 !.cookie = "keep"]]
    /\ UNCHANGED <<mode, expired, given, cookie, tab>>

-----------------------------------------------------------------------------
(* The browser, its page and the network.                                   *)

NewReq(kind) ==
    [IdleReq EXCEPT !.pc = "arrive", !.kind = kind, !.token = cookie,
                    !.late = cookie \notin given \ (ended \cup expired)]

Send(r, kind) == req[r].pc = "idle" /\ req' = [req EXCEPT ![r] = NewReq(kind)]

\* The page is loaded, anew if there is one already, which then forgets what it
\* was waiting for (alive); or the user presses retry.
Load(r) ==
    /\ tab.boot # "loading"
    /\ req[r].pc = "idle"
    /\ req' = [q \in Req |-> IF q = r THEN NewReq("me")
                             ELSE [req[q] EXCEPT !.gone = req[q].pc # "idle"]]
    /\ tab' = [ClosedTab EXCEPT !.boot = "loading", !.left = tab.left]
    /\ UNCHANGED <<mode, sessions, expired, given, ended, restarted, cookie>>

\* The guards of the routes: RedirectIfAuthed and RequireAuth under AuthGate.
OnLoginPage == tab.boot = "ready" /\ tab.mode = "simple" /\ tab.user = Nobody
InConsole == tab.boot = "ready" /\ (tab.mode = "off" \/ tab.user # Nobody)

\* One login at a time (submitting).
AskLogin(r) ==
    /\ OnLoginPage
    /\ \A q \in Req : req[q].kind # "login" \/ req[q].pc = "idle" \/ req[q].gone
    /\ Send(r, "login")
    /\ UNCHANGED <<mode, sessions, expired, given, ended, restarted, cookie, tab>>

AskLogout(r) ==
    /\ InConsole /\ tab.mode = "simple"
    /\ Send(r, "logout")
    /\ tab' = [tab EXCEPT !.left = @ \cup {cookie}]
    /\ UNCHANGED <<mode, sessions, expired, given, ended, restarted, cookie>>

AskData(r) ==
    /\ InConsole
    /\ Send(r, "data")
    /\ UNCHANGED <<mode, sessions, expired, given, ended, restarted, cookie, tab>>

\* The answer is read, and with it Set-Cookie.
Read(r, kind) ==
    /\ req[r].pc = "answer" /\ req[r].kind = kind /\ ~req[r].gone
    /\ cookie' = CASE req[r].cookie = "keep"  -> cookie
                   [] req[r].cookie = "clear" -> Nobody
                   [] OTHER                   -> req[r].cookie
Done(r) == req' = [req EXCEPT ![r] = IdleReq]
LoggingOut == \E q \in Req : req[q].kind = "logout" /\ req[q].pc # "idle" /\ ~req[q].gone
Ready(user, m, by) ==
    tab' = [tab EXCEPT !.boot = "ready", !.user = user, !.mode = m, !.by = by,
                       !.alone = ~LoggingOut]

\* Mutant of ReadMe: the page asks again until it is answered.
ReadMeAgain(r) ==
    /\ Read(r, "me")
    /\ CASE req[r].answer = "ok" /\ mode = "off" ->
               Ready("user", "off", Nobody) /\ Done(r)
         [] req[r].answer = "ok" /\ mode = "simple" ->
               Ready(Admin, "simple", req[r].token) /\ Done(r)
         [] req[r].answer = "denied" ->
               Ready(Nobody, "simple", Nobody) /\ Done(r)
         [] OTHER ->
               req' = [req EXCEPT ![r] = NewReq("me")] /\ UNCHANGED tab
    /\ UNCHANGED <<mode, sessions, expired, given, ended, restarted>>

\* When the server cannot be reached, system/info is asked for the mode.
ReadMe(r) ==
    /\ Read(r, "me")
    /\ CASE req[r].answer = "ok" /\ mode = "off" ->
               Ready("user", "off", Nobody) /\ Done(r)
         [] req[r].answer = "ok" /\ mode = "simple" ->
               Ready(Admin, "simple", req[r].token) /\ Done(r)
         [] req[r].answer = "denied" ->
               Ready(Nobody, "simple", Nobody) /\ Done(r)
         [] OTHER ->
               req' = [req EXCEPT ![r] = NewReq("info")] /\ UNCHANGED tab
    /\ UNCHANGED <<mode, sessions, expired, given, ended, restarted>>

\* Mutant of ReadInfo: a server that cannot be reached counts as unprotected, as
\* it did before review-m1.md's F-M1-1.
ReadInfoOpen(r) ==
    /\ Read(r, "info")
    /\ IF req[r].answer = "ok" /\ mode = "simple"
       THEN Ready(Nobody, "simple", Nobody)
       ELSE Ready("user", "off", Nobody)
    /\ Done(r)
    /\ UNCHANGED <<mode, sessions, expired, given, ended, restarted>>

ReadInfo(r) ==
    /\ Read(r, "info")
    /\ CASE req[r].answer = "ok" /\ mode = "off"    -> Ready("user", "off", Nobody)
         [] req[r].answer = "ok" /\ mode = "simple" -> Ready(Nobody, "simple", Nobody)
         [] OTHER -> tab' = [tab EXCEPT !.boot = "error"]
    /\ Done(r)
    /\ UNCHANGED <<mode, sessions, expired, given, ended, restarted>>

\* Mutant of ReadLogin: the page does not look at the status of the answer.
ReadLoginUnchecked(r) ==
    /\ Read(r, "login")
    /\ Ready(Admin, "simple", req[r].cookie)
    /\ Done(r)
    /\ UNCHANGED <<mode, sessions, expired, given, ended, restarted>>

\* The user is logged in when the answer says so.
ReadLogin(r) ==
    /\ Read(r, "login")
    /\ IF req[r].answer = "ok" THEN Ready(Admin, "simple", req[r].cookie) ELSE UNCHANGED tab
    /\ Done(r)
    /\ UNCHANGED <<mode, sessions, expired, given, ended, restarted>>

\* The page forgets the user whether the logout succeeded or not.
ReadLogout(r) ==
    /\ Read(r, "logout")
    /\ tab' = [tab EXCEPT !.user = Nobody]
    /\ Done(r)
    /\ UNCHANGED <<mode, sessions, expired, given, ended, restarted>>

\* Nothing in the page reacts to a 401 of any other request.
ReadData(r) ==
    /\ Read(r, "data")
    /\ Done(r)
    /\ UNCHANGED <<mode, sessions, expired, given, ended, restarted, tab>>

Drop(r) ==
    /\ req[r].pc = "answer" /\ req[r].gone
    /\ Done(r)
    /\ UNCHANGED <<mode, sessions, expired, given, ended, restarted, cookie, tab>>

\* The request, or its answer, does not get through.
Lose(r) ==
    /\ req[r].pc \in {"arrive", "answer"} /\ req[r].answer # "error"
    /\ Answer(r, "error", "keep")
    /\ UNCHANGED <<mode, sessions, expired, given, ended, restarted, cookie, tab>>

\* Max-Age counts from the answer, so the cookie outlives the session a little.
CookieExpires ==
    /\ cookie \in expired
    /\ cookie' = Nobody
    /\ UNCHANGED <<mode, sessions, expired, given, ended, restarted, req, tab>>

Handler(r) ==
    \/ Middleware(r) \/ Evict(r) \/ HandleLogin(r) \/ HandleLogout(r) \/ HandleMe(r) \/ SystemInfo(r)
Reader(r) ==
    \/ ReadMe(r) \/ ReadInfo(r) \/ ReadLogin(r) \/ ReadLogout(r) \/ ReadData(r) \/ Drop(r)

-----------------------------------------------------------------------------
(* Properties.                                                              *)

AuthTypeOK ==
    /\ mode \in {"simple", "off"} /\ restarted \in BOOLEAN
    /\ sessions \subseteq given /\ expired \subseteq given /\ given \subseteq Token
    /\ ended \subseteq given
    /\ cookie \in given \cup {Nobody}
    /\ tab.boot \in {"closed", "loading", "ready", "error"}
    /\ tab.user \in {Nobody, "user", Admin} /\ tab.mode \in {"simple", "off"}
    /\ tab.by \in given \cup {Nobody} /\ tab.alone \in BOOLEAN /\ tab.left \subseteq given \cup {Nobody}
    /\ \A r \in Req :
          /\ req[r].pc \in {"idle", "arrive", "evict", "handle", "answer"}
          /\ req[r].kind \in AuthKind
          /\ req[r].token \in given \cup {Nobody} /\ req[r].user \in {Nobody, Admin}
          /\ {req[r].late, req[r].gone} \subseteq BOOLEAN
          /\ req[r].answer \in {"none", "ok", "denied", "conflict", "error"}
          /\ req[r].cookie \in given \cup {"keep", "clear"}

\* With login protection no request gets to the console's handlers that was sent
\* after its session had ended, by logout, expiry or restart; one that was let in
\* before may still be at work when the session ends.
LoggedOutStaysOut ==
    \A r \in Req : mode = "simple" /\ Serving(r) => ~req[r].late

\* The page never takes a server it cannot reach for one without protection (the
\* comment in auth.tsx): it shows the console without a login only if the server
\* is in that mode.
NeverSilentlyOpen == tab.mode = "off" => mode = "off"

\* A login stays until its session expires, the server restarts or the page asks for
\* the logout of this very session (HandleLogout deletes one token, auth.go): the
\* server keeps the session whatever late requests of earlier logins do, and the
\* browser its cookie and the page its user unless a logout of an earlier login was
\* still under way at the time.  The menu item stays enabled (AppShell.tsx), so
\* there may be two of those, and the answer to the second then takes the cookie
\* and the user of a login made after the first.
LoginHolds ==
    tab.boot = "ready" /\ tab.by # Nobody =>
        \/ restarted \/ tab.by \in expired \cup tab.left
        \/ /\ tab.by \in sessions
           /\ tab.alone => cookie = tab.by /\ tab.user = Admin

\* The page does not stay at its spinner: every start ends in the console, at the
\* login or at the retry button.
PageSettles == (tab.boot = "loading") ~> (tab.boot # "loading")

=============================================================================
