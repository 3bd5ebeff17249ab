---------------------------- MODULE ListReading ----------------------------
(***************************************************************************)
(* A reader turns the pages of one of the lists of Listings while others   *)
(* add rows to the table behind it, or use the sessions it lists           *)
(* (internal/store/sqlstore.go, internal/api/handlers.go, sessions.go).    *)
(* Each request is one statement with LIMIT and OFFSET; the table may      *)
(* change between any two of them.  A filter asks for what a row keeps.    *)
(***************************************************************************)
EXTENDS Listings

CONSTANTS
    TaskRows,       \* the tasks that may be created
    Moments,        \* numbers, places in the order of names, milliseconds
    Targets,        \* collectors and groups
    Filters,        \* what a reader of tasks or audit rows may ask for
    Sizes,          \* the sizes of a page a reader may ask for; {} is none
    MaxRows,        \* bound: rows of the table
    MaxUses         \* bound: chat messages

\* A task's id is minted before its row is stamped.
ASSUME ListAssumption ==
    /\ Second \in Nat \ {0} /\ MaxSize \in Nat \ {0} /\ DefaultSize \in 1..MaxSize
    /\ TaskRows \subseteq [id : Nat \X Nat, at : Nat, columns : [target : SUBSET Targets]]
    /\ \A row \in TaskRows : row.id[1] <= row.at
    /\ Moments \subseteq Nat
    /\ \A s \in Sizes : s = {} \/ \E z \in s : z \in Int /\ s = {z}
    /\ MaxRows \in Nat /\ MaxUses \in Nat

Kinds == {"tasks", "audit", "versions", "collectors", "sessions"}

VARIABLES
    kind,       \* of the list
    rows,       \* the table behind it
    phase,      \* "table" before the first request, "pages", "end"
    asked,      \* the filter, or the collector whose versions are asked for
    size,       \* the size the reader asks for
    first,      \* the table the first request found
    page,       \* the page asked for next
    seen        \* the rows answered so far

listing == <<kind, rows, phase, asked, size, first, page, seen>>

ListInit ==
    /\ kind \in Kinds
    /\ rows = {} /\ phase = "table"
    /\ asked = NoFilter /\ size = {} /\ first = {}
    /\ page = 1 /\ seen = {}

\* A version goes to one collector; a session is named by the moment it was created
\* at and has no message yet.
Numbered(n, uid) == [id |-> <<n, 0>>, at |-> 0, columns |-> [target |-> {uid}]]
SessionRow(at, last) == [id |-> <<at, 0>>, at |-> at, last |-> last]

Rows ==
    CASE kind = "tasks" -> TaskRows
      [] kind = "sessions" -> {SessionRow(at, 0) : at \in Moments}
      [] OTHER -> {Numbered(n, uid) : n \in Moments, uid \in Targets}

\* Audit rows, versions and sessions come with growing numbers; a task's id and a
\* collector's name may come between those of others.
AddRow ==
    /\ phase # "end" /\ Cardinality(rows) < MaxRows
    /\ \E row \in Rows :
          /\ \A o \in rows : o.id # row.id
          /\ kind \in {"audit", "versions", "sessions"} => \A o \in rows : o.id[1] < row.id[1]
          /\ rows' = rows \cup {row}
    /\ UNCHANGED <<kind, phase, asked, size, first, page, seen>>

\* A session gets a message; message numbers grow.
UseSession ==
    /\ phase # "end" /\ kind = "sessions"
    /\ \E row \in rows, n \in 1..MaxUses :
          /\ \A o \in rows : o.last < n
          /\ n = 1 \/ \E o \in rows : o.last = n - 1
          /\ rows' = (rows \ {row}) \cup {SessionRow(row.at, n)}
    /\ UNCHANGED <<kind, phase, asked, size, first, page, seen>>

\* A list of sessions or collectors has no filter.
Asks ==
    CASE kind \in {"tasks", "audit"} -> Filters
      [] kind = "versions" -> Targets
      [] OTHER -> {NoFilter}

Answers(wanted, n, z) ==
    CASE kind = "tasks" -> GetTasks(rows, wanted, {n}, z)
      [] kind = "audit" -> GetAudit(rows, wanted, {n}, z)
      [] kind = "versions" -> GetVersions(rows, wanted, {n}, z)
      [] kind = "collectors" -> GetCollectors(rows, {n}, z)
      [] kind = "sessions" -> GetSessions(rows, {n}, z)

\* The last page is the one that is not full.
Request(wanted, n, z) ==
    /\ \E answer \in Answers(wanted, n, z) :
          /\ seen' = seen \cup {answer.items[i] : i \in DOMAIN answer.items}
          /\ phase' = IF Len(answer.items) < answer.page_size THEN "end" ELSE "pages"
    /\ page' = n + 1
    /\ UNCHANGED <<kind, rows>>

\* A reader whose first request is refused reads nothing.
FirstPage ==
    /\ phase = "table"
    /\ asked' \in Asks /\ size' \in Sizes /\ first' = rows
    /\ Request(asked', 1, size')

TurnPage ==
    /\ phase = "pages"
    /\ Request(asked, page, size)
    /\ UNCHANGED <<asked, size, first>>

ListNext == AddRow \/ UseSession \/ FirstPage \/ TurnPage

ListSpec == ListInit /\ [][ListNext]_listing

-----------------------------------------------------------------------------

\* Times stored as texts of varying length still compare as times: a time filter
\* keeps every row of its seconds and no other (ListTasks, secondBound), and the
\* task list is newest first (ORDER BY substr(created_at,1,19) DESC, id DESC).
ListsFollowTime ==
    kind = "tasks" =>
        /\ \A since, until \in Moments, target \in Targets :
              KeepsPeriod(rows, since, until, target)
        /\ NewestFirst(rows)

\* The rows a reader asked for.
Wanted(row) ==
    CASE kind \in {"tasks", "audit"} -> Matches(row, asked)
      [] kind = "versions" -> asked \in row.columns.target
      [] OTHER -> TRUE

\* Whoever turns the pages of a list to the end sees every row that was there at
\* first and did not change, whatever is added meanwhile; a session that is used
\* moves to the front and pushes others only further back (LIMIT and OFFSET under
\* the orders of ListTasks, ListAudit, ListCollectors, ListConfigVersions and
\* listSessionQuery).
PagesMissNothing ==
    phase = "end" => \A row \in first \cap rows : Wanted(row) => row \in seen
=============================================================================
