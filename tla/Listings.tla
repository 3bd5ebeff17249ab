------------------------------ MODULE Listings ------------------------------
(***************************************************************************)
(* The listings of internal/store/sqlstore.go behind GET /tasks, /audit,   *)
(* /sessions, /collectors and /collectors/{uid}/versions: filters, order   *)
(* and pages.  A table is a set of rows [id, at, columns], of a session    *)
(* [id, at, last], last being the number of its last message or 0.  A      *)
(* task's id is <<the millisecond it was minted, a random number>>, that   *)
(* of another row <<its number or its place in the order of names, 0>>; at *)
(* is the millisecond of created_at; columns gives the set of values a row *)
(* has under each name a filter may ask for (a task's target is its        *)
(* collector and its group).  What a request leaves out is an empty set.   *)
(***************************************************************************)
EXTENDS Integers, Sequences, FiniteSets

CONSTANTS
    Second,         \* milliseconds in a second
    DefaultSize,    \* defaultPageSize
    MaxSize         \* maxPageSize

SecondOf(t) == t \div Second

\* Mutant of SinceUntil: the second of the upper bound is left out.
SinceOnlyUntil(at, since, until) ==
    /\ \A s \in since : SecondOf(at) >= SecondOf(s)
    /\ \A u \in until : SecondOf(at) < SecondOf(u)

\* Times are compared as texts cut to the second: [since, until + 1s).
SinceUntil(at, since, until) ==
    /\ \A s \in since : SecondOf(at) >= SecondOf(s)
    /\ \A u \in until : SecondOf(at) < SecondOf(u) + 1

\* The values asked for of columns, times, and the id of an audit row.
Filter(equal, since, until, after) ==
    [equal |-> equal, since |-> since, until |-> until, after |-> after]

Matches(row, filter) ==
    /\ \A c \in DOMAIN filter.equal : filter.equal[c] \in row.columns[c]
    /\ SinceUntil(row.at, filter.since, filter.until)
    /\ \A id \in filter.after : row.id[1] > id

IdAfter(a, b) ==
    \/ a.id[1] > b.id[1]
    \/ a.id[1] = b.id[1] /\ a.id[2] > b.id[2]

\* created_at as a text: a whole second comes after its fractions.
CreatedText(row) ==
    <<SecondOf(row.at), IF row.at % Second = 0 THEN Second ELSE row.at % Second>>

\* Mutant of TaskBefore: by the whole text of created_at, in which a whole second
\* has no fraction and "Z" comes after ".".
TextBefore(a, b) ==
    LET s == CreatedText(a)
        t == CreatedText(b)
    IN  \/ s[1] > t[1]
        \/ s[1] = t[1] /\ s[2] > t[2]
        \/ s = t /\ IdAfter(a, b)

\* Tasks: newest second first, then by id.
TaskBefore(a, b) ==
    \/ SecondOf(a.at) > SecondOf(b.at)
    \/ SecondOf(a.at) = SecondOf(b.at) /\ IdAfter(a, b)

\* Audit rows: newest id first.
AuditBefore(a, b) == IdAfter(a, b)

\* Collectors: by name.
CollectorBefore(a, b) == IdAfter(b, a)

\* Mutant of SessionBefore: the session used longest ago first.
SessionBeforeOldest(a, b) ==
    \/ a.last < b.last
    \/ a.last = b.last /\ a.at > b.at

\* Sessions: the one with the newest message first; those without one (last is 0)
\* at the end, by created_at.  Two sessions have different created_at.
SessionBefore(a, b) ==
    \/ a.last > b.last
    \/ /\ a.last = b.last
       /\ \/ CreatedText(a)[1] > CreatedText(b)[1]
          \/ CreatedText(a)[1] = CreatedText(b)[1] /\ CreatedText(a)[2] > CreatedText(b)[2]

\* The order of a listing, and the rows in that order: at each place the row that so
\* many others precede.
Before(order, a, b) ==
    CASE order = "tasks" -> TaskBefore(a, b)
      [] order = "audit" -> AuditBefore(a, b)
      [] order = "versions" -> IdAfter(a, b)
      [] order = "collectors" -> CollectorBefore(a, b)
      [] order = "sessions" -> SessionBefore(a, b)

Ahead(order, rows, row) == {o \in rows : Before(order, o, row)}

Sorted(order, rows) ==
    [n \in 1..Cardinality(rows) |->
        CHOOSE row \in rows : Cardinality(Ahead(order, rows, row)) = n - 1]

\* Mutant of Offset: counts pages from zero.
OffsetFromZero(page, size) == page * size

Offset(page, size) == (page - 1) * size

\* LIMIT size OFFSET; size 0 is no paging.
PageOf(list, page, size) ==
    LET end == Offset(page, size) + size
    IN  IF size = 0 THEN list
        ELSE SubSeq(list, Offset(page, size) + 1, IF Len(list) < end THEN Len(list) ELSE end)

\* A total is counted by another statement; no reader modelled here uses it.
Listed(order, table, filter, page, size) ==
    PageOf(Sorted(order, {row \in table : Matches(row, filter)}), page, size)

ListTasks(table, filter, page, size) == Listed("tasks", table, filter, page, size)
ListAudit(table, filter, page, size) == Listed("audit", table, filter, page, size)
ListCollectors(table, page, size) == PageOf(Sorted("collectors", table), page, size)

\* The versions of one collector, the newest first.
ListConfigVersions(table, uid, page, size) ==
    Listed("versions", table, Filter([target |-> uid], {}, {}, {}), page, size)

ListSessions(table, page, size) == PageOf(Sorted("sessions", table), page, size)

\* pageParams: the page and size of a request; no element when it is refused.
Paging(page, size) ==
    IF page = {} /\ size = {} THEN {<<0, 0>>}
    ELSE {<<p, z>> : p \in {n \in IF page = {} THEN {1} ELSE page : n >= 1},
                     z \in {n \in IF size = {} THEN {DefaultSize} ELSE size : n \in 1..MaxSize}}

\* The answers to the requests; none to a refused one.
Answer(items, size) == [items |-> items, page_size |-> size]

GetTasks(table, filter, page, size) ==
    {Answer(ListTasks(table, filter, p[1], p[2]), p[2]) : p \in Paging(page, size)}
GetAudit(table, filter, page, size) ==
    {Answer(ListAudit(table, filter, p[1], p[2]), p[2]) : p \in Paging(page, size)}
GetSessions(table, page, size) ==
    {Answer(ListSessions(table, p[1], p[2]), p[2]) : p \in Paging(page, size)}
GetCollectors(table, page, size) ==
    {Answer(ListCollectors(table, p[1], p[2]), p[2]) : p \in Paging(page, size)}
GetVersions(table, uid, page, size) ==
    {Answer(ListConfigVersions(table, uid, p[1], p[2]), p[2]) : p \in Paging(page, size)}

\* A request without parameters filters nothing.
NoFilter == Filter(<<>>, {}, {}, {})

-----------------------------------------------------------------------------
(* What a reader of the lists relies on.                                    *)

\* A list holds what was asked for: every row between the two moments that has
\* the target, and none of another second or another target.
KeepsPeriod(table, since, until, target) ==
    LET filter == Filter([target |-> target], {since}, {until}, {})
        list == ListTasks(table, filter, 0, 0)
        listed == {list[i] : i \in DOMAIN list}
        Of(row) == row \in table /\ target \in row.columns.target
    IN  /\ \A row \in table : Of(row) /\ row.at \in since..until => row \in listed
        /\ \A row \in listed :
              Of(row) /\ SecondOf(row.at) \in SecondOf(since)..SecondOf(until)

\* A task stamped before another's id was minted is listed after it.
NewestFirst(table) ==
    LET list == ListTasks(table, NoFilter, 0, 0)
    IN  \A i, j \in DOMAIN list : list[i].at < list[j].id[1] => j < i
=============================================================================
