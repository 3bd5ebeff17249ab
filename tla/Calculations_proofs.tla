------------------------- MODULE Calculations_proofs -------------------------
(***************************************************************************)
(* Proofs about the calculations that need no induction over data: what a  *)
(* reader of the lists relies on (ListReading), for any table, filter and  *)
(* page size, and what the statistics measure (EventLog), for any history, *)
(* window and loss of events, and any sample of durations.                 *)
(***************************************************************************)
EXTENDS ListReading, EventLog, FiniteSetTheorems, TLAPS

-----------------------------------------------------------------------------
(* Ranks.                                                                   *)

\* R is a strict order in which any two elements of S compare.
StrictOrder(S, R) ==
    /\ \A a \in S : <<a, a>> \notin R
    /\ \A a, b \in S : a # b => <<a, b>> \in R \/ <<b, a>> \in R
    /\ \A a, b, c \in S : <<a, b>> \in R /\ <<b, c>> \in R => <<a, c>> \in R

\* The elements that precede one, and how many they are.
Preceding(S, R, a) == {o \in S : <<o, a>> \in R}
RankIn(S, R, a) == Cardinality(Preceding(S, R, a))

\* Ranks follow the order and are below the number of elements.
LEMMA RankGrows ==
    ASSUME NEW S, IsFiniteSet(S), NEW R, StrictOrder(S, R), NEW a \in S
    PROVE  /\ Cardinality(S) \in Nat
           /\ RankIn(S, R, a) \in 0..Cardinality(S) - 1
           /\ \A b \in S : <<a, b>> \in R => RankIn(S, R, a) < RankIn(S, R, b)
<1> DEFINE Over(b) == Preceding(S, R, b)
<1>1. Cardinality(S) \in Nat
  BY FS_CardinalityType
<1>2. ASSUME NEW b
      PROVE  /\ Over(b) \in SUBSET S /\ IsFiniteSet(Over(b))
             /\ Cardinality(Over(b)) \in Nat /\ Cardinality(Over(b)) <= Cardinality(S)
  <2>1. Over(b) \in SUBSET S
    BY DEF Preceding
  <2> HIDE DEF Over
  <2>2. IsFiniteSet(Over(b)) /\ Cardinality(Over(b)) <= Cardinality(S)
    BY <2>1, FS_Subset
  <2> QED
    BY <2>1, <2>2, FS_CardinalityType
<1>3. a \notin Over(a)
  BY DEF Preceding, StrictOrder
<1>4. Cardinality(Over(a)) # Cardinality(S)
  <2>1. Over(a) # S
    BY <1>3
  <2> HIDE DEF Over
  <2> QED
    BY <1>2, <2>1, FS_Subset
<1>5. ASSUME NEW b \in S, <<a, b>> \in R
      PROVE  Cardinality(Over(a)) < Cardinality(Over(b))
  <2>1. a \in Over(b)
    BY <1>5 DEF Preceding
  <2>2. Over(a) \in SUBSET Over(b)
    BY <1>5 DEF Preceding, StrictOrder
  <2> HIDE DEF Over
  <2>3. Over(a) # Over(b)
    BY <1>3, <2>1
  <2>4. /\ Cardinality(Over(a)) <= Cardinality(Over(b))
        /\ Cardinality(Over(a)) # Cardinality(Over(b))
    BY <1>2, <2>2, <2>3, FS_Subset
  <2> QED
    BY <1>2, <2>4
<1> HIDE DEF Over
<1>6. Cardinality(Over(a)) \in 0..Cardinality(S) - 1
  BY <1>1, <1>2, <1>4
<1> QED
  BY <1>1, <1>5, <1>6 DEF RankIn, Over

\* Every rank below the number of elements is that of one of them.
LEMMA RanksTaken ==
    ASSUME NEW S, IsFiniteSet(S), NEW R, StrictOrder(S, R)
    PROVE  /\ \A a, b \in S : RankIn(S, R, a) = RankIn(S, R, b) => a = b
           /\ \A r \in 0..Cardinality(S) - 1 : \E a \in S : RankIn(S, R, a) = r
<1> DEFINE n == Cardinality(S)
           P(a) == RankIn(S, R, a)
           place == [a \in S |-> P(a)]
<1>1. n \in Nat
  BY FS_CardinalityType
<1>2. \A a \in S : P(a) \in 0..n - 1
  BY RankGrows
<1>3. \A a, b \in S : <<a, b>> \in R => P(a) < P(b)
  BY RankGrows
<1>4. ASSUME NEW a \in S, NEW b \in S, P(a) = P(b)
      PROVE  a = b
  <2>1. P(a) \in Int /\ P(b) \in Int
    BY <1>1, <1>2
  <2> HIDE DEF P
  <2>2. <<a, b>> \notin R /\ <<b, a>> \notin R
    BY <1>3, <1>4, <2>1
  <2> QED
    BY <2>2 DEF StrictOrder
<1> HIDE DEF P, n
<1>5. place \in [S -> 0..n - 1] /\ \A a \in S : place[a] = P(a)
  BY <1>2
<1> HIDE DEF place
<1>6. place \in Injection(S, 0..n - 1)
  BY <1>4, <1>5 DEF Injection, IsInjective
<1>7. place \in Surjection(S, 0..n - 1)
  <2>1. IsFiniteSet(0..n - 1) /\ Cardinality(0..n - 1) = n
    BY <1>1, FS_Interval
  <2>2. Cardinality(S) = Cardinality(0..n - 1)
    BY <2>1 DEF n
  <2> QED
    BY <1>6, <2>1, <2>2, FS_Injection
<1>8. \A r \in 0..n - 1 : \E a \in S : P(a) = r
  BY <1>5, <1>7 DEF Surjection
<1> QED
  BY <1>4, <1>8 DEF P, n

-----------------------------------------------------------------------------
(* Moments and seconds.                                                     *)

\* The types of the constants.
LEMMA Constants ==
    /\ Second \in Nat \ {0} /\ MaxSize \in Nat \ {0} /\ DefaultSize \in 1..MaxSize
    /\ Moments \subseteq Nat /\ MaxRows \in Nat /\ MaxUses \in Nat
BY ListAssumption

\* Cutting a moment to its second keeps the order (secondBound).
LEMMA SecondGrows ==
    ASSUME NEW t \in Nat
    PROVE  /\ SecondOf(t) \in Nat
           /\ \A u \in Nat : t <= u => SecondOf(t) <= SecondOf(u)
BY Constants DEF SecondOf

\* A moment is known by its second and the rest.
LEMMA SecondAndRest ==
    ASSUME NEW s \in Nat, NEW t \in Nat
    PROVE  /\ s % Second \in 0..Second - 1
           /\ SecondOf(s) = SecondOf(t) /\ s % Second = t % Second => s = t
BY Constants DEF SecondOf

\* Two rows with the same text of created_at were made at the same moment (fmtTime).
LEMMA TextTells ==
    ASSUME NEW a, NEW b, a.at \in Nat, b.at \in Nat
    PROVE  /\ CreatedText(a)[1] \in Nat /\ CreatedText(a)[2] \in Nat
           /\ CreatedText(a)[1] = CreatedText(b)[1] /\ CreatedText(a)[2] = CreatedText(b)[2]
                => a.at = b.at
<1> DEFINE s == a.at   t == b.at
<1>1. /\ CreatedText(a)[1] = SecondOf(s)
      /\ CreatedText(a)[2] = IF s % Second = 0 THEN Second ELSE s % Second
      /\ CreatedText(b)[1] = SecondOf(t)
      /\ CreatedText(b)[2] = IF t % Second = 0 THEN Second ELSE t % Second
  BY DEF CreatedText
<1>2. SecondOf(s) \in Nat
  BY SecondGrows
<1>3. /\ s % Second \in 0..Second - 1 /\ t % Second \in 0..Second - 1
      /\ SecondOf(s) = SecondOf(t) /\ s % Second = t % Second => s = t
  BY SecondAndRest
<1> HIDE DEF s, t
<1>4. /\ CreatedText(a)[2] \in Nat
      /\ CreatedText(a)[2] = CreatedText(b)[2] => s % Second = t % Second
  BY <1>1, <1>3, Constants
<1> QED
  BY <1>1, <1>2, <1>3, <1>4 DEF s, t

-----------------------------------------------------------------------------
(* The orders.                                                              *)

\* What the tables keep apart: no two rows have one id; sessions are created at
\* different moments, and no two have the same last message.
Apart(order, table) ==
    IF order = "sessions"
    THEN \A a, b \in table :
            /\ a.at \in Nat /\ a.last \in Nat
            /\ a.at = b.at => a = b
            /\ a.last = b.last /\ a.last # 0 => a = b
    ELSE \A a, b \in table :
            /\ a.at \in Nat /\ a.id \in Nat \X Nat
            /\ a.id = b.id => a = b

\* Before is a strict order in which any two rows of a table compare.
Linear(order, table) ==
    /\ \A a \in table : ~Before(order, a, a)
    /\ \A a, b \in table : a # b => Before(order, a, b) \/ Before(order, b, a)
    /\ \A a, b, c \in table :
          Before(order, a, b) /\ Before(order, b, c) => Before(order, a, c)

\* Ids compare as pairs of numbers.
LEMMA IdsCompare ==
    ASSUME NEW table, \A a, b \in table : a.id \in Nat \X Nat /\ (a.id = b.id => a = b)
    PROVE  /\ \A a \in table : ~IdAfter(a, a)
           /\ \A a, b \in table : a # b => IdAfter(a, b) \/ IdAfter(b, a)
           /\ \A a, b, c \in table : IdAfter(a, b) /\ IdAfter(b, c) => IdAfter(a, c)
<1>1. \A a, b \in table :
         /\ a.id[1] \in Nat /\ a.id[2] \in Nat
         /\ a.id[1] = b.id[1] /\ a.id[2] = b.id[2] => a = b
  OBVIOUS
<1> QED
  BY <1>1 DEF IdAfter

\* Tasks: seconds and, within one, ids.
LEMMA TasksCompare ==
    ASSUME NEW table, Apart("tasks", table)
    PROVE  Linear("tasks", table)
<1>1. /\ \A a \in table : ~IdAfter(a, a)
      /\ \A a, b \in table : a # b => IdAfter(a, b) \/ IdAfter(b, a)
      /\ \A a, b, c \in table : IdAfter(a, b) /\ IdAfter(b, c) => IdAfter(a, c)
  BY IdsCompare DEF Apart
<1>2. \A a \in table : SecondOf(a.at) \in Nat
  BY SecondGrows DEF Apart
<1>3. \A a, b \in table : Before("tasks", a, b) <=> TaskBefore(a, b)
  BY DEF Before
<1> QED
  BY <1>1, <1>2, <1>3 DEF TaskBefore, Linear

\* Sessions: last messages and, without one, moments of creation.
LEMMA SessionsCompare ==
    ASSUME NEW table, Apart("sessions", table)
    PROVE  Linear("sessions", table)
<1>1. \A a, b \in table : /\ a.last \in Nat
                          /\ CreatedText(a)[1] \in Nat /\ CreatedText(a)[2] \in Nat
                          /\ CreatedText(a)[1] = CreatedText(b)[1]
                             /\ CreatedText(a)[2] = CreatedText(b)[2] => a = b
  BY TextTells DEF Apart
<1>2. \A a, b \in table : Before("sessions", a, b) <=> SessionBefore(a, b)
  BY DEF Before
<1> QED
  BY <1>1, <1>2 DEF SessionBefore, Linear

\* Every list is ordered by a strict order of its rows.
LEMMA OrdersCompare ==
    ASSUME NEW order \in Kinds, NEW table, Apart(order, table)
    PROVE  Linear(order, table)
<1>1. CASE order = "tasks"
  BY <1>1, TasksCompare
<1>2. CASE order = "sessions"
  BY <1>2, SessionsCompare
<1>3. CASE order \in {"audit", "versions", "collectors"}
  <2>1. /\ \A a \in table : ~IdAfter(a, a)
        /\ \A a, b \in table : a # b => IdAfter(a, b) \/ IdAfter(b, a)
        /\ \A a, b, c \in table : IdAfter(a, b) /\ IdAfter(b, c) => IdAfter(a, c)
    BY <1>3, IdsCompare DEF Apart
  <2>2. \A a, b \in table :
           Before(order, a, b) <=> IF order = "collectors" THEN IdAfter(b, a) ELSE IdAfter(a, b)
    BY <1>3 DEF Before, AuditBefore, CollectorBefore
  <2> QED
    BY <1>3, <2>1, <2>2 DEF Linear
<1> QED
  BY <1>1, <1>2, <1>3 DEF Kinds

-----------------------------------------------------------------------------
(* The sorted rows.                                                         *)

\* How many rows of the table come before it.
Place(order, table, row) == Cardinality(Ahead(order, table, row))

\* The rows before a row are some of the others.
LEMMA AheadFinite ==
    ASSUME NEW order, NEW table, IsFiniteSet(table), NEW row
    PROVE  /\ Ahead(order, table, row) \in SUBSET table
           /\ IsFiniteSet(Ahead(order, table, row))
           /\ Place(order, table, row) \in Nat
           /\ Place(order, table, row) <= Cardinality(table)
<1>1. Ahead(order, table, row) \in SUBSET table
  BY DEF Ahead
<1>2. /\ IsFiniteSet(Ahead(order, table, row))
      /\ Place(order, table, row) <= Cardinality(table)
  BY <1>1, FS_Subset DEF Place
<1> QED
  BY <1>1, <1>2, FS_CardinalityType DEF Place

\* The order of a table as a relation.
OrderOf(order, table) == {p \in table \X table : Before(order, p[1], p[2])}

LEMMA PlaceIsRank ==
    ASSUME NEW order, NEW table, Linear(order, table)
    PROVE  /\ StrictOrder(table, OrderOf(order, table))
           /\ \A a, b \in table : <<a, b>> \in OrderOf(order, table) <=> Before(order, a, b)
           /\ \A a \in table : Place(order, table, a) = RankIn(table, OrderOf(order, table), a)
<1>1. \A a, b \in table : <<a, b>> \in OrderOf(order, table) <=> Before(order, a, b)
  BY DEF OrderOf
<1>2. StrictOrder(table, OrderOf(order, table))
  BY <1>1 DEF StrictOrder, Linear
<1>3. \A a \in table : Ahead(order, table, a) = Preceding(table, OrderOf(order, table), a)
  BY <1>1 DEF Ahead, Preceding
<1> QED
  BY <1>1, <1>2, <1>3 DEF Place, RankIn

\* Places follow the order and are below the number of rows.
LEMMA PlaceGrows ==
    ASSUME NEW order, NEW table, IsFiniteSet(table), Linear(order, table), NEW a \in table
    PROVE  /\ Place(order, table, a) \in 0..Cardinality(table) - 1
           /\ \A b \in table : Before(order, a, b) =>
                Place(order, table, a) < Place(order, table, b)
<1> DEFINE R == OrderOf(order, table)
<1>1. /\ StrictOrder(table, R)
      /\ \A b \in table : <<a, b>> \in R <=> Before(order, a, b)
      /\ \A b \in table : Place(order, table, b) = RankIn(table, R, b)
  BY PlaceIsRank
<1> HIDE DEF R
<1>2. /\ RankIn(table, R, a) \in 0..Cardinality(table) - 1
      /\ \A b \in table : <<a, b>> \in R => RankIn(table, R, a) < RankIn(table, R, b)
  BY <1>1, RankGrows
<1> QED
  BY <1>1, <1>2

\* The list has every row of the table, at its place.
LEMMA SortedPlaces ==
    ASSUME NEW order, NEW table, IsFiniteSet(table), Linear(order, table)
    PROVE  /\ Sorted(order, table) \in Seq(table)
           /\ Len(Sorted(order, table)) = Cardinality(table)
           /\ \A row \in table : Sorted(order, table)[Place(order, table, row) + 1] = row
           /\ \A i \in 1..Cardinality(table) :
                Place(order, table, Sorted(order, table)[i]) = i - 1
<1> DEFINE n == Cardinality(table)
           P(row) == Place(order, table, row)
           list == Sorted(order, table)
<1>1. n \in Nat
  BY FS_CardinalityType
<1>2. \A a \in table : P(a) \in 0..n - 1
  BY PlaceGrows
<1>3. /\ \A a, b \in table : P(a) = P(b) => a = b
      /\ \A r \in 0..n - 1 : \E a \in table : P(a) = r
  BY PlaceIsRank, RanksTaken
<1> HIDE DEF P, n
<1>4. list = [i \in 1..n |-> CHOOSE a \in table : P(a) = i - 1]
  BY Zenon DEF Sorted, P, Place, n
<1> HIDE DEF list
<1>5. ASSUME NEW i \in 1..n
      PROVE  list[i] \in table /\ P(list[i]) = i - 1
  <2>1. list[i] = CHOOSE a \in table : P(a) = i - 1
    BY <1>4
  <2>2. i - 1 \in 0..n - 1
    BY <1>1
  <2>3. \E a \in table : P(a) = i - 1
    BY <1>3, <2>2
  <2> QED
    BY <2>1, <2>3
<1>6. list \in [1..n -> table]
  BY <1>4, <1>5
<1>7. list \in Seq(table) /\ Len(list) = n
  BY <1>1, <1>6
<1>8. ASSUME NEW a \in table
      PROVE  list[P(a) + 1] = a
  <2>1. P(a) + 1 \in 1..n /\ (P(a) + 1) - 1 = P(a)
    BY <1>1, <1>2
  <2>2. P(list[P(a) + 1]) = P(a) /\ list[P(a) + 1] \in table
    BY <1>5, <2>1
  <2> QED
    BY <1>3, <2>2
<1> QED
  BY <1>5, <1>7, <1>8 DEF list, n, P

\* What the list has at all; and what comes first in it comes before.
LEMMA SortedRows ==
    ASSUME NEW order, NEW table, IsFiniteSet(table), Linear(order, table)
    PROVE  LET list == Sorted(order, table)
           IN  /\ {list[i] : i \in DOMAIN list} = table
               /\ \A i, j \in DOMAIN list : Before(order, list[i], list[j]) => i < j
<1> DEFINE n == Cardinality(table)
           P(row) == Place(order, table, row)
           list == Sorted(order, table)
<1>1. n \in Nat
  BY FS_CardinalityType
<1>2. \A a \in table : P(a) \in 0..n - 1
  BY PlaceGrows
<1>3. \A a, b \in table : Before(order, a, b) => P(a) < P(b)
  BY PlaceGrows
<1>4. /\ list \in Seq(table) /\ Len(list) = n
      /\ \A a \in table : list[P(a) + 1] = a
      /\ \A i \in 1..n : P(list[i]) = i - 1
  BY SortedPlaces
<1> HIDE DEF n, P, list
<1>5. DOMAIN list = 1..n /\ \A i \in 1..n : list[i] \in table
  BY <1>4
<1>6. \A a \in table : P(a) + 1 \in 1..n
  BY <1>1, <1>2
<1>7. {list[i] : i \in DOMAIN list} = table
  BY <1>4, <1>5, <1>6
<1>8. ASSUME NEW i \in 1..n, NEW j \in 1..n, Before(order, list[i], list[j])
      PROVE  i < j
  BY <1>1, <1>3, <1>4, <1>5, <1>8
<1> QED
  BY <1>5, <1>7, <1>8 DEF list

-----------------------------------------------------------------------------
(* The table behind a list.                                                 *)

TableInv ==
    /\ kind \in Kinds /\ IsFiniteSet(rows)
    /\ kind = "tasks" => rows \subseteq TaskRows
    /\ kind = "sessions" => rows \subseteq {SessionRow(at, last) : at \in Moments, last \in Nat}
    /\ kind \notin {"tasks", "sessions"}
         => rows \subseteq {Numbered(n, uid) : n \in Moments, uid \in Targets}
    /\ Apart(kind, rows)

\* A new row has an id of its own, a new session also a moment of its own.
LEMMA AddKeepsTable == TableInv /\ AddRow => TableInv'
<1> SUFFICES ASSUME TableInv, AddRow
             PROVE  TableInv'
  OBVIOUS
<1>1. PICK new \in Rows :
         /\ \A o \in rows : o.id # new.id
         /\ kind \in {"audit", "versions", "sessions"} => \A o \in rows : o.id[1] < new.id[1]
         /\ rows' = rows \cup {new}
  BY DEF AddRow
<1>2. UNCHANGED kind
  BY DEF AddRow
<1>3. IsFiniteSet(rows')
  BY <1>1, FS_AddElement DEF TableInv
<1>4. CASE kind = "tasks"
  <2>1. new \in TaskRows /\ \A row \in TaskRows : row.id \in Nat \X Nat /\ row.at \in Nat
    BY <1>1, <1>4, ListAssumption DEF Rows
  <2>2. \A a, b \in rows' : /\ a.at \in Nat /\ a.id \in Nat \X Nat
                            /\ a.id = b.id => a = b
    BY <1>1, <1>4, <2>1 DEF TableInv, Apart
  <2> QED
    BY <1>1, <1>2, <1>3, <1>4, <2>1, <2>2 DEF TableInv, Apart
<1>5. CASE kind = "sessions"
  <2>1. PICK m \in Moments : new = SessionRow(m, 0)
    BY <1>1, <1>5 DEF Rows
  <2>2. new.at = m /\ new.last = 0 /\ new.id[1] = m /\ m \in Nat /\ 0 \in Nat
    BY <2>1, Constants DEF SessionRow
  <2>3. \A o \in rows : o.id[1] = o.at
    BY <1>5 DEF TableInv, SessionRow
  <2>4. \A o \in rows : o.at # new.at
    BY <1>1, <1>5, <2>2, <2>3 DEF TableInv, Apart
  <2>5. \A a, b \in rows' : /\ a.at \in Nat /\ a.last \in Nat
                            /\ a.at = b.at => a = b
                            /\ a.last = b.last /\ a.last # 0 => a = b
    BY <1>1, <1>5, <2>2, <2>4 DEF TableInv, Apart
  <2>6. rows' \subseteq {SessionRow(at, last) : at \in Moments, last \in Nat}
    BY <1>1, <1>5, <2>1, <2>2 DEF TableInv
  <2> QED
    BY <1>2, <1>3, <1>5, <2>5, <2>6 DEF TableInv, Apart
<1>6. CASE kind \notin {"tasks", "sessions"}
  <2>1. PICK n \in Moments, uid \in Targets : new = Numbered(n, uid)
    BY <1>1, <1>6 DEF Rows
  <2>2. new.at \in Nat /\ new.id \in Nat \X Nat
    BY <2>1, Constants DEF Numbered
  <2>3. \A a, b \in rows' : /\ a.at \in Nat /\ a.id \in Nat \X Nat
                            /\ a.id = b.id => a = b
    BY <1>1, <1>6, <2>2 DEF TableInv, Apart
  <2>4. rows' \subseteq {Numbered(m, u) : m \in Moments, u \in Targets}
    BY <1>1, <1>6, <2>1 DEF TableInv
  <2> QED
    BY <1>2, <1>3, <1>6, <2>3, <2>4 DEF TableInv, Apart
<1> QED
  BY <1>4, <1>5, <1>6

\* A message moves its session to the front of all.
LEMMA UseSessionMoves ==
    ASSUME TableInv, UseSession
    PROVE  /\ UNCHANGED <<kind, phase, asked, size, first, page, seen>> /\ kind = "sessions"
           /\ \E old \in rows, new \in {SessionRow(at, last) : at \in Moments, last \in Nat} :
                /\ rows' = (rows \ {old}) \cup {new}
                /\ new.at = old.at /\ new.last \in Nat
                /\ \A o \in rows : o.last < new.last
<1>1. PICK old \in rows, n \in 1..MaxUses :
         /\ \A o \in rows : o.last < n
         /\ rows' = (rows \ {old}) \cup {SessionRow(old.at, n)}
  BY DEF UseSession
<1>2. UNCHANGED <<kind, phase, asked, size, first, page, seen>> /\ kind = "sessions"
  BY DEF UseSession
<1> DEFINE new == SessionRow(old.at, n)
<1>3. new.at = old.at /\ new.last = n /\ n \in Nat
  BY Constants DEF SessionRow
<1>4. old.at \in Moments
  BY <1>2 DEF TableInv, SessionRow
<1>5. new \in {SessionRow(at, last) : at \in Moments, last \in Nat}
  BY <1>3, <1>4
<1> QED
  BY <1>1, <1>2, <1>3, <1>5

\* It stays the only one made at its moment and the only one with that last message.
LEMMA UseKeepsTable == TableInv /\ UseSession => TableInv'
<1> SUFFICES ASSUME TableInv, UseSession
             PROVE  TableInv'
  OBVIOUS
<1>1. UNCHANGED kind /\ kind = "sessions"
  BY UseSessionMoves
<1>2. PICK old \in rows, new \in {SessionRow(at, last) : at \in Moments, last \in Nat} :
         /\ rows' = (rows \ {old}) \cup {new}
         /\ new.at = old.at /\ new.last \in Nat
         /\ \A o \in rows : o.last < new.last
  BY UseSessionMoves
<1>3. IsFiniteSet(rows')
  <2>1. IsFiniteSet(rows \ {old})
    BY FS_RemoveElement DEF TableInv
  <2> QED
    BY <1>2, <2>1, FS_AddElement
<1>4. \A a, b \in rows' : /\ a.at \in Nat /\ a.last \in Nat
                          /\ a.at = b.at => a = b
                          /\ a.last = b.last /\ a.last # 0 => a = b
  <2>1. \A a, b \in rows : /\ a.at \in Nat /\ a.last \in Nat
                           /\ a.at = b.at => a = b
                           /\ a.last = b.last /\ a.last # 0 => a = b
    BY <1>1 DEF TableInv, Apart
  <2>2. \A a \in rows : a.last # new.last
    BY <1>2, <2>1
  <2> QED
    BY <1>2, <2>1, <2>2
<1> QED
  BY <1>1, <1>2, <1>3, <1>4 DEF TableInv, Apart

\* The tables stay well formed.
THEOREM TableInvariance == ListSpec => []TableInv
<1>1. ListInit => TableInv
  BY FS_EmptySet DEF ListInit, TableInv, Apart
<1>2. ASSUME TableInv, [ListNext]_listing
      PROVE  TableInv'
  <2>1. CASE AddRow
    BY <1>2, <2>1, AddKeepsTable
  <2>2. CASE UseSession
    BY <1>2, <2>2, UseKeepsTable
  <2>3. CASE UNCHANGED <<kind, rows>>
    BY <1>2, <2>3 DEF TableInv, Apart
  <2>4. FirstPage \/ TurnPage \/ UNCHANGED listing => UNCHANGED <<kind, rows>>
    BY DEF FirstPage, TurnPage, Request, listing
  <2> QED
    BY <1>2, <2>1, <2>2, <2>3, <2>4 DEF ListNext
<1> QED
  BY <1>1, <1>2, PTL DEF ListSpec

-----------------------------------------------------------------------------
(* Lists and time.                                                          *)

\* A part of a table is well formed, too.
LEMMA PartLinear ==
    ASSUME TableInv, NEW part \in SUBSET rows
    PROVE  IsFiniteSet(part) /\ Linear(kind, part)
<1>1. IsFiniteSet(part)
  BY FS_Subset DEF TableInv
<1>2. Apart(kind, part)
  BY DEF TableInv, Apart
<1> QED
  BY <1>1, <1>2, OrdersCompare DEF TableInv

\* A task list has the tasks that match, each before those it is ordered before.
LEMMA TaskList ==
    ASSUME TableInv, kind = "tasks", NEW filter
    PROVE  LET list == ListTasks(rows, filter, 0, 0)
           IN  /\ {list[i] : i \in DOMAIN list} = {row \in rows : Matches(row, filter)}
               /\ \A i, j \in DOMAIN list : TaskBefore(list[i], list[j]) => i < j
<1> DEFINE match == {row \in rows : Matches(row, filter)}
           list == ListTasks(rows, filter, 0, 0)
<1>1. list = Sorted("tasks", match)
  BY DEF ListTasks, Listed, PageOf
<1>2. IsFiniteSet(match) /\ Linear("tasks", match)
  BY PartLinear
<1> HIDE DEF list, match
<1>3. /\ {list[i] : i \in DOMAIN list} = match
      /\ \A i, j \in DOMAIN list : Before("tasks", list[i], list[j]) => i < j
  BY <1>1, <1>2, SortedRows
<1>4. \A a, b : Before("tasks", a, b) <=> TaskBefore(a, b)
  BY DEF Before
<1> QED
  BY <1>3, <1>4 DEF list, match

\* The filter by time and target keeps the seconds asked for.
LEMMA PeriodKept ==
    ASSUME TableInv, kind = "tasks", NEW since \in Nat, NEW until \in Nat, NEW target
    PROVE  KeepsPeriod(rows, since, until, target)
<1> DEFINE filter == Filter([target |-> target], {since}, {until}, {})
           list == ListTasks(rows, filter, 0, 0)
           listed == {list[i] : i \in DOMAIN list}
<1>1. listed = {row \in rows : Matches(row, filter)}
  BY TaskList
<1>2. \A row : Matches(row, filter) <=>
                 /\ target \in row.columns.target
                 /\ SecondOf(row.at) >= SecondOf(since)
                 /\ SecondOf(row.at) < SecondOf(until) + 1
  BY DEF Matches, Filter, SinceUntil
<1>3. ASSUME NEW row \in rows
      PROVE  /\ row.at \in Nat /\ SecondOf(row.at) \in Nat
             /\ row.at \in since..until =>
                  SecondOf(since) <= SecondOf(row.at) /\ SecondOf(row.at) <= SecondOf(until)
  <2>1. row.at \in Nat
    BY DEF TableInv, Apart
  <2> QED
    BY <2>1, SecondGrows
<1>4. SecondOf(since) \in Nat /\ SecondOf(until) \in Nat
  BY SecondGrows
<1> HIDE DEF listed, list, filter
<1>5. \A row \in rows :
         target \in row.columns.target /\ row.at \in since..until => row \in listed
  BY <1>1, <1>2, <1>3, <1>4
<1>6. \A row \in listed :
         /\ row \in rows /\ target \in row.columns.target
         /\ SecondOf(row.at) \in SecondOf(since)..SecondOf(until)
  BY <1>1, <1>2, <1>3, <1>4
<1> QED
  BY <1>5, <1>6 DEF KeepsPeriod, listed, list, filter

\* Ids are minted before rows are stamped, so the order by seconds and ids does not
\* put a task behind one that was stamped before it was minted.
LEMMA NewestTasksFirst ==
    ASSUME TableInv, kind = "tasks"
    PROVE  NewestFirst(rows)
<1> DEFINE list == ListTasks(rows, NoFilter, 0, 0)
<1>1. /\ {list[i] : i \in DOMAIN list} = {row \in rows : Matches(row, NoFilter)}
      /\ \A i, j \in DOMAIN list : TaskBefore(list[i], list[j]) => i < j
  BY TaskList
<1>2. \A row \in rows : row.id \in Nat \X Nat /\ row.at \in Nat /\ row.id[1] <= row.at
  BY ListAssumption DEF TableInv
<1> HIDE DEF list
<1>3. ASSUME NEW i \in DOMAIN list, NEW j \in DOMAIN list, list[i].at < list[j].id[1]
      PROVE  j < i
  <2> DEFINE a == list[i]   b == list[j]
  <2>1. a \in rows /\ b \in rows
    BY <1>1
  <2>2. /\ a.at \in Nat /\ b.at \in Nat /\ a.id[1] \in Nat /\ b.id[1] \in Nat
        /\ a.id[1] <= a.at /\ b.id[1] <= b.at
    BY <1>2, <2>1
  <2>3. a.at < b.id[1]
    BY <1>3
  <2> HIDE DEF a, b
  <2>4. a.at <= b.at /\ b.id[1] > a.id[1]
    BY <2>2, <2>3
  <2>5. SecondOf(a.at) <= SecondOf(b.at) /\ SecondOf(a.at) \in Nat /\ SecondOf(b.at) \in Nat
    BY <2>2, <2>4, SecondGrows
  <2>6. TaskBefore(b, a)
    BY <2>4, <2>5 DEF TaskBefore, IdAfter
  <2> QED
    BY <1>1, <2>6 DEF a, b
<1> QED
  BY <1>3 DEF NewestFirst, list

\* Whatever is in the table, a task list keeps the period asked for, cut to seconds,
\* and shows the newest task first (ListTasks).
THEOREM TimeFollowed == ListSpec => []ListsFollowTime
<1>1. TableInv => ListsFollowTime
  BY PeriodKept, NewestTasksFirst, Constants DEF ListsFollowTime
<1> QED
  BY <1>1, TableInvariance, PTL

-----------------------------------------------------------------------------
(* One page.                                                                *)

\* The rows a reader who asks for wanted is shown, page after page.
Shown(wanted) ==
    {row \in rows : CASE kind \in {"tasks", "audit"} -> Matches(row, wanted)
                      [] kind = "versions" -> wanted \in row.columns.target
                      [] OTHER -> TRUE}

\* The rows on a page with the size of a page; DefaultSize if none is asked for.
Cut(z) == IF z = {} THEN DefaultSize ELSE CHOOSE n \in z : TRUE

\* An answer is a page of the rows shown, in their order; its size was accepted.
LEMMA AnswerIsPage ==
    ASSUME TableInv, NEW wanted, NEW n \in Nat \ {0}, NEW z \in Sizes,
           NEW answer \in Answers(wanted, n, z)
    PROVE  /\ Cut(z) \in 1..MaxSize
           /\ answer = Answer(PageOf(Sorted(kind, Shown(wanted)), n, Cut(z)), Cut(z))
<1>1. \A p \in Paging({n}, z) : p = <<n, Cut(z)>> /\ Cut(z) \in 1..MaxSize
  <2>1. CASE z = {}
    BY <2>1, Constants DEF Paging, Cut
  <2>2. ASSUME NEW c, z = {c}
        PROVE  \A p \in Paging({n}, z) : p = <<n, Cut(z)>> /\ Cut(z) \in 1..MaxSize
    <3>1. Cut(z) = c
      BY <2>2 DEF Cut
    <3> QED
      BY <2>2, <3>1 DEF Paging
  <2> QED
    BY <2>1, <2>2, ListAssumption
<1>2. \A uid : {row \in rows : Matches(row, Filter([target |-> uid], {}, {}, {}))}
                 = {row \in rows : uid \in row.columns.target}
  BY DEF Matches, Filter, SinceUntil
<1>3. CASE kind = "tasks"
  <2>1. PICK p \in Paging({n}, z) : answer = Answer(ListTasks(rows, wanted, p[1], p[2]), p[2])
    BY <1>3 DEF Answers, GetTasks
  <2>2. {row \in rows : Matches(row, wanted)} = Shown(wanted)
    BY <1>3 DEF Shown
  <2> QED
    BY <1>1, <1>3, <2>1, <2>2 DEF ListTasks, Listed
<1>4. CASE kind = "audit"
  <2>1. PICK p \in Paging({n}, z) : answer = Answer(ListAudit(rows, wanted, p[1], p[2]), p[2])
    BY <1>4 DEF Answers, GetAudit
  <2>2. {row \in rows : Matches(row, wanted)} = Shown(wanted)
    BY <1>4 DEF Shown
  <2> QED
    BY <1>1, <1>4, <2>1, <2>2 DEF ListAudit, Listed
<1>5. CASE kind = "versions"
  <2>1. PICK p \in Paging({n}, z) :
           answer = Answer(ListConfigVersions(rows, wanted, p[1], p[2]), p[2])
    BY <1>5 DEF Answers, GetVersions
  <2> DEFINE filter == Filter([target |-> wanted], {}, {}, {})
             match == {row \in rows : Matches(row, filter)}
  <2>2. match = Shown(wanted)
    BY <1>2, <1>5 DEF Shown
  <2>3. answer = Answer(PageOf(Sorted("versions", match), p[1], p[2]), p[2])
    BY <2>1 DEF ListConfigVersions, Listed
  <2> HIDE DEF match
  <2> QED
    BY <1>1, <1>5, <2>2, <2>3
<1>6. CASE kind = "collectors"
  <2>1. PICK p \in Paging({n}, z) : answer = Answer(ListCollectors(rows, p[1], p[2]), p[2])
    BY <1>6 DEF Answers, GetCollectors
  <2>2. rows = Shown(wanted)
    BY <1>6 DEF Shown
  <2> QED
    BY <1>1, <1>6, <2>1, <2>2 DEF ListCollectors
<1>7. CASE kind = "sessions"
  <2>1. PICK p \in Paging({n}, z) : answer = Answer(ListSessions(rows, p[1], p[2]), p[2])
    BY <1>7 DEF Answers, GetSessions
  <2>2. rows = Shown(wanted)
    BY <1>7 DEF Shown
  <2> QED
    BY <1>1, <1>7, <2>1, <2>2 DEF ListSessions
<1> QED
  BY <1>3, <1>4, <1>5, <1>6, <1>7 DEF TableInv, Kinds

\* A page has the rows at its places; only the last one is not full (LIMIT, OFFSET).
LEMMA PageHas ==
    ASSUME NEW table, NEW list \in Seq(table), NEW n \in Nat \ {0}, NEW c \in Nat \ {0}
    PROVE  LET items == PageOf(list, n, c)
           IN  /\ \A i \in 1..Len(list) :
                    (n - 1) * c < i /\ i <= n * c => \E j \in DOMAIN items : items[j] = list[i]
               /\ Len(items) < c => Len(list) < n * c
<1> DEFINE off == (n - 1) * c
           end == IF Len(list) < off + c THEN Len(list) ELSE off + c
           items == PageOf(list, n, c)
<1>1. off \in Nat /\ off + c = n * c /\ Len(list) \in Nat
  OBVIOUS
<1>2. items = SubSeq(list, off + 1, end)
  BY DEF PageOf, Offset
<1> HIDE DEF off
<1>3. /\ items = [j \in 1..(end - off) |-> list[j + off]]
      /\ end \in Nat
      /\ Len(items) = IF off < end THEN end - off ELSE 0
  BY <1>1, <1>2
<1> HIDE DEF items
<1>4. ASSUME NEW i \in 1..Len(list), off < i, i <= off + c
      PROVE  \E j \in DOMAIN items : items[j] = list[i]
  <2>1. i - off \in 1..(end - off) /\ (i - off) + off = i
    BY <1>1, <1>4
  <2> QED
    BY <1>3, <2>1
<1>5. Len(items) < c => Len(list) < off + c
  BY <1>1, <1>3
<1> QED
  BY <1>1, <1>4, <1>5 DEF items, off

-----------------------------------------------------------------------------
(* The reader.                                                              *)

\* Between two pages every row that was there at first, is shown and has not changed
\* has been seen or is at a place that is still to come; and the rows of the first
\* page are all there, though used sessions changed.
SeenInv ==
    /\ page \in Nat \ {0} /\ phase \in {"table", "pages", "end"}
    /\ phase = "pages" =>
         /\ size \in Sizes /\ Cut(size) \in 1..MaxSize
         /\ \A row \in first : \E o \in rows :
               /\ o.id = row.id
               /\ kind = "sessions" => row.last \in Nat /\ row.last <= o.last
         /\ \A row \in first \cap Shown(asked) :
               row \in seen \/ (page - 1) * Cut(size) <= Place(kind, Shown(asked), row)
    /\ PagesMissNothing

\* A page takes the rows at its places off those that are still to come; the last
\* one takes all of them.
LEMMA RequestSees ==
    ASSUME TableInv, NEW wanted, NEW n \in Nat \ {0}, NEW z \in Sizes,
           Request(wanted, n, z), NEW row \in Shown(wanted),
           row \in seen \/ (n - 1) * Cut(z) <= Place(kind, Shown(wanted), row)
    PROVE  /\ Cut(z) \in 1..MaxSize
           /\ row \in seen' \/ (phase' = "pages" /\ n * Cut(z) <= Place(kind, Shown(wanted), row))
<1> DEFINE shown == Shown(wanted)
           list == Sorted(kind, shown)
           c == Cut(z)
           p == Place(kind, shown, row)
<1>1. IsFiniteSet(shown) /\ Linear(kind, shown)
  BY PartLinear DEF Shown
<1>2. /\ list \in Seq(shown) /\ Len(list) = Cardinality(shown) /\ list[p + 1] = row
  BY <1>1, SortedPlaces
<1>3. p \in 0..Cardinality(shown) - 1 /\ Cardinality(shown) \in Nat
  BY <1>1, PlaceGrows, FS_CardinalityType
<1>4. PICK answer \in Answers(wanted, n, z) :
         /\ seen' = seen \cup {answer.items[i] : i \in DOMAIN answer.items}
         /\ phase' = IF Len(answer.items) < answer.page_size THEN "end" ELSE "pages"
  BY DEF Request
<1> DEFINE items == PageOf(list, n, c)
<1>5. c \in 1..MaxSize /\ answer = Answer(items, c)
  BY AnswerIsPage
<1>6. c \in Nat \ {0}
  BY <1>5, Constants
<1> HIDE DEF list, c, shown, p
<1>7. /\ \A i \in 1..Len(list) :
            (n - 1) * c < i /\ i <= n * c => \E j \in DOMAIN items : items[j] = list[i]
      /\ Len(items) < c => Len(list) < n * c
  BY <1>2, <1>6, PageHas
<1> HIDE DEF items
<1>8. /\ seen' = seen \cup {items[i] : i \in DOMAIN items}
      /\ phase' = IF Len(items) < c THEN "end" ELSE "pages"
  BY <1>4, <1>5 DEF Answer
<1>9. (n - 1) * c \in Nat /\ n * c \in Nat
  BY <1>6
<1>10. CASE row \in seen
  BY <1>5, <1>8, <1>10 DEF c
<1>11. CASE (n - 1) * c <= p /\ p < n * c
  <2>1. p + 1 \in 1..Len(list) /\ (n - 1) * c < p + 1 /\ p + 1 <= n * c
    BY <1>2, <1>3, <1>9, <1>11
  <2>2. \E j \in DOMAIN items : items[j] = row
    BY <1>2, <1>7, <2>1
  <2> QED
    BY <1>5, <1>8, <2>2 DEF c
<1>12. CASE n * c <= p
  <2>1. n * c <= Len(list)
    BY <1>2, <1>3, <1>9, <1>12
  <2>2. ~(Len(list) < n * c)
    BY <1>2, <1>3, <1>9, <2>1
  <2>3. phase' = "pages"
    BY <1>7, <1>8, <2>2
  <2> QED
    BY <1>5, <1>12, <2>3 DEF c, p, shown
<1> QED
  BY <1>3, <1>9, <1>10, <1>11, <1>12 DEF c, p, shown

\* A table that grows moves a row back, if at all.
LEMMA PlaceKept ==
    ASSUME NEW order, NEW table, IsFiniteSet(table), NEW part \in SUBSET table, NEW row
    PROVE  Place(order, part, row) <= Place(order, table, row)
<1>1. Ahead(order, part, row) \in SUBSET Ahead(order, table, row)
  BY DEF Ahead
<1>2. IsFiniteSet(Ahead(order, table, row))
  BY AheadFinite
<1> QED
  BY <1>1, <1>2, FS_Subset DEF Place

\* A session that is used moves the others back, if at all.
LEMMA PlaceKeptByUse ==
    ASSUME NEW table, IsFiniteSet(table), NEW old \in table, NEW new, NEW row \in table,
           new.last \in Nat, row.last \in Nat, row.last < new.last, new \notin table
    PROVE  Place("sessions", table, row)
             <= Place("sessions", (table \ {old}) \cup {new}, row)
<1> DEFINE next == (table \ {old}) \cup {new}
           A == Ahead("sessions", table, row)
           B == Ahead("sessions", next, row)
<1>1. IsFiniteSet(A) /\ A \in SUBSET table /\ Cardinality(A) \in Nat
  BY AheadFinite DEF Place
<1>2. IsFiniteSet(next)
  <2>1. IsFiniteSet(table \ {old})
    BY FS_RemoveElement
  <2> QED
    BY <2>1, FS_AddElement
<1>3. IsFiniteSet(B)
  BY <1>2, AheadFinite
<1>4. new \in B
  BY DEF Ahead, Before, SessionBefore
<1>5. (A \ {old}) \cup {new} \in SUBSET B
  BY <1>4 DEF Ahead
<1>6. Cardinality(A) <= Cardinality((A \ {old}) \cup {new})
  <2> HIDE DEF A
  <2>0. /\ IsFiniteSet(A \ {old})
        /\ Cardinality(A \ {old}) = IF old \in A THEN Cardinality(A) - 1 ELSE Cardinality(A)
    BY <1>1, FS_RemoveElement
  <2>1. IsFiniteSet(A \ {old}) /\ Cardinality(A \ {old}) >= Cardinality(A) - 1
    BY <1>1, <2>0
  <2>2. new \notin A \ {old}
    BY <1>1
  <2>3. Cardinality((A \ {old}) \cup {new}) = Cardinality(A \ {old}) + 1
    BY <2>1, <2>2, FS_AddElement
  <2>4. Cardinality(A \ {old}) \in Nat
    BY <2>1, FS_CardinalityType
  <2> QED
    BY <1>1, <2>1, <2>3, <2>4
<1>7. /\ Cardinality((A \ {old}) \cup {new}) <= Cardinality(B)
      /\ Cardinality((A \ {old}) \cup {new}) \in Nat /\ Cardinality(B) \in Nat
  <2>1. IsFiniteSet((A \ {old}) \cup {new})
    BY <1>3, <1>5, FS_Subset
  <2> QED
    BY <1>3, <1>5, <2>1, FS_Subset, FS_CardinalityType
<1> HIDE DEF A, B
<1>8. Cardinality(A) <= Cardinality(B)
  BY <1>1, <1>6, <1>7
<1> QED
  BY <1>8 DEF Place, A, B

\* A new row is none of the first page's, and puts none of those ahead.
LEMMA AddKeepsSeen ==
    ASSUME TableInv, SeenInv, AddRow
    PROVE  SeenInv'
<1>1. PICK new \in Rows :
         /\ \A o \in rows : o.id # new.id
         /\ rows' = rows \cup {new}
  BY DEF AddRow
<1>2. UNCHANGED <<kind, phase, asked, size, first, page, seen>> /\ phase # "end"
  BY DEF AddRow
<1>3. CASE phase # "pages"
  BY <1>2, <1>3 DEF SeenInv, PagesMissNothing
<1>4. CASE phase = "pages"
  <2> DEFINE shown == Shown(asked)
             shownNext == Shown(asked)'
  <2>1. /\ shown \in SUBSET rows /\ shownNext \in SUBSET rows'
        /\ shown \in SUBSET shownNext /\ \A row \in shownNext : row \in rows => row \in shown
    BY <1>1, <1>2 DEF Shown
  <2>2. IsFiniteSet(shownNext)
    <3>1. TableInv'
      BY AddKeepsTable
    <3> QED
      BY <2>1, <3>1, FS_Subset DEF TableInv
  <2>3. new \notin first
    BY <1>1, <1>4 DEF SeenInv
  <2>4. ASSUME NEW row \in first \cap shownNext
        PROVE  row \in seen \/ (page - 1) * Cut(size) <= Place(kind, shownNext, row)
    <3>1. row \in shown
      BY <1>1, <2>1, <2>3
    <3>2. row \in seen \/ (page - 1) * Cut(size) <= Place(kind, shown, row)
      BY <1>4, <3>1 DEF SeenInv
    <3>3. Place(kind, shown, row) <= Place(kind, shownNext, row)
      BY <2>1, <2>2, PlaceKept
    <3>4. IsFiniteSet(shown) /\ IsFiniteSet(shownNext)
      BY <2>1, <2>2, FS_Subset
    <3>5. Place(kind, shown, row) \in Nat /\ Place(kind, shownNext, row) \in Nat
      BY <3>4, AheadFinite
    <3>6. (page - 1) * Cut(size) \in Int
      BY <1>4 DEF SeenInv
    <3> QED
      BY <3>2, <3>3, <3>5, <3>6
  <2>5. \A row \in first : \E o \in rows' :
           /\ o.id = row.id
           /\ kind = "sessions" => row.last \in Nat /\ row.last <= o.last
    BY <1>1, <1>4 DEF SeenInv
  <2> HIDE DEF shown
  <2>6. \A row \in first \cap Shown(asked)' :
           row \in seen \/ (page - 1) * Cut(size) <= Place(kind, Shown(asked)', row)
    BY <2>4
  <2> QED
    BY <1>2, <1>4, <2>5, <2>6 DEF SeenInv, PagesMissNothing, Place, Ahead
<1> QED
  BY <1>3, <1>4

\* A used session is another row from then on, and puts no other ahead.
LEMMA UseKeepsSeen ==
    ASSUME TableInv, SeenInv, UseSession
    PROVE  SeenInv'
<1>1. UNCHANGED <<kind, phase, asked, size, first, page, seen>> /\ kind = "sessions"
  BY UseSessionMoves
<1>2. PICK old \in rows, new \in {SessionRow(at, last) : at \in Moments, last \in Nat} :
         /\ rows' = (rows \ {old}) \cup {new}
         /\ new.at = old.at /\ new.last \in Nat
         /\ \A o \in rows : o.last < new.last
  BY UseSessionMoves
<1>3. phase # "end"
  BY DEF UseSession
<1>4. CASE phase # "pages"
  BY <1>1, <1>3, <1>4 DEF SeenInv, PagesMissNothing
<1>5. CASE phase = "pages"
  <2>1. Shown(asked) = rows /\ Shown(asked)' = rows'
    BY <1>1 DEF Shown
  <2>2. \A o \in rows : o.last \in Nat /\ o.at \in Nat /\ o.id = <<o.at, 0>>
    BY <1>1 DEF TableInv, Apart, SessionRow
  <2>3. new.id = old.id
    BY <1>2, <2>2 DEF SessionRow
  <2>4. \A row \in first : row.last \in Nat /\ \E o \in rows : o.id = row.id /\ row.last <= o.last
    BY <1>1, <1>5 DEF SeenInv
  <2>5. new \notin first /\ new \notin rows
    BY <1>2, <2>2, <2>4
  <2>6. ASSUME NEW row \in first
        PROVE  \E o \in rows' : o.id = row.id /\ row.last <= o.last
    <3>1. PICK o \in rows : o.id = row.id /\ row.last <= o.last
      BY <2>4
    <3>2. CASE o = old
      BY <1>2, <2>2, <2>3, <2>4, <3>1, <3>2
    <3> QED
      BY <1>2, <3>1, <3>2
  <2>7. ASSUME NEW row \in first \cap rows'
        PROVE  row \in seen \/ (page - 1) * Cut(size) <= Place("sessions", rows', row)
    <3>1. row \in rows
      BY <1>2, <2>5
    <3>2. row \in seen \/ (page - 1) * Cut(size) <= Place("sessions", rows, row)
      BY <1>1, <1>5, <2>1, <3>1 DEF SeenInv
    <3>3. IsFiniteSet(rows) /\ IsFiniteSet(rows')
      BY UseKeepsTable DEF TableInv
    <3>4. Place("sessions", rows, row) <= Place("sessions", (rows \ {old}) \cup {new}, row)
      BY <1>2, <2>2, <2>5, <3>1, <3>3, PlaceKeptByUse
    <3>5. Place("sessions", rows, row) \in Nat /\ Place("sessions", rows', row) \in Nat
      BY <3>3, AheadFinite
    <3>6. (page - 1) * Cut(size) \in Int
      BY <1>5 DEF SeenInv
    <3> QED
      BY <1>2, <3>2, <3>4, <3>5, <3>6
  <2> QED
    BY <1>1, <1>5, <2>1, <2>4, <2>6, <2>7 DEF SeenInv, PagesMissNothing, Place, Ahead
<1> QED
  BY <1>4, <1>5

\* At the first page every row is still to come.
LEMMA FirstPageKeepsSeen ==
    ASSUME TableInv, SeenInv, FirstPage
    PROVE  SeenInv'
<1>1. PICK wanted \in Asks, z \in Sizes :
         wanted = asked' /\ z = size' /\ Request(wanted, 1, z)
  BY DEF FirstPage
<1>2. /\ UNCHANGED <<kind, rows>> /\ first' = rows /\ page' = 2
      /\ phase' \in {"pages", "end"} /\ 1 \in Nat \ {0}
  BY <1>1 DEF FirstPage, Request
<1>3. Shown(asked)' = Shown(wanted)
  BY <1>1, <1>2 DEF Shown
<1>4. Cut(z) \in 1..MaxSize
  <2>1. PICK answer : answer \in Answers(wanted, 1, z)
    BY <1>1 DEF Request
  <2> QED
    BY <1>2, <2>1, AnswerIsPage
<1>5. ASSUME NEW row \in Shown(wanted)
      PROVE  row \in seen' \/ (phase' = "pages" /\ Cut(z) <= Place(kind, Shown(wanted), row))
  <2>1. IsFiniteSet(Shown(wanted))
    BY PartLinear DEF Shown
  <2>2. Place(kind, Shown(wanted), row) \in Nat
    BY <2>1, AheadFinite
  <2>3. (1 - 1) * Cut(z) = 0 /\ 1 * Cut(z) = Cut(z)
    BY <1>4, Constants
  <2>4. (1 - 1) * Cut(z) <= Place(kind, Shown(wanted), row)
    BY <2>2, <2>3
  <2> QED
    BY <1>1, <1>2, <2>3, <2>4, RequestSees
<1>6. ASSUME phase' = "pages"
      PROVE  /\ size' \in Sizes /\ Cut(size') \in 1..MaxSize
             /\ \A row \in first' : \E o \in rows' :
                   /\ o.id = row.id
                   /\ kind' = "sessions" => row.last \in Nat /\ row.last <= o.last
             /\ \A row \in first' \cap Shown(asked)' :
                   row \in seen' \/ (page' - 1) * Cut(size') <= Place(kind', Shown(asked)', row)
  <2>1. \A row \in rows : kind = "sessions" => row.last \in Nat /\ row.last <= row.last
    BY DEF TableInv, Apart
  <2>2. (page' - 1) * Cut(size') = Cut(z)
    BY <1>1, <1>2, <1>4, Constants
  <2> QED
    BY <1>1, <1>2, <1>3, <1>4, <1>5, <2>1, <2>2
<1>7. ASSUME phase' = "end", NEW row \in first' \cap rows', Wanted(row)'
      PROVE  row \in seen'
  <2>1. row \in Shown(asked)'
    BY <1>7 DEF Shown, Wanted
  <2> QED
    BY <1>3, <1>5, <1>7, <2>1
<1> QED
  BY <1>2, <1>6, <1>7 DEF SeenInv, PagesMissNothing, Place, Ahead

\* Each page takes the rows at its places.
LEMMA TurnPageKeepsSeen ==
    ASSUME TableInv, SeenInv, TurnPage
    PROVE  SeenInv'
<1>1. /\ phase = "pages" /\ Request(asked, page, size) /\ UNCHANGED <<asked, size, first>>
      /\ page \in Nat \ {0} /\ size \in Sizes /\ Cut(size) \in 1..MaxSize
  BY DEF TurnPage, SeenInv
<1>2. /\ UNCHANGED <<kind, rows>> /\ page' = page + 1 /\ phase' \in {"pages", "end"}
  BY <1>1 DEF Request
<1>3. Shown(asked)' = Shown(asked)
  BY <1>1, <1>2 DEF Shown
<1>4. ASSUME NEW row \in first \cap Shown(asked)
      PROVE  \/ row \in seen'
             \/ phase' = "pages" /\ page * Cut(size) <= Place(kind, Shown(asked), row)
  <2>1. row \in seen \/ (page - 1) * Cut(size) <= Place(kind, Shown(asked), row)
    BY <1>1, <1>4 DEF SeenInv
  <2> QED
    BY <1>1, <1>4, <2>1, RequestSees
<1>5. ASSUME phase' = "pages"
      PROVE  /\ \A row \in first' : \E o \in rows' :
                   /\ o.id = row.id
                   /\ kind' = "sessions" => row.last \in Nat /\ row.last <= o.last
             /\ \A row \in first' \cap Shown(asked)' :
                   row \in seen' \/ (page' - 1) * Cut(size') <= Place(kind', Shown(asked)', row)
  <2>1. (page' - 1) * Cut(size') = page * Cut(size)
    BY <1>1, <1>2
  <2>2. \A row \in first : \E o \in rows :
           /\ o.id = row.id
           /\ kind = "sessions" => row.last \in Nat /\ row.last <= o.last
    BY <1>1 DEF SeenInv
  <2> QED
    BY <1>1, <1>2, <1>3, <1>4, <2>1, <2>2
<1>6. ASSUME phase' = "end", NEW row \in first' \cap rows', Wanted(row)'
      PROVE  row \in seen'
  <2>1. row \in Shown(asked)'
    BY <1>6 DEF Shown, Wanted
  <2> QED
    BY <1>1, <1>3, <1>4, <1>6, <2>1
<1> QED
  BY <1>1, <1>2, <1>5, <1>6 DEF SeenInv, PagesMissNothing, Place, Ahead

\* What is still to come, of every list.
THEOREM SeenInvariance == ListSpec => [](TableInv /\ SeenInv)
<1>1. ListInit => SeenInv
  BY DEF ListInit, SeenInv, PagesMissNothing
<1>2. ASSUME TableInv, SeenInv, [ListNext]_listing
      PROVE  SeenInv'
  <2>1. CASE AddRow
    BY <1>2, <2>1, AddKeepsSeen
  <2>2. CASE UseSession
    BY <1>2, <2>2, UseKeepsSeen
  <2>3. CASE FirstPage
    BY <1>2, <2>3, FirstPageKeepsSeen
  <2>4. CASE TurnPage
    BY <1>2, <2>4, TurnPageKeepsSeen
  <2>5. CASE UNCHANGED listing
    BY <1>2, <2>5 DEF listing, SeenInv, PagesMissNothing, Wanted, Shown, Place, Ahead
  <2> QED
    BY <1>2, <2>1, <2>2, <2>3, <2>4, <2>5 DEF ListNext
<1> QED
  BY <1>1, <1>2, TableInvariance, PTL DEF ListSpec

\* Whoever turns the pages to the end, with any size and any filter, has seen every
\* row asked for that was there at first and did not change, whatever was added and
\* whichever sessions were used meanwhile (LIMIT and OFFSET).
THEOREM NothingMissed == ListSpec => []PagesMissNothing
<1>1. SeenInv => PagesMissNothing
  BY DEF SeenInv
<1> QED
  BY <1>1, SeenInvariance, PTL

-----------------------------------------------------------------------------
(* The history of the status events.                                        *)

\* How far a status is on the way of a task; the ends are as far as it goes.
Height(status) ==
    CASE status = "none" -> 0
      [] status = "pending" -> 1
      [] status = "generating" -> 2
      [] status = "validating" -> 3
      [] status = "awaiting_approval" -> 4
      [] status = "applying" -> 5
      [] OTHER -> 6

Event == [task : Tasks, from : Status \cup {"none"}, to : Status, at : Nat]

\* Every event takes its task further, from where the one before it led or beyond;
\* and a task that has events has a last one.
LogInv ==
    /\ history \in Seq(Event) /\ sample \in Seq(Nat)
    /\ \A i \in DOMAIN history : Height(history[i].from) < Height(history[i].to)
    /\ \A i, j \in DOMAIN history : history[i].task = history[j].task /\ i < j
          => Height(history[i].to) <= Height(history[j].from)
    /\ \A t \in Tasks : Span(history, t) # {} =>
          \E i \in Span(history, t) : \A j \in Span(history, t) : j <= i

\* A status has a height.
LEMMA HeightType == \A s \in Status \cup {"none"} : Height(s) \in 0..6
BY DEF Height, Status

\* The status of a task is as high as any event of it led (StatusOf).
LEMMA StatusIsHighest ==
    ASSUME LogInv, NEW t \in Tasks
    PROVE  /\ StatusOf(t) \in Status \cup {"none"}
           /\ \A i \in Span(history, t) : Height(history[i].to) <= Height(StatusOf(t))
<1>1. CASE Span(history, t) = {}
  BY <1>1 DEF StatusOf
<1>2. CASE Span(history, t) # {}
  <2> DEFINE last == CHOOSE i \in Span(history, t) : \A j \in Span(history, t) : j <= i
  <2>1. last \in Span(history, t) /\ \A j \in Span(history, t) : j <= last
    BY <1>2 DEF LogInv
  <2>2. StatusOf(t) = history[last].to
    BY <1>2 DEF StatusOf
  <2> HIDE DEF last
  <2>3. \A i \in Span(history, t) :
           /\ i \in DOMAIN history /\ i \in Nat /\ history[i].task = t
           /\ history[i] \in Event
    BY DEF Span, LogInv
  <2>4. \A i \in Span(history, t) :
           /\ Height(history[i].to) \in 0..6 /\ Height(history[i].from) \in 0..6
    BY <2>3, HeightType DEF Event
  <2>5. ASSUME NEW i \in Span(history, t)
        PROVE  Height(history[i].to) <= Height(history[last].to)
    <3>1. CASE i = last
      BY <2>4, <3>1
    <3>2. CASE i < last
      <4>1. Height(history[i].to) <= Height(history[last].from)
        BY <2>1, <2>3, <3>2 DEF LogInv
      <4>2. Height(history[last].from) < Height(history[last].to)
        BY <2>1, <2>3 DEF LogInv
      <4> QED
        BY <2>1, <2>4, <4>1, <4>2
    <3> QED
      BY <2>1, <2>3, <3>1, <3>2
  <2> QED
    BY <2>1, <2>2, <2>3, <2>5 DEF Event
<1> QED
  BY <1>1, <1>2

\* A change of status that the service makes takes the task further (CanTransition).
LEMMA ChangeRises ==
    ASSUME NEW from \in Status \cup {"none"}, NEW to \in Status,
           \/ from = "none" /\ to \in {"pending", "awaiting_approval"}
           \/ from \notin {"none", "pending", "failed"} /\ CanTransition(from, to)
           \/ from = "pending" /\ to \in {"generating", "failed"}
    PROVE  Height(from) < Height(to)
BY DEF Height, Status, CanTransition

\* An event is added to those there were.
LEMMA HappenKeeps ==
    ASSUME LogInv, Happen
    PROVE  LogInv'
<1>1. PICK t \in Tasks, to \in Status, later \in 0..1 :
         /\ \/ StatusOf(t) = "none" /\ to \in {"pending", "awaiting_approval"}
            \/ StatusOf(t) \notin {"none", "pending", "failed"} /\ CanTransition(StatusOf(t), to)
            \/ StatusOf(t) = "pending" /\ to \in {"generating", "failed"}
         /\ history' = Append(history, [task |-> t, from |-> StatusOf(t), to |-> to,
                                        at |-> Now + later])
  BY DEF Happen
<1> DEFINE n == Len(history)
           new == [task |-> t, from |-> StatusOf(t), to |-> to, at |-> Now + later]
<1>2. /\ history \in Seq(Event) /\ n \in Nat /\ DOMAIN history = 1..n
      /\ \A i \in 1..n : history[i] \in Event
  BY DEF LogInv
<1>3. Now \in Nat
  BY <1>2 DEF Now, Event
<1>4. StatusOf(t) \in Status \cup {"none"}
  BY StatusIsHighest
<1>5. new \in Event /\ Height(new.from) < Height(new.to)
  <2>1. Height(StatusOf(t)) < Height(to)
    BY <1>1, <1>4, ChangeRises
  <2> QED
    BY <1>3, <1>4, <2>1 DEF Event
<1>6. \A i \in 1..n : history[i].task = t => Height(history[i].to) <= Height(new.from)
  BY <1>2, StatusIsHighest DEF Span
<1>7. new.task = t
  OBVIOUS
<1>8. history' = Append(history, new)
  BY <1>1
<1> HIDE DEF n, new
<1>9. /\ history' \in Seq(Event) /\ DOMAIN history' = 1..n + 1
      /\ \A i \in 1..n : history'[i] = history[i]
      /\ history'[n + 1] = new
  BY <1>2, <1>5, <1>8 DEF n
<1>10. \A i \in DOMAIN history' : Height(history'[i].from) < Height(history'[i].to)
  BY <1>2, <1>5, <1>9 DEF LogInv
<1>11. ASSUME NEW i \in DOMAIN history', NEW j \in DOMAIN history',
              history'[i].task = history'[j].task, i < j
       PROVE  Height(history'[i].to) <= Height(history'[j].from)
  <2>1. CASE j = n + 1
    BY <1>2, <1>6, <1>7, <1>9, <1>11, <2>1
  <2>2. CASE j # n + 1
    <3>1. i \in 1..n /\ j \in 1..n
      BY <1>2, <1>9, <1>11, <2>2
    <3> QED
      BY <1>2, <1>9, <1>11, <3>1 DEF LogInv
  <2> QED
    BY <2>1, <2>2
<1>12. ASSUME NEW s \in Tasks, Span(history', s) # {}
       PROVE  \E i \in Span(history', s) : \A j \in Span(history', s) : j <= i
  <2>1. CASE s = t
    <3>1. n + 1 \in Span(history', s)
      BY <1>2, <1>7, <1>9, <2>1 DEF Span
    <3>2. \A j \in Span(history', s) : j <= n + 1
      BY <1>2, <1>9 DEF Span
    <3> QED
      BY <3>1, <3>2
  <2>2. CASE s # t
    <3>1. Span(history', s) = Span(history, s)
      BY <1>2, <1>7, <1>9, <2>2 DEF Span
    <3> QED
      BY <1>12, <3>1 DEF LogInv
  <2> QED
    BY <2>1, <2>2
<1>13. sample' \in Seq(Nat)
  BY DEF Happen, LogInv
<1> QED
  BY <1>9, <1>10, <1>11, <1>12, <1>13 DEF LogInv

\* The history goes one way, in every state.
LEMMA LogInvariance == LogSpec => []LogInv
<1>1. LogInit => LogInv
  BY DEF LogInit, LogInv, Span
<1>2. ASSUME LogInv, [LogNext]_logging
      PROVE  LogInv'
  <2>1. CASE Happen
    BY <1>2, <2>1, HappenKeeps
  <2>2. CASE Measure
    <3>1. sample' \in Seq(Nat)
      BY <1>2, <2>2, LogAssumption DEF Measure, LogInv
    <3> QED
      BY <1>2, <2>2, <3>1 DEF Measure, LogInv, Span
  <2>3. CASE UNCHANGED logging
    BY <1>2, <2>3 DEF logging, LogInv, Span
  <2> QED
    BY <1>2, <2>1, <2>2, <2>3 DEF LogNext
<1> QED
  BY <1>1, <1>2, PTL DEF LogSpec

-----------------------------------------------------------------------------
(* What is left of the events.                                              *)

\* A task enters or leaves a status once, and ends once.
LEMMA OnceEach ==
    ASSUME LogInv, NEW i \in DOMAIN history, NEW j \in DOMAIN history,
           history[i].task = history[j].task,
           \/ history[i].from = history[j].from
           \/ history[i].to = history[j].to
           \/ {history[i].to, history[j].to} \subseteq {"done", "failed"}
    PROVE  i = j
<1>1. /\ history[i] \in Event /\ history[j] \in Event /\ i \in Nat /\ j \in Nat
  BY DEF LogInv
<1>2. /\ Height(history[i].from) \in 0..6 /\ Height(history[i].to) \in 0..6
      /\ Height(history[j].from) \in 0..6 /\ Height(history[j].to) \in 0..6
  BY <1>1, HeightType DEF Event
<1>3. /\ Height(history[i].from) < Height(history[i].to)
      /\ Height(history[j].from) < Height(history[j].to)
      /\ i < j => Height(history[i].to) <= Height(history[j].from)
      /\ j < i => Height(history[j].to) <= Height(history[i].from)
  BY DEF LogInv
<1>4. Height("done") = Height("failed")
  BY DEF Height
<1>5. \/ Height(history[i].from) = Height(history[j].from)
      \/ Height(history[i].to) = Height(history[j].to)
  BY <1>4
<1> QED
  BY <1>1, <1>2, <1>3, <1>5

\* Of an event that happened once, what is left of the log tells the time or nothing.
LEMMA TimesKept ==
    ASSUME NEW kept \in SUBSET DOMAIN history, NEW events \in SUBSET DOMAIN history,
           DOMAIN history \subseteq Nat,
           \A i, j \in events : i = j,
           NEW left, left \subseteq events \cap kept
    PROVE  /\ FirstAt(Restrict(history, kept), left) \subseteq FirstAt(history, events)
           /\ LastAt(Restrict(history, kept), left) \subseteq LastAt(history, events)
<1>1. \A i \in left : /\ Restrict(history, kept)[i] = history[i]
                      /\ i \in events /\ \A j \in events : i <= j /\ j <= i
  BY DEF Restrict
<1> QED
  BY <1>1 DEF FirstAt, LastAt

\* What is measured between fewer moments is measured between more.
LEMMA BetweenGrows ==
    ASSUME NEW from, NEW to, NEW start, start \subseteq from, NEW end, end \subseteq to
    PROVE  Between(start, end) \subseteq Between(from, to)
BY DEF Between

\* What is left of the log invents no waiting and no dispatch time.
LEMMA LeftMeasures ==
    ASSUME LogInv, NEW kept \in SUBSET DOMAIN history
    PROVE  MeasuresHistory(history, Restrict(history, kept))
<1> DEFINE log == Restrict(history, kept)
<1>1. DOMAIN history \subseteq Nat
  BY DEF LogInv
<1>2. ASSUME NEW t
      PROVE  /\ EnterWait(log, t) \subseteq EnterWait(history, t)
             /\ LeaveWait(log, t) \subseteq LeaveWait(history, t)
             /\ EnterApply(log, t) \subseteq EnterApply(history, t)
             /\ Terminated(log, t) \subseteq Terminated(history, t)
  <2>1. /\ Span(log, t) \subseteq Span(history, t) \cap kept
        /\ Span(history, t) \subseteq DOMAIN history
        /\ \A i \in Span(log, t) : log[i] = history[i]
    BY DEF Span, Restrict
  <2>2. \A i, j \in Span(history, t) :
           (\/ history[i].from = history[j].from
            \/ history[i].to = history[j].to
            \/ {history[i].to, history[j].to} \subseteq {"done", "failed"}) => i = j
    BY OnceEach DEF Span
  <2> DEFINE Into(h, s) == {i \in Span(h, t) : h[i].to = s}
             Out(h) == {i \in Span(h, t) : h[i].from = "awaiting_approval"}
             Ends(h) == {i \in Span(h, t) : h[i].to \in {"done", "failed"}}
  <2>3. ASSUME NEW s
        PROVE  FirstAt(log, Into(log, s)) \subseteq FirstAt(history, Into(history, s))
    <3>1. /\ \A i, j \in Into(history, s) : i = j
          /\ Into(history, s) \in SUBSET DOMAIN history
          /\ Into(log, s) \subseteq Into(history, s) \cap kept
      BY <2>1, <2>2
    <3> QED
      BY <1>1, <3>1, TimesKept
  <2>4. FirstAt(log, Out(log)) \subseteq FirstAt(history, Out(history))
    <3>1. /\ \A i, j \in Out(history) : i = j
          /\ Out(history) \in SUBSET DOMAIN history
          /\ Out(log) \subseteq Out(history) \cap kept
      BY <2>1, <2>2
    <3> QED
      BY <1>1, <3>1, TimesKept
  <2>5. LastAt(log, Ends(log)) \subseteq LastAt(history, Ends(history))
    <3>1. /\ \A i, j \in Ends(history) : i = j
          /\ Ends(history) \in SUBSET DOMAIN history
          /\ Ends(log) \subseteq Ends(history) \cap kept
      BY <2>1, <2>2
    <3> QED
      BY <1>1, <3>1, TimesKept
  <2> QED
    BY <2>3, <2>4, <2>5 DEF EnterWait, LeaveWait, EnterApply, Terminated
<1> HIDE DEF log
<1>3. ASSUME NEW t
      PROVE  /\ Wait(log, t) \subseteq Wait(history, t)
             /\ EnterApply(log, t) # {} => Dispatch(log, t) \subseteq Dispatch(history, t)
  BY <1>2, BetweenGrows DEF Wait, Dispatch
<1> QED
  BY <1>3 DEF MeasuresHistory, log

-----------------------------------------------------------------------------
(* Percentiles.                                                             *)

\* The nearest rank of p50 and p90 is a place of the sample: the first at which that
\* share of the sample is reached (percentile).
LEMMA RankIsNearest ==
    ASSUME NEW n \in Nat \ {0}, NEW p \in {50, 90}
    PROVE  /\ Rank(n, p) \in 1..n
           /\ 100 * Rank(n, p) >= p * n
           /\ 100 * (Rank(n, p) - 1) < p * n
<1>1. CASE p = 50
  BY <1>1 DEF Rank
<1>2. CASE p = 90
  BY <1>2 DEF Rank
<1> QED
  BY <1>1, <1>2

\* How many precede a place of a sample, in ascending order.
LEMMA PlacesOf ==
    ASSUME NEW d \in Seq(Nat)
    PROVE  /\ IsFiniteSet(DOMAIN d) /\ Cardinality(DOMAIN d) = Len(d)
           /\ \A r \in 1..Len(d) : \E i \in DOMAIN d : Cardinality(Shorter(d, i)) = r - 1
<1> DEFINE S == DOMAIN d
           R == {q \in S \X S : d[q[1]] < d[q[2]] \/ (d[q[1]] = d[q[2]] /\ q[1] < q[2])}
<1>1. S = 1..Len(d) /\ Len(d) \in Nat /\ \A i \in S : d[i] \in Nat
  OBVIOUS
<1>2. IsFiniteSet(S) /\ Cardinality(S) = Len(d)
  <2> DEFINE n == Len(d)
  <2>1. S = 1..n /\ n \in Nat
    BY <1>1
  <2> HIDE DEF n
  <2>2. IsFiniteSet(1..n) /\ Cardinality(1..n) = n
    BY <2>1, FS_Interval
  <2> QED
    BY <2>1, <2>2 DEF n
<1>3. \A i, j \in S : <<i, j>> \in R <=> d[i] < d[j] \/ (d[i] = d[j] /\ i < j)
  OBVIOUS
<1>4. \A i \in S : Shorter(d, i) = Preceding(S, R, i)
  BY <1>3 DEF Shorter, Preceding
<1> HIDE DEF R
<1>5. StrictOrder(S, R)
  <2>1. \A a, b, c \in S : <<a, b>> \in R /\ <<b, c>> \in R => <<a, c>> \in R
    BY <1>1, <1>3
  <2>2. ASSUME NEW a \in S, NEW b \in S, a # b
        PROVE  <<a, b>> \in R \/ <<b, a>> \in R
    <3>1. /\ a \in Nat /\ b \in Nat /\ d[a] \in Nat /\ d[b] \in Nat
      BY <1>1
    <3>2. a < b \/ b < a
      BY <2>2, <3>1
    <3> QED
      BY <1>3, <3>1, <3>2
  <2>3. \A a \in S : <<a, a>> \notin R
    BY <1>1, <1>3
  <2> QED
    BY <2>1, <2>2, <2>3 DEF StrictOrder
<1>6. \A r \in 0..Len(d) - 1 : \E i \in S : RankIn(S, R, i) = r
  BY <1>2, <1>5, RanksTaken
<1>7. ASSUME NEW r \in 1..Len(d)
      PROVE  \E i \in S : Cardinality(Shorter(d, i)) = r - 1
  <2>1. r - 1 \in 0..Len(d) - 1
    BY <1>1
  <2> QED
    BY <1>4, <1>6, <2>1 DEF RankIn
<1> QED
  BY <1>2, <1>7

\* The value at the nearest rank is the percentile.
LEMMA PercentileIsNearest ==
    ASSUME NEW d \in Seq(Nat), DOMAIN d # {}, NEW p \in {50, 90}
    PROVE  IsNearestRank(d, p, Percentile(d, p))
<1> DEFINE n == Len(d)
           r == Rank(n, p)
           i == CHOOSE k \in DOMAIN d : Cardinality(Shorter(d, k)) = r - 1
           m == p * n
           UpTo(x) == {k \in DOMAIN d : d[k] <= x}
<1>1. /\ DOMAIN d = 1..n /\ n \in Nat \ {0} /\ \A k \in DOMAIN d : d[k] \in Nat
      /\ IsFiniteSet(DOMAIN d) /\ Cardinality(DOMAIN d) = n
  BY PlacesOf
<1>2. r \in 1..n /\ 100 * r >= m /\ 100 * (r - 1) < m /\ m \in Int
  <2>1. n \in Nat \ {0}
    BY <1>1
  <2> HIDE DEF n
  <2>2. /\ Rank(n, p) \in 1..n /\ 100 * Rank(n, p) >= p * n
        /\ 100 * (Rank(n, p) - 1) < p * n
    BY <2>1, RankIsNearest, Zenon
  <2>3. p * n \in Int
    BY <2>1
  <2> QED
    BY <2>2, <2>3
<1>3. i \in DOMAIN d /\ Cardinality(Shorter(d, i)) = r - 1
  <2>1. \E k \in DOMAIN d : Cardinality(Shorter(d, k)) = r - 1
    BY <1>2, PlacesOf
  <2> QED
    BY <2>1
<1>4. Percentile(d, p) = d[i]
  <2>1. Percentile(d, p) = Ascending(d)[r]
    BY <1>1 DEF Percentile
  <2> HIDE DEF r
  <2>2. Ascending(d)[r] = d[i]
    BY <1>1, <1>2 DEF Ascending
  <2> QED
    BY <2>1, <2>2
<1>m. m = p * Cardinality(DOMAIN d)
  BY <1>1
<1> HIDE DEF i, r, n, m
<1>5. ASSUME NEW x
      PROVE  IsFiniteSet(UpTo(x)) /\ Cardinality(UpTo(x)) \in Nat
  <2>1. UpTo(x) \in SUBSET DOMAIN d
    OBVIOUS
  <2> HIDE DEF UpTo
  <2> QED
    BY <1>1, <2>1, FS_Subset, FS_CardinalityType
<1>6. i \notin Shorter(d, i) /\ Shorter(d, i) \cup {i} \subseteq UpTo(d[i])
  BY <1>1, <1>3 DEF Shorter
<1>7. Cardinality(UpTo(d[i])) >= r
  <2>1. Shorter(d, i) \in SUBSET DOMAIN d
    BY DEF Shorter
  <2>2. IsFiniteSet(Shorter(d, i))
    BY <1>1, <2>1, FS_Subset
  <2>3. Cardinality(Shorter(d, i) \cup {i}) = Cardinality(Shorter(d, i)) + 1
    BY <1>6, <2>2, FS_AddElement
  <2> HIDE DEF UpTo
  <2>4. Cardinality(Shorter(d, i) \cup {i}) <= Cardinality(UpTo(d[i]))
    BY <1>5, <1>6, FS_Subset
  <2>5. Cardinality(Shorter(d, i) \cup {i}) = r
    BY <1>1, <1>2, <1>3, <2>3
  <2> QED
    BY <1>1, <1>2, <1>5, <2>4, <2>5
<1>8. ASSUME NEW x \in Nat, x < d[i]
      PROVE  Cardinality(UpTo(x)) <= r - 1
  <2>1. UpTo(x) \in SUBSET Shorter(d, i)
    BY <1>1, <1>3, <1>8 DEF Shorter
  <2>2. Shorter(d, i) \in SUBSET DOMAIN d
    BY DEF Shorter
  <2>3. IsFiniteSet(Shorter(d, i))
    BY <1>1, <2>2, FS_Subset
  <2> HIDE DEF UpTo
  <2> QED
    BY <1>3, <2>1, <2>3, FS_Subset
<1>9. ASSUME NEW x \in Nat, 100 * Cardinality(UpTo(x)) >= m
      PROVE  d[i] <= x
  <2> HIDE DEF UpTo
  <2>1. Cardinality(UpTo(x)) > r - 1
    BY <1>1, <1>2, <1>5, <1>9
  <2>2. d[i] \in Nat
    BY <1>1, <1>3
  <2>3. ~(x < d[i])
    BY <1>1, <1>2, <1>5, <1>8, <2>1
  <2> QED
    BY <2>2, <2>3
<1>10. 100 * Cardinality(UpTo(d[i])) >= m
  <2> HIDE DEF UpTo
  <2> QED
    BY <1>1, <1>2, <1>5, <1>7
<1>11. Range(d) \subseteq Nat /\ d[i] \in Range(d)
  BY <1>1, <1>3 DEF Range
<1> DEFINE Enough == {x \in Range(d) : 100 * Cardinality(UpTo(x)) >= m}
<1>12. d[i] \in Enough /\ \A x \in Enough : d[i] <= x
  <2> HIDE DEF UpTo
  <2> QED
    BY <1>9, <1>10, <1>11
<1>13. IsNearestRank(d, p, d[i]) <=> d[i] \in Enough /\ \A x \in Enough : d[i] <= x
  BY <1>m DEF IsNearestRank
<1> QED
  BY <1>4, <1>12, <1>13

\* Whatever the service's tasks went through, whichever of their status events the window
\* or a failed write left out, and whatever sample of durations is summarized: no waiting
\* and no dispatch time is invented, and p50 and p90 are nearest ranks (computeOpsStats).
THEOREM FiguresMeasured == LogSpec => []FiguresAreMeasured
<1>1. ASSUME LogInv
      PROVE  FiguresAreMeasured
  <2>1. \A kept \in SUBSET DOMAIN history : MeasuresHistory(history, Restrict(history, kept))
    BY <1>1, LeftMeasures
  <2>2. PercentilesAreRanks(sample)
    BY <1>1, PercentileIsNearest DEF LogInv, PercentilesAreRanks, Summarize
  <2> QED
    BY <2>1, <2>2 DEF FiguresAreMeasured
<1> QED
  BY <1>1, LogInvariance, PTL
=============================================================================
