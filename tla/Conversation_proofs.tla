------------------------- MODULE Conversation_proofs -------------------------
(***************************************************************************)
(* Proofs about Conversation for every set of sessions and turns, every    *)
(* history and every page size.                                            *)
(***************************************************************************)
EXTENDS Conversation, FiniteSetTheorems, TLAPS

-----------------------------------------------------------------------------
(* Lists of ids.                                                            *)

\* The sets of ids are finite.
LEMMA FiniteIds ==
    ASSUME NEW n \in Nat, NEW ids \in SUBSET (1 .. n)
    PROVE  IsFiniteSet(ids) /\ Cardinality(ids) \in Nat
<1>1. IsFiniteSet(1 .. n)
  BY FS_Interval
<1>2. IsFiniteSet(ids)
  BY <1>1, FS_Subset
<1> QED
  BY <1>2, FS_CardinalityType

\* The number of smaller ids orders the ids as they are ordered.
LEMMA RankGrows ==
    ASSUME NEW n \in Nat, NEW ids \in SUBSET (1 .. n), NEW i \in ids
    PROVE  /\ Cardinality({j \in ids : j < i}) \in 0 .. Cardinality(ids) - 1
           /\ \A k \in ids : i < k =>
                Cardinality({j \in ids : j < i}) < Cardinality({j \in ids : j < k})
<1> DEFINE Below(k) == {j \in ids : j < k}
<1>1. IsFiniteSet(ids) /\ Cardinality(ids) \in Nat
  BY FiniteIds
<1>2. ASSUME NEW k \in ids
      PROVE  IsFiniteSet(Below(k)) /\ Cardinality(Below(k)) \in Nat
  <2>1. Below(k) \in SUBSET (1 .. n)
    OBVIOUS
  <2> QED
    BY <2>1, FiniteIds
<1>3. Cardinality(Below(i)) < Cardinality(ids)
  <2>1. Below(i) \in SUBSET ids /\ i \notin Below(i)
    OBVIOUS
  <2>2. Below(i) # ids
    BY <2>1, Zenon
  <2>3. Cardinality(Below(i)) <= Cardinality(ids) /\ Cardinality(Below(i)) # Cardinality(ids)
    BY <1>1, <2>1, <2>2, FS_Subset
  <2> QED
    BY <1>1, <1>2, <2>3
<1>4. ASSUME NEW k \in ids, i < k
      PROVE  Cardinality(Below(i)) < Cardinality(Below(k))
  <2>1. Below(i) \subseteq Below(k) /\ i \in Below(k) /\ i \notin Below(i)
    <3>1. i \in Int /\ k \in Int /\ \A j \in ids : j \in Int
      OBVIOUS
    <3>2. \A j \in ids : j < i => j < k
      BY <1>4, <3>1
    <3>3. ~(i < i)
      BY <3>1
    <3> QED
      BY <1>4, <3>2, <3>3, Zenon
  <2>2. Below(i) # Below(k)
    BY <2>1, Zenon
  <2>3. /\ Cardinality(Below(i)) <= Cardinality(Below(k))
        /\ Cardinality(Below(i)) # Cardinality(Below(k))
    BY <1>2, <2>1, <2>2, FS_Subset
  <2> QED
    BY <1>2, <2>3
<1> QED
  BY <1>1, <1>2, <1>3, <1>4

\* Ascending lists each id of a set once, the smaller one first.
LEMMA AscendingLists ==
    ASSUME NEW n \in Nat, NEW ids \in SUBSET (1 .. n)
    PROVE  /\ Ascending(ids) \in Seq(1 .. n)
           /\ Len(Ascending(ids)) = Cardinality(ids)
           /\ \A k \in 1 .. Cardinality(ids) : Ascending(ids)[k] \in ids
           /\ \A i \in ids : \E k \in 1 .. Cardinality(ids) : Ascending(ids)[k] = i
           /\ \A k, l \in 1 .. Cardinality(ids) :
                k < l => Ascending(ids)[k] < Ascending(ids)[l]
<1> DEFINE Rank(i) == Cardinality({j \in ids : j < i})
           size == Cardinality(ids)
           rank == [i \in ids |-> Rank(i)]
           seq == Ascending(ids)
<1>1. IsFiniteSet(ids) /\ size \in Nat
  BY FiniteIds
<1>2. \A i \in ids : Rank(i) \in 0 .. size - 1
  BY RankGrows
<1>3. \A i, k \in ids : i < k => Rank(i) < Rank(k)
  BY RankGrows
<1> HIDE DEF Rank, size
<1>4. rank \in [ids -> 0 .. size - 1] /\ \A i \in ids : rank[i] = Rank(i)
  BY <1>2
<1>5. rank \in Injection(ids, 0 .. size - 1)
  <2>1. ASSUME NEW i \in ids, NEW k \in ids, Rank(i) = Rank(k)
        PROVE  i = k
    <3>1. i \in Int /\ k \in Int /\ Rank(i) \in Int /\ Rank(k) \in Int
      BY <1>1, <1>2
    <3>2. ~(i < k) /\ ~(k < i)
      BY <1>3, <2>1, <3>1
    <3> QED
      BY <3>1, <3>2
  <2> QED
    BY <1>4, <2>1 DEF Injection, IsInjective
<1>6. rank \in Surjection(ids, 0 .. size - 1)
  <2>1. IsFiniteSet(0 .. size - 1) /\ Cardinality(0 .. size - 1) = size
    BY <1>1, FS_Interval
  <2>2. Cardinality(ids) = Cardinality(0 .. size - 1)
    BY <2>1 DEF size
  <2> HIDE DEF rank
  <2> QED
    BY <1>5, <2>1, <2>2, FS_Injection
<1>7. \A r \in 0 .. size - 1 : \E i \in ids : Rank(i) = r
  BY <1>4, <1>6 DEF Surjection
<1>8. seq = [k \in 1 .. size |-> CHOOSE i \in ids : Rank(i) = k - 1]
  BY Zenon DEF Ascending, Rank, size
<1> HIDE DEF seq
<1>9. ASSUME NEW k \in 1 .. size
      PROVE  seq[k] \in ids /\ Rank(seq[k]) = k - 1
  <2>1. k - 1 \in 0 .. size - 1
    BY <1>1
  <2>2. \E i \in ids : Rank(i) = k - 1
    BY <1>7, <2>1
  <2>3. seq[k] = CHOOSE i \in ids : Rank(i) = k - 1
    BY <1>8
  <2> QED
    BY <2>2, <2>3, Zenon
<1>10. \A i \in ids : \E k \in 1 .. size : seq[k] = i
  <2> SUFFICES ASSUME NEW i \in ids
               PROVE  \E k \in 1 .. size : seq[k] = i
    OBVIOUS
  <2>1. Rank(i) + 1 \in 1 .. size /\ Rank(i) \in Int
    BY <1>1, <1>2
  <2>2. seq[Rank(i) + 1] \in ids /\ Rank(seq[Rank(i) + 1]) = Rank(i)
    BY <1>9, <2>1
  <2>3. rank[seq[Rank(i) + 1]] = rank[i]
    BY <1>4, <2>2
  <2>4. seq[Rank(i) + 1] = i
    BY <1>4, <1>5, <2>2, <2>3, Zenon DEF Injection, IsInjective
  <2> QED
    BY <2>1, <2>4
<1>11. \A k, l \in 1 .. size : k < l => seq[k] < seq[l]
  <2> SUFFICES ASSUME NEW k \in 1 .. size, NEW l \in 1 .. size, k < l
               PROVE  seq[k] < seq[l]
    OBVIOUS
  <2>1. seq[k] \in ids /\ Rank(seq[k]) = k - 1 /\ seq[l] \in ids /\ Rank(seq[l]) = l - 1
    BY <1>9
  <2>2. seq[k] \in Int /\ seq[l] \in Int
    <3>1. \A i \in ids : i \in Int
      OBVIOUS
    <3> QED
      BY <2>1, <3>1, Zenon
  <2>4. k - 1 < l - 1
    BY <1>1
  <2>3. ~(seq[l] < seq[k]) /\ seq[k] # seq[l]
    BY <1>1, <1>3, <2>1, <2>2, <2>4
  <2> QED
    BY <2>2, <2>3
<1>12. seq \in Seq(1 .. n) /\ Len(seq) = size
  <2>1. \A k \in 1 .. size : seq[k] \in 1 .. n
    BY <1>9
  <2>2. seq = [k \in 1 .. size |-> seq[k]]
    BY <1>8
  <2>3. seq \in [1 .. size -> 1 .. n]
    BY <2>1, <2>2
  <2> QED
    BY <1>1, <2>3
<1> QED
  BY <1>9, <1>10, <1>11, <1>12 DEF seq, size

-----------------------------------------------------------------------------
(* The types of the variables.                                              *)

Stored == [session : Session, role : {"user", "assistant"}, turn : Turn \cup {None}]
Turns == [pc : {"idle", "resolve", "append", "model", "reply", "update", "end"},
          session : Session \cup {None}, prompt : Seq(Nat),
          answer : {"none", "error", "notice", "reply"}]
Results == [items : Seq(Nat), total : Nat, known : BOOLEAN]
Fetches == [pc : {"no", "sent", "counted", "read"}, items : Seq(Nat), total : Nat]
Loads == [session : Session \cup {None}, cursor : Nat, served : BOOLEAN, items : Seq(Nat)]
Closures == [waits : BOOLEAN, session : Session \cup {None}]

ServerType ==
    /\ messages \in Seq(Stored)
    /\ sessions \subseteq Session
    /\ runs \in [Turn -> {"none", "running", "done", "failed"}]
    /\ turn \in [Turn -> Turns]
    /\ \A t \in Turn : turn[t].session \in sessions \cup {None}

PageType ==
    /\ current \in sessions \cup {None}
    /\ older \in Seq(Nat)
    /\ cache \in [Session -> Results]
    /\ fetch \in [Session -> Fetches]
    /\ load \in Loads
    /\ chat \in Turn \cup {None}
    /\ closure \in Closures
    /\ swapped \in BOOLEAN
    /\ switches \in Nat /\ faults \in Nat

\* The first values of the records.
LEMMA Empty ==
    /\ NoTurn \in Turns
    /\ NoResult \in Results
    /\ NoFetch \in Fetches
    /\ [NoFetch EXCEPT !.pc = "sent"] \in Fetches
    /\ NoLoad \in Loads
    /\ NoClosure \in Closures
<1>1. <<>> \in Seq(Nat)
  OBVIOUS
<1>2. NoTurn \in Turns
  BY <1>1 DEF NoTurn, Turns
<1>3. NoResult \in Results
  BY <1>1 DEF NoResult, Results
<1>4. NoFetch \in Fetches
  BY <1>1 DEF NoFetch, Fetches
<1>5. [NoFetch EXCEPT !.pc = "sent"] \in Fetches
  BY <1>4 DEF Fetches
<1>6. NoLoad \in Loads
  BY <1>1 DEF NoLoad, Loads
<1>7. NoClosure \in Closures
  BY DEF NoClosure, Closures
<1> QED
  BY <1>2, <1>3, <1>4, <1>5, <1>6, <1>7

\* What the assumption says of each constant.
LEMMA Constants ==
    /\ History \in Seq(Stored)
    /\ \A i \in DOMAIN History : History[i].turn = None
    /\ Limit \in Nat \ {0} /\ PromptLimit \in Nat \ {0}
    /\ None \notin Session /\ None \notin Turn
<1> DEFINE Old == [session : Session, role : {"user", "assistant"}, turn : {None}]
<1>1. /\ History \in Seq(Old)
      /\ {Limit, PromptLimit} \subseteq Nat \ {0}
      /\ None \notin Session \cup Turn
  BY Zenon, ConversationAssumption
<1> HIDE DEF Old
<1>2. \A i \in DOMAIN History : History[i] \in Old
  BY <1>1
<1>3. \A x : x \in Old => x \in Stored /\ x.turn = None
  BY DEF Old, Stored
<1>4. History \in Seq(Stored)
  <2>1. Len(History) \in Nat /\ DOMAIN History = 1 .. Len(History)
    BY <1>1
  <2>2. \A i \in 1 .. Len(History) : History[i] \in Stored
    BY <1>2, <1>3, <2>1
  <2>3. History = [i \in 1 .. Len(History) |-> History[i]]
    BY <1>1
  <2> HIDE DEF Stored
  <2> QED
    BY <2>1, <2>2, <2>3
<1> QED
  BY <1>1, <1>2, <1>3, <1>4

\* The types hold at the start.
LEMMA TypeInit == Init => ServerType /\ PageType
<1> SUFFICES ASSUME Init
             PROVE  ServerType /\ PageType
  OBVIOUS
<1>1. messages \in Seq(Stored)
  BY Constants, Zenon DEF Init
<1>2. sessions \subseteq Session
  <2>1. \A i \in DOMAIN messages : messages[i] \in Stored
    BY <1>1
  <2>2. \A i \in DOMAIN messages : messages[i].session \in Session
    BY <2>1 DEF Stored
  <2>3. sessions = {messages[i].session : i \in DOMAIN messages}
    BY Zenon DEF Init
  <2> QED
    BY <2>2, <2>3
<1>3. /\ runs \in [Turn -> {"none", "running", "done", "failed"}]
      /\ turn \in [Turn -> Turns]
      /\ \A t \in Turn : turn[t].session \in sessions \cup {None}
  BY Empty DEF Init, NoTurn
<1>4. ServerType
  BY <1>1, <1>2, <1>3 DEF ServerType
<1>5. fetch \in [Session -> Fetches]
  <2> DEFINE sent == [NoFetch EXCEPT !.pc = "sent"]
  <2>1. fetch = [s \in Session |-> IF s = current THEN sent ELSE NoFetch]
    BY DEF Init
  <2>2. sent \in Fetches /\ NoFetch \in Fetches
    BY Empty
  <2> HIDE DEF sent
  <2> QED
    BY <2>1, <2>2
<1>6. PageType
  <2>1. cache \in [Session -> Results] /\ load \in Loads /\ closure \in Closures
    BY Empty, Zenon DEF Init
  <2>4. <<>> \in Seq(Nat)
    OBVIOUS
  <2>2. older \in Seq(Nat) /\ chat \in Turn \cup {None} /\ swapped \in BOOLEAN
    BY <2>4, Zenon DEF Init
  <2>3. switches \in Nat /\ faults \in Nat /\ current \in sessions \cup {None}
    BY DEF Init
  <2> QED
    BY <1>5, <2>1, <2>2, <2>3 DEF PageType
<1> QED
  BY <1>4, <1>6

\* A message more, or none.
Grows == messages' = messages \/ \E m \in Stored : messages' = Append(messages, m)

\* A step of one turn's handler: what the others hold stays, and the page sees
\* nothing of it but new messages and sessions.
TurnStep(t, q) ==
    /\ q \in Turns
    /\ turn' = [turn EXCEPT ![t] = q]
    /\ q.session \in sessions' \cup {None}
    /\ sessions \subseteq sessions'
    /\ sessions' \subseteq Session
    /\ runs' \in [Turn -> {"none", "running", "done", "failed"}]

\* A turn's step keeps the types of the server.
LEMMA TurnStepType ==
    ASSUME ServerType, NEW t \in Turn, NEW q, TurnStep(t, q), Grows
    PROVE  ServerType'
<1>1. messages' \in Seq(Stored)
  BY DEF Grows, ServerType
<1>2. turn' \in [Turn -> Turns]
  BY DEF TurnStep, ServerType
<1>3. \A u \in Turn : turn'[u].session \in sessions' \cup {None}
  BY DEF TurnStep, ServerType
<1> QED
  BY <1>1, <1>2, <1>3 DEF TurnStep, ServerType

\* The statements that count faults.
LEMMA FaultsCount ==
    ASSUME faults \in Nat, Ok \/ Fails
    PROVE  faults' \in Nat
BY DEF Ok, Fails

-----------------------------------------------------------------------------
(* The steps of a turn's handler, as what becomes of its local state.       *)

\* The last ids of a list are a stretch of it.
LEMMA RecentList ==
    ASSUME NEW N \in Nat, NEW seq \in Seq(1 .. N), NEW n \in Nat \ {0}
    PROVE  /\ Recent(seq, n) \in Seq(1 .. N)
           /\ Len(Recent(seq, n)) <= n
           /\ \E from \in Nat : \A i \in DOMAIN Recent(seq, n) :
                 i + from \in DOMAIN seq /\ Recent(seq, n)[i] = seq[i + from]
<1> DEFINE m == IF Len(seq) > n THEN Len(seq) - n + 1 ELSE 1
           r == SubSeq(seq, m, Len(seq))
<1>1. Len(seq) \in Nat /\ DOMAIN seq = 1 .. Len(seq)
  OBVIOUS
<1>2. m \in Nat /\ m >= 1 /\ Len(seq) - m + 1 \in Nat /\ Len(seq) - m + 1 <= n
  BY <1>1
<1>3. Recent(seq, n) = r
  BY DEF Recent
<1> HIDE DEF m
<1>4. \A i \in 1 .. Len(seq) - m + 1 : i + (m - 1) \in DOMAIN seq /\ i + m - 1 = i + (m - 1)
  BY <1>1, <1>2
<1>5. r \in Seq(1 .. N) /\ Len(r) = Len(seq) - m + 1
  BY <1>1, <1>2
<1>6. \A i \in 1 .. Len(seq) - m + 1 : r[i] = seq[i + m - 1]
  BY <1>1, <1>2
<1> HIDE DEF r
<1>7. DOMAIN r = 1 .. Len(seq) - m + 1 /\ m - 1 \in Nat
  BY <1>2, <1>5
<1> QED
  BY <1>2, <1>3, <1>4, <1>5, <1>6, <1>7

\* A session's messages are ids of the table.
LEMMA IdsStored ==
    ASSUME messages \in Seq(Stored), NEW s
    PROVE  Len(messages) \in Nat /\ Ids(s) \in SUBSET (1 .. Len(messages))
BY DEF Ids

\* resolveSession.
LEMMA ResolveStep ==
    ASSUME ServerType, NEW t \in Turn, ResolveSession(t)
    PROVE  \E q \in Turns :
              /\ TurnStep(t, q) /\ UNCHANGED <<messages, runs>>
              /\ turn[t].pc = "resolve"
              /\ \/ /\ Ok /\ q.pc = "append" /\ q.answer = turn[t].answer
                    /\ turn[t].session = None /\ q.session # None
                    /\ q.prompt = turn[t].prompt
                 \/ /\ Ok /\ q.pc = "append" /\ q.answer = turn[t].answer
                    /\ q.session # None
                    /\ q.prompt = Recent(Ascending(Ids(q.session)), PromptLimit)
                 \/ /\ Fails /\ q.pc = "end" /\ q.answer = "error"
                    /\ q.prompt = turn[t].prompt
<1> DEFINE old == turn[t]
<1>1. old \in Turns /\ old.session \in sessions \cup {None}
  BY DEF ServerType
<1>2. old.pc = "resolve" /\ UNCHANGED <<messages, runs>>
  BY DEF ResolveSession, At
<1>3. /\ runs' \in [Turn -> {"none", "running", "done", "failed"}]
      /\ sessions \subseteq Session /\ turn \in [Turn -> Turns]
      /\ messages \in Seq(Stored)
  BY <1>2 DEF ServerType
<1>4. ASSUME NEW s \in Session \ sessions, Ok, old.session = None, sessions' = sessions \cup {s},
             turn' = [turn EXCEPT ![t].pc = "append", ![t].session = s]
      PROVE  \E q \in Turns :
                /\ TurnStep(t, q)
                /\ q.pc = "append" /\ q.answer = old.answer
                /\ q.session # None
                /\ q.prompt = old.prompt
  <2> DEFINE q == [old EXCEPT !.pc = "append", !.session = s]
  <2>1. turn' = [turn EXCEPT ![t] = q]
    BY <1>3, <1>4
  <2>2. /\ q \in Turns /\ q.pc = "append" /\ q.answer = old.answer
        /\ q.session = s /\ q.prompt = old.prompt
    BY <1>1 DEF Turns
  <2> HIDE DEF q, old
  <2>3. s # None /\ s \in sessions' /\ sessions \subseteq sessions' /\ sessions' \subseteq Session
    BY <1>3, <1>4, Constants
  <2> QED
    BY <1>3, <2>1, <2>2, <2>3 DEF TurnStep
<1>5. ASSUME Ok, old.session # None, UNCHANGED sessions,
             turn' = [turn EXCEPT ![t].pc = "append",
                          ![t].prompt = Recent(Ascending(Ids(turn[t].session)), PromptLimit)]
      PROVE  \E q \in Turns :
                /\ TurnStep(t, q)
                /\ q.pc = "append" /\ q.answer = old.answer
                /\ q.session # None
                /\ q.prompt = Recent(Ascending(Ids(q.session)), PromptLimit)
  <2> DEFINE recent == Recent(Ascending(Ids(turn[t].session)), PromptLimit)
             q == [old EXCEPT !.pc = "append", !.prompt = recent]
  <2>1. turn' = [turn EXCEPT ![t] = q]
    BY <1>3, <1>5
  <2>2. recent \in Seq(Nat)
    <3>1. recent \in Seq(1 .. Len(messages)) /\ Len(messages) \in Nat
      BY <1>3, IdsStored, AscendingLists, RecentList, Constants
    <3> HIDE DEF recent
    <3> QED
      BY <3>1
  <2>3. recent = Recent(Ascending(Ids(old.session)), PromptLimit)
    OBVIOUS
  <2> HIDE DEF recent
  <2>4. /\ q \in Turns /\ q.pc = "append" /\ q.answer = old.answer
        /\ q.session = old.session /\ q.prompt = recent
    BY <1>1, <2>2 DEF Turns
  <2> HIDE DEF q, old
  <2> QED
    BY <1>1, <1>3, <1>5, <2>1, <2>3, <2>4 DEF TurnStep
<1>6. ASSUME Fails, Return(t, "error"), UNCHANGED sessions
      PROVE  \E q \in Turns :
                /\ TurnStep(t, q)
                /\ q.pc = "end" /\ q.answer = "error"
                /\ q.prompt = old.prompt
  <2> DEFINE q == [old EXCEPT !.pc = "end", !.answer = "error"]
  <2>1. turn' = [turn EXCEPT ![t] = q]
    BY <1>3, <1>6 DEF Return
  <2>2. /\ q \in Turns /\ q.pc = "end" /\ q.answer = "error"
        /\ q.session = old.session /\ q.prompt = old.prompt
    BY <1>1 DEF Turns
  <2> HIDE DEF q, old
  <2> QED
    BY <1>1, <1>3, <1>6, <2>1, <2>2 DEF TurnStep
<1>7. CASE /\ Ok /\ old.session = None
           /\ \E s \in Session \ sessions :
                 /\ sessions' = sessions \cup {s}
                 /\ turn' = [turn EXCEPT ![t].pc = "append", ![t].session = s]
  BY <1>2, <1>4, <1>7
<1>8. CASE /\ Ok /\ old.session # None /\ UNCHANGED sessions
           /\ turn' = [turn EXCEPT ![t].pc = "append",
                           ![t].prompt = Recent(Ascending(Ids(turn[t].session)), PromptLimit)]
  BY <1>2, <1>5, <1>8
<1>9. CASE Fails /\ Return(t, "error") /\ UNCHANGED sessions
  BY <1>2, <1>6, <1>9
<1> QED
  BY <1>7, <1>8, <1>9, Zenon DEF ResolveSession

\* The question is stored and put behind the history, or the turn ends.
LEMMA AppendStep ==
    ASSUME ServerType, NEW t \in Turn, AppendQuestion(t)
    PROVE  \E q \in Turns :
              /\ TurnStep(t, q) /\ q.session = turn[t].session
              /\ turn[t].pc = "append"
              /\ \/ /\ Ok /\ q.pc = "model" /\ q.answer = turn[t].answer
                    /\ q.prompt = Append(turn[t].prompt, Len(messages) + 1)
                    /\ messages' = Append(messages, Message(t, "user"))
                    /\ runs' = [runs EXCEPT ![t] = "running"]
                 \/ /\ Fails /\ q.pc = "end" /\ q.answer = "error"
                    /\ q.prompt = turn[t].prompt
                    /\ UNCHANGED runs
                    /\ \/ UNCHANGED messages
                       \/ messages' = Append(messages, Message(t, "user"))
<1> DEFINE old == turn[t]
<1>1. old \in Turns /\ old.session \in sessions \cup {None} /\ turn \in [Turn -> Turns]
  BY DEF ServerType
<1>2. old.pc = "append" /\ UNCHANGED sessions /\ sessions \subseteq Session
  BY DEF AppendQuestion, At, ServerType
<1>3. runs \in [Turn -> {"none", "running", "done", "failed"}] /\ messages \in Seq(Stored)
  BY DEF ServerType
<1>4. ASSUME Ok, messages' = Append(messages, Message(t, "user")),
             runs' = [runs EXCEPT ![t] = "running"],
             turn' = [turn EXCEPT ![t].pc = "model", ![t].prompt = Append(@, Len(messages) + 1)]
      PROVE  \E q \in Turns :
                /\ TurnStep(t, q) /\ q.session = old.session
                /\ q.pc = "model" /\ q.answer = old.answer
                /\ q.prompt = Append(old.prompt, Len(messages) + 1)
  <2> DEFINE id == Len(messages) + 1
             prompt == Append(old.prompt, id)
             q == [old EXCEPT !.pc = "model", !.prompt = prompt]
  <2>1. turn' = [turn EXCEPT ![t] = q]
    BY <1>1, <1>4
  <2>2. prompt \in Seq(Nat)
    <3>1. id \in Nat
      BY <1>3
    <3>2. old.prompt \in Seq(Nat)
      BY <1>1 DEF Turns
    <3> HIDE DEF id
    <3> QED
      BY <3>1, <3>2
  <2>3. prompt = Append(old.prompt, Len(messages) + 1)
    OBVIOUS
  <2> HIDE DEF prompt
  <2>4. /\ q \in Turns /\ q.pc = "model" /\ q.answer = old.answer
        /\ q.session = old.session /\ q.prompt = prompt
    BY <1>1, <2>2 DEF Turns
  <2>5. runs' \in [Turn -> {"none", "running", "done", "failed"}]
    BY <1>3, <1>4
  <2> HIDE DEF q, old
  <2> QED
    BY <1>1, <1>2, <2>1, <2>3, <2>4, <2>5 DEF TurnStep
<1>5. ASSUME Return(t, "error"), UNCHANGED runs
      PROVE  \E q \in Turns :
                /\ TurnStep(t, q) /\ q.session = old.session
                /\ q.pc = "end" /\ q.answer = "error" /\ q.prompt = old.prompt
  <2> DEFINE q == [old EXCEPT !.pc = "end", !.answer = "error"]
  <2>1. turn' = [turn EXCEPT ![t] = q]
    BY <1>1, <1>5 DEF Return
  <2>2. /\ q \in Turns /\ q.pc = "end" /\ q.answer = "error"
        /\ q.session = old.session /\ q.prompt = old.prompt
    BY <1>1 DEF Turns
  <2> HIDE DEF q, old
  <2> QED
    BY <1>1, <1>2, <1>3, <1>5, <2>1, <2>2 DEF TurnStep
<1>6. CASE /\ Ok
           /\ messages' = Append(messages, Message(t, "user"))
           /\ runs' = [runs EXCEPT ![t] = "running"]
           /\ turn' = [turn EXCEPT ![t].pc = "model",
                           ![t].prompt = Append(@, Len(messages) + 1)]
  BY <1>2, <1>4, <1>6
<1>7. CASE Fails /\ Return(t, "error") /\ UNCHANGED <<messages, runs>>
  BY <1>2, <1>5, <1>7
<1>8. CASE /\ Fails
           /\ messages' = Append(messages, Message(t, "user"))
           /\ Return(t, "error")
           /\ UNCHANGED runs
  BY <1>2, <1>5, <1>8
<1> QED
  BY <1>6, <1>7, <1>8, Zenon DEF AppendQuestion

\* The model's rounds end, the answer is stored, and the row is updated: the
\* prompt and the session stay.
LEMMA AnswerStep ==
    ASSUME ServerType, NEW t \in Turn, AskModel(t) \/ StoreReply(t) \/ UpdateRun(t)
    PROVE  \E q \in Turns :
              /\ TurnStep(t, q) /\ q.session = turn[t].session /\ q.prompt = turn[t].prompt
              /\ \/ /\ turn[t].pc = "model" /\ Ok /\ UNCHANGED <<messages, runs>>
                    /\ q.pc = "update" /\ q.answer \in {"error", "notice"}
                 \/ /\ turn[t].pc = "model" /\ Ok /\ UNCHANGED <<messages, runs>>
                    /\ q.pc = "reply" /\ q.answer = turn[t].answer
                 \/ /\ turn[t].pc = "reply" /\ UNCHANGED runs
                    /\ \/ Ok /\ messages' = Append(messages, Message(t, "assistant"))
                       \/ Fails /\ UNCHANGED messages
                    /\ q.pc = "update" /\ q.answer = "reply"
                 \/ /\ turn[t].pc = "update" /\ UNCHANGED messages
                    /\ q.pc = "end" /\ q.answer = turn[t].answer
                    /\ \/ /\ Ok
                          /\ runs' = [runs EXCEPT ![t] = IF turn[t].answer = "error"
                                                         THEN "failed" ELSE "done"]
                       \/ Fails /\ UNCHANGED runs
<1> DEFINE old == turn[t]
<1>1. old \in Turns /\ old.session \in sessions \cup {None} /\ turn \in [Turn -> Turns]
  BY DEF ServerType
<1>2. UNCHANGED sessions /\ sessions \subseteq Session
  BY DEF AskModel, StoreReply, UpdateRun, ServerType
<1>3. runs \in [Turn -> {"none", "running", "done", "failed"}]
  BY DEF ServerType
<1>4. runs' \in [Turn -> {"none", "running", "done", "failed"}]
  BY <1>3 DEF AskModel, StoreReply, UpdateRun
<1>5. ASSUME NEW answer \in {"none", "error", "notice", "reply"}, Leave(t, answer)
      PROVE  \E q \in Turns :
                /\ TurnStep(t, q) /\ q.session = old.session /\ q.prompt = old.prompt
                /\ q.pc = "update" /\ q.answer = answer
  <2> DEFINE q == [old EXCEPT !.pc = "update", !.answer = answer]
  <2>1. turn' = [turn EXCEPT ![t] = q]
    BY <1>1, <1>5 DEF Leave
  <2>2. /\ q \in Turns /\ q.pc = "update" /\ q.answer = answer
        /\ q.session = old.session /\ q.prompt = old.prompt
    BY <1>1 DEF Turns
  <2> HIDE DEF q, old
  <2> QED
    BY <1>1, <1>2, <1>4, <2>1, <2>2 DEF TurnStep
<1>6. ASSUME NEW pc \in {"reply", "end"}, Goto(t, pc)
      PROVE  \E q \in Turns :
                /\ TurnStep(t, q) /\ q.session = old.session /\ q.prompt = old.prompt
                /\ q.pc = pc /\ q.answer = old.answer
  <2> DEFINE q == [old EXCEPT !.pc = pc]
  <2>1. turn' = [turn EXCEPT ![t] = q]
    BY <1>1, <1>6 DEF Goto
  <2>2. /\ q \in Turns /\ q.pc = pc /\ q.answer = old.answer
        /\ q.session = old.session /\ q.prompt = old.prompt
    BY <1>1 DEF Turns
  <2> HIDE DEF q, old
  <2> QED
    BY <1>1, <1>2, <1>4, <2>1, <2>2 DEF TurnStep
<1> HIDE DEF old
<1>7. CASE AskModel(t)
  <2>1. /\ turn[t].pc = "model" /\ Ok /\ UNCHANGED <<messages, runs>>
        /\ Leave(t, "error") \/ Leave(t, "notice") \/ Goto(t, "reply")
    BY <1>7 DEF AskModel, At
  <2> QED
    BY <1>5, <1>6, <2>1 DEF old
<1>8. CASE StoreReply(t)
  <2>1. /\ turn[t].pc = "reply" /\ UNCHANGED runs /\ Leave(t, "reply")
        /\ \/ Ok /\ messages' = Append(messages, Message(t, "assistant"))
           \/ Fails /\ UNCHANGED messages
    BY <1>8 DEF StoreReply, At
  <2>2. \E q \in Turns :
           /\ TurnStep(t, q) /\ q.session = old.session /\ q.prompt = old.prompt
           /\ q.pc = "update" /\ q.answer = "reply"
    BY <1>5, <2>1
  <2> QED
    BY <2>1, <2>2, Zenon DEF old
<1>9. CASE UpdateRun(t)
  <2>1. /\ turn[t].pc = "update" /\ UNCHANGED messages /\ Goto(t, "end")
        /\ \/ /\ Ok
              /\ runs' = [runs EXCEPT ![t] = IF turn[t].answer = "error"
                                             THEN "failed" ELSE "done"]
           \/ Fails /\ UNCHANGED runs
    BY <1>9 DEF UpdateRun, At
  <2>2. \E q \in Turns :
           /\ TurnStep(t, q) /\ q.session = old.session /\ q.prompt = old.prompt
           /\ q.pc = "end" /\ q.answer = old.answer
    BY <1>6, <2>1
  <2> QED
    BY <2>1, <2>2, Zenon DEF old
<1> QED
  BY <1>7, <1>8, <1>9

\* A turn begins, here or at another client.
LEMMA BeginStep ==
    ASSUME ServerType, current \in sessions \cup {None}, NEW t \in Turn,
           OtherClient(t) \/ Send(t)
    PROVE  /\ UNCHANGED <<messages, runs, sessions, faults>>
           /\ \E q \in Turns :
                 /\ TurnStep(t, q)
                 /\ turn[t].pc = "idle" /\ q.pc = "resolve" /\ q.answer = turn[t].answer
                 /\ q.prompt = turn[t].prompt
<1> DEFINE old == turn[t]
<1>1. old \in Turns /\ turn \in [Turn -> Turns] /\ sessions \subseteq Session
  BY DEF ServerType
<1>2. /\ old.pc = "idle" /\ UNCHANGED <<messages, runs, sessions, faults>>
      /\ \E s \in sessions \cup {None} :
            turn' = [turn EXCEPT ![t].pc = "resolve", ![t].session = s]
  BY DEF OtherClient, Send, At
<1>3. runs' \in [Turn -> {"none", "running", "done", "failed"}]
  BY <1>2 DEF ServerType
<1>4. PICK s \in sessions \cup {None} :
         turn' = [turn EXCEPT ![t].pc = "resolve", ![t].session = s]
  BY <1>2
<1> DEFINE q == [old EXCEPT !.pc = "resolve", !.session = s]
<1>5. turn' = [turn EXCEPT ![t] = q]
  BY <1>1, <1>4
<1>6. /\ q \in Turns /\ q.pc = "resolve" /\ q.answer = old.answer
      /\ q.session = s /\ q.prompt = old.prompt
  BY <1>1 DEF Turns
<1> HIDE DEF q
<1>7. TurnStep(t, q)
  BY <1>1, <1>2, <1>3, <1>5, <1>6 DEF TurnStep
<1> QED
  BY <1>2, <1>6, <1>7

-----------------------------------------------------------------------------
(* The types are kept.                                                      *)

\* A turn that is past resolveSession has a session, unless it failed there.
Resolved ==
    \A t \in Turn :
        /\ turn[t].pc \in {"append", "model", "reply", "update"} => turn[t].session # None
        /\ turn[t].pc = "end" /\ turn[t].answer # "error" => turn[t].session # None

TypeInv == ServerType /\ PageType /\ Resolved

\* A turn's step adds a message or none, and keeps the types.
LEMMA TurnTypes ==
    ASSUME ServerType, Resolved, current \in sessions \cup {None}, NEW t \in Turn,
           Serve(t) \/ OtherClient(t) \/ Send(t)
    PROVE  /\ Grows /\ ServerType' /\ Resolved'
           /\ (Ok \/ Fails)
           /\ sessions \subseteq sessions'
<1>1. ASSUME turn[t].session # None, NEW role \in {"user", "assistant"}
      PROVE  Message(t, role) \in Stored
  <2>1. turn[t].session \in Session
    BY <1>1 DEF ServerType, Turns
  <2> QED
    BY <2>1 DEF Message, Stored
<1>2. ASSUME NEW q \in Turns, TurnStep(t, q),
             /\ q.pc \in {"append", "model", "reply", "update"} => q.session # None
             /\ q.pc = "end" /\ q.answer # "error" => q.session # None
      PROVE  Resolved' /\ sessions \subseteq sessions'
  <2>1. turn' = [turn EXCEPT ![t] = q] /\ sessions \subseteq sessions'
    BY <1>2 DEF TurnStep
  <2>2. turn \in [Turn -> Turns]
    BY DEF ServerType
  <2> QED
    BY <1>2, <2>1, <2>2 DEF Resolved
<1>3. CASE ResolveSession(t)
  <2>1. PICK q \in Turns :
              /\ TurnStep(t, q) /\ UNCHANGED <<messages, runs>> /\ (Ok \/ Fails)
              /\ \/ q.pc = "append" /\ q.session # None
                 \/ q.pc = "end" /\ q.answer = "error"
    BY <1>3, ResolveStep
  <2> QED
    BY <1>2, <2>1, TurnStepType DEF Grows
<1>4. CASE AppendQuestion(t)
  <2>1. PICK q \in Turns :
              /\ TurnStep(t, q) /\ q.session = turn[t].session /\ (Ok \/ Fails)
              /\ turn[t].pc = "append"
              /\ \/ q.pc = "model"
                 \/ q.pc = "end" /\ q.answer = "error"
              /\ \/ UNCHANGED messages
                 \/ messages' = Append(messages, Message(t, "user"))
    BY <1>4, AppendStep
  <2>2. turn[t].session # None
    BY <2>1 DEF Resolved
  <2> QED
    BY <1>1, <1>2, <2>1, <2>2, TurnStepType DEF Grows
<1>5. CASE AskModel(t) \/ StoreReply(t) \/ UpdateRun(t)
  <2>1. PICK q \in Turns :
              /\ TurnStep(t, q) /\ q.session = turn[t].session /\ (Ok \/ Fails)
              /\ \/ turn[t].pc \in {"model", "reply"} /\ q.pc \in {"update", "reply"}
                 \/ turn[t].pc = "update" /\ q.pc = "end"
              /\ \/ UNCHANGED messages
                 \/ messages' = Append(messages, Message(t, "assistant"))
    BY <1>5, AnswerStep
  <2>2. turn[t].session # None
    BY <2>1 DEF Resolved
  <2> QED
    BY <1>1, <1>2, <2>1, <2>2, TurnStepType DEF Grows
<1>6. CASE OtherClient(t) \/ Send(t)
  <2>1. UNCHANGED messages /\ Ok
    BY <1>6, BeginStep DEF Ok
  <2>2. PICK q \in Turns : TurnStep(t, q) /\ q.pc = "resolve"
    BY <1>6, BeginStep
  <2> QED
    BY <1>2, <2>1, <2>2, TurnStepType DEF Grows
<1> QED
  BY <1>3, <1>4, <1>5, <1>6 DEF Serve

\* A window of a session's messages is a list of them.
LEMMA WindowTypes ==
    ASSUME messages \in Seq(Stored), NEW s, NEW cursor
    PROVE  /\ Window(s) \in Seq(Nat)
           /\ Before(s, cursor) \in Seq(Nat)
           /\ Total(s) \in Nat
<1> DEFINE n == Len(messages)
           tail == Newest(Ids(s))
           head == Newest({i \in Ids(s) : i < cursor})
<1>1. n \in Nat /\ Ids(s) \in SUBSET (1 .. n)
  BY IdsStored
<1>2. tail \in SUBSET (1 .. n) /\ head \in SUBSET (1 .. n)
  BY <1>1 DEF Newest
<1>3. Window(s) = Ascending(tail) /\ Before(s, cursor) = Ascending(head)
  BY DEF Window, Before
<1>4. Total(s) \in Nat
  BY <1>1, FiniteIds DEF Total
<1> HIDE DEF n, tail, head
<1>5. Ascending(tail) \in Seq(1 .. n) /\ Ascending(head) \in Seq(1 .. n)
  BY <1>1, <1>2, AscendingLists
<1>6. \A seq : seq \in Seq(1 .. n) => seq \in Seq(Nat)
  BY <1>1
<1> QED
  BY <1>3, <1>4, <1>5, <1>6

\* The steps of the query: what a session's request carries is kept, dropped or
\* read from the table, and what is shown comes out of the request.
LEMMA FetchStep ==
    ASSUME ServerType, PageType, NEW s \in Session,
           CountMessages(s) \/ ReadMessages(s) \/ ShowMessages(s)
    PROVE  /\ fetch' \in [Session -> Fetches] /\ cache' \in [Session -> Results]
           /\ UNCHANGED <<server, current, older, load, chat, closure, swapped, switches, faults>>
           /\ \A r \in Session :
                 /\ \/ fetch'[r].items = fetch[r].items
                    \/ fetch'[r].items = <<>>
                    \/ fetch'[r].items = Window(r)
                 /\ \/ cache'[r] = cache[r]
                    \/ cache'[r].items = fetch[r].items /\ cache'[r].known
<1>1. /\ fetch \in [Session -> Fetches] /\ cache \in [Session -> Results]
      /\ fetch[s] \in Fetches /\ fetch[s].items \in Seq(Nat) /\ fetch[s].total \in Nat
  BY DEF PageType, Fetches
<1>2. Total(s) \in Nat /\ Window(s) \in Seq(Nat)
  BY WindowTypes DEF ServerType
<1>3. CASE CountMessages(s)
  <2> DEFINE n == Total(s)
             f == [fetch[s] EXCEPT !.pc = "counted", !.total = n]
  <2>1. fetch' = [fetch EXCEPT ![s] = f]
    BY <1>1, <1>3 DEF CountMessages
  <2>2. UNCHANGED <<server, current, older, cache, load, chat, closure, swapped, switches, faults>>
    BY <1>3 DEF CountMessages
  <2> HIDE DEF n
  <2>3. n \in Nat
    BY <1>2 DEF n
  <2>4. f \in Fetches /\ f.items = fetch[s].items
    BY <1>1, <2>3 DEF Fetches
  <2> HIDE DEF f
  <2> QED
    BY <1>1, <2>1, <2>2, <2>4
<1>4. CASE ReadMessages(s)
  <2> DEFINE w == Window(s)
             f == [fetch[s] EXCEPT !.pc = "read", !.items = w]
  <2>1. fetch' = [fetch EXCEPT ![s] = f]
    BY <1>1, <1>4 DEF ReadMessages
  <2>2. UNCHANGED <<server, current, older, cache, load, chat, closure, swapped, switches, faults>>
    BY <1>4 DEF ReadMessages
  <2>3. w \in Seq(Nat) /\ w = Window(s)
    BY <1>2
  <2> HIDE DEF w
  <2>4. f \in Fetches /\ f.items = w
    BY <1>1, <2>3 DEF Fetches
  <2> HIDE DEF f
  <2> QED
    BY <1>1, <2>1, <2>2, <2>3, <2>4
<1>5. CASE ShowMessages(s)
  <2> DEFINE c == [items |-> fetch[s].items, total |-> fetch[s].total, known |-> TRUE]
  <2>1. fetch' = [fetch EXCEPT ![s] = NoFetch] /\ cache' = [cache EXCEPT ![s] = c]
    BY <1>5 DEF ShowMessages
  <2>2. UNCHANGED <<server, current, older, load, chat, closure, swapped, switches, faults>>
    BY <1>5 DEF ShowMessages
  <2>3. c \in Results /\ c.items = fetch[s].items /\ c.known
    BY <1>1 DEF Results
  <2>4. NoFetch.items = <<>> /\ NoFetch \in Fetches
    BY Empty DEF NoFetch
  <2> HIDE DEF c
  <2> QED
    BY <1>1, <2>1, <2>2, <2>3, <2>4
<1> QED
  BY <1>3, <1>4, <1>5

\* A request that is sent carries no messages.
LEMMA Requested ==
    ASSUME NEW f \in [Session -> Fetches], NEW s \in Session
    PROVE  /\ Request(s, f) \in [Session -> Fetches]
           /\ \A r \in Session : Request(s, f)[r].items = f[r].items
<1> DEFINE q == [f[s] EXCEPT !.pc = "sent"]
<1>1. [f EXCEPT ![s].pc = "sent"] = [f EXCEPT ![s] = q]
  OBVIOUS
<1>2. q \in Fetches /\ q.items = f[s].items
  <2>1. f[s] \in Fetches
    OBVIOUS
  <2> QED
    BY <2>1 DEF Fetches
<1>3. Request(s, f) = f \/ Request(s, f) = [f EXCEPT ![s] = q]
  BY <1>1, Zenon DEF Request
<1> HIDE DEF q
<1> QED
  BY <1>2, <1>3

\* A query that is asked again drops what its request has carried.
LEMMA Invalidated ==
    ASSUME PageType, NEW s \in Session, Invalidate(s)
    PROVE  /\ fetch' \in [Session -> Fetches]
           /\ \A r \in Session : fetch'[r].items = fetch[r].items \/ fetch'[r].items = <<>>
<1> DEFINE sent == [NoFetch EXCEPT !.pc = "sent"]
<1>1. fetch \in [Session -> Fetches] /\ sent \in Fetches
  BY Empty DEF PageType
<1>2. sent.items = <<>>
  BY DEF NoFetch
<1>3. fetch' = fetch \/ fetch' = [fetch EXCEPT ![s] = sent] \/ fetch' = Request(s, fetch)
  BY Zenon DEF Invalidate
<1> HIDE DEF sent
<1>4. CASE fetch' = [fetch EXCEPT ![s] = sent]
  BY <1>1, <1>2, <1>4
<1>5. CASE fetch' = Request(s, fetch)
  <2>1. /\ Request(s, fetch) \in [Session -> Fetches]
        /\ \A r \in Session : Request(s, fetch)[r].items = fetch[r].items
    BY <1>1, Requested
  <2> QED
    BY <1>5, <2>1
<1> QED
  BY <1>1, <1>3, <1>4, <1>5

\* Another session is shown: its query is asked, and no message is lost or won.
LEMMA Shown ==
    ASSUME ServerType, PageType, PickSession \/ FollowLink \/ NewSession
    PROVE  \E s \in Session :
              /\ UNCHANGED <<messages, runs, turn, cache, load, chat, closure, faults>>
              /\ current' = s /\ s \in sessions' /\ switches' = switches + 1
              /\ sessions \subseteq sessions' /\ sessions' \subseteq Session
              /\ fetch' \in [Session -> Fetches]
              /\ \A r \in Session : fetch'[r].items = fetch[r].items
              /\ \/ older' = <<>> /\ swapped' = (swapped \/ load # NoLoad)
                 \/ older' = older /\ swapped' = (swapped \/ load # NoLoad \/ older # <<>>)
<1>1. fetch \in [Session -> Fetches] /\ sessions \subseteq Session
  BY DEF ServerType, PageType
<1>2. ASSUME NEW s \in Session, fetch' = fetch \/ fetch' = Request(s, fetch)
      PROVE  /\ fetch' \in [Session -> Fetches]
             /\ \A r \in Session : fetch'[r].items = fetch[r].items
  <2>1. /\ Request(s, fetch) \in [Session -> Fetches]
        /\ \A r \in Session : Request(s, fetch)[r].items = fetch[r].items
    BY <1>1, Requested
  <2> QED
    BY <1>1, <1>2, <2>1
<1>3. CASE PickSession
  <2>1. PICK s \in sessions :
           /\ Show(s) /\ older' = <<>> /\ UNCHANGED <<server, cache, load, chat, closure, faults>>
    BY <1>3, Zenon DEF PickSession
  <2>2. /\ current' = s /\ switches' = switches + 1 /\ swapped' = (swapped \/ load # NoLoad)
        /\ fetch' = fetch \/ fetch' = Request(s, fetch)
    BY <2>1, Zenon DEF Show
  <2>3. s \in Session /\ UNCHANGED <<messages, runs, turn, sessions, cache, load, chat, closure, faults>>
    BY <1>1, <2>1 DEF server
  <2> QED
    BY <1>1, <1>2, <2>1, <2>2, <2>3
<1>4. CASE FollowLink
  <2>1. PICK s \in sessions :
           /\ switches' = switches + 1 /\ current' = s /\ fetch' = Request(s, fetch)
           /\ swapped' = (swapped \/ load # NoLoad \/ older # <<>>)
           /\ UNCHANGED <<server, older, cache, load, chat, closure, faults>>
    BY <1>4, Zenon DEF FollowLink
  <2>2. s \in Session /\ UNCHANGED <<messages, runs, turn, sessions, cache, load, chat, closure, faults>>
    BY <1>1, <2>1 DEF server
  <2> QED
    BY <1>1, <1>2, <2>1, <2>2
<1>5. CASE NewSession
  <2>1. PICK s \in Session :
           /\ sessions' = sessions \cup {s}
           /\ Show(s) /\ older' = <<>>
           /\ UNCHANGED <<messages, runs, turn, cache, load, chat, closure, faults>>
    BY <1>5, Zenon DEF NewSession
  <2>2. /\ current' = s /\ switches' = switches + 1 /\ swapped' = (swapped \/ load # NoLoad)
        /\ fetch' = fetch \/ fetch' = Request(s, fetch)
    BY <2>1, Zenon DEF Show
  <2> QED
    BY <1>1, <1>2, <2>1, <2>2
<1> QED
  BY <1>3, <1>4, <1>5

\* Older messages are asked for, read and put before the others.
LEMMA OlderStep ==
    ASSUME ServerType, PageType, LoadOlder \/ ServeOlder \/ ShowOlder
    PROVE  /\ UNCHANGED <<server, current, cache, fetch, chat, closure, swapped, switches>>
           /\ older' \in Seq(Nat) /\ load' \in Loads /\ (Ok \/ Fails)
           /\ \/ /\ older' = older /\ load = NoLoad
                 /\ current # None /\ Displayed # <<>>
                 /\ load'.session = current /\ load'.cursor = Displayed[1]
                 /\ load'.items = <<>> /\ ~load'.served
              \/ /\ older' = older /\ load # NoLoad /\ ~load.served
                 /\ load'.session = load.session /\ load'.cursor = load.cursor
                 /\ load'.served
                 /\ load'.items = Before(load.session, load.cursor)
              \/ older' = older /\ load' = NoLoad
              \/ older' = load.items \o older /\ load.served /\ load' = NoLoad
<1>1. /\ load \in Loads /\ older \in Seq(Nat) /\ cache \in [Session -> Results]
      /\ current \in sessions \cup {None} /\ sessions \subseteq Session
      /\ NoLoad \in Loads /\ messages \in Seq(Stored)
  BY Empty DEF PageType, ServerType
<1>2. CASE LoadOlder
  <2>1. /\ HasOlder /\ load = NoLoad /\ Displayed # <<>>
        /\ load' = [NoLoad EXCEPT !.session = current, !.cursor = Displayed[1]]
        /\ UNCHANGED <<server, current, older, cache, fetch, chat, closure, swapped, switches, faults>>
    BY <1>2 DEF LoadOlder
  <2>2. current # None /\ current \in Session
    BY <1>1, <2>1 DEF HasOlder
  <2>3. Displayed \in Seq(Nat)
    <3>1. cache[current].items \in Seq(Nat)
      BY <1>1, <2>2 DEF Results
    <3> QED
      BY <1>1, <2>2, <3>1 DEF Displayed
  <2> DEFINE d == Displayed
             x == d[1]
             l == [NoLoad EXCEPT !.session = current, !.cursor = x]
  <2>4. x \in Nat /\ x = Displayed[1]
    <3>1. d \in Seq(Nat) /\ d # <<>>
      BY <2>1, <2>3
    <3> HIDE DEF d
    <3>2. d[1] \in Nat
      BY <3>1
    <3> QED
      BY <3>2 DEF d
  <2>5. load' = l
    BY <2>1
  <2> HIDE DEF x
  <2>6. /\ l \in Loads /\ l.session = current /\ l.cursor = x
        /\ l.items = <<>> /\ ~l.served
    BY <1>1, <2>2, <2>4 DEF Loads, NoLoad
  <2> HIDE DEF l
  <2> QED
    BY <1>1, <2>1, <2>2, <2>4, <2>5, <2>6 DEF Ok
<1>3. CASE ServeOlder
  <2>1. /\ load # NoLoad /\ ~load.served
        /\ UNCHANGED <<server, current, older, cache, fetch, chat, closure, swapped, switches>>
    BY <1>3 DEF ServeOlder
  <2>2. CASE Fails /\ load' = NoLoad
    BY <1>1, <2>1, <2>2
  <2>3. CASE Ok /\ load' = [load EXCEPT !.served = TRUE,
                                !.items = Before(load.session, load.cursor)]
    <3> DEFINE b == Before(load.session, load.cursor)
               l == [load EXCEPT !.served = TRUE, !.items = b]
    <3>1. b \in Seq(Nat) /\ b = Before(load.session, load.cursor)
      BY <1>1, WindowTypes
    <3>2. load' = l
      BY <2>3
    <3> HIDE DEF b
    <3>3. /\ l \in Loads /\ l.session = load.session /\ l.cursor = load.cursor
          /\ l.items = b /\ l.served
      BY <1>1, <3>1 DEF Loads
    <3> HIDE DEF l
    <3> QED
      BY <1>1, <2>1, <2>3, <3>1, <3>2, <3>3
  <2> QED
    BY <1>3, <2>2, <2>3, Zenon DEF ServeOlder
<1>4. CASE ShowOlder
  <2>1. /\ load.served /\ older' = load.items \o older /\ load' = NoLoad
        /\ UNCHANGED <<server, current, cache, fetch, chat, closure, swapped, switches, faults>>
    BY <1>4 DEF ShowOlder
  <2>2. load.items \in Seq(Nat)
    BY <1>1 DEF Loads
  <2>3. older' \in Seq(Nat)
    BY <1>1, <2>1, <2>2
  <2> QED
    BY <1>1, <2>1, <2>3 DEF Ok
<1> QED
  BY <1>2, <1>3, <1>4

\* An answer is shown, in the session that the page or the turn says.
LEMMA AnswerShown ==
    ASSUME ServerType, PageType, Resolved, NEW t \in Turn, ShowAnswer(t)
    PROVE  /\ UNCHANGED <<server, older, cache, load, switches, faults>>
           /\ chat' = None /\ closure' \in Closures
           /\ current' = current \/ current' \in sessions
           /\ swapped' = (swapped \/ (current' # current /\ (load # NoLoad \/ older # <<>>)))
           /\ fetch' \in [Session -> Fetches]
           /\ \A r \in Session : fetch'[r].items = fetch[r].items \/ fetch'[r].items = <<>>
<1>1. /\ UNCHANGED <<server, older, cache, load, switches, faults>>
      /\ chat' = None /\ closure' = NoClosure /\ turn[t].pc = "end"
      /\ swapped' = (swapped \/ (current' # current /\ (load # NoLoad \/ older # <<>>)))
  BY DEF ShowAnswer, At
<1>2. /\ fetch \in [Session -> Fetches] /\ turn[t].session \in sessions \cup {None}
      /\ closure' \in Closures
  BY <1>1, Empty DEF PageType, ServerType
<1>3. CASE turn[t].answer = "error"
  <2>1. UNCHANGED <<current, fetch>>
    BY <1>3 DEF ShowAnswer
  <2> QED
    BY <1>1, <1>2, <2>1
<1>4. CASE turn[t].answer # "error"
  <2>1. turn[t].session \in sessions /\ turn[t].session \in Session
    BY <1>1, <1>2, <1>4 DEF Resolved, ServerType
  <2>2. /\ current' = IF Seen = None THEN turn[t].session ELSE current
        /\ Invalidate(turn[t].session)
    BY <1>4 DEF ShowAnswer
  <2> QED
    BY <1>1, <1>2, <2>1, <2>2, Invalidated
<1> QED
  BY <1>3, <1>4

\* The types are kept by every step.
LEMMA TypeNext == TypeInv /\ [Next]_vars => TypeInv'
<1> SUFFICES ASSUME TypeInv, [Next]_vars
             PROVE  TypeInv'
  OBVIOUS
<1>1. ServerType /\ PageType /\ Resolved
  BY DEF TypeInv
<1>2. CASE UNCHANGED vars
  BY <1>1, <1>2 DEF vars, server, page, TypeInv, ServerType, PageType, Resolved
<1>3. ASSUME UNCHANGED server
      PROVE  ServerType' /\ Resolved'
  BY <1>1, <1>3 DEF server, ServerType, Resolved
<1>4. ASSUME NEW t \in Turn, Serve(t) \/ OtherClient(t)
      PROVE  TypeInv'
  <2>1. /\ ServerType' /\ Resolved' /\ (Ok \/ Fails) /\ sessions \subseteq sessions'
    BY <1>1, <1>4, TurnTypes DEF PageType
  <2>2. UNCHANGED page
    BY <1>4 DEF Serve, ResolveSession, AppendQuestion, AskModel, StoreReply, UpdateRun,
                OtherClient
  <2>3. faults' \in Nat
    BY <1>1, <2>1, FaultsCount DEF PageType
  <2> QED
    BY <1>1, <2>1, <2>2, <2>3 DEF TypeInv, PageType, page
<1>5. ASSUME NEW t \in Turn, Send(t)
      PROVE  TypeInv'
  <2>1. /\ ServerType' /\ Resolved' /\ sessions \subseteq sessions'
    BY <1>1, <1>5, TurnTypes DEF PageType
  <2>2. /\ chat' = t
        /\ UNCHANGED <<current, older, cache, fetch, load, closure, swapped, switches,
                       faults>>
    BY <1>5 DEF Send
  <2> QED
    BY <1>1, <2>1, <2>2 DEF TypeInv, PageType
<1>6. ASSUME NEW s \in Session, CountMessages(s) \/ ReadMessages(s) \/ ShowMessages(s)
      PROVE  TypeInv'
  <2>1. /\ fetch' \in [Session -> Fetches] /\ cache' \in [Session -> Results]
        /\ UNCHANGED <<server, current, older, load, chat, closure, swapped, switches, faults>>
    BY <1>1, <1>6, FetchStep
  <2> QED
    BY <1>1, <1>3, <2>1 DEF TypeInv, PageType, server
<1>7. CASE LoadOlder \/ ServeOlder \/ ShowOlder
  <2>1. /\ UNCHANGED <<server, current, cache, fetch, chat, closure, swapped, switches>>
        /\ older' \in Seq(Nat) /\ load' \in Loads /\ (Ok \/ Fails)
    BY <1>1, <1>7, OlderStep
  <2>2. faults' \in Nat
    BY <1>1, <2>1, FaultsCount DEF PageType
  <2> QED
    BY <1>1, <1>3, <2>1, <2>2 DEF TypeInv, PageType, server
<1>8. ASSUME NEW t \in Turn, ShowAnswer(t)
      PROVE  TypeInv'
  <2>1. /\ UNCHANGED <<server, older, cache, load, switches, faults>>
        /\ chat' = None /\ closure' \in Closures
        /\ current' = current \/ current' \in sessions
        /\ swapped' = (swapped \/ (current' # current /\ (load # NoLoad \/ older # <<>>)))
        /\ fetch' \in [Session -> Fetches]
    BY <1>1, <1>8, AnswerShown
  <2>2. swapped' \in BOOLEAN
    BY <1>1, <2>1, Zenon DEF PageType
  <2> QED
    BY <1>1, <1>3, <2>1, <2>2 DEF TypeInv, PageType, server
<1>10. ASSUME NEW t \in Turn, AwaitTasks(t)
       PROVE  TypeInv'
  <2>1. /\ closure' = [waits |-> TRUE, session |-> current]
        /\ UNCHANGED <<server, current, older, cache, fetch, load, chat, swapped, switches, faults>>
    BY <1>10 DEF AwaitTasks
  <2>2. closure' \in Closures
    BY <1>1, <2>1 DEF Closures, PageType, ServerType
  <2> QED
    BY <1>1, <1>3, <2>1, <2>2 DEF TypeInv, PageType, server
<1>9. CASE PickSession \/ FollowLink \/ NewSession
  <2>1. PICK s \in Session :
              /\ UNCHANGED <<messages, runs, turn, cache, load, chat, closure, faults>>
              /\ current' = s /\ s \in sessions' /\ switches' = switches + 1
              /\ sessions \subseteq sessions' /\ sessions' \subseteq Session
              /\ fetch' \in [Session -> Fetches]
              /\ \/ older' = <<>> /\ swapped' = (swapped \/ load # NoLoad)
                 \/ older' = older /\ swapped' = (swapped \/ load # NoLoad \/ older # <<>>)
    BY <1>1, <1>9, Shown
  <2>2. ServerType' /\ Resolved'
    BY <1>1, <2>1 DEF ServerType, Resolved
  <2>3. older' \in Seq(Nat) /\ swapped' \in BOOLEAN
    <3>1. <<>> \in Seq(Nat)
      OBVIOUS
    <3> QED
      BY <1>1, <2>1, <3>1, Zenon DEF PageType
  <2> QED
    BY <1>1, <2>1, <2>2, <2>3 DEF TypeInv, PageType
<1> QED
  BY <1>2, <1>4, <1>5, <1>6, <1>7, <1>8, <1>9, <1>10, Zenon DEF Next, Respond

\* The types hold in every state.
LEMMA TypeInvariance == Spec => []TypeInv
<1>1. Init => TypeInv
  <2>1. Init => Resolved
    BY DEF Init, NoTurn, Resolved
  <2> QED
    BY <2>1, TypeInit DEF TypeInv
<1> QED
  BY <1>1, TypeNext, PTL DEF Spec

-----------------------------------------------------------------------------
(* The outcome of a turn.  Its reply is in the table from the step on that  *)
(* says it was returned, unless a statement failed; before that the table   *)
(* has no message of the assistant for this turn.                           *)

Replied(t, m) == m.turn = t /\ m.role = "assistant"

\* What the row of agent_runs may say of a turn that has returned.
RunRule(answer, run, clean) ==
    /\ run = "done" => answer \in {"reply", "notice"}
    /\ run = "failed" => answer = "error"
    /\ run = "none" => answer = "error"
    /\ run \in {"none", "running"} => ~clean

OutcomeRule(t, msgs, q, run, clean) ==
    /\ \A i \in DOMAIN msgs : Replied(t, msgs[i]) =>
          /\ q.pc \in {"update", "end"} /\ q.answer = "reply"
          /\ msgs[i].session = q.session
    /\ clean /\ q.pc \in {"update", "end"} /\ q.answer = "reply" =>
          \E i \in DOMAIN msgs : Replied(t, msgs[i])
    /\ q.pc \in {"idle", "resolve", "append"} => run = "none"
    /\ q.pc \in {"model", "reply", "update"} => run = "running"
    /\ q.pc = "update" => q.answer \in {"error", "notice", "reply"}
    /\ q.pc = "end" => RunRule(q.answer, run, clean)

OutcomeInv == \A t \in Turn : OutcomeRule(t, messages, turn[t], runs[t], faults = 0)

\* A message more in the table is the last.
LEMMA Appended ==
    ASSUME messages \in Seq(Stored), NEW m \in Stored, messages' = Append(messages, m)
    PROVE  /\ Len(messages') = Len(messages) + 1 /\ Len(messages) \in Nat
           /\ DOMAIN messages = 1 .. Len(messages)
           /\ DOMAIN messages' = 1 .. Len(messages')
           /\ \A i \in DOMAIN messages : i \in DOMAIN messages' /\ messages'[i] = messages[i]
           /\ messages'[Len(messages')] = m /\ Len(messages') \in DOMAIN messages'
           /\ \A i \in DOMAIN messages' : i \in DOMAIN messages \/ i = Len(messages')
<1> HIDE DEF Stored
<1> QED
  OBVIOUS

\* A message of somebody else does not change what is said of a turn.
LEMMA OutcomeOther ==
    ASSUME messages \in Seq(Stored), NEW u, NEW q, NEW run, NEW clean, NEW fine,
           OutcomeRule(u, messages, q, run, clean), fine => clean,
           \/ messages' = messages
           \/ \E m \in Stored : messages' = Append(messages, m) /\ ~Replied(u, m)
    PROVE  OutcomeRule(u, messages', q, run, fine)
<1>1. CASE messages' = messages
  BY <1>1 DEF OutcomeRule, RunRule
<1>2. ASSUME NEW m \in Stored, messages' = Append(messages, m), ~Replied(u, m)
      PROVE  OutcomeRule(u, messages', q, run, fine)
  <2>1. \A i \in DOMAIN messages' :
           Replied(u, messages'[i]) => i \in DOMAIN messages /\ Replied(u, messages[i])
    BY <1>2, Appended
  <2>2. \A i \in DOMAIN messages : i \in DOMAIN messages' /\ messages'[i] = messages[i]
    BY <1>2, Appended
  <2> QED
    BY <2>1, <2>2 DEF OutcomeRule, RunRule
<1> QED
  BY <1>1, <1>2

\* The other turns, when one turn takes a step.
LEMMA OutcomeStep ==
    ASSUME TypeInv, OutcomeInv, NEW t \in Turn, NEW q, TurnStep(t, q),
           runs' = runs \/ \E r : runs' = [runs EXCEPT ![t] = r],
           Ok \/ Fails,
           \/ messages' = messages
           \/ \E m \in Stored : messages' = Append(messages, m) /\ m.turn = t,
           OutcomeRule(t, messages', q, runs'[t], faults' = 0)
    PROVE  OutcomeInv'
<1>1. /\ turn \in [Turn -> Turns] /\ messages \in Seq(Stored) /\ faults \in Nat
      /\ runs \in [Turn -> {"none", "running", "done", "failed"}]
  BY DEF TypeInv, ServerType, PageType
<1>2. turn' = [turn EXCEPT ![t] = q]
  BY DEF TurnStep
<1>3. faults' = 0 => faults = 0
  BY <1>1 DEF Ok, Fails
<1> HIDE DEF Stored
<1>4. ASSUME NEW u \in Turn, u # t
      PROVE  OutcomeRule(u, messages', turn'[u], runs'[u], faults' = 0)
  <2>1. turn'[u] = turn[u] /\ runs'[u] = runs[u]
    BY <1>1, <1>2, <1>4
  <2>2. \/ messages' = messages
        \/ \E m \in Stored : messages' = Append(messages, m) /\ ~Replied(u, m)
    BY <1>4 DEF Replied
  <2>3. OutcomeRule(u, messages, turn[u], runs[u], faults = 0)
    BY DEF OutcomeInv
  <2>4. OutcomeRule(u, messages', turn[u], runs[u], faults' = 0)
    BY <1>1, <1>3, <2>2, <2>3, OutcomeOther
  <2> QED
    BY <2>1, <2>4
<1>5. turn'[t] = q
  BY <1>1, <1>2
<1> QED
  BY <1>4, <1>5 DEF OutcomeInv

\* Each statement of a handler keeps what is said of its turn.
LEMMA OutcomeNext == TypeInv /\ OutcomeInv /\ [Next]_vars => OutcomeInv'
<1> SUFFICES ASSUME TypeInv, OutcomeInv, [Next]_vars
             PROVE  OutcomeInv'
  OBVIOUS
<1>1. /\ ServerType /\ PageType /\ Resolved /\ messages \in Seq(Stored)
      /\ faults \in Nat /\ current \in sessions \cup {None}
      /\ runs \in [Turn -> {"none", "running", "done", "failed"}]
  BY DEF TypeInv, ServerType, PageType
<1>2. CASE UNCHANGED <<messages, turn, runs>> /\ (UNCHANGED faults \/ Ok \/ Fails)
  <2>1. faults' = 0 => faults = 0
    BY <1>1, <1>2 DEF Ok, Fails
  <2>2. ASSUME NEW u \in Turn
        PROVE  OutcomeRule(u, messages', turn'[u], runs'[u], faults' = 0)
    <3>1. OutcomeRule(u, messages, turn[u], runs[u], faults = 0)
      BY DEF OutcomeInv
    <3> QED
      BY <1>2, <2>1, <3>1 DEF OutcomeRule, RunRule
  <2> QED
    BY <2>2 DEF OutcomeInv
<1>3. ASSUME NEW t \in Turn
      PROVE  /\ OutcomeRule(t, messages, turn[t], runs[t], faults = 0)
             /\ \A role \in {"user", "assistant"} : turn[t].session # None =>
                   Message(t, role) \in Stored /\ Message(t, role).turn = t
             /\ turn[t] \in Turns
  <2>1. turn[t].session \in Session \cup {None} /\ turn[t] \in Turns
    BY <1>1 DEF ServerType, Turns
  <2> QED
    BY <2>1 DEF OutcomeInv, Message, Stored
<1>4. ASSUME NEW t \in Turn, ResolveSession(t) \/ OtherClient(t) \/ Send(t)
      PROVE  OutcomeInv'
  <2>1. CASE ResolveSession(t)
    <3>1. PICK q \in Turns :
             /\ TurnStep(t, q) /\ UNCHANGED <<messages, runs>>
             /\ turn[t].pc = "resolve"
             /\ \/ Ok /\ q.pc = "append"
                \/ Fails /\ q.pc = "end" /\ q.answer = "error"
      BY <1>1, <2>1, ResolveStep
    <3>2. OutcomeRule(t, messages', q, runs'[t], faults' = 0)
      BY <1>1, <1>3, <3>1 DEF OutcomeRule, RunRule, Fails
    <3> QED
      BY <3>1, <3>2, OutcomeStep
  <2>2. CASE OtherClient(t) \/ Send(t)
    <3>1. UNCHANGED <<messages, runs, faults>>
      BY <1>1, <2>2, BeginStep
    <3>2. PICK q \in Turns : TurnStep(t, q) /\ turn[t].pc = "idle" /\ q.pc = "resolve"
      BY <1>1, <2>2, BeginStep
    <3>3. OutcomeRule(t, messages', q, runs'[t], faults' = 0)
      BY <1>1, <1>3, <3>1, <3>2 DEF OutcomeRule
    <3>4. Ok
      BY <3>1 DEF Ok
    <3> QED
      BY <3>1, <3>2, <3>3, <3>4, OutcomeStep
  <2> QED
    BY <1>4, <2>1, <2>2
<1>5. ASSUME NEW t \in Turn, AppendQuestion(t)
      PROVE  OutcomeInv'
  <2>1. PICK q \in Turns :
           /\ TurnStep(t, q) /\ turn[t].pc = "append"
           /\ \/ /\ Ok /\ q.pc = "model"
                 /\ messages' = Append(messages, Message(t, "user"))
                 /\ runs' = [runs EXCEPT ![t] = "running"]
              \/ /\ Fails /\ q.pc = "end" /\ q.answer = "error" /\ UNCHANGED runs
                 /\ \/ UNCHANGED messages
                    \/ messages' = Append(messages, Message(t, "user"))
    BY <1>1, <1>5, AppendStep
  <2>2. Message(t, "user") \in Stored /\ Message(t, "user").turn = t
    BY <1>1, <1>3, <2>1 DEF Resolved
  <2>3. ~Replied(t, Message(t, "user"))
    BY DEF Replied, Message
  <2>4. OutcomeRule(t, messages, q, runs'[t], faults' = 0)
    BY <1>1, <1>3, <2>1 DEF OutcomeRule, RunRule, Fails
  <2>5. OutcomeRule(t, messages', q, runs'[t], faults' = 0)
    BY <1>1, <2>1, <2>2, <2>3, <2>4, OutcomeOther
  <2> HIDE DEF Stored
  <2> QED
    BY <2>1, <2>2, <2>5, OutcomeStep
<1>6. ASSUME NEW t \in Turn, AskModel(t) \/ StoreReply(t) \/ UpdateRun(t)
      PROVE  OutcomeInv'
  <2>1. PICK q \in Turns :
              /\ TurnStep(t, q) /\ q.session = turn[t].session
              /\ \/ /\ turn[t].pc = "model" /\ Ok /\ UNCHANGED <<messages, runs>>
                    /\ q.pc = "update" /\ q.answer \in {"error", "notice"}
                 \/ /\ turn[t].pc = "model" /\ Ok /\ UNCHANGED <<messages, runs>>
                    /\ q.pc = "reply"
                 \/ /\ turn[t].pc = "reply" /\ UNCHANGED runs
                    /\ \/ Ok /\ messages' = Append(messages, Message(t, "assistant"))
                       \/ Fails /\ UNCHANGED messages
                    /\ q.pc = "update" /\ q.answer = "reply"
                 \/ /\ turn[t].pc = "update" /\ UNCHANGED messages
                    /\ q.pc = "end" /\ q.answer = turn[t].answer
                    /\ \/ /\ Ok
                          /\ runs' = [runs EXCEPT ![t] = IF turn[t].answer = "error"
                                                         THEN "failed" ELSE "done"]
                       \/ Fails /\ UNCHANGED runs
    BY <1>1, <1>6, AnswerStep
  <2>2. /\ Message(t, "assistant") \in Stored /\ Message(t, "assistant").turn = t
        /\ Message(t, "assistant").role = "assistant"
        /\ Message(t, "assistant").session = q.session
    <3>1. turn[t].session # None
      BY <1>1, <2>1 DEF Resolved
    <3> QED
      BY <1>3, <2>1, <3>1 DEF Message
  <2>3. /\ turn[t].pc \in {"model", "reply", "update"} /\ (Ok \/ Fails)
        /\ runs' = runs \/ \E r : runs' = [runs EXCEPT ![t] = r]
        /\ \/ messages' = messages
           \/ \E m \in Stored : messages' = Append(messages, m) /\ m.turn = t
    BY <2>1, <2>2
  <2>4. OutcomeRule(t, messages', q, runs'[t], faults' = 0)
    <3>1. OutcomeRule(t, messages, turn[t], runs[t], faults = 0)
      BY <1>3
    <3>2. faults' = 0 => faults = 0 /\ ~Fails
      BY <1>1, <2>3 DEF Ok, Fails
    <3>3. CASE /\ turn[t].pc = "model" /\ UNCHANGED <<messages, runs>>
               /\ \/ q.pc = "update" /\ q.answer \in {"error", "notice"}
                  \/ q.pc = "reply"
      BY <3>1, <3>3 DEF OutcomeRule
    <3>4. CASE /\ turn[t].pc = "reply" /\ UNCHANGED runs
               /\ messages' = Append(messages, Message(t, "assistant"))
               /\ q.pc = "update" /\ q.answer = "reply"
      <4> DEFINE m == Message(t, "assistant")
                 n == Len(messages')
      <4>1. Replied(t, m) /\ m.session = q.session /\ m \in Stored
        BY <2>2 DEF Replied
      <4> HIDE DEF m
      <4>2. /\ n \in DOMAIN messages' /\ messages'[n] = m
            /\ \A i \in DOMAIN messages' : i = n \/ (i \in DOMAIN messages
                                                     /\ messages'[i] = messages[i])
        BY <1>1, <3>4, <4>1, Appended DEF m
      <4> HIDE DEF n
      <4> QED
        BY <3>1, <3>4, <4>1, <4>2 DEF OutcomeRule
    <3>5. CASE /\ turn[t].pc = "reply" /\ Fails /\ UNCHANGED <<messages, runs>>
               /\ q.pc = "update" /\ q.answer = "reply"
      BY <3>1, <3>2, <3>5 DEF OutcomeRule
    <3>6. CASE /\ turn[t].pc = "update" /\ UNCHANGED messages
               /\ q.pc = "end" /\ q.answer = turn[t].answer
               /\ runs' = [runs EXCEPT ![t] = IF turn[t].answer = "error"
                                              THEN "failed" ELSE "done"]
      <4>1. runs'[t] = IF q.answer = "error" THEN "failed" ELSE "done"
        BY <1>1, <3>6
      <4>2. q.answer \in {"error", "notice", "reply"}
        BY <3>1, <3>6 DEF OutcomeRule
      <4>3. RunRule(q.answer, runs'[t], faults' = 0)
        BY <4>1, <4>2 DEF RunRule
      <4> QED
        BY <2>1, <3>1, <3>2, <3>6, <4>3, Zenon DEF OutcomeRule
    <3>7. CASE /\ turn[t].pc = "update" /\ UNCHANGED <<messages, runs>> /\ Fails
               /\ q.pc = "end" /\ q.answer = turn[t].answer
      <4>1. runs'[t] = "running" /\ faults' # 0
        BY <3>1, <3>2, <3>7 DEF OutcomeRule
      <4>2. RunRule(q.answer, runs'[t], faults' = 0)
        BY <4>1, Zenon DEF RunRule
      <4> QED
        BY <2>1, <3>1, <3>2, <3>7, <4>1, <4>2, Zenon DEF OutcomeRule
    <3> QED
      BY <2>1, <3>3, <3>4, <3>5, <3>6, <3>7
  <2> HIDE DEF Stored
  <2> QED
    BY <2>1, <2>3, <2>4, OutcomeStep
<1>7. CASE UNCHANGED vars
  BY <1>2, <1>7 DEF vars, server
<1>8. ASSUME NEW s \in Session, CountMessages(s) \/ ReadMessages(s) \/ ShowMessages(s)
      PROVE  OutcomeInv'
  BY <1>2, <1>8 DEF CountMessages, ReadMessages, ShowMessages, server
<1>9. CASE LoadOlder \/ ServeOlder \/ ShowOlder
  <2>1. UNCHANGED server /\ (Ok \/ Fails)
    BY <1>1, <1>9, OlderStep
  <2> QED
    BY <1>2, <2>1 DEF server
<1>10. ASSUME NEW t \in Turn, AwaitTasks(t) \/ ShowAnswer(t)
       PROVE  OutcomeInv'
  BY <1>2, <1>10 DEF AwaitTasks, ShowAnswer, server
<1>11. CASE PickSession \/ FollowLink \/ NewSession
  <2>1. UNCHANGED <<messages, runs, turn, faults>>
    BY <1>1, <1>11, Shown
  <2> QED
    BY <1>2, <2>1
<1> QED
  BY <1>4, <1>5, <1>6, <1>7, <1>8, <1>9, <1>10, <1>11, Zenon DEF Next, Respond, Serve

\* Whichever statements fail, a finished turn's row in agent_runs and the table do
\* not contradict what its client was told; the notice of Orchestrator.Chat's last
\* return is told and never stored.
THEOREM OutcomeTold == Spec => []RunTellsOutcome
<1>1. Init => OutcomeInv
  <2> SUFFICES ASSUME Init, NEW t \in Turn
               PROVE  OutcomeRule(t, messages, turn[t], runs[t], faults = 0)
    BY DEF OutcomeInv
  <2>1. turn[t].pc = "idle"
    BY DEF Init, NoTurn
  <2>2. \A i \in DOMAIN messages : messages[i].turn = None
    BY Constants, Zenon DEF Init
  <2>3. t # None
    BY Constants
  <2>4. \A i \in DOMAIN messages : ~Replied(t, messages[i])
    BY <2>2, <2>3 DEF Replied
  <2>5. runs[t] = "none"
    BY DEF Init
  <2> QED
    BY <2>1, <2>4, <2>5 DEF OutcomeRule
<1>2. TypeInv /\ OutcomeInv => RunTellsOutcome
  <2> SUFFICES ASSUME TypeInv, OutcomeInv, NEW t \in Turn, At(t, "end")
               PROVE  /\ runs[t] = "done" => turn[t].answer \in {"reply", "notice"}
                      /\ runs[t] = "failed" => turn[t].answer = "error"
                      /\ runs[t] = "none" => turn[t].answer = "error"
                      /\ runs[t] \in {"none", "running"} => faults > 0
                      /\ HasAnswer(t) => turn[t].answer = "reply"
                      /\ turn[t].answer = "reply" /\ faults = 0 => HasAnswer(t)
    BY DEF RunTellsOutcome
  <2>1. /\ OutcomeRule(t, messages, turn[t], runs[t], faults = 0)
        /\ turn[t].pc = "end" /\ faults \in Nat
    BY DEF OutcomeInv, At, TypeInv, PageType
  <2>2. ASSUME NEW i \in DOMAIN messages
        PROVE  Replied(t, messages[i]) <=> messages[i] = Message(t, "assistant")
    <3>1. messages[i] \in Stored
      BY DEF TypeInv, ServerType
    <3>2. Replied(t, messages[i]) => messages[i].session = turn[t].session
      BY <2>1 DEF OutcomeRule
    <3> QED
      BY <3>1, <3>2 DEF Replied, Message, Stored
  <2>3. HasAnswer(t) <=> \E i \in DOMAIN messages : Replied(t, messages[i])
    BY <2>2 DEF HasAnswer, Range
  <2> QED
    BY <2>1, <2>3 DEF OutcomeRule, RunRule
<1> QED
  BY <1>1, <1>2, TypeInvariance, OutcomeNext, PTL DEF Spec

-----------------------------------------------------------------------------
(* Lists of a session's messages: in order, of that session, unbroken.  A   *)
(* message that is stored later spoils none of this.                        *)

Sorted(seq) == \A i, j \in DOMAIN seq : i < j => seq[i] < seq[j]

Of(msgs, seq, s) ==
    \A i \in DOMAIN seq : seq[i] \in DOMAIN msgs /\ msgs[seq[i]].session = s

Unbroken(msgs, seq, s) ==
    \A id \in DOMAIN msgs :
        msgs[id].session = s /\ (\E i, j \in DOMAIN seq : seq[i] < id /\ id < seq[j]) =>
            \E i \in DOMAIN seq : seq[i] = id

Stretch(msgs, seq, s) == Sorted(seq) /\ Of(msgs, seq, s) /\ Unbroken(msgs, seq, s)

\* The messages of a session stay its messages.
LEMMA OfGrows ==
    ASSUME messages \in Seq(Stored), Grows, NEW seq, NEW s, Of(messages, seq, s)
    PROVE  Of(messages', seq, s)
<1>1. \A i \in DOMAIN messages : i \in DOMAIN messages' /\ messages'[i] = messages[i]
  BY Appended DEF Grows
<1> QED
  BY <1>1 DEF Of

\* A later message is after the whole list.
LEMMA UnbrokenGrows ==
    ASSUME messages \in Seq(Stored), Grows, NEW seq, NEW s, NEW r,
           Of(messages, seq, r), Unbroken(messages, seq, s)
    PROVE  Unbroken(messages', seq, s)
<1>1. CASE messages' = messages
  BY <1>1
<1>2. ASSUME NEW m \in Stored, messages' = Append(messages, m)
      PROVE  Unbroken(messages', seq, s)
  <2> DEFINE n == Len(messages')
  <2>1. /\ n = Len(messages) + 1 /\ Len(messages) \in Nat
        /\ DOMAIN messages = 1 .. Len(messages)
        /\ \A i \in DOMAIN messages : messages'[i] = messages[i]
        /\ \A i \in DOMAIN messages' : i \in DOMAIN messages \/ i = n
    BY <1>2, Appended
  <2> HIDE DEF n
  <2>2. \A j \in DOMAIN seq : ~(n < seq[j])
    BY <2>1 DEF Of
  <2> QED
    BY <2>1, <2>2 DEF Unbroken
<1> QED
  BY <1>1, <1>2 DEF Grows

\* All messages of a session, listed by id.
LEMMA AllStretch ==
    ASSUME messages \in Seq(Stored), NEW s
    PROVE  /\ Ascending(Ids(s)) \in Seq(1 .. Len(messages))
           /\ Stretch(messages, Ascending(Ids(s)), s)
<1> DEFINE n == Len(messages)
           ids == Ids(s)
           seq == Ascending(ids)
           size == Cardinality(ids)
<1>1. n \in Nat /\ ids \in SUBSET (1 .. n)
  BY IdsStored
<1>2. /\ DOMAIN messages = 1 .. n
      /\ \A i : i \in ids <=> i \in DOMAIN messages /\ messages[i].session = s
  BY DEF Ids
<1> HIDE DEF n, ids
<1>3. /\ seq \in Seq(1 .. n) /\ Len(seq) = size
      /\ \A k \in 1 .. size : seq[k] \in ids
      /\ \A i \in ids : \E k \in 1 .. size : seq[k] = i
      /\ \A k, l \in 1 .. size : k < l => seq[k] < seq[l]
  BY <1>1, AscendingLists
<1> HIDE DEF seq, size
<1>4. DOMAIN seq = 1 .. size
  BY <1>3
<1>5. Sorted(seq)
  BY <1>3, <1>4 DEF Sorted
<1>6. Of(messages, seq, s)
  BY <1>2, <1>3, <1>4 DEF Of
<1>7. Unbroken(messages, seq, s)
  BY <1>2, <1>3, <1>4 DEF Unbroken
<1> QED
  BY <1>3, <1>5, <1>6, <1>7 DEF Stretch, seq, ids, n

\* A place between two places of a shifted stretch.
LEMMA Between ==
    ASSUME NEW len \in Nat, NEW i \in 1 .. len, NEW j \in 1 .. len, NEW from \in Nat,
           NEW l \in Int, ~(l < i + from), ~(j + from < l)
    PROVE  l - from \in 1 .. len /\ (l - from) + from = l
OBVIOUS

\* The end of a stretch is a stretch.
LEMMA RecentStretch ==
    ASSUME NEW N \in Nat, NEW seq \in Seq(1 .. N), NEW n \in Nat \ {0}, NEW msgs, NEW s,
           Stretch(msgs, seq, s), DOMAIN msgs = 1 .. N
    PROVE  Stretch(msgs, Recent(seq, n), s)
<1> DEFINE r == Recent(seq, n)
<1>1. r \in Seq(1 .. N)
  BY RecentList
<1>2. PICK from \in Nat : \A i \in DOMAIN r : i + from \in DOMAIN seq /\ r[i] = seq[i + from]
  BY RecentList
<1> HIDE DEF r
<1> DEFINE len == Len(r)
<1>3. /\ DOMAIN r = 1 .. len /\ len \in Nat
      /\ DOMAIN seq = 1 .. Len(seq) /\ Len(seq) \in Nat
  BY <1>1
<1> HIDE DEF len
<1>4. Sorted(r)
  <2>1. \A i, j \in DOMAIN r : i < j => i + from < j + from
    BY <1>3
  <2> QED
    BY <1>2, <2>1 DEF Stretch, Sorted
<1>5. Of(msgs, r, s)
  BY <1>2 DEF Stretch, Of
<1>6. Unbroken(msgs, r, s)
  <2> SUFFICES ASSUME NEW id \in DOMAIN msgs, msgs[id].session = s,
                      NEW i \in DOMAIN r, NEW j \in DOMAIN r, r[i] < id, id < r[j]
               PROVE  \E k \in DOMAIN r : r[k] = id
    BY DEF Unbroken
  <2>1. /\ i + from \in DOMAIN seq /\ r[i] = seq[i + from]
        /\ j + from \in DOMAIN seq /\ r[j] = seq[j + from]
    BY <1>2
  <2>2. PICK l \in DOMAIN seq : seq[l] = id
    BY <2>1, Zenon DEF Stretch, Unbroken
  <2> DEFINE a == i + from
             b == j + from
  <2>3. /\ a \in DOMAIN seq /\ b \in DOMAIN seq /\ seq[a] < id /\ id < seq[b]
        /\ a = i + from /\ b = j + from
    BY <2>1
  <2> HIDE DEF a, b
  <2>4. /\ \A k \in DOMAIN seq : k \in Int /\ seq[k] \in Int
        /\ i \in 1 .. len /\ j \in 1 .. len /\ l \in Int
    BY <1>3
  <2>5. ~(l < a) /\ ~(b < l)
    <3>1. seq[a] \in Int /\ seq[b] \in Int /\ seq[l] \in Int
      BY <2>3, <2>4
    <3>2. Sorted(seq)
      BY DEF Stretch
    <3>3. ASSUME l < a
          PROVE  FALSE
      <4>1. seq[l] < seq[a]
        BY <2>3, <3>2, <3>3 DEF Sorted
      <4> QED
        BY <2>2, <2>3, <3>1, <4>1
    <3>4. ASSUME b < l
          PROVE  FALSE
      <4>1. seq[b] < seq[l]
        BY <2>3, <3>2, <3>4 DEF Sorted
      <4> QED
        BY <2>2, <2>3, <3>1, <4>1
    <3> QED
      BY <3>3, <3>4
  <2>6. l - from \in DOMAIN r /\ (l - from) + from = l
    <3>1. len \in Nat /\ i \in 1 .. len /\ j \in 1 .. len /\ l \in Int
      BY <1>3, <2>4
    <3>2. ~(l < i + from) /\ ~(j + from < l)
      BY <2>3, <2>5
    <3>3. l - from \in 1 .. len /\ (l - from) + from = l
      BY <3>1, <3>2, Between
    <3> QED
      BY <1>3, <3>3
  <2>7. r[l - from] = id
    BY <1>2, <2>2, <2>6
  <2> QED
    BY <2>6, <2>7
<1> QED
  BY <1>4, <1>5, <1>6 DEF Stretch, r

-----------------------------------------------------------------------------
(* The prompt of a turn.  Its history is a stretch of the session from the  *)
(* step on that reads it; the question is stored after all of it.           *)

Asked(t, msgs, q) ==
    LET n == Len(q.prompt) IN
    /\ n > 0
    /\ msgs[q.prompt[n]] = [session |-> q.session, role |-> "user", turn |-> t]
    /\ Sorted(q.prompt) /\ Of(msgs, q.prompt, q.session)
    /\ Unbroken(msgs, SubSeq(q.prompt, 1, n - 1), q.session)

PromptRule(t, msgs, q) ==
    /\ Len(q.prompt) <= PromptLimit + 1
    /\ \A i \in DOMAIN q.prompt : q.prompt[i] \in DOMAIN msgs
    /\ q.pc \in {"idle", "resolve"} => q.prompt = <<>>
    /\ q.pc = "append" => Stretch(msgs, q.prompt, q.session) /\ Len(q.prompt) <= PromptLimit
    /\ q.pc = "model" => Asked(t, msgs, q)

PromptInv == \A t \in Turn : PromptRule(t, messages, turn[t])

\* All but the last of a list.
LEMMA FrontOf ==
    ASSUME NEW seq \in Seq(Nat), Len(seq) > 0
    PROVE  /\ \A i \in DOMAIN SubSeq(seq, 1, Len(seq) - 1) :
                i \in DOMAIN seq /\ SubSeq(seq, 1, Len(seq) - 1)[i] = seq[i]
           /\ Len(seq) \in DOMAIN seq
<1>1. Len(seq) \in Nat /\ DOMAIN seq = 1 .. Len(seq)
  OBVIOUS
<1>2. SubSeq(seq, 1, Len(seq) - 1) = [i \in 1 .. Len(seq) - 1 |-> seq[i]]
  BY <1>1
<1> QED
  BY <1>1, <1>2

\* A message more does not change what is said of a prompt.
LEMMA PromptGrows ==
    ASSUME messages \in Seq(Stored), Grows, NEW u, NEW q \in Turns, PromptRule(u, messages, q)
    PROVE  PromptRule(u, messages', q)
<1>1. \A i \in DOMAIN messages : i \in DOMAIN messages' /\ messages'[i] = messages[i]
  BY Appended DEF Grows
<1>2. ASSUME Stretch(messages, q.prompt, q.session)
      PROVE  Stretch(messages', q.prompt, q.session)
  BY <1>2, OfGrows, UnbrokenGrows DEF Stretch
<1>3. ASSUME Asked(u, messages, q)
      PROVE  Asked(u, messages', q)
  <2> DEFINE n == Len(q.prompt)
             front == SubSeq(q.prompt, 1, n - 1)
  <2>1. /\ n > 0 /\ Sorted(q.prompt) /\ Of(messages, q.prompt, q.session)
        /\ messages[q.prompt[n]] = [session |-> q.session, role |-> "user", turn |-> u]
        /\ Unbroken(messages, front, q.session)
    BY <1>3, Zenon DEF Asked
  <2>2. q.prompt \in Seq(Nat)
    BY DEF Turns
  <2>3. n \in DOMAIN q.prompt /\ \A i \in DOMAIN front : i \in DOMAIN q.prompt
                                                       /\ front[i] = q.prompt[i]
    BY <2>1, <2>2, FrontOf
  <2> HIDE DEF n, front
  <2>4. messages'[q.prompt[n]] = messages[q.prompt[n]] /\ Of(messages, front, q.session)
    BY <1>1, <2>1, <2>3 DEF Of
  <2>5. Of(messages', q.prompt, q.session) /\ Unbroken(messages', front, q.session)
    BY <2>1, <2>4, OfGrows, UnbrokenGrows
  <2> QED
    BY <2>1, <2>4, <2>5, Zenon DEF Asked, n, front
<1> QED
  BY <1>1, <1>2, <1>3 DEF PromptRule

\* The prompts of the other turns, when one turn takes a step.
LEMMA PromptStep ==
    ASSUME TypeInv, PromptInv, NEW t \in Turn, NEW q, TurnStep(t, q), Grows,
           PromptRule(t, messages', q)
    PROVE  PromptInv'
<1>1. turn \in [Turn -> Turns] /\ messages \in Seq(Stored)
  BY DEF TypeInv, ServerType
<1>2. turn' = [turn EXCEPT ![t] = q]
  BY DEF TurnStep
<1> HIDE DEF Stored, Turns
<1>3. ASSUME NEW u \in Turn, u # t
      PROVE  PromptRule(u, messages', turn'[u])
  <2>1. turn'[u] = turn[u] /\ turn[u] \in Turns
    BY <1>1, <1>2, <1>3
  <2>2. PromptRule(u, messages, turn[u])
    BY DEF PromptInv
  <2> QED
    BY <1>1, <2>1, <2>2, PromptGrows
<1>4. turn'[t] = q
  BY <1>1, <1>2
<1> QED
  BY <1>3, <1>4 DEF PromptInv

\* The question put behind the history.
LEMMA QuestionAsked ==
    ASSUME messages \in Seq(Stored), NEW t \in Turn, NEW old \in Turns, NEW q \in Turns,
           PromptRule(t, messages, old), old.pc = "append", q.session = old.session,
           NEW m \in Stored, m = [session |-> q.session, role |-> "user", turn |-> t],
           messages' = Append(messages, m),
           q.prompt = Append(old.prompt, Len(messages) + 1)
    PROVE  Asked(t, messages', q) /\ Len(q.prompt) <= PromptLimit + 1
<1> DEFINE p == old.prompt
           r == q.prompt
           n == Len(p)
           id == Len(messages) + 1
           s == q.session
<1>1. p \in Seq(Nat) /\ n \in Nat /\ n <= PromptLimit /\ PromptLimit \in Nat
  BY Constants DEF Turns, PromptRule
<1>2. /\ Sorted(p) /\ Of(messages, p, s) /\ Unbroken(messages, p, s)
  BY DEF PromptRule, Stretch
<1>3. /\ Len(messages) \in Nat /\ DOMAIN messages = 1 .. Len(messages)
      /\ id \in DOMAIN messages' /\ messages'[id] = m /\ id \in Nat
  BY Appended
<1>4. r = Append(p, id)
  OBVIOUS
<1>5. Of(messages', p, s) /\ Unbroken(messages', p, s)
  <2>1. Grows
    BY DEF Grows
  <2> QED
    BY <1>2, <2>1, OfGrows, UnbrokenGrows
<1>6. \A i \in DOMAIN p : p[i] < id
  BY <1>2, <1>3 DEF Of
<1> HIDE DEF p, r, n, id, s
<1>7. /\ DOMAIN p = 1 .. n /\ DOMAIN r = 1 .. n + 1 /\ Len(r) = n + 1
      /\ \A i \in 1 .. n : r[i] = p[i]
      /\ r[n + 1] = id
      /\ SubSeq(r, 1, n) = p
  BY <1>1, <1>3, <1>4 DEF n
<1>13. \A i \in DOMAIN r : i \in DOMAIN p \/ i = n + 1
  <2>1. \A i \in 1 .. n + 1 : i \in 1 .. n \/ i = n + 1
    BY <1>1
  <2> QED
    BY <1>7, <2>1
<1>8. Sorted(r)
  <2> SUFFICES ASSUME NEW i \in DOMAIN r, NEW j \in DOMAIN r, i < j
               PROVE  r[i] < r[j]
    BY DEF Sorted
  <2>1. i \in DOMAIN p /\ r[i] = p[i]
    BY <1>1, <1>7
  <2>2. CASE j \in DOMAIN p
    BY <1>2, <1>7, <2>1, <2>2 DEF Sorted
  <2>3. CASE j = n + 1
    BY <1>6, <1>7, <2>1, <2>3
  <2>4. j \in DOMAIN p \/ j = n + 1
    BY <1>1, <1>7
  <2> QED
    BY <2>2, <2>3, <2>4
<1>9. Of(messages', r, s)
  <2> SUFFICES ASSUME NEW i \in DOMAIN r
               PROVE  r[i] \in DOMAIN messages' /\ messages'[r[i]].session = s
    BY DEF Of
  <2>1. CASE i \in DOMAIN p
    BY <1>5, <1>7, <2>1 DEF Of
  <2>2. CASE i = n + 1
    <3>1. m.session = s
      BY DEF s
    <3> QED
      BY <1>3, <1>7, <2>2, <3>1
  <2>3. i \in DOMAIN p \/ i = n + 1
    BY <1>13
  <2> QED
    BY <2>1, <2>2, <2>3
<1>10. Len(r) > 0 /\ Len(r) - 1 = n /\ Len(r) <= PromptLimit + 1
  BY <1>1, <1>7
<1>11. messages'[r[Len(r)]] = [session |-> s, role |-> "user", turn |-> t]
  BY <1>3, <1>7 DEF s
<1>12. Unbroken(messages', SubSeq(r, 1, Len(r) - 1), s)
  BY <1>5, <1>7, <1>10
<1> QED
  BY <1>8, <1>9, <1>10, <1>11, <1>12, Zenon DEF Asked, r, s

\* Each statement of a handler keeps what is said of its prompt.
LEMMA PromptNext == TypeInv /\ PromptInv /\ [Next]_vars => PromptInv'
<1> SUFFICES ASSUME TypeInv, PromptInv, [Next]_vars
             PROVE  PromptInv'
  OBVIOUS
<1>1. /\ ServerType /\ PageType /\ Resolved /\ messages \in Seq(Stored)
      /\ current \in sessions \cup {None} /\ turn \in [Turn -> Turns]
  BY DEF TypeInv, ServerType, PageType
<1>2. CASE UNCHANGED <<messages, turn>>
  BY <1>2 DEF PromptInv, PromptRule, Asked
<1>3. ASSUME NEW t \in Turn, Serve(t) \/ OtherClient(t) \/ Send(t)
      PROVE  Grows /\ PromptRule(t, messages, turn[t])
  BY <1>1, <1>3, TurnTypes DEF PromptInv
<1>4. ASSUME NEW t \in Turn, ResolveSession(t)
      PROVE  PromptInv'
  <2>1. PICK q \in Turns :
              /\ TurnStep(t, q) /\ UNCHANGED messages
              /\ turn[t].pc = "resolve"
              /\ \/ q.pc = "append" /\ q.prompt = turn[t].prompt
                 \/ /\ q.pc = "append"
                    /\ q.prompt = Recent(Ascending(Ids(q.session)), PromptLimit)
                 \/ q.pc = "end" /\ q.prompt = turn[t].prompt
    BY <1>1, <1>4, ResolveStep
  <2>2. turn[t].prompt = <<>> /\ PromptLimit \in Nat \ {0}
    BY <1>3, <1>4, <2>1, Constants DEF Serve, PromptRule
  <2>3. Stretch(messages, <<>>, q.session) /\ Len(<<>>) = 0
    BY DEF Stretch, Sorted, Of, Unbroken
  <2>4. PromptRule(t, messages', q)
    <3>1. CASE q.prompt = <<>> /\ q.pc \in {"append", "end"}
      <4>1. Len(q.prompt) <= PromptLimit /\ Len(q.prompt) <= PromptLimit + 1
        BY <2>2, <2>3, <3>1
      <4>2. \A i \in DOMAIN q.prompt : FALSE
        BY <3>1
      <4> QED
        BY <2>1, <2>3, <3>1, <4>1, <4>2 DEF PromptRule
    <3>2. CASE q.pc = "append" /\ q.prompt = Recent(Ascending(Ids(q.session)), PromptLimit)
      <4> DEFINE s == q.session
                 all == Ascending(Ids(s))
                 r == Recent(all, PromptLimit)
                 n == Len(messages)
      <4>1. /\ all \in Seq(1 .. n) /\ Stretch(messages, all, s)
            /\ n \in Nat /\ DOMAIN messages = 1 .. n
        BY <1>1, AllStretch
      <4> HIDE DEF all, n
      <4>2. Len(r) <= PromptLimit /\ r \in Seq(1 .. n)
        BY <2>2, <4>1, RecentList
      <4>3. Stretch(messages, r, s)
        BY <2>2, <4>1, RecentStretch
      <4>4. r = q.prompt
        BY <3>2 DEF all
      <4> HIDE DEF r
      <4>5. Len(r) <= PromptLimit + 1 /\ \A i \in DOMAIN r : r[i] \in DOMAIN messages
        BY <2>2, <4>1, <4>2
      <4> QED
        BY <2>1, <3>2, <4>2, <4>3, <4>4, <4>5 DEF PromptRule
    <3> QED
      BY <2>1, <2>2, <3>1, <3>2
  <2>5. Grows
    BY <2>1 DEF Grows
  <2> QED
    BY <2>1, <2>4, <2>5, PromptStep
<1>5. ASSUME NEW t \in Turn, AppendQuestion(t)
      PROVE  PromptInv'
  <2>1. PICK q \in Turns :
           /\ TurnStep(t, q) /\ q.session = turn[t].session /\ turn[t].pc = "append"
           /\ \/ /\ q.pc = "model"
                 /\ q.prompt = Append(turn[t].prompt, Len(messages) + 1)
                 /\ messages' = Append(messages, Message(t, "user"))
              \/ q.pc = "end" /\ q.prompt = turn[t].prompt
    BY <1>1, <1>5, AppendStep
  <2>2. Grows /\ PromptRule(t, messages, turn[t]) /\ turn[t] \in Turns
    BY <1>1, <1>3, <1>5 DEF Serve
  <2>3. CASE q.pc = "end" /\ q.prompt = turn[t].prompt
    <3>1. PromptRule(t, messages, q)
      BY <2>2, <2>3 DEF PromptRule
    <3>2. PromptRule(t, messages', q)
      BY <1>1, <2>2, <3>1, PromptGrows
    <3> QED
      BY <2>1, <2>2, <3>2, PromptStep
  <2>4. CASE /\ q.pc = "model"
             /\ q.prompt = Append(turn[t].prompt, Len(messages) + 1)
             /\ messages' = Append(messages, Message(t, "user"))
    <3> DEFINE m == Message(t, "user")
    <3>1. m = [session |-> q.session, role |-> "user", turn |-> t]
      BY <2>1 DEF Message
    <3>2. m \in Stored
      <4>1. turn[t].session \in Session
        BY <1>1, <2>1, <2>2 DEF Resolved, Turns
      <4> QED
        BY <2>1, <3>1, <4>1 DEF Stored
    <3>3. messages' = Append(messages, m)
      BY <2>4
    <3> HIDE DEF m
    <3>4. Asked(t, messages', q) /\ Len(q.prompt) <= PromptLimit + 1
      BY <1>1, <2>1, <2>2, <2>4, <3>1, <3>2, <3>3, QuestionAsked
    <3>5. \A i \in DOMAIN q.prompt : q.prompt[i] \in DOMAIN messages'
      BY <3>4 DEF Asked, Of
    <3>6. PromptRule(t, messages', q)
      BY <2>4, <3>4, <3>5, Zenon DEF PromptRule
    <3> QED
      BY <2>1, <2>2, <3>6, PromptStep
  <2> QED
    BY <2>1, <2>3, <2>4
<1>6. ASSUME NEW t \in Turn, AskModel(t) \/ StoreReply(t) \/ UpdateRun(t)
      PROVE  PromptInv'
  <2>1. PICK q \in Turns :
              /\ TurnStep(t, q) /\ q.prompt = turn[t].prompt
              /\ q.pc \in {"update", "reply", "end"}
    BY <1>1, <1>6, AnswerStep
  <2>2. Grows /\ PromptRule(t, messages, turn[t])
    BY <1>3, <1>6 DEF Serve
  <2>3. PromptRule(t, messages, q)
    BY <2>1, <2>2 DEF PromptRule
  <2>4. PromptRule(t, messages', q)
    BY <1>1, <2>2, <2>3, PromptGrows
  <2> QED
    BY <2>1, <2>2, <2>4, PromptStep
<1>7. ASSUME NEW t \in Turn, OtherClient(t) \/ Send(t)
      PROVE  PromptInv'
  <2>1. PICK q \in Turns :
              /\ TurnStep(t, q) /\ q.prompt = turn[t].prompt
              /\ turn[t].pc = "idle" /\ q.pc = "resolve"
    BY <1>1, <1>7, BeginStep
  <2>2. Grows /\ PromptRule(t, messages, turn[t])
    BY <1>3, <1>7
  <2>3. PromptRule(t, messages, q)
    BY <2>1, <2>2 DEF PromptRule
  <2>4. PromptRule(t, messages', q)
    BY <1>1, <2>2, <2>3, PromptGrows
  <2> QED
    BY <2>1, <2>2, <2>4, PromptStep
<1>8. CASE UNCHANGED vars
  BY <1>2, <1>8 DEF vars, server
<1>9. ASSUME NEW s \in Session, CountMessages(s) \/ ReadMessages(s) \/ ShowMessages(s)
      PROVE  PromptInv'
  BY <1>2, <1>9 DEF CountMessages, ReadMessages, ShowMessages, server
<1>10. CASE LoadOlder \/ ServeOlder \/ ShowOlder
  BY <1>2, <1>10 DEF LoadOlder, ServeOlder, ShowOlder, server
<1>11. ASSUME NEW t \in Turn, AwaitTasks(t) \/ ShowAnswer(t)
       PROVE  PromptInv'
  BY <1>2, <1>11 DEF AwaitTasks, ShowAnswer, server
<1>12. CASE PickSession \/ FollowLink \/ NewSession
  <2>1. UNCHANGED <<messages, turn>>
    BY <1>1, <1>12, Shown
  <2> QED
    BY <1>2, <2>1
<1> QED
  BY <1>4, <1>5, <1>6, <1>7, <1>8, <1>9, <1>10, <1>11, <1>12, Zenon DEF Next, Respond, Serve

\* The rules of the prompts hold in every state.
LEMMA PromptInvariance == Spec => []PromptInv
<1>1. Init => PromptInv
  <2> SUFFICES ASSUME Init, NEW t \in Turn
               PROVE  PromptRule(t, messages, turn[t])
    BY DEF PromptInv
  <2>1. turn[t].pc = "idle" /\ turn[t].prompt = <<>>
    BY DEF Init, NoTurn
  <2>2. Len(<<>>) <= PromptLimit + 1 /\ \A i \in DOMAIN <<>> : FALSE
    BY Constants
  <2> QED
    BY <2>1, <2>2 DEF PromptRule
<1> QED
  BY <1>1, TypeInvariance, PromptNext, PTL DEF Spec

\* The prompt has the question once, last, behind an unbroken stretch of the same
\* session (Orchestrator.Chat, buildMessages).
THEOREM PromptBuilt == Spec => []PromptHasQuestionOnce
<1>1. TypeInv /\ PromptInv => PromptHasQuestionOnce
  <2> SUFFICES ASSUME TypeInv, PromptInv, NEW t \in Turn, At(t, "model")
               PROVE  LET prompt == turn[t].prompt
                          n == Len(prompt)
                      IN /\ messages[prompt[n]] = Message(t, "user")
                         /\ \A i, j \in 1 .. n : i < j => prompt[i] < prompt[j]
                         /\ \A i \in 1 .. n : messages[prompt[i]].session = turn[t].session
                         /\ Contiguous(SubSeq(prompt, 1, n - 1), turn[t].session)
    BY Zenon DEF PromptHasQuestionOnce
  <2> DEFINE prompt == turn[t].prompt
             n == Len(prompt)
             front == SubSeq(prompt, 1, n - 1)
             s == turn[t].session
  <2>1. Asked(t, messages, turn[t]) /\ prompt \in Seq(Nat)
    BY DEF PromptInv, PromptRule, At, TypeInv, ServerType, Turns
  <2>2. /\ messages[prompt[n]] = Message(t, "user")
        /\ Sorted(prompt) /\ Of(messages, prompt, s) /\ Unbroken(messages, front, s)
    BY <2>1, Zenon DEF Asked, Message
  <2>3. DOMAIN prompt = 1 .. n
    BY <2>1
  <2>4. Contiguous(front, s)
    <3> HIDE DEF front
    <3> QED
      BY <2>2 DEF Contiguous, Unbroken, Ids
  <2>5. /\ \A i, j \in 1 .. n : i < j => prompt[i] < prompt[j]
        /\ \A i \in 1 .. n : messages[prompt[i]].session = s
    BY <2>2, <2>3, Zenon DEF Sorted, Of
  <2> QED
    BY <2>2, <2>4, <2>5, Zenon
<1> QED
  BY <1>1, TypeInvariance, PromptInvariance, PTL

-----------------------------------------------------------------------------
(* The tail window of a session.                                            *)

IdsOf(msgs, s) == {i \in DOMAIN msgs : msgs[i].session = s}

Latest(msgs, s) == {i \in IdsOf(msgs, s) : Cardinality({j \in IdsOf(msgs, s) : j > i}) < Limit}

\* A window moves forward only: what is in it now was in it before or is newer
\* than everything that was stored then.
LEMMA LatestGrows ==
    ASSUME messages \in Seq(Stored), Grows, NEW s
    PROVE  \A y \in Latest(messages', s) :
              y \in Latest(messages, s) \/ \A x \in DOMAIN messages : x < y
<1>1. CASE messages' = messages
  BY <1>1
<1>2. ASSUME NEW m \in Stored, messages' = Append(messages, m), NEW y \in Latest(messages', s)
      PROVE  y \in Latest(messages, s) \/ \A x \in DOMAIN messages : x < y
  <2> DEFINE n == Len(messages)
             n2 == Len(messages')
             ids == IdsOf(messages, s)
             ids2 == IdsOf(messages', s)
             after == {j \in ids : j > y}
             after2 == {j \in ids2 : j > y}
  <2>1. /\ n2 = n + 1 /\ n \in Nat
        /\ DOMAIN messages = 1 .. n /\ DOMAIN messages' = 1 .. n2
        /\ \A i \in DOMAIN messages : i \in DOMAIN messages' /\ messages'[i] = messages[i]
        /\ \A i \in DOMAIN messages' : i \in DOMAIN messages \/ i = n2
    BY <1>2, Appended
  <2>2. /\ y \in ids2 /\ Cardinality(after2) < Limit
        /\ y \in DOMAIN messages' /\ messages'[y].session = s
    BY <1>2 DEF Latest, IdsOf
  <2> HIDE DEF n, n2
  <2>3. CASE y = n2
    BY <2>1, <2>3
  <2>4. CASE y \in DOMAIN messages
    <3>1. y \in ids /\ ids \subseteq ids2 /\ ids2 \in SUBSET (1 .. n2) /\ n2 \in Nat
      BY <2>1, <2>2, <2>4 DEF IdsOf
    <3>2. after2 \in SUBSET (1 .. n2) /\ after \in SUBSET after2
      BY <3>1
    <3> HIDE DEF after, after2
    <3>3. IsFiniteSet(after2) /\ Cardinality(after2) \in Nat
      BY <3>1, <3>2, FiniteIds
    <3>4. /\ Cardinality(after) <= Cardinality(after2) /\ IsFiniteSet(after)
      BY <3>2, <3>3, FS_Subset
    <3>5. Cardinality(after) \in Nat /\ Limit \in Nat
      BY <3>4, FS_CardinalityType, Constants
    <3>6. Cardinality(after) < Limit
      BY <2>2, <3>3, <3>4, <3>5
    <3> QED
      BY <3>1, <3>6 DEF Latest, after
  <2> QED
    BY <2>1, <2>2, <2>3, <2>4
<1> QED
  BY <1>1, <1>2 DEF Grows

\* What a request for the window, and one for older messages, is answered.
LEMMA WindowLists ==
    ASSUME messages \in Seq(Stored), NEW s, NEW cursor
    PROVE  /\ Sorted(Window(s)) /\ Of(messages, Window(s), s)
           /\ \A i \in DOMAIN Window(s) : Window(s)[i] \in Latest(messages, s)
           /\ 1 \in DOMAIN Window(s) => \A y \in Latest(messages, s) : Window(s)[1] <= y
           /\ Sorted(Before(s, cursor)) /\ Of(messages, Before(s, cursor), s)
           /\ \A i \in DOMAIN Before(s, cursor) : Before(s, cursor)[i] < cursor
<1> DEFINE n == Len(messages)
           tail == Latest(messages, s)
           head == Newest({i \in Ids(s) : i < cursor})
<1>1. n \in Nat /\ Ids(s) \in SUBSET (1 .. n) /\ DOMAIN messages = 1 .. n
  BY IdsStored
<1>2. /\ tail \in SUBSET (1 .. n) /\ head \in SUBSET (1 .. n)
      /\ \A i \in tail : i \in DOMAIN messages /\ messages[i].session = s
      /\ \A i \in head : i \in DOMAIN messages /\ messages[i].session = s /\ i < cursor
  BY <1>1 DEF Newest, Latest, IdsOf, Ids
<1>3. Window(s) = Ascending(tail) /\ Before(s, cursor) = Ascending(head)
  BY DEF Window, Before, Newest, Latest, IdsOf, Ids
<1> HIDE DEF n, tail, head
<1>4. ASSUME NEW ids \in SUBSET (1 .. n)
      PROVE  /\ Sorted(Ascending(ids)) /\ Ascending(ids) \in Seq(1 .. n)
             /\ \A i \in DOMAIN Ascending(ids) : Ascending(ids)[i] \in ids
             /\ \A y \in ids : \E i \in DOMAIN Ascending(ids) : Ascending(ids)[i] = y
  <2> DEFINE a == Ascending(ids)
             size == Cardinality(ids)
  <2>1. /\ a \in Seq(1 .. n) /\ Len(a) = size
        /\ \A k \in 1 .. size : a[k] \in ids
        /\ \A i \in ids : \E k \in 1 .. size : a[k] = i
        /\ \A k, l \in 1 .. size : k < l => a[k] < a[l]
    BY <1>1, AscendingLists
  <2> HIDE DEF a, size
  <2>2. DOMAIN a = 1 .. size
    BY <2>1
  <2> QED
    BY <2>1, <2>2 DEF Sorted, a
<1>5. Sorted(Window(s)) /\ Sorted(Before(s, cursor))
  BY <1>2, <1>3, <1>4
<1>6. /\ \A i \in DOMAIN Window(s) : Window(s)[i] \in tail
      /\ \A y \in tail : \E i \in DOMAIN Window(s) : Window(s)[i] = y
      /\ \A i \in DOMAIN Before(s, cursor) : Before(s, cursor)[i] \in head
      /\ Window(s) \in Seq(1 .. n)
  BY <1>2, <1>3, <1>4
<1>7. Of(messages, Window(s), s) /\ Of(messages, Before(s, cursor), s)
  BY <1>2, <1>6 DEF Of
<1>8. ASSUME 1 \in DOMAIN Window(s), NEW y \in tail
      PROVE  Window(s)[1] <= y
  <2> DEFINE w == Window(s)
  <2>1. PICK i \in DOMAIN w : w[i] = y
    BY <1>6
  <2>2. Sorted(w) /\ w \in Seq(1 .. n) /\ 1 \in DOMAIN w
    BY <1>5, <1>6, <1>8
  <2> HIDE DEF w
  <2>6. DOMAIN w = 1 .. Len(w) /\ \A j \in DOMAIN w : w[j] \in Int
    BY <1>1, <2>2
  <2>3. i \in Nat /\ i >= 1 /\ w[1] \in Int /\ w[i] \in Int
    BY <2>2, <2>6
  <2>4. i = 1 \/ w[1] < w[i]
    BY <2>2, <2>3 DEF Sorted
  <2>5. w[1] <= w[i]
    BY <2>3, <2>4
  <2> QED
    BY <2>1, <2>5 DEF w
<1> QED
  BY <1>2, <1>5, <1>6, <1>7, <1>8 DEF tail

\* The members and the first of two lists put together.
LEMMA Concatenated ==
    ASSUME NEW a \in Seq(Nat), NEW b \in Seq(Nat)
    PROVE  /\ \A i \in DOMAIN (a \o b) :
                \/ i \in DOMAIN a /\ (a \o b)[i] = a[i]
                \/ i - Len(a) \in DOMAIN b /\ (a \o b)[i] = b[i - Len(a)] /\ i \notin DOMAIN a
           /\ 1 \in DOMAIN (a \o b) =>
                \/ 1 \in DOMAIN a /\ (a \o b)[1] = a[1]
                \/ DOMAIN a = {} /\ 1 \in DOMAIN b /\ (a \o b)[1] = b[1]
           /\ a \o b # <<>> => 1 \in DOMAIN (a \o b)
           /\ Len(a \o b) = Len(a) + Len(b)
           /\ Len(a) \in Nat /\ Len(b) \in Nat /\ DOMAIN (a \o b) = 1 .. Len(a) + Len(b)
<1>1. /\ Len(a) \in Nat /\ Len(b) \in Nat
      /\ DOMAIN a = 1 .. Len(a) /\ DOMAIN b = 1 .. Len(b)
      /\ Len(a \o b) = Len(a) + Len(b)
      /\ DOMAIN (a \o b) = 1 .. Len(a) + Len(b)
  OBVIOUS
<1>2. \A i \in 1 .. Len(a) + Len(b) :
         (a \o b)[i] = IF i <= Len(a) THEN a[i] ELSE b[i - Len(a)]
  OBVIOUS
<1>3. a \o b # <<>> => 1 \in DOMAIN (a \o b)
  <2>1. CASE Len(a) + Len(b) = 0
    <3>1. Len(a) = 0 /\ Len(b) = 0
      BY <1>1, <2>1
    <3>2. a = <<>> /\ b = <<>>
      BY <3>1
    <3> QED
      BY <3>2
  <2>2. CASE Len(a) + Len(b) # 0
    BY <1>1, <2>2
  <2> QED
    BY <2>1, <2>2
<1>4. \A i \in DOMAIN (a \o b) :
         \/ i \in DOMAIN a /\ (a \o b)[i] = a[i]
         \/ i - Len(a) \in DOMAIN b /\ (a \o b)[i] = b[i - Len(a)] /\ i \notin DOMAIN a
  BY <1>1, <1>2
<1>5. 1 \in DOMAIN (a \o b) =>
         \/ 1 \in DOMAIN a /\ (a \o b)[1] = a[1]
         \/ DOMAIN a = {} /\ 1 \in DOMAIN b /\ (a \o b)[1] = b[1]
  BY <1>1, <1>2
<1> QED
  BY <1>1, <1>3, <1>4, <1>5

\* Two lists in order, one below the other, are in order together.
LEMMA ConcatSorted ==
    ASSUME NEW a \in Seq(Nat), NEW b \in Seq(Nat), Sorted(a), Sorted(b),
           \A i \in DOMAIN a, j \in DOMAIN b : a[i] < b[j]
    PROVE  Sorted(a \o b)
<1> DEFINE c == a \o b
           n == Len(a)
<1>1. /\ \A i \in DOMAIN c : \/ i \in DOMAIN a /\ c[i] = a[i]
                             \/ /\ i - n \in DOMAIN b /\ c[i] = b[i - n] /\ i \notin DOMAIN a
      /\ n \in Nat /\ DOMAIN c = 1 .. n + Len(b) /\ Len(b) \in Nat
      /\ DOMAIN a = 1 .. n /\ DOMAIN b = 1 .. Len(b)
  BY Concatenated
<1> HIDE DEF c, n
<1> SUFFICES ASSUME NEW i \in DOMAIN c, NEW j \in DOMAIN c, i < j
             PROVE  c[i] < c[j]
  BY DEF Sorted, c
<1>2. i \in Int /\ j \in Int
  BY <1>1
<1>3. CASE i \in DOMAIN a /\ j \in DOMAIN a
  BY <1>1, <1>3 DEF Sorted
<1>4. CASE i \in DOMAIN a /\ j \notin DOMAIN a
  BY <1>1, <1>4
<1>5. CASE i \notin DOMAIN a /\ j \notin DOMAIN a
  <2>1. i - n < j - n
    BY <1>1, <1>2
  <2>2. /\ i - n \in DOMAIN b /\ c[i] = b[i - n]
        /\ j - n \in DOMAIN b /\ c[j] = b[j - n]
    BY <1>1, <1>5
  <2> QED
    BY <2>1, <2>2 DEF Sorted
<1>6. CASE i \notin DOMAIN a /\ j \in DOMAIN a
  BY <1>1, <1>2, <1>6
<1> QED
  BY <1>3, <1>4, <1>5, <1>6

-----------------------------------------------------------------------------
(* The page.  c and f are the window that the page shows of a session and   *)
(* the one a request carries: neither opens after the session's latest      *)
(* messages do.  The older messages o are before both and before whatever   *)
(* the next request can return, and so is the page that l asks for.         *)

UpTo(msgs, x, c, f, s) ==
    /\ \A j \in DOMAIN c : x <= c[j]
    /\ \A j \in DOMAIN f : x <= f[j]
    /\ \A y \in Latest(msgs, s) : x <= y

Under(msgs, x, c, f, s) ==
    /\ \A j \in DOMAIN c : x < c[j]
    /\ \A j \in DOMAIN f : x < f[j]
    /\ \A y \in Latest(msgs, s) : x < y

QueryRule(msgs, c, f, s) ==
    /\ Sorted(c) /\ Of(msgs, c, s)
    /\ Sorted(f) /\ Of(msgs, f, s)
    /\ 1 \in DOMAIN c => UpTo(msgs, c[1], c, f, s)
    /\ 1 \in DOMAIN f => \A y \in Latest(msgs, s) : f[1] <= y

OlderRule(msgs, o, c, f, s) ==
    /\ Sorted(o) /\ Of(msgs, o, s)
    /\ \A i \in DOMAIN o : Under(msgs, o[i], c, f, s)

LoadRule(msgs, l, o, c, f, s) ==
    l # NoLoad =>
        /\ l.session = s
        /\ Sorted(l.items) /\ Of(msgs, l.items, s)
        /\ \A i \in DOMAIN l.items : l.items[i] < l.cursor
        /\ l.cursor \in DOMAIN msgs
        /\ \A i \in DOMAIN o : l.cursor <= o[i]
        /\ UpTo(msgs, l.cursor, c, f, s)

Kept(msgs, seq) == \A i \in DOMAIN seq : seq[i] \in DOMAIN msgs

PageInv ==
    /\ \A s \in Session : QueryRule(messages, cache[s].items, fetch[s].items, s)
    /\ \A s \in Session : cache[s].known \/ (cache[s].items = <<>> /\ cache[s].total = 0)
    /\ Kept(messages, older) /\ Kept(messages, load.items)
    /\ current = None => older = <<>> /\ load = NoLoad
    /\ ~swapped /\ current # None =>
          LET c == cache[current].items
              f == fetch[current].items
          IN /\ OlderRule(messages, older, c, f, current)
             /\ LoadRule(messages, load, older, c, f, current)

\* A message more is above what the page holds.
LEMMA UpToGrows ==
    ASSUME messages \in Seq(Stored), Grows, NEW c, NEW f, NEW s, NEW x \in DOMAIN messages
    PROVE  /\ UpTo(messages, x, c, f, s) => UpTo(messages', x, c, f, s)
           /\ Under(messages, x, c, f, s) => Under(messages', x, c, f, s)
           /\ (\A y \in Latest(messages, s) : x <= y) => \A y \in Latest(messages', s) : x <= y
<1>1. \A y \in Latest(messages', s) :
         y \in Latest(messages, s) \/ \A z \in DOMAIN messages : z < y
  BY LatestGrows
<1>2. \A y \in Latest(messages', s) : y \in Int
  <2>1. messages' \in Seq(Stored)
    <3>1. ASSUME NEW m \in Stored, messages' = Append(messages, m)
          PROVE  messages' \in Seq(Stored)
      <4> HIDE DEF Stored
      <4> QED
        BY <3>1
    <3> QED
      BY <3>1, Zenon DEF Grows
  <2>2. \A y \in DOMAIN messages' : y \in Int
    BY <2>1
  <2> QED
    BY <2>2 DEF Latest, IdsOf
<1>3. x \in Int
  OBVIOUS
<1>4. \A y \in Int : x < y => x <= y
  BY <1>3
<1> QED
  BY <1>1, <1>2, <1>4 DEF UpTo, Under

\* The windows, when a message is stored.
LEMMA QueryGrows ==
    ASSUME messages \in Seq(Stored), Grows, NEW c, NEW f, NEW s, QueryRule(messages, c, f, s)
    PROVE  QueryRule(messages', c, f, s)
<1>1. Of(messages', c, s) /\ Of(messages', f, s)
  BY OfGrows DEF QueryRule
<1>2. ASSUME 1 \in DOMAIN c
      PROVE  UpTo(messages', c[1], c, f, s)
  BY <1>2, UpToGrows DEF QueryRule, Of
<1>3. ASSUME 1 \in DOMAIN f
      PROVE  \A y \in Latest(messages', s) : f[1] <= y
  BY <1>3, UpToGrows DEF QueryRule, Of
<1> QED
  BY <1>1, <1>2, <1>3 DEF QueryRule

\* The older messages, when a message is stored.
LEMMA OlderGrows ==
    ASSUME messages \in Seq(Stored), Grows, NEW o, NEW c, NEW f, NEW s,
           OlderRule(messages, o, c, f, s)
    PROVE  OlderRule(messages', o, c, f, s)
<1>1. Of(messages', o, s)
  BY OfGrows DEF OlderRule
<1>2. ASSUME NEW i \in DOMAIN o
      PROVE  Under(messages', o[i], c, f, s)
  BY <1>2, UpToGrows DEF OlderRule, Of
<1> QED
  BY <1>1, <1>2 DEF OlderRule

\* The request for older messages, when a message is stored.
LEMMA LoadGrows ==
    ASSUME messages \in Seq(Stored), Grows, NEW l, NEW o, NEW c, NEW f, NEW s,
           LoadRule(messages, l, o, c, f, s)
    PROVE  LoadRule(messages', l, o, c, f, s)
<1> SUFFICES ASSUME l # NoLoad
             PROVE  LoadRule(messages', l, o, c, f, s)
  BY DEF LoadRule
<1>1. Of(messages', l.items, s)
  BY OfGrows DEF LoadRule
<1>2. UpTo(messages', l.cursor, c, f, s)
  BY UpToGrows DEF LoadRule
<1>3. l.cursor \in DOMAIN messages'
  <2>1. \A i \in DOMAIN messages : i \in DOMAIN messages'
    BY Appended DEF Grows
  <2> QED
    BY <2>1 DEF LoadRule
<1> QED
  BY <1>1, <1>2, <1>3 DEF LoadRule

\* A step that stores at most a message, or none, and leaves the page alone.
LEMMA PageGrows ==
    ASSUME TypeInv, PageInv, Grows,
           UNCHANGED <<current, older, cache, fetch, load, swapped>>
    PROVE  PageInv'
<1>1. messages \in Seq(Stored)
  BY DEF TypeInv, ServerType
<1>2. \A i \in DOMAIN messages : i \in DOMAIN messages'
  BY <1>1, Appended DEF Grows
<1>3. ASSUME NEW s \in Session
      PROVE  QueryRule(messages', cache'[s].items, fetch'[s].items, s)
  BY <1>1, QueryGrows DEF PageInv
<1>4. ASSUME ~swapped', current' # None
      PROVE  LET c == cache'[current'].items
                 f == fetch'[current'].items
             IN /\ OlderRule(messages', older', c, f, current')
                /\ LoadRule(messages', load', older', c, f, current')
  BY <1>1, <1>4, OlderGrows, LoadGrows DEF PageInv
<1>5. Kept(messages', older') /\ Kept(messages', load'.items)
  BY <1>2 DEF PageInv, Kept
<1>6. /\ \A s \in Session : cache'[s].known \/ (cache'[s].items = <<>> /\ cache'[s].total = 0)
      /\ current' = None => older' = <<>> /\ load' = NoLoad
  BY DEF PageInv
<1> QED
  BY <1>3, <1>4, <1>5, <1>6, Zenon DEF PageInv

\* What x is not after stays so when the request is answered, dropped or shown.
LEMMA UpToMoves ==
    ASSUME messages \in Seq(Stored), NEW c, NEW f, NEW s, NEW c2, NEW f2, NEW x,
           c2 = c \/ c2 = f,
           \/ f2 = f \/ f2 = <<>>
           \/ f2 = Window(s)
    PROVE  /\ UpTo(messages, x, c, f, s) => UpTo(messages, x, c2, f2, s)
           /\ Under(messages, x, c, f, s) => Under(messages, x, c2, f2, s)
<1>1. \A i \in DOMAIN Window(s) : Window(s)[i] \in Latest(messages, s)
  BY WindowLists
<1>2. \A i \in DOMAIN <<>> : FALSE
  OBVIOUS
<1>3. ASSUME UpTo(messages, x, c, f, s)
      PROVE  UpTo(messages, x, c2, f2, s)
  <2>1. \A j \in DOMAIN f2 : x <= f2[j]
    BY <1>1, <1>2, <1>3 DEF UpTo
  <2>2. \A j \in DOMAIN c2 : x <= c2[j]
    BY <1>3 DEF UpTo
  <2> QED
    BY <1>3, <2>1, <2>2 DEF UpTo
<1>4. ASSUME Under(messages, x, c, f, s)
      PROVE  Under(messages, x, c2, f2, s)
  <2>1. \A j \in DOMAIN f2 : x < f2[j]
    BY <1>1, <1>2, <1>4 DEF Under
  <2>2. \A j \in DOMAIN c2 : x < c2[j]
    BY <1>4 DEF Under
  <2> QED
    BY <1>4, <2>1, <2>2 DEF Under
<1> QED
  BY <1>3, <1>4

\* The first of a list in order is not after any of it.
LEMMA FirstIsLeast ==
    ASSUME NEW seq \in Seq(Nat), Sorted(seq), 1 \in DOMAIN seq, NEW j \in DOMAIN seq
    PROVE  seq[1] <= seq[j]
<1>1. /\ j \in Int /\ j >= 1
      /\ seq[1] \in Int /\ seq[j] \in Int
  <2>1. DOMAIN seq = 1 .. Len(seq) /\ \A i \in DOMAIN seq : seq[i] \in Int
    OBVIOUS
  <2> QED
    BY <2>1
<1>2. j = 1 \/ seq[1] < seq[j]
  BY <1>1 DEF Sorted
<1> QED
  BY <1>1, <1>2

\* The windows, when the request is answered, dropped or shown.
LEMMA QueryMoves ==
    ASSUME messages \in Seq(Stored), NEW c \in Seq(Nat), NEW f \in Seq(Nat), NEW s,
           NEW c2, NEW f2, QueryRule(messages, c, f, s),
           c2 = c \/ c2 = f,
           \/ f2 = f \/ f2 = <<>>
           \/ f2 = Window(s)
    PROVE  QueryRule(messages, c2, f2, s)
<1>1. /\ Sorted(Window(s)) /\ Of(messages, Window(s), s)
      /\ 1 \in DOMAIN Window(s) => \A y \in Latest(messages, s) : Window(s)[1] <= y
      /\ \A i \in DOMAIN Window(s) : Window(s)[i] \in Latest(messages, s)
  BY WindowLists
<1>2. Sorted(<<>>) /\ Of(messages, <<>>, s) /\ 1 \notin DOMAIN <<>>
  BY DEF Sorted, Of
<1>3. Sorted(f2) /\ Of(messages, f2, s) /\ Sorted(c2) /\ Of(messages, c2, s)
  BY <1>1, <1>2 DEF QueryRule
<1>4. 1 \in DOMAIN f2 => \A y \in Latest(messages, s) : f2[1] <= y
  BY <1>1, <1>2 DEF QueryRule
<1>5. ASSUME 1 \in DOMAIN c2
      PROVE  UpTo(messages, c2[1], c2, f2, s)
  <2>1. CASE c2 = c
    BY <1>5, <2>1, UpToMoves DEF QueryRule
  <2>2. CASE c2 = f
    <3>1. /\ \A j \in DOMAIN f : f[1] <= f[j]
          /\ \A y \in Latest(messages, s) : f[1] <= y
      BY <1>5, <2>2, FirstIsLeast DEF QueryRule
    <3>2. UpTo(messages, f[1], f, f, s)
      BY <3>1 DEF UpTo
    <3> QED
      BY <2>2, <3>2, UpToMoves
  <2> QED
    BY <2>1, <2>2
<1> QED
  BY <1>3, <1>4, <1>5 DEF QueryRule

\* The older messages and their request, when the window's request is answered,
\* dropped or shown.
LEMMA OlderMoves ==
    ASSUME messages \in Seq(Stored), NEW c, NEW f, NEW s, NEW o, NEW l, NEW c2, NEW f2,
           OlderRule(messages, o, c, f, s), LoadRule(messages, l, o, c, f, s),
           c2 = c \/ c2 = f,
           \/ f2 = f \/ f2 = <<>>
           \/ f2 = Window(s)
    PROVE  OlderRule(messages, o, c2, f2, s) /\ LoadRule(messages, l, o, c2, f2, s)
<1>1. \A i \in DOMAIN o : Under(messages, o[i], c2, f2, s)
  BY UpToMoves DEF OlderRule
<1>2. UpTo(messages, l.cursor, c, f, s) => UpTo(messages, l.cursor, c2, f2, s)
  BY UpToMoves
<1> QED
  BY <1>1, <1>2, Zenon DEF OlderRule, LoadRule

\* A session whose windows move while nothing is stored.
LEMMA PageMoves ==
    ASSUME TypeInv, PageInv, UNCHANGED <<messages, current, older, load, swapped>>,
           \A r \in Session :
              /\ \/ fetch'[r].items = fetch[r].items
                 \/ fetch'[r].items = <<>>
                 \/ fetch'[r].items = Window(r)
              /\ \/ cache'[r] = cache[r]
                 \/ cache'[r].items = fetch[r].items /\ cache'[r].known
    PROVE  PageInv'
<1>1. messages \in Seq(Stored) /\ (current # None => current \in Session)
  BY DEF TypeInv, ServerType, PageType
<1>2. ASSUME NEW s \in Session
      PROVE  cache[s].items \in Seq(Nat) /\ fetch[s].items \in Seq(Nat)
  BY DEF TypeInv, PageType, Results, Fetches
<1>3. ASSUME NEW s \in Session
      PROVE  QueryRule(messages, cache'[s].items, fetch'[s].items, s)
  <2>1. cache'[s].items = cache[s].items \/ cache'[s].items = fetch[s].items
    OBVIOUS
  <2>2. QueryRule(messages, cache[s].items, fetch[s].items, s)
    BY DEF PageInv
  <2> QED
    BY <1>1, <1>2, <2>1, <2>2, QueryMoves
<1>4. ASSUME ~swapped, current # None
      PROVE  LET c == cache'[current].items
                 f == fetch'[current].items
             IN /\ OlderRule(messages, older, c, f, current)
                /\ LoadRule(messages, load, older, c, f, current)
  <2>1. /\ OlderRule(messages, older, cache[current].items, fetch[current].items, current)
        /\ LoadRule(messages, load, older, cache[current].items, fetch[current].items, current)
    BY <1>4 DEF PageInv
  <2>2. cache'[current].items = cache[current].items \/ cache'[current].items = fetch[current].items
    BY <1>1, <1>4
  <2>3. \/ fetch'[current].items = fetch[current].items
        \/ fetch'[current].items = <<>>
        \/ fetch'[current].items = Window(current)
    BY <1>1, <1>4
  <2> QED
    BY <1>1, <2>1, <2>2, <2>3, OlderMoves
<1>5. \A s \in Session : cache'[s].known \/ (cache'[s].items = <<>> /\ cache'[s].total = 0)
  BY DEF PageInv
<1>6. /\ Kept(messages, older) /\ Kept(messages, load.items)
      /\ current = None => older = <<>> /\ load = NoLoad
  BY DEF PageInv
<1> QED
  BY <1>3, <1>4, <1>5, <1>6, Zenon DEF PageInv

\* Nothing is asked of an empty list of older messages without a request.
LEMMA NoOlder ==
    ASSUME NEW msgs, NEW c, NEW f, NEW s
    PROVE  /\ OlderRule(msgs, <<>>, c, f, s) /\ Kept(msgs, <<>>)
           /\ \A o : LoadRule(msgs, NoLoad, o, c, f, s)
           /\ Kept(msgs, NoLoad.items)
BY DEF OlderRule, LoadRule, Kept, Sorted, Of, NoLoad

\* The user shows another session: older messages of another one count as swapped.
LEMMA PageShows ==
    ASSUME TypeInv, PageInv, PickSession \/ FollowLink \/ NewSession
    PROVE  PageInv'
<1>1. PICK s \in Session :
              /\ UNCHANGED <<messages, cache, load>>
              /\ current' = s
              /\ \A r \in Session : fetch'[r].items = fetch[r].items
              /\ \/ older' = <<>> /\ swapped' = (swapped \/ load # NoLoad)
                 \/ older' = older /\ swapped' = (swapped \/ load # NoLoad \/ older # <<>>)
  BY Shown DEF TypeInv
<1>2. \A r \in Session : QueryRule(messages, cache'[r].items, fetch'[r].items, r)
  BY <1>1 DEF PageInv
<1>3. \A r \in Session : cache'[r].known \/ (cache'[r].items = <<>> /\ cache'[r].total = 0)
  BY <1>1 DEF PageInv
<1>4. Kept(messages', older') /\ Kept(messages', load'.items)
  BY <1>1, NoOlder DEF PageInv
<1>5. current' # None
  BY <1>1, Constants
<1>6. ASSUME ~swapped'
      PROVE  older' = <<>> /\ load' = NoLoad
  BY <1>1, <1>6
<1>7. ASSUME ~swapped'
      PROVE  LET c == cache'[current'].items
                 f == fetch'[current'].items
             IN /\ OlderRule(messages', older', c, f, current')
                /\ LoadRule(messages', load', older', c, f, current')
  BY <1>6, <1>7, NoOlder
<1> QED
  BY <1>1, <1>2, <1>3, <1>4, <1>5, <1>7, Zenon DEF PageInv

\* An answer is shown: if the session changes under older messages or their
\* request, that counts as swapped.
LEMMA PageAnswers ==
    ASSUME TypeInv, PageInv, NEW t \in Turn, ShowAnswer(t)
    PROVE  PageInv'
<1>1. /\ UNCHANGED <<messages, sessions, older, cache, load>>
      /\ current' = current \/ current' \in sessions
      /\ swapped' = (swapped \/ (current' # current /\ (load # NoLoad \/ older # <<>>)))
      /\ \A r \in Session : fetch'[r].items = fetch[r].items \/ fetch'[r].items = <<>>
  BY AnswerShown DEF TypeInv, server
<1>2. CASE current' = current
  <2>1. swapped' = swapped
    BY <1>1, <1>2, Zenon DEF TypeInv, PageType
  <2> QED
    BY <1>1, <1>2, <2>1, PageMoves
<1>3. CASE current' # current /\ current' \in sessions
  <2>1. ~swapped' => older' = <<>> /\ load' = NoLoad
    BY <1>1, <1>3
  <2>2. current' # None
    BY <1>3, Constants DEF TypeInv, ServerType
  <2>3. messages \in Seq(Stored)
    BY DEF TypeInv, ServerType
  <2>4. ASSUME NEW s \in Session
        PROVE  QueryRule(messages, cache[s].items, fetch'[s].items, s)
    <3>1. QueryRule(messages, cache[s].items, fetch[s].items, s)
      BY DEF PageInv
    <3>2. cache[s].items \in Seq(Nat) /\ fetch[s].items \in Seq(Nat)
      BY DEF TypeInv, PageType, Results, Fetches
    <3> QED
      BY <1>1, <2>3, <3>1, <3>2, QueryMoves
  <2>5. \A s \in Session : QueryRule(messages', cache'[s].items, fetch'[s].items, s)
    BY <1>1, <2>4
  <2>6. \A s \in Session : cache'[s].known \/ (cache'[s].items = <<>> /\ cache'[s].total = 0)
    BY <1>1 DEF PageInv
  <2>7. Kept(messages', older') /\ Kept(messages', load'.items)
    BY <1>1 DEF PageInv
  <2>8. ASSUME ~swapped'
        PROVE
        LET c == cache'[current'].items
            f == fetch'[current'].items
        IN /\ OlderRule(messages', older', c, f, current')
           /\ LoadRule(messages', load', older', c, f, current')
    BY <2>1, <2>8, NoOlder
  <2> QED
    BY <2>2, <2>5, <2>6, <2>7, <2>8, Zenon DEF PageInv
<1> QED
  BY <1>1, <1>2, <1>3

\* Of the lists and the request for older messages only these two change.
LEMMA OlderChanges ==
    ASSUME TypeInv, PageInv, UNCHANGED <<messages, current, cache, fetch, swapped>>,
           Kept(messages, older'), Kept(messages, load'.items),
           current = None => older' = <<>> /\ load' = NoLoad,
           ~swapped /\ current # None =>
              /\ OlderRule(messages, older', cache[current].items, fetch[current].items, current)
              /\ LoadRule(messages, load', older', cache[current].items, fetch[current].items,
                          current)
    PROVE  PageInv'
<1>1. /\ \A s \in Session : QueryRule(messages, cache[s].items, fetch[s].items, s)
      /\ \A s \in Session : cache[s].known \/ (cache[s].items = <<>> /\ cache[s].total = 0)
  BY DEF PageInv
<1> QED
  BY <1>1, Zenon DEF PageInv

\* The cursor of a request for older messages opens what is displayed.
LEMMA CursorOpens ==
    ASSUME TypeInv, PageInv, current # None, Displayed # <<>>, ~swapped
    PROVE  /\ Displayed[1] \in DOMAIN messages
           /\ \A i \in DOMAIN older : Displayed[1] <= older[i]
           /\ UpTo(messages, Displayed[1], cache[current].items, fetch[current].items, current)
<1> DEFINE c == cache[current].items
           f == fetch[current].items
           x == Displayed[1]
<1>1. /\ current \in Session /\ older \in Seq(Nat) /\ messages \in Seq(Stored)
      /\ cache[current] \in Results
  BY DEF TypeInv, PageType, ServerType
<1>2. c \in Seq(Nat)
  BY <1>1 DEF Results
<1>3. OlderRule(messages, older, c, f, current) /\ QueryRule(messages, c, f, current)
  BY <1>1 DEF PageInv
<1>4. Displayed = older \o c
  BY DEF Displayed
<1> HIDE DEF c, f
<1>5. \/ 1 \in DOMAIN older /\ x = older[1]
      \/ DOMAIN older = {} /\ 1 \in DOMAIN c /\ x = c[1]
  <2>1. 1 \in DOMAIN (older \o c)
    BY <1>1, <1>2, <1>4, Concatenated
  <2> QED
    BY <1>1, <1>2, <1>4, <2>1, Concatenated
<1>6. CASE 1 \in DOMAIN older /\ x = older[1]
  <2>1. \A i \in DOMAIN older : x <= older[i]
    BY <1>1, <1>3, <1>6, FirstIsLeast DEF OlderRule
  <2>2. x \in DOMAIN messages /\ Under(messages, x, c, f, current)
    BY <1>3, <1>6 DEF OlderRule, Of
  <2>3. x \in Int /\ \A y \in DOMAIN messages : y \in Int /\ (x < y => x <= y)
    <3>1. \A y \in DOMAIN messages : y \in Int
      BY <1>1
    <3>2. x \in Int
      BY <2>2, <3>1
    <3> HIDE DEF x
    <3> QED
      BY <3>1, <3>2
  <2>4. /\ \A j \in DOMAIN c : c[j] \in DOMAIN messages
        /\ \A j \in DOMAIN f : f[j] \in DOMAIN messages
        /\ \A y \in Latest(messages, current) : y \in DOMAIN messages
    BY <1>3 DEF QueryRule, Of, Latest, IdsOf
  <2> HIDE DEF x
  <2>5. UpTo(messages, x, c, f, current)
    BY <2>2, <2>3, <2>4 DEF Under, UpTo
  <2> QED
    BY <2>1, <2>2, <2>5 DEF c, f, x
<1>7. CASE DOMAIN older = {} /\ 1 \in DOMAIN c /\ x = c[1]
  <2>1. UpTo(messages, x, c, f, current) /\ x \in DOMAIN messages
    BY <1>3, <1>7 DEF QueryRule, Of
  <2> QED
    BY <1>7, <2>1 DEF c, f
<1> QED
  BY <1>5, <1>6, <1>7

\* Older messages are asked for, read and put before the others.
LEMMA PageOlder ==
    ASSUME TypeInv, PageInv, LoadOlder \/ ServeOlder \/ ShowOlder
    PROVE  PageInv'
<1> DEFINE c == cache[current].items
           f == fetch[current].items
<1>1. /\ UNCHANGED <<messages, current, cache, fetch, swapped>>
      /\ load' \in Loads
      /\ \/ /\ older' = older /\ load = NoLoad
            /\ current # None /\ Displayed # <<>>
            /\ load'.session = current /\ load'.cursor = Displayed[1]
            /\ load'.items = <<>> /\ ~load'.served
         \/ /\ older' = older /\ load # NoLoad /\ ~load.served
            /\ load'.session = load.session /\ load'.cursor = load.cursor
            /\ load'.items = Before(load.session, load.cursor)
         \/ older' = older /\ load' = NoLoad
         \/ older' = load.items \o older /\ load.served /\ load' = NoLoad
  BY OlderStep DEF TypeInv, server
<1>2. /\ messages \in Seq(Stored) /\ older \in Seq(Nat) /\ load.items \in Seq(Nat)
      /\ Kept(messages, older) /\ Kept(messages, load.items)
      /\ current = None => older = <<>> /\ load = NoLoad
  BY DEF TypeInv, PageType, ServerType, Loads, PageInv
<1>3. ~swapped /\ current # None =>
         /\ OlderRule(messages, older, c, f, current)
         /\ LoadRule(messages, load, older, c, f, current)
  BY DEF PageInv
<1>4. NoLoad.served = FALSE /\ \A x : Kept(messages, NoLoad.items) /\ Kept(messages, <<>>)
  BY NoOlder DEF NoLoad
<1>5. CASE /\ older' = older
           /\ current # None /\ Displayed # <<>>
           /\ load'.session = current /\ load'.cursor = Displayed[1]
           /\ load'.items = <<>>
  <2>1. ASSUME ~swapped
        PROVE  LoadRule(messages, load', older', c, f, current)
    <3>1. /\ Displayed[1] \in DOMAIN messages
          /\ \A i \in DOMAIN older : Displayed[1] <= older[i]
          /\ UpTo(messages, Displayed[1], c, f, current)
      BY <1>5, <2>1, CursorOpens
    <3>2. Sorted(<<>>) /\ Of(messages, <<>>, current) /\ \A i \in DOMAIN <<>> : FALSE
      BY DEF Sorted, Of
    <3> HIDE DEF c, f
    <3> QED
      BY <1>5, <3>1, <3>2 DEF LoadRule
  <2> QED
    BY <1>1, <1>2, <1>3, <1>4, <1>5, <2>1, OlderChanges
<1>6. CASE /\ older' = older /\ load # NoLoad
           /\ load'.session = load.session /\ load'.cursor = load.cursor
           /\ load'.items = Before(load.session, load.cursor)
  <2> DEFINE b == Before(load.session, load.cursor)
  <2>1. /\ Sorted(b) /\ Of(messages, b, load.session)
        /\ \A i \in DOMAIN b : b[i] < load.cursor
    BY <1>2, WindowLists
  <2>2. load'.items = b
    BY <1>6
  <2> HIDE DEF b, c, f
  <2>3. Kept(messages, load'.items)
    BY <2>1, <2>2 DEF Of, Kept
  <2>4. ASSUME ~swapped, current # None
        PROVE  LoadRule(messages, load', older', c, f, current)
    <3>1. /\ load.session = current /\ load.cursor \in DOMAIN messages
          /\ \A i \in DOMAIN older : load.cursor <= older[i]
          /\ UpTo(messages, load.cursor, c, f, current)
      BY <1>3, <1>6, <2>4, Zenon DEF LoadRule
    <3> QED
      BY <1>6, <2>1, <2>2, <3>1 DEF LoadRule
  <2>5. current # None
    BY <1>2, <1>6
  <2> QED
    BY <1>1, <1>2, <1>3, <1>6, <2>3, <2>4, <2>5, OlderChanges DEF c, f
<1>7. CASE older' = older /\ load' = NoLoad
  <2>1. LoadRule(messages, load', older', c, f, current)
    BY <1>7, NoOlder
  <2> QED
    BY <1>1, <1>2, <1>3, <1>4, <1>7, <2>1, OlderChanges
<1>8. CASE older' = load.items \o older /\ load.served /\ load' = NoLoad
  <2> DEFINE a == load.items
             o == older
             d == a \o o
  <2>1. load # NoLoad /\ current # None
    BY <1>2, <1>4, <1>8
  <2>2. a \in Seq(Nat) /\ o \in Seq(Nat) /\ Kept(messages, a) /\ Kept(messages, o) /\ older' = d
    BY <1>2, <1>8
  <2>3. \A i \in DOMAIN d :
           \/ i \in DOMAIN a /\ d[i] = a[i]
           \/ i - Len(a) \in DOMAIN o /\ d[i] = o[i - Len(a)]
    BY <2>2, Concatenated
  <2>4. ASSUME ~swapped
        PROVE  OlderRule(messages, d, c, f, current)
    <3>1. /\ load.session = current
          /\ Sorted(a) /\ Of(messages, a, current)
          /\ \A i \in DOMAIN a : a[i] < load.cursor
          /\ load.cursor \in DOMAIN messages
          /\ \A i \in DOMAIN o : load.cursor <= o[i]
          /\ UpTo(messages, load.cursor, c, f, current)
      BY <1>3, <2>1, <2>4 DEF LoadRule
    <3>2. /\ Sorted(o) /\ Of(messages, o, current)
          /\ \A i \in DOMAIN o : Under(messages, o[i], c, f, current)
      BY <1>3, <2>1, <2>4 DEF OlderRule
    <3>3. QueryRule(messages, c, f, current)
      BY <2>1 DEF PageInv, TypeInv, PageType, ServerType
    <3> DEFINE x == load.cursor
               n == Len(a)
    <3> HIDE DEF d, a, o, c, f, x, n
    <3>4. \A y \in DOMAIN messages : y \in Int
      BY <1>2
    <3>5. /\ \A i \in DOMAIN a : a[i] \in Int
          /\ \A i \in DOMAIN o : o[i] \in Int
          /\ \A i \in DOMAIN c : c[i] \in Int
          /\ \A i \in DOMAIN f : f[i] \in Int
          /\ \A y \in Latest(messages, current) : y \in Int
          /\ x \in Int
      BY <3>1, <3>2, <3>3, <3>4 DEF Of, QueryRule, Latest, IdsOf, x
    <3>6. \A u, v \in Int : u < x /\ x <= v => u < v
      BY <3>5
    <3>7. \A i \in DOMAIN a, j \in DOMAIN o : a[i] < o[j]
      BY <3>1, <3>5, <3>6 DEF x
    <3>8. \A i \in DOMAIN a : Under(messages, a[i], c, f, current)
      BY <3>1, <3>5, <3>6 DEF Under, UpTo, x
    <3>9. Sorted(d)
      BY <2>2, <3>1, <3>2, <3>7, ConcatSorted DEF d
    <3>10. Of(messages, d, current)
      BY <2>3, <3>1, <3>2 DEF Of
    <3>11. \A i \in DOMAIN d : Under(messages, d[i], c, f, current)
      BY <2>3, <3>2, <3>8
    <3> QED
      BY <3>9, <3>10, <3>11 DEF OlderRule
  <2>5. Kept(messages, d)
    <3> HIDE DEF d, a, o
    <3> QED
      BY <2>2, <2>3 DEF Kept
  <2>6. LoadRule(messages, load', older', c, f, current)
    BY <1>8, NoOlder
  <2> HIDE DEF d, a, o
  <2> QED
    BY <1>1, <1>4, <1>8, <2>1, <2>2, <2>4, <2>5, <2>6, OlderChanges
<1> QED
  BY <1>1, <1>5, <1>6, <1>7, <1>8

\* The rules hold before anything is shown.
LEMMA PageInit == Init => PageInv
<1> SUFFICES ASSUME Init
             PROVE  PageInv
  OBVIOUS
<1>1. /\ older = <<>> /\ load = NoLoad
      /\ \A s \in Session : cache[s] = NoResult
      /\ \A s \in Session : fetch[s] = NoFetch \/ fetch[s] = [NoFetch EXCEPT !.pc = "sent"]
  BY DEF Init
<1>2. \A s \in Session : cache[s].items = <<>> /\ cache[s].total = 0 /\ fetch[s].items = <<>>
  BY <1>1 DEF NoResult, NoFetch
<1>3. DOMAIN <<>> = {}
  OBVIOUS
<1>4. \A s \in Session : QueryRule(messages, cache[s].items, fetch[s].items, s)
  <2>1. \A s : QueryRule(messages, <<>>, <<>>, s)
    BY <1>3 DEF QueryRule, Sorted, Of
  <2> QED
    BY <1>2, <2>1
<1>5. Kept(messages, older) /\ Kept(messages, load.items)
  BY <1>1, NoOlder
<1>6. LET c == cache[current].items
          f == fetch[current].items
      IN /\ OlderRule(messages, older, c, f, current)
         /\ LoadRule(messages, load, older, c, f, current)
  BY <1>1, NoOlder
<1> QED
  BY <1>1, <1>2, <1>4, <1>5, <1>6, Zenon DEF PageInv

\* The rules of the page are kept by every step.
LEMMA PageNext == TypeInv /\ PageInv /\ [Next]_vars => PageInv'
<1> SUFFICES ASSUME TypeInv, PageInv, [Next]_vars
             PROVE  PageInv'
  OBVIOUS
<1>1. CASE UNCHANGED vars
  <2>1. Grows /\ UNCHANGED <<current, older, cache, fetch, load, swapped>>
    BY <1>1 DEF vars, server, page, Grows
  <2> QED
    BY <2>1, PageGrows
<1>2. ASSUME NEW t \in Turn, Serve(t) \/ OtherClient(t) \/ Send(t)
      PROVE  PageInv'
  <2>1. Grows
    BY <1>2, TurnTypes DEF TypeInv, PageType
  <2>2. UNCHANGED <<current, older, cache, fetch, load, swapped>>
    BY <1>2 DEF Serve, ResolveSession, AppendQuestion, AskModel, StoreReply, UpdateRun,
                OtherClient, Send, page
  <2> QED
    BY <2>1, <2>2, PageGrows
<1>3. ASSUME NEW s \in Session, CountMessages(s) \/ ReadMessages(s) \/ ShowMessages(s)
      PROVE  PageInv'
  <2>1. /\ UNCHANGED <<messages, current, older, load, swapped>>
        /\ \A r \in Session :
              /\ \/ fetch'[r].items = fetch[r].items
                 \/ fetch'[r].items = <<>>
                 \/ fetch'[r].items = Window(r)
              /\ \/ cache'[r] = cache[r]
                 \/ cache'[r].items = fetch[r].items /\ cache'[r].known
    BY <1>3, FetchStep DEF TypeInv, server
  <2> QED
    BY <2>1, PageMoves
<1>4. CASE LoadOlder \/ ServeOlder \/ ShowOlder
  BY <1>4, PageOlder
<1>5. ASSUME NEW t \in Turn, AwaitTasks(t) \/ ShowAnswer(t)
      PROVE  PageInv'
  <2>1. CASE AwaitTasks(t)
    <3>1. Grows /\ UNCHANGED <<current, older, cache, fetch, load, swapped>>
      BY <2>1 DEF AwaitTasks, server, Grows
    <3> QED
      BY <3>1, PageGrows
  <2> QED
    BY <1>5, <2>1, PageAnswers
<1>6. CASE PickSession \/ FollowLink \/ NewSession
  BY <1>6, PageShows
<1> QED
  BY <1>1, <1>2, <1>3, <1>4, <1>5, <1>6, Zenon DEF Next, Respond

\* The rules of the page hold in every state.
LEMMA PageInvariance == Spec => []PageInv
BY PageInit, PageNext, TypeInvariance, PTL DEF Spec

\* Every variable has its type, no list names a message that is not stored, and no
\* prompt is longer than its history and its question.
THEOREM TypeCorrect == Spec => []TypeOK
<1>1. TypeInv /\ PromptInv /\ PageInv => TypeOK
  <2> SUFFICES ASSUME TypeInv, PromptInv, PageInv
               PROVE  TypeOK
    OBVIOUS
  <2>1. /\ \A i \in DOMAIN messages : messages[i] \in Stored
        /\ sessions \subseteq Session
        /\ runs \in [Turn -> {"none", "running", "done", "failed"}]
        /\ current \in sessions \cup {None}
        /\ chat \in Turn \cup {None} /\ closure \in Closures
    BY DEF TypeInv, ServerType, PageType
  <2>2. \A i \in DOMAIN messages :
           messages[i] \in [session : Session, role : {"user", "assistant"},
                            turn : Turn \cup {None}]
    BY <2>1, Zenon DEF Stored
  <2>3. ASSUME NEW t \in Turn
        PROVE  /\ turn[t].pc \in {"idle", "resolve", "append", "model", "reply", "update", "end"}
               /\ turn[t].session \in Session \cup {None}
               /\ turn[t].answer \in {"none", "error", "notice", "reply"}
               /\ ListsOK(turn[t].prompt) /\ Len(turn[t].prompt) <= PromptLimit + 1
    <3>1. turn[t] \in Turns /\ PromptRule(t, messages, turn[t])
      BY DEF TypeInv, ServerType, PromptInv
    <3>2. ListsOK(turn[t].prompt) /\ Len(turn[t].prompt) <= PromptLimit + 1
      BY <3>1, Zenon DEF PromptRule, ListsOK
    <3>3. /\ turn[t].pc \in {"idle", "resolve", "append", "model", "reply", "update", "end"}
          /\ turn[t].session \in Session \cup {None}
          /\ turn[t].answer \in {"none", "error", "notice", "reply"}
      BY <3>1 DEF Turns
    <3> QED
      BY <3>2, <3>3
  <2>4. ASSUME NEW s \in Session
        PROVE  ListsOK(cache[s].items) /\ ListsOK(fetch[s].items)
    <3>1. QueryRule(messages, cache[s].items, fetch[s].items, s)
      BY DEF PageInv
    <3> QED
      BY <3>1, Zenon DEF QueryRule, Of, ListsOK
  <2>5. ListsOK(older) /\ ListsOK(load.items)
    BY Zenon DEF PageInv, Kept, ListsOK
  <2> QED
    BY <2>1, <2>2, <2>3, <2>4, <2>5, Zenon DEF TypeOK, Closures
<1> QED
  BY <1>1, TypeInvariance, PromptInvariance, PageInvariance, PTL

\* What is displayed is in order, of the session shown, as long as that one was
\* not changed under older messages.
LEMMA DisplayOrder ==
    ASSUME TypeInv, PageInv, ~swapped
    PROVE  Sorted(Displayed) /\ Of(messages, Displayed, current) /\ Displayed \in Seq(Nat)
<1>1. CASE current = None
  BY <1>1 DEF Displayed, Sorted, Of
<1>2. CASE current # None
  <2> DEFINE c == cache[current].items
             f == fetch[current].items
             o == older
  <2>1. /\ current \in Session /\ o \in Seq(Nat) /\ cache[current] \in Results
    BY <1>2 DEF TypeInv, PageType, ServerType
  <2>2. c \in Seq(Nat)
    BY <2>1 DEF Results
  <2>3. OlderRule(messages, o, c, f, current) /\ QueryRule(messages, c, f, current)
    BY <1>2, <2>1 DEF PageInv
  <2>4. Displayed = o \o c
    BY <1>2 DEF Displayed
  <2> HIDE DEF c, f, o
  <2>5. Sorted(o \o c)
    <3>1. Sorted(o) /\ Sorted(c) /\ \A i \in DOMAIN o, j \in DOMAIN c : o[i] < c[j]
      BY <2>3 DEF OlderRule, QueryRule, Under
    <3> QED
      BY <2>1, <2>2, <3>1, ConcatSorted
  <2>6. Of(messages, o \o c, current)
    <3>1. \A i \in DOMAIN (o \o c) :
             \/ i \in DOMAIN o /\ (o \o c)[i] = o[i]
             \/ i - Len(o) \in DOMAIN c /\ (o \o c)[i] = c[i - Len(o)]
      BY <2>1, <2>2, Concatenated
    <3>2. Of(messages, o, current) /\ Of(messages, c, current)
      BY <2>3 DEF OlderRule, QueryRule
    <3> DEFINE d == o \o c
    <3> HIDE DEF d
    <3> QED
      BY <3>1, <3>2 DEF Of, d
  <2>7. o \o c \in Seq(Nat)
    BY <2>1, <2>2
  <2> QED
    BY <2>4, <2>5, <2>6, <2>7
<1> QED
  BY <1>1, <1>2

\* A list in order has each of its members once, so it has all the members of a
\* set exactly when it has as many as the set.
LEMMA SortedCounts ==
    ASSUME NEW seq \in Seq(Nat), Sorted(seq), NEW n \in Nat, NEW ids \in SUBSET (1 .. n),
           \A i \in DOMAIN seq : seq[i] \in ids
    PROVE  Cardinality(ids) > Len(seq) <=> Range(seq) # ids
<1> DEFINE len == Len(seq)
           dom == 1 .. len
<1>1. len \in Nat /\ DOMAIN seq = dom /\ seq \in [dom -> Nat]
  OBVIOUS
<1> HIDE DEF len
<1>2. IsFiniteSet(ids) /\ Cardinality(ids) \in Nat
  BY FiniteIds
<1>3. IsFiniteSet(dom) /\ Cardinality(dom) = len
  <2>1. IsFiniteSet(dom) /\ Cardinality(dom) = IF 1 > len THEN 0 ELSE len - 1 + 1
    BY <1>1, FS_Interval
  <2> QED
    BY <1>1, <2>1
<1>4. \A i, j \in dom : i < j => seq[i] < seq[j]
  BY <1>1 DEF Sorted
<1>5. \A i, j \in dom : seq[i] = seq[j] => i = j
  <2> SUFFICES ASSUME NEW i \in dom, NEW j \in dom, seq[i] = seq[j]
               PROVE  i = j
    OBVIOUS
  <2>1. seq[i] \in Nat /\ ~(seq[i] < seq[j]) /\ ~(seq[j] < seq[i])
    BY <1>1
  <2>2. ~(i < j) /\ ~(j < i)
    BY <1>4, <2>1
  <2>3. i \in Int /\ j \in Int
    BY <1>1
  <2> QED
    BY <2>2, <2>3
<1>6. seq \in [dom -> ids]
  BY <1>1
<1>7. seq \in Injection(dom, ids)
  BY <1>5, <1>6, Zenon DEF Injection, IsInjective
<1>8. len <= Cardinality(ids) /\ (len = Cardinality(ids) <=> seq \in Surjection(dom, ids))
  BY <1>2, <1>3, <1>7, FS_Injection
<1>9. seq \in Surjection(dom, ids) <=> Range(seq) = ids
  <2>1. Range(seq) = {seq[i] : i \in dom}
    BY <1>1 DEF Range
  <2>2. Range(seq) \subseteq ids
    BY <1>6, <2>1
  <2>3. seq \in Surjection(dom, ids) <=> \A y \in ids : \E i \in dom : seq[i] = y
    BY <1>6, Zenon DEF Surjection
  <2> QED
    BY <2>1, <2>2, <2>3
<1>10. Cardinality(ids) > len <=> ~(len = Cardinality(ids))
  BY <1>1, <1>2, <1>8
<1> QED
  BY <1>8, <1>9, <1>10 DEF len

\* The page shows the session's messages in order, each once, and offers older
\* messages exactly when there are more (AssistantPage.tsx's displayed, hasOlder).
THEOREM DisplayTrue == Spec => []DisplayIsTrue
<1>1. TypeInv /\ PageInv => DisplayedInOrder
  <2> SUFFICES ASSUME TypeInv, PageInv, ~swapped
               PROVE  LET d == Displayed IN
                      /\ \A i, j \in DOMAIN d : i < j => d[i] < d[j]
                      /\ \A i \in DOMAIN d : messages[d[i]].session = current
    BY DEF DisplayedInOrder
  <2>1. Sorted(Displayed) /\ Of(messages, Displayed, current)
    BY DisplayOrder
  <2> QED
    BY <2>1, Zenon DEF Sorted, Of
<1>2. TypeInv /\ PageInv => HasOlderIsTrue
  <2> SUFFICES ASSUME TypeInv, PageInv, Quiet, ~swapped
               PROVE  HasOlder <=> Range(Displayed) # Ids(current)
    BY DEF HasOlderIsTrue
  <2> DEFINE d == Displayed
             ids == Ids(current)
             n == Len(messages)
  <2>1. /\ current # None /\ cache[current].total = Cardinality(ids)
        /\ current \in Session /\ messages \in Seq(Stored)
    BY DEF Quiet, Total, TypeInv, PageType, ServerType
  <2>2. Sorted(d) /\ Of(messages, d, current) /\ d \in Seq(Nat)
    BY DisplayOrder
  <2>3. n \in Nat /\ ids \in SUBSET (1 .. n)
    BY <2>1, IdsStored
  <2>4. HasOlder <=> cache[current].known /\ Cardinality(ids) > Len(d)
    BY <2>1 DEF HasOlder
  <2>5. \A i \in DOMAIN d : d[i] \in ids
    <3> HIDE DEF d
    <3> QED
      BY <2>2 DEF Of, Ids
  <2> HIDE DEF d, ids, n
  <2>6. Cardinality(ids) > Len(d) <=> Range(d) # ids
    BY <2>2, <2>3, <2>5, SortedCounts
  <2>7. ~cache[current].known => ~(Cardinality(ids) > Len(d))
    <3>1. ~cache[current].known => Cardinality(ids) = 0
      BY <2>1 DEF PageInv
    <3>2. Len(d) \in Nat
      BY <2>2
    <3> QED
      BY <3>1, <3>2
  <2> QED
    BY <2>4, <2>6, <2>7 DEF d, ids
<1> QED
  BY <1>1, <1>2, TypeInvariance, PageInvariance, PTL DEF DisplayIsTrue

=============================================================================
