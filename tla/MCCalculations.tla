--------------------------- MODULE MCCalculations ---------------------------
(***************************************************************************)
(* The pure functions of the server over bounded inputs, for TLC: a        *)
(* question is put to one of them, the log of status events grows as in    *)
(* EventLog, or the lists are read as in ListReading.                      *)
(***************************************************************************)
EXTENDS ListReading, EventLog, SequencesExt

CONSTANTS
    ContextLines, MaxCells, MaxLines,   \* texts
    Dashed, Plussed,                    \* lines that look like file headers
    Names, Texts                        \* YAML keys, printed scalars

VARIABLE question

Fold(text) == IF text = "None" THEN "none" ELSE text

Diff == INSTANCE UnifiedDiff
Cover == INSTANCE ConfigSubset WITH FoldCase <- Fold

-----------------------------------------------------------------------------
(* Inputs.                                                                  *)

Plain == {[text |-> l, cr |-> FALSE] : l \in {"x", "y"}}
Pieces == Plain \cup {Diff!Blank} \cup [text : {"x", ""}, cr : {TRUE}]

\* Texts that end in a line feed, and short ones of every kind.
LongTexts == {Append(lines, Diff!Blank) : lines \in BoundedSeq(Plain, MaxLines)}
ShortTexts == UNION {[1..n -> Pieces] : n \in 1..2}

\* Texts with the separator of YAML documents and lines like file headers.
MarkedTexts ==
    {Append(lines, Diff!Blank) :
        lines \in BoundedSeq({Diff!Text(t) : t \in {"x", "---"} \cup Dashed \cup Plussed}, 2)}

Scalars == {Cover!Scalar(t, TRUE) : t \in Texts} \cup {Cover!Scalar("1", FALSE)}
Flat(values) == {Cover!List(items) : items \in BoundedSeq(values, 2)}
                  \cup {Cover!Map(keys) : keys \in UNION {[N -> values] : N \in SUBSET Names}}
Deep == {Cover!Scalar("1", FALSE)} \cup Flat({Cover!Scalar("none", TRUE)})
Configs == Scalars \cup Flat(Scalars) \cup Flat(Deep)

\* A task's id is minted a moment before its row is stamped.
ManyTaskRows ==
    {[id |-> <<minted, nonce>>, at |-> minted + later,
      columns |-> [target |-> IF minted % 2 = 0 THEN {"c1", "g1"} ELSE {"g1"}]] :
        minted \in Moments, nonce \in {0, 1}, later \in {0, 1}}
SomeFilters == {NoFilter, Filter([target |-> "c1"], {}, {}, {})}

-----------------------------------------------------------------------------

\* One of the three is asked about.
Init ==
    /\ ListInit /\ LogInit
    /\ question \in {[about |-> "texts"], [about |-> "log"], [about |-> "lists"]}
    /\ question.about # "lists" => kind = "tasks"

AskDiff ==
    /\ question.about = "texts"
    /\ \E texts \in UNION {T \X T : T \in {LongTexts, ShortTexts, MarkedTexts}} :
          question' = [about |-> "diff", a |-> texts[1], b |-> texts[2]]

AskCover ==
    /\ question.about = "texts"
    /\ \E p, e \in Configs : question' = [about |-> "cover", p |-> p, e |-> e]

\* A log, or a sample of durations.
ReadLog ==
    /\ question.about = "log"
    /\ LogNext /\ (history' = <<>> \/ sample' = <<>>)
    /\ UNCHANGED <<question, listing>>

ReadLists ==
    /\ question.about = "lists"
    /\ ListNext
    /\ UNCHANGED <<question, logging>>

Next ==
    \/ (AskDiff \/ AskCover) /\ UNCHANGED <<listing, logging>>
    \/ ReadLog
    \/ ReadLists
Spec == Init /\ [][Next]_<<question, listing, logging>>

-----------------------------------------------------------------------------

\* The diff shown for approval applies to the old document and gives the new
\* one: diff.Unified, its hunks and their headers.
DiffApplies == question.about = "diff" => Diff!PatchGives(question.a, question.b)

DiffIsMinimal == question.about = "diff" => Diff!KeepsMost(question.a, question.b)
HunksAreSeparate == question.about = "diff" => Diff!Separate(question.a, question.b)

\* The diff says nothing twice and nothing in vain: it keeps as many lines as any
\* diff can (lcsOps), and two hunks that touch are one (hunks).
DiffIsConcise == DiffIsMinimal /\ HunksAreSeparate

\* The task page shows an approver every line the server's diff shows, and counts
\* them right: parseUnified of lib/diff.ts on what render printed.  (A line that
\* itself begins with "-- " or "++ " may be taken for a file header.)
PageShowsDiff == question.about = "diff" => Diff!PageShowsAll(question.a, question.b)

RecognisesReport == question.about = "cover" => Cover!Recognises(question.p, question.e)
CoversSettings == question.about = "cover" => Cover!FindsAll(question.p, question.e)

\* configSubset errs in neither direction: an effective configuration with defaults,
\* other list order, hidden secrets or other spelling of constants is recognised
\* as the pushed one, and one that lacks a pushed setting is not.
ConfirmsRightly == RecognisesReport /\ CoversSettings
=============================================================================
