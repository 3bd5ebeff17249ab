---------------------------- MODULE UnifiedDiff -----------------------------
(***************************************************************************)
(* internal/diff: the unified diff shown before a configuration is         *)
(* approved.  A text is what strings.Split makes of it at the line feeds:  *)
(* a nonempty sequence of pieces [text, cr], cr when a carriage return     *)
(* ends the piece; <<Blank>> is the empty text.  The result is the         *)
(* sequence of hunks, or the lines they are printed as; a printed line is  *)
(* its first character and the piece after it.  lib/diff.ts of the web     *)
(* page reads those lines again.                                           *)
(***************************************************************************)
EXTENDS Integers, SequencesExt

CONSTANTS
    ContextLines,   \* contextLines, 3
    MaxCells,       \* maxDPCells, 4 million
    Dashed,         \* the texts that begin with "-- "
    Plussed         \* the texts that begin with "++ "

Blank == [text |-> "", cr |-> FALSE]

\* \r\n becomes \n: the piece after the last line feed keeps its \r.
SplitLines(pieces) ==
    LET normal == [i \in DOMAIN pieces |->
                     IF i < Len(pieces) THEN [pieces[i] EXCEPT !.cr = FALSE] ELSE pieces[i]]
    IN  IF Last(normal) = Blank THEN Front(normal) ELSE normal

-----------------------------------------------------------------------------
(* The operations that turn a into b.                                       *)

Op(kind, line) == [kind |-> kind, line |-> line]
All(kind, lines) == [i \in DOMAIN lines |-> Op(kind, lines[i])]

\* Length of the longest common subsequence of a from i on and b from j on.
Lcs(a, b) ==
    LET dp[i \in 1..Len(a) + 1, j \in 1..Len(b) + 1] ==
            IF i > Len(a) \/ j > Len(b) THEN 0
            ELSE IF a[i] = b[j] THEN dp[i + 1, j + 1] + 1
            ELSE Max({dp[i + 1, j], dp[i, j + 1]})
    IN  dp

\* Mutant of LcsOps: takes no lookahead, and so misses common lines.
LcsOpsGreedy(a, b) ==
    LET ops[i \in 1..Len(a) + 1, j \in 1..Len(b) + 1] ==
            IF i > Len(a) THEN All("+", SubSeq(b, j, Len(b)))
            ELSE IF j > Len(b) THEN All("-", SubSeq(a, i, Len(a)))
            ELSE IF a[i] = b[j] THEN <<Op(" ", a[i])>> \o ops[i + 1, j + 1]
            ELSE <<Op("-", a[i])>> \o ops[i + 1, j]
    IN  ops[1, 1]

LcsOps(a, b) ==
    LET dp == Lcs(a, b)
        ops[i \in 1..Len(a) + 1, j \in 1..Len(b) + 1] ==
            IF i > Len(a) THEN All("+", SubSeq(b, j, Len(b)))
            ELSE IF j > Len(b) THEN All("-", SubSeq(a, i, Len(a)))
            ELSE IF a[i] = b[j] THEN <<Op(" ", a[i])>> \o ops[i + 1, j + 1]
            ELSE IF dp[i + 1, j] >= dp[i, j + 1] THEN <<Op("-", a[i])>> \o ops[i + 1, j]
            ELSE <<Op("+", b[j])>> \o ops[i, j + 1]
    IN  ops[1, 1]

\* Beyond the limit the whole text is replaced.
Ops(a, b) ==
    IF Len(a) * Len(b) > MaxCells THEN All("-", a) \o All("+", b) ELSE LcsOps(a, b)

Changed(ops) == {i \in DOMAIN ops : ops[i].kind # " "}

-----------------------------------------------------------------------------
(* Hunks: the changes with their context, and where they are in a and b.    *)

\* Mutant of AddSpan: overlapping stretches are not merged.
AddSpanApart(spans, i, n) ==
    Append(spans, [from |-> Max({i - ContextLines, 1}), to |-> Min({i + ContextLines, n})])

\* Stretches that touch are one.
AddSpan(spans, i, n) ==
    LET from == Max({i - ContextLines, 1})
        to == Min({i + ContextLines, n})
    IN  IF spans # <<>> /\ from <= Last(spans).to + 1
        THEN [spans EXCEPT ![Len(spans)].to = to]
        ELSE Append(spans, [from |-> from, to |-> to])

Spans(ops) ==
    FoldLeft(LAMBDA spans, i : IF i \in Changed(ops) THEN AddSpan(spans, i, Len(ops)) ELSE spans,
             <<>>, [i \in DOMAIN ops |-> i])

\* The lines of a ("-") or of b ("+") among ops.
Side(ops, kind) == SelectSeq(ops, LAMBDA o : o.kind \in {" ", kind})

\* Mutant of Start: an empty side starts at the line after it.
StartAfter(ops, span, kind) == Len(Side(SubSeq(ops, 1, span.from - 1), kind)) + 1

\* Where the side starts, from 1; an empty side names the line before it.
Start(ops, span, kind) ==
    Len(Side(SubSeq(ops, 1, span.from - 1), kind))
        + (IF Side(SubSeq(ops, span.from, span.to), kind) = <<>> THEN 0 ELSE 1)

Hunks(ops) ==
    LET spans == Spans(ops)
    IN  [k \in DOMAIN spans |->
            LET ops_k == SubSeq(ops, spans[k].from, spans[k].to)
            IN  [aStart |-> Start(ops, spans[k], "-"), aCount |-> Len(Side(ops_k, "-")),
                 bStart |-> Start(ops, spans[k], "+"), bCount |-> Len(Side(ops_k, "+")),
                 ops |-> ops_k]]

\* hasChange is implicit: without a change there is no hunk.
Unified(a, b) == Hunks(Ops(SplitLines(a), SplitLines(b)))

-----------------------------------------------------------------------------
(* The printed diff, and what the task page shows of it.                    *)

Text(t) == [text |-> t, cr |-> FALSE]
FileHeaders == <<Op("-", Text("-- a")), Op("+", Text("++ b"))>>

\* The numbers of an @@ line are left out here: no reader of the page's lines
\* looks at them.
Render(hunks) ==
    IF hunks = <<>> THEN <<>>
    ELSE FileHeaders \o FoldLeft(LAMBDA out, h : Append(out, Op("@", Text("@"))) \o h.ops, <<>>, hunks)

\* Mutant of IsHeader: any line that begins with "---" or "+++", and so the mark
\* "---" of a new YAML document.
IsHeaderAnyDashes(raw) ==
    \/ raw.kind = "-" /\ raw.line.text \in Dashed \cup {"--", "---"}
    \/ raw.kind = "+" /\ raw.line.text \in Plussed
    \/ raw.kind = "@"

IsHeader(raw) ==
    \/ raw.kind = "-" /\ raw.line.text \in Dashed
    \/ raw.kind = "+" /\ raw.line.text \in Plussed
    \/ raw.kind = "@"

ParseUnified(printed) ==
    LET lines == SelectSeq(printed, LAMBDA raw : ~IsHeader(raw))
        Count(kind) == Len(SelectSeq(lines, LAMBDA raw : raw.kind = kind))
    IN  [lines |-> lines, added |-> Count("+"), removed |-> Count("-")]

-----------------------------------------------------------------------------
(* What a reader of a diff may rely on.                                     *)

Lines(ops) == [i \in DOMAIN ops |-> ops[i].line]

\* A hunk's place on a side, as patch reads the header.
First(start, count) == IF count = 0 THEN start + 1 ELSE start

\* One more hunk on top of what the earlier ones gave, if it fits there.
PatchHunk(a, done, h) ==
    LET first == First(h.aStart, h.aCount)
        fits == first >= done.next /\ first + h.aCount - 1 <= Len(a)
        out == IF fits THEN done.out \o SubSeq(a, done.next, first - 1) ELSE done.out
    IN  [ok |-> /\ done.ok /\ fits
                /\ SubSeq(a, first, first + h.aCount - 1) = Lines(Side(h.ops, "-"))
                /\ Len(out) + 1 = First(h.bStart, h.bCount)
                /\ Len(Side(h.ops, "+")) = h.bCount,
         out |-> out \o Lines(Side(h.ops, "+")),
         next |-> first + h.aCount]

\* The diff applies at the line numbers of its headers and gives b: render's
\* @@ lines, the zero-count convention and the operations agree.
PatchGives(a, b) ==
    LET al == SplitLines(a)
        done == FoldLeft(LAMBDA d, h : PatchHunk(al, d, h),
                         [ok |-> TRUE, out |-> <<>>, next |-> 1], Unified(a, b))
    IN  done.ok /\ done.out \o SubSeq(al, done.next, Len(al)) = SplitLines(b)

\* s can be had from t by leaving lines out.
IsSubsequence(s, t) ==
    \E f \in [DOMAIN s -> DOMAIN t] :
        /\ \A i \in DOMAIN s : s[i] = t[f[i]]
        /\ \A i, j \in DOMAIN s : i < j => f[i] < f[j]

\* No common sequence of lines is longer than what the operations keep.
KeepsMost(a, b) ==
    LET al == SplitLines(a)
        kept == Len(SelectSeq(Ops(al, SplitLines(b)), LAMBDA o : o.kind = " "))
    IN  Len(al) * Len(SplitLines(b)) <= MaxCells
          => \A I \in SUBSET DOMAIN al :
               Cardinality(I) > kept
                 => LET s == SelectSeq([i \in DOMAIN al |-> i], LAMBDA i : i \in I)
                    IN  ~IsSubsequence([k \in DOMAIN s |-> al[s[k]]], SplitLines(b))

\* At least one line that is not shown lies between two hunks.
Separate(a, b) ==
    LET hunks == Unified(a, b)
    IN  \A k \in 2..Len(hunks) :
            First(hunks[k].aStart, hunks[k].aCount)
              > First(hunks[k - 1].aStart, hunks[k - 1].aCount) + hunks[k - 1].aCount

\* The page shows the operations of the hunks, all of them and nothing else, and
\* so as many more lines added than removed as the new text is longer; unless a
\* line of the texts itself begins like a file header.
PageShowsAll(a, b) ==
    LET hunks == Unified(a, b)
        shown == ParseUnified(Render(hunks))
    IN  (\A line \in ToSet(a) \cup ToSet(b) : line.text \notin Dashed \cup Plussed)
          => /\ shown.lines = FoldLeft(LAMBDA out, h : out \o h.ops, <<>>, hunks)
             /\ shown.added - shown.removed = Len(SplitLines(b)) - Len(SplitLines(a))
=============================================================================
