---------------------------- MODULE MCModelClient ----------------------------
(* Instances of ModelClient for TLC.                                        *)
EXTENDS ModelClient

CONSTANTS c1, c2, a, b

Generate(text) == [kind |-> "generate", text |-> text]
Chat(text) == [kind |-> "chat", text |-> text]

\* The same request twice, the same text in two kinds, two texts of one kind.
Pair(first, second) == [c \in Callers |-> IF c = c1 THEN first ELSE second]
Pairs ==
    {Pair(Generate(a), Generate(a)), Pair(Generate(a), Chat(a)), Pair(Chat(a), Chat(b))}

OneGeneration == {[c \in Callers |-> Generate(a)]}

=============================================================================
