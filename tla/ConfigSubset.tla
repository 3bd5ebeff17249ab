---------------------------- MODULE ConfigSubset ----------------------------
(***************************************************************************)
(* internal/agent/subset.go: whether the configuration an agent reports    *)
(* covers the one that was pushed.  A YAML value is a record: a scalar     *)
(* [kind, text, string], a list [kind, items] or a map [kind, keys], keys  *)
(* a function from names to values.  The printed form of a scalar never    *)
(* is that of a list or map.                                               *)
(***************************************************************************)
EXTENDS Naturals, Sequences, FiniteSets

CONSTANT FoldCase(_)    \* the lower-case form of a text

Redacted == "[REDACTED]"

Scalar(text, string) == [kind |-> "scalar", text |-> text, string |-> string]
List(items) == [kind |-> "list", items |-> items]
Map(keys) == [kind |-> "map", keys |-> keys]

\* Mutant of ScalarEqual: what the agent hides is compared as it stands.
ScalarEqualShown(p, e) ==
    /\ p.kind = "scalar" /\ e.kind = "scalar"
    /\ \/ p.text = e.text
       \/ p.string /\ e.string /\ FoldCase(p.text) = FoldCase(e.text)

\* scalarEqual compares what is printed, so the string "1" is the number 1.
ScalarEqual(p, e) ==
    /\ p.kind = "scalar" /\ e.kind = "scalar"
    /\ \/ p.string /\ e.string /\ Redacted \in {p.text, e.text}
       \/ p.text = e.text
       \/ p.string /\ e.string /\ FoldCase(p.text) = FoldCase(e.text)

\* Mutant of YamlSubset: a list is covered when one of its elements is.
RECURSIVE YamlSubsetSome(_, _)
YamlSubsetSome(p, e) ==
    CASE p.kind = "map" ->
            /\ e.kind = "map"
            /\ \A k \in DOMAIN p.keys :
                  k \in DOMAIN e.keys /\ YamlSubsetSome(p.keys[k], e.keys[k])
      [] p.kind = "list" ->
            /\ e.kind = "list"
            /\ \/ p.items = <<>>
               \/ \E i \in DOMAIN p.items, j \in DOMAIN e.items :
                        YamlSubsetSome(p.items[i], e.items[j])
      [] OTHER -> ScalarEqual(p, e)

\* The elements of a list are looked for one by one when the lists differ in
\* length or do not agree in order; several may find the same element.
RECURSIVE YamlSubset(_, _)
YamlSubset(p, e) ==
    CASE p.kind = "map" ->
            /\ e.kind = "map"
            /\ \A k \in DOMAIN p.keys :
                  k \in DOMAIN e.keys /\ YamlSubset(p.keys[k], e.keys[k])
      [] p.kind = "list" ->
            /\ e.kind = "list"
            /\ \/ p.items = <<>>
               \/ /\ Len(p.items) = Len(e.items)
                  /\ \A i \in DOMAIN p.items : YamlSubset(p.items[i], e.items[i])
               \/ \A i \in DOMAIN p.items :
                     \E j \in DOMAIN e.items : YamlSubset(p.items[i], e.items[j])
      [] OTHER -> ScalarEqual(p, e)

-----------------------------------------------------------------------------
(* What the confirmation relies on.                                         *)

\* The agent runs p and reports it as e: with defaults in the maps, its lists
\* in another order, secrets hidden, constants in its own spelling.
RECURSIVE Reported(_, _)
Reported(p, e) ==
    /\ p.kind = e.kind
    /\ CASE p.kind = "map" ->
               \A k \in DOMAIN p.keys : k \in DOMAIN e.keys /\ Reported(p.keys[k], e.keys[k])
         [] p.kind = "list" ->
               /\ Len(p.items) = Len(e.items)
               /\ \E f \in [DOMAIN p.items -> DOMAIN e.items] :
                     /\ {f[i] : i \in DOMAIN f} = DOMAIN e.items
                     /\ \A i \in DOMAIN f : Reported(p.items[i], e.items[f[i]])
         [] OTHER -> \/ p = e
                     \/ e = Scalar(Redacted, TRUE) /\ p.string
                     \/ p.string /\ e.string /\ FoldCase(p.text) = FoldCase(e.text)

\* The scalars of v with the keys that lead to them; "*" stands for an element.
RECURSIVE Leaves(_)
Leaves(v) ==
    CASE v.kind = "map" ->
            UNION {{<<<<k>> \o leaf[1], leaf[2]>> : leaf \in Leaves(v.keys[k])} : k \in DOMAIN v.keys}
      [] v.kind = "list" ->
            UNION {{<<<<"*">> \o leaf[1], leaf[2]>> : leaf \in Leaves(v.items[i])} : i \in DOMAIN v.items}
      [] OTHER -> {<<<<>>, v>>}

\* A report of what was pushed is recognised: the task does not wait in vain.
Recognises(p, e) == Reported(p, e) => YamlSubset(p, e)

\* What is recognised has every setting of p somewhere under its keys: a task is
\* not confirmed by a report that lacks one.
FindsAll(p, e) ==
    YamlSubset(p, e)
      => \A leaf \in Leaves(p) :
            \E other \in Leaves(e) : leaf[1] = other[1] /\ ScalarEqual(leaf[2], other[2])
=============================================================================
