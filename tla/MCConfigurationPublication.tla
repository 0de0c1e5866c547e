--------------------- MODULE MCConfigurationPublication ---------------------
(***************************************************************************)
(* Instances of ConfigurationPublication for TLC.                          *)
(***************************************************************************)
EXTENDS ConfigurationPublication

CONSTANTS d1, d2, k1, k2, t1, t2

OneDocument  == {d1}
TwoDocuments == {d1, d2}
OneKey       == {k1}
TwoKeys      == {k1, k2}
TwoTasks     == {t1, t2}

Alike == {f @@ g : f \in Permutations(TwoTasks), g \in Permutations(TwoKeys)}
\* Bound: one retention or cleanup at a time, and none together with a discard,
\* which reads revisions in its first step only.
Cleaning == {t \in Tasks : task[t].todo # << >>}
Discarding ==
    \/ \E k \in Keys : discs[k] # NoDiscard
    \/ \E t \in Tasks : task[t].pc = "create"
Apart ==
    /\ Cardinality(Cleaning) <= 1
    /\ Discarding => /\ Cleaning = {} /\ markers = {}
                     /\ First # NoDocument => Source(First, NoRevision) \in revs
=============================================================================
