------------------------- MODULE ConfigurationStore -------------------------
(***************************************************************************)
(* What a configuration store promises one scope: a draft that is only     *)
(* replaced by the caller that knows its version, immutable revisions named *)
(* by their content and their parent, and a pointer to the active revision. *)
(* Every call is one step, as in the SQLite store, where a call is one      *)
(* transaction and foreign keys guard parents and the pointer.              *)
(*                                                                         *)
(* A store that keeps bodies apart cleans up bodies nobody refers to, and   *)
(* promises less: a revision that a cleanup met while it was created may    *)
(* lose its body.  SQLite has none of these steps (Overlap, Lose, Restore), *)
(* and every revision in it can be read.                                    *)
(***************************************************************************)
EXTENDS Naturals, Sequences

CONSTANTS
    Documents,   \* what an author may write
    NoRevision   \* no parent, or no active revision

VARIABLES
    drafts,   \* the documents of the draft, one for each version of it
    revs,     \* the revisions in the store
    readable, \* those that can be read
    swept,    \* revisions that a cleanup met while they were created
    active    \* the active pointer: a revision and a version

storeVars == <<drafts, revs, readable, swept, active>>

Parents(S) == {r.parent : r \in S} \ {NoRevision}

Init ==
    /\ drafts = << >>
    /\ revs = {}
    /\ readable = {}
    /\ swept = {}
    /\ active = [revision |-> NoRevision, version |-> 0]

\* A draft is created or replaced by a caller that names the current version.
CompareAndSwapDraft(doc) ==
    /\ drafts' = Append(drafts, doc)
    /\ UNCHANGED <<revs, readable, swept, active>>

\* A revision is written once, and under a parent that is there.
CreateRevision(r) ==
    /\ r \notin revs
    /\ r.parent \in revs \cup {NoRevision}
    /\ revs' = revs \cup {r}
    /\ readable' \in {readable \cup {r}} \cup (IF r \in swept THEN {readable} ELSE {})
    /\ UNCHANGED <<drafts, swept, active>>

\* The pointer moves to a revision that is there.
CompareAndSwapActive(r) ==
    /\ r \in readable
    /\ active' = [revision |-> r, version |-> active.version + 1]
    /\ UNCHANGED <<drafts, revs, readable, swept>>

\* Retention removes revisions nobody refers to.
RetainRevisions ==
    /\ revs' \subseteq revs /\ revs' # revs
    /\ Parents(revs) \cup {active.revision} \subseteq revs' \cup {NoRevision}
    /\ readable' = readable \cap revs'
    /\ swept \ (revs \ revs') \subseteq swept' /\ swept' \subseteq swept \cup (revs \ revs')
    /\ UNCHANGED <<drafts, active>>

\* A creation of a revision that is not there meets a cleanup of it, or does not.
Overlap(r) ==
    /\ r \notin revs
    /\ swept' \in {swept \cup {r}, swept \ {r}}
    /\ UNCHANGED <<drafts, revs, readable, active>>

\* The cleanup takes the body away, though the revision may be there by now.
Lose(r) ==
    /\ r \in swept
    /\ readable' = readable \ {r}
    /\ UNCHANGED <<drafts, revs, swept, active>>

\* Another creation puts the body again, or the cleanup is over and did no harm.
Restore(r) ==
    /\ r \in revs
    /\ readable' = readable \cup {r}
    /\ swept' \in {swept, swept \ {r}}
    /\ UNCHANGED <<drafts, revs, active>>

Next ==
    \/ \E doc \in Documents : CompareAndSwapDraft(doc)
    \/ \E r \in revs' : CreateRevision(r)
    \/ \E r \in readable : CompareAndSwapActive(r)
    \/ RetainRevisions
    \/ \E r \in swept \cup swept' : Overlap(r)
    \/ \E r \in swept : Lose(r)
    \/ \E r \in revs : Restore(r)

Spec == Init /\ [][Next]_storeVars
=============================================================================
