---------------------- MODULE ConfigurationPublication ----------------------
(***************************************************************************)
(* Authoring of one scope: the draft, publications of it as immutable       *)
(* revisions, discards of it, retention of revisions and the AWS store      *)
(* underneath, which keeps bodies in S3 and metadata in DynamoDB.           *)
(*                                                                         *)
(* A task is one call of the service; between two steps of it lies one call *)
(* of a store, where other tasks may come in, the call may fail or the       *)
(* process may die. A request digest is the request itself. The actor of a   *)
(* request is part of its key, the authoring policy does not change, and     *)
(* validation is an answer from outside. Calls that change nothing whatever  *)
(* the state (reads, listings, comparisons, exports) are left out.           *)
(***************************************************************************)
EXTENDS Naturals, FiniteSets, Sequences, SequencesExt

CONSTANTS
    Documents,    \* what an author may write
    NoDocument,   \* the document of a call that has none
    Keys,         \* idempotency keys
    NoKey,        \* the key of a call that has none
    Tasks,        \* concurrent calls
    First,        \* the document published and active in the beginning, or NoDocument
    KeepLatest,   \* keep_latest of retention
    DeleteLimit,  \* delete_limit of retention
    MaxDraft,     \* bound: versions of the draft
    MaxPointer,   \* bound: versions of the active pointer
    MaxRecord     \* bound: versions of a publication record

ASSUME PublicationConstants ==
    /\ NoDocument \notin Documents
    /\ NoKey \notin Keys
    /\ First \in Documents \cup {NoDocument}
    /\ KeepLatest \in Nat \ {0}
    /\ DeleteLimit \in Nat \ {0}
    /\ MaxDraft \in Nat
    /\ MaxPointer \in Nat
    /\ MaxRecord \in Nat

VARIABLES
    drafts,    \* the documents of the draft, one for each version of it
    order,     \* the revisions with metadata, in the order of their creation
    children,  \* children[r]: the child_reference_count of r
    markers,   \* revisions whose metadata key holds a cleanup marker
    bodies,    \* revisions whose body is in S3
    active,    \* the active pointer
    swept,     \* history: revisions that a cleanup met while they were created
    pubs,      \* publication records by idempotency key
    discs,     \* discard records by idempotency key
    task       \* task[t]: where the call stands and what it has read

store == <<order, children, markers, bodies, active>>
vars == <<drafts, store, swept, pubs, discs, task>>

(***************************************************************************)
(* Revisions. The identity is a digest of the document and the parent.      *)
(***************************************************************************)
\* NoRevision is no parent, or no active revision.
NoRevision == [kind |-> "none"]

Source(doc, parent)   == [kind |-> "source", content |-> doc, parent |-> parent]
Resolved(src, parent) == [kind |-> "resolved", content |-> src, parent |-> parent]

\* The tenant source revision a resolved revision was made from.
SourceOf(r) == IF r = NoRevision THEN NoRevision ELSE r.content

\* The revisions that have metadata.
revs == DOMAIN children

\* read_revision needs the metadata and the body.
Readable(r) == r \in revs /\ r \in bodies

(***************************************************************************)
(* Records and calls.                                                       *)
(***************************************************************************)
NoPublication == [state |-> "none", version |-> 0, want |-> 0, doc |-> NoDocument,
                  base |-> NoRevision, published |-> NoRevision]
NoDiscard     == [state |-> "none", version |-> 0, want |-> 0, doc |-> NoDocument,
                  base |-> NoRevision, result |-> 0]
Idle          == [pc |-> "idle", key |-> NoKey, want |-> 0, doc |-> NoDocument,
                  base |-> NoRevision, held |-> 0, todo |-> << >>]

\* A scope nobody has written to, or one whose first document was published and
\* activated by calls that are over.
Init ==
    /\ drafts = IF First = NoDocument THEN << >> ELSE <<First>>
    /\ order = IF First = NoDocument THEN << >>
               ELSE LET src == Source(First, NoRevision)
                    IN  <<src, Resolved(src, NoRevision)>>
    /\ children = [r \in Range(order) |-> 0]
    /\ markers = {}
    /\ bodies = revs
    /\ swept = {}
    /\ active = IF First = NoDocument THEN [revision |-> NoRevision, version |-> 0]
                ELSE [revision |-> order[2], version |-> 1]
    /\ pubs = [k \in Keys |-> NoPublication]
    /\ discs = [k \in Keys |-> NoDiscard]
    /\ task = [t \in Tasks |-> Idle]

SetTask(t, value) == task' = [task EXCEPT ![t] = value]
Goto(t, pc)       == SetTask(t, [task[t] EXCEPT !.pc = pc])
Return(t)         == SetTask(t, Idle)

\* The request a record was made for.
Request(x) == <<x.want, x.doc, x.base>>

\* create_draft, update_draft and import_draft_yaml, called with the current
\* version; with another version they change nothing.
SaveDraft(doc) ==
    /\ Len(drafts) < MaxDraft
    /\ drafts' = Append(drafts, doc)
    /\ UNCHANGED <<store, pubs, discs, task>>

\* compare_and_swap_active, called by the activation controller with the pointer
\* it replaces. The body is looked at before the transaction, in the same step here.
MoveActive(r) ==
    /\ active.version < MaxPointer
    /\ r.kind = "resolved" /\ Readable(r)
    /\ active' = [revision |-> r, version |-> active.version + 1]
    /\ UNCHANGED <<drafts, order, children, markers, bodies, pubs, discs, task>>

(***************************************************************************)
(* publish.                                                                 *)
(***************************************************************************)
\* Mutant: the draft is published whatever version the caller saw.
MutAnyVersion(t, k, version) ==
    /\ task[t] = Idle
    /\ pubs[k].state # "applied"
    /\ SetTask(t, [Idle EXCEPT !.pc = "active", !.key = k, !.want = version,
                      !.doc = drafts[Len(drafts)]])
    /\ UNCHANGED <<drafts, store, pubs, discs>>

\* A key whose publication was applied answers from its record, and a draft that
\* has another version is a conflict. The record is read again by Reserve.
Publish(t, k, version) ==
    /\ task[t] = Idle
    /\ pubs[k].state # "applied"
    /\ version = Len(drafts)
    /\ SetTask(t, [Idle EXCEPT !.pc = "active", !.key = k, !.want = version,
                      !.doc = drafts[version]])
    /\ UNCHANGED <<drafts, store, pubs, discs>>

ReadActive(t) ==
    /\ task[t].pc = "active"
    /\ IF active.revision = NoRevision \/ Readable(active.revision)
       THEN SetTask(t, [task[t] EXCEPT !.pc = "reserve", !.base = active.revision])
       ELSE Return(t)
    /\ UNCHANGED <<drafts, store, pubs, discs>>

\* create_publication inserts a record or finds the one of the key.
Reserve(t) ==
    LET k == task[t].key
        p == pubs[k]
    IN  /\ task[t].pc = "reserve"
        /\ \/ /\ p.state = "none"
              /\ pubs' = [pubs EXCEPT ![k] =
                    [NoPublication EXCEPT !.state = "pending", !.version = 1,
                        !.want = task[t].want, !.doc = task[t].doc, !.base = task[t].base]]
              /\ SetTask(t, [task[t] EXCEPT !.pc = "source body", !.held = 1])
           \/ /\ p.state \in {"pending", "failed"}
              /\ Request(p) = Request(task[t])
              /\ SetTask(t, [task[t] EXCEPT !.held = p.version,
                    !.pc = IF p.state = "failed" THEN "reopen" ELSE "source body"])
              /\ UNCHANGED pubs
           \/ /\ p.state # "none"
              /\ p.state = "applied" \/ Request(p) # Request(task[t])
              /\ Return(t)
              /\ UNCHANGED pubs
        /\ UNCHANGED <<drafts, store, discs>>

\* Mutant: the write does not compare versions.
MutUpdateAnyway(t, new) ==
    pubs' = [pubs EXCEPT ![task[t].key] = [new EXCEPT !.version = task[t].held + 1]]

\* update_publication writes the next version of the record the task holds, or
\* raises when somebody else has written since.
UpdatePublication(t, new) ==
    LET k == task[t].key IN
    IF pubs[k].version = task[t].held
    THEN pubs' = [pubs EXCEPT ![k] = [new EXCEPT !.version = task[t].held + 1]]
    ELSE UNCHANGED pubs

Reopen(t) ==
    LET p == pubs[task[t].key] IN
    /\ task[t].pc = "reopen"
    /\ task[t].held < MaxRecord
    /\ UpdatePublication(t, [p EXCEPT !.state = "pending"])
    /\ IF p.version = task[t].held
       THEN SetTask(t, [task[t] EXCEPT !.pc = "source body", !.held = @ + 1])
       ELSE Return(t)
    /\ UNCHANGED <<drafts, store, discs>>

SourceRevision(t) == Source(task[t].doc, SourceOf(task[t].base))

\* The revision the task is creating.
Revision(t) == IF task[t].pc \in {"source body", "source metadata"}
               THEN SourceRevision(t)
               ELSE Resolved(SourceRevision(t), task[t].base)

\* A draft that is valid is stored: PublicationFails is the other answer.
\* create_revision puts the body first; one that is there is the same.
PutBody(t) ==
    /\ task[t].pc \in {"source body", "body"}
    /\ bodies' = bodies \cup {Revision(t)}
    /\ Goto(t, IF task[t].pc = "body" THEN "metadata" ELSE "source metadata")
    /\ UNCHANGED <<drafts, order, children, markers, active, pubs, discs>>

\* Mutant: the parent is not looked up.
MutNoParentCheck(t) ==
    LET r == Revision(t)
        next == IF task[t].pc = "metadata" THEN "complete" ELSE "body"
    IN  /\ task[t].pc \in {"source metadata", "metadata"}
        /\ r \notin revs \cup markers
        /\ order' = Append(order, r)
        /\ children' = [s \in revs \cup {r} |->
              IF s = r THEN 0 ELSE IF s = r.parent THEN children[s] + 1 ELSE children[s]]
        /\ Goto(t, next)
        /\ UNCHANGED <<drafts, markers, bodies, active, pubs, discs>>

\* Then the metadata and the reference count of the parent in one transaction.
\* When its conditions fail the revision may be there already.
PutMetadata(t) ==
    LET r == Revision(t)
        next == IF task[t].pc = "metadata" THEN "complete" ELSE "body"
    IN  /\ task[t].pc \in {"source metadata", "metadata"}
        /\ \/ /\ r \notin revs \cup markers
              /\ r.parent \in revs \cup {NoRevision}
              /\ order' = Append(order, r)
              /\ children' = [s \in revs \cup {r} |->
                    IF s = r THEN 0
                    ELSE IF s = r.parent THEN children[s] + 1 ELSE children[s]]
              /\ Goto(t, next)
           \/ /\ Readable(r)
              /\ Goto(t, next)
              /\ UNCHANGED <<order, children>>
           \/ /\ ~Readable(r)
              /\ r \in revs \cup markers \/ r.parent \notin revs \cup {NoRevision}
              /\ Goto(t, "failing")
              /\ UNCHANGED <<order, children>>
        /\ UNCHANGED <<drafts, markers, bodies, active, pubs, discs>>

\* complete_publication. When the record was written meanwhile the call answers
\* with it if it was applied, and raises otherwise.
Complete(t) ==
    /\ task[t].pc = "complete"
    /\ UpdatePublication(t, [pubs[task[t].key] EXCEPT !.state = "applied",
                                !.published = Resolved(SourceRevision(t), task[t].base)])
    /\ Return(t)
    /\ UNCHANGED <<drafts, store, discs>>

\* Validation rejects the draft, the catalog or the store cannot be reached, or
\* the answer of a store is lost.
PublicationFails(t) ==
    /\ task[t].pc \in {"source body", "source metadata", "body", "metadata", "complete"}
    /\ Goto(t, "failing")
    /\ UNCHANGED <<drafts, store, pubs, discs>>

RecordFailure(t) ==
    /\ task[t].pc = "failing"
    /\ UpdatePublication(t, [pubs[task[t].key] EXCEPT !.state = "failed"])
    /\ Return(t)
    /\ UNCHANGED <<drafts, store, discs>>

(***************************************************************************)
(* discard.                                                                 *)
(***************************************************************************)
\* The document of the active revision is read from its source; the caller names
\* the active revision, and another one changes nothing.
Discard(t, k, version) ==
    /\ task[t] = Idle
    /\ active.revision # NoRevision
    /\ Readable(active.revision) /\ Readable(SourceOf(active.revision))
    /\ SetTask(t, [Idle EXCEPT !.pc = "create", !.key = k, !.want = version,
                      !.doc = SourceOf(active.revision).content, !.base = active.revision])
    /\ UNCHANGED <<drafts, store, pubs, discs>>

CreateDiscard(t) ==
    LET k == task[t].key
        d == discs[k]
    IN  /\ task[t].pc = "create"
        /\ \/ /\ d.state = "none"
              /\ discs' = [discs EXCEPT ![k] =
                    [NoDiscard EXCEPT !.state = "pending", !.version = 1,
                        !.want = task[t].want, !.doc = task[t].doc, !.base = task[t].base]]
              /\ SetTask(t, [task[t] EXCEPT !.pc = "compare", !.held = 1])
           \/ /\ d.state = "pending"
              /\ Request(d) = Request(task[t])
              /\ SetTask(t, [task[t] EXCEPT !.pc = "compare", !.held = d.version])
              /\ UNCHANGED discs
           \/ /\ d.state # "none"
              /\ d.state # "pending" \/ Request(d) # Request(task[t])
              /\ Return(t)
              /\ UNCHANGED discs
        /\ UNCHANGED <<drafts, store, pubs>>

\* Mutant: off by one in the version to discard.
MutCompareNext(t) ==
    /\ task[t].pc = "compare"
    /\ Goto(t, IF Len(drafts) = task[t].want + 1 THEN "swap" ELSE "reject")
    /\ UNCHANGED <<drafts, store, pubs, discs>>

\* The draft still has the expected version, or was discarded already.
CompareDraft(t) ==
    LET current == Len(drafts) IN
    /\ task[t].pc = "compare"
    /\ Goto(t, IF current = task[t].want THEN "swap"
               ELSE IF current = task[t].want + 1 /\ drafts[current] = task[t].doc
                    THEN "close" ELSE "reject")
    /\ UNCHANGED <<drafts, store, pubs, discs>>

\* Mutant: the draft is written unconditionally.
MutOverwrite(t) ==
    /\ task[t].pc = "swap"
    /\ drafts' = Append(drafts, task[t].doc)
    /\ Goto(t, "close")
    /\ UNCHANGED <<store, pubs, discs>>

SwapDraft(t) ==
    /\ task[t].pc = "swap"
    /\ \/ /\ Len(drafts) = task[t].want
          /\ drafts' = Append(drafts, task[t].doc)
          /\ Goto(t, "close")
       \/ /\ Len(drafts) # task[t].want
          /\ Goto(t, "reject")
          /\ UNCHANGED drafts
    /\ UNCHANGED <<store, pubs, discs>>

\* update_discard; when somebody else has written since, the call answers with
\* that record if it was applied, and raises otherwise.
UpdateDiscard(t, new) ==
    LET k == task[t].key IN
    IF discs[k].version = task[t].held
    THEN discs' = [discs EXCEPT ![k] = [new EXCEPT !.version = task[t].held + 1]]
    ELSE UNCHANGED discs

CloseDiscard(t) ==
    /\ task[t].pc = "close"
    /\ UpdateDiscard(t, [discs[task[t].key] EXCEPT !.state = "applied",
                                                    !.result = task[t].want + 1])
    /\ Return(t)
    /\ UNCHANGED <<drafts, store, pubs>>

RejectDiscard(t) ==
    /\ task[t].pc = "reject"
    /\ UpdateDiscard(t, [discs[task[t].key] EXCEPT !.state = "failed"])
    /\ Return(t)
    /\ UNCHANGED <<drafts, store, pubs>>

(***************************************************************************)
(* retain_revisions and cleanup_orphaned_revision_body.                     *)
(***************************************************************************)
\* Newest first, without the latest, the active one and the parents.
Candidates ==
    LET newest == Reverse(order)
        old == SubSeq(newest, KeepLatest + 1, Len(newest))
        free == SelectSeq(old, LAMBDA r : r # active.revision /\ children[r] = 0)
    IN  IF Len(free) <= DeleteLimit THEN free ELSE SubSeq(free, 1, DeleteLimit)

\* Retention refuses to work when the counts and the parents disagree.
CountsAgree ==
    \A r \in revs : /\ r.parent \in revs \cup {NoRevision}
                    /\ children[r] = Cardinality({s \in revs : s.parent = r})

Retain(t) ==
    /\ task[t] = Idle
    /\ CountsAgree
    /\ Candidates # << >>
    /\ SetTask(t, [Idle EXCEPT !.pc = "drop", !.todo = Candidates])
    /\ UNCHANGED <<drafts, store, pubs, discs>>

\* Where r stands in the order of creation.
Position(r) == CHOOSE i \in 1..Len(order) : order[i] = r

\* Mutants: the parent keeps its count; the pointer is not looked at.
MutKeepCount(t) ==
    LET r == Head(task[t].todo) IN
    /\ task[t].pc = "drop"
    /\ r \in revs /\ r # active.revision /\ children[r] = 0
    /\ order' = RemoveAt(order, Position(r))
    /\ children' = [s \in revs \ {r} |-> children[s]]
    /\ Goto(t, "mark")
    /\ UNCHANGED <<drafts, markers, bodies, active, pubs, discs>>

MutDropActive(t) ==
    LET r == Head(task[t].todo) IN
    /\ task[t].pc = "drop"
    /\ r \in revs /\ children[r] = 0
    /\ order' = RemoveAt(order, Position(r))
    /\ children' = [s \in revs \ {r} |->
            IF s = r.parent THEN children[s] - 1 ELSE children[s]]
    /\ Goto(t, "mark")
    /\ UNCHANGED <<drafts, markers, bodies, active, pubs, discs>>

\* One transaction takes the metadata away and the reference off the parent,
\* unless the revision became active or a parent since.
DropMetadata(t) ==
    LET r == Head(task[t].todo) IN
    /\ task[t].pc = "drop"
    /\ IF /\ r \in revs /\ r # active.revision /\ children[r] = 0
          /\ r.parent # NoRevision => r.parent \in revs /\ children[r.parent] > 0
       THEN /\ order' = RemoveAt(order, Position(r))
            /\ children' = [s \in revs \ {r} |->
                    IF s = r.parent THEN children[s] - 1 ELSE children[s]]
            /\ Goto(t, "mark")
       ELSE /\ Return(t)
            /\ UNCHANGED <<order, children>>
    /\ UNCHANGED <<drafts, markers, bodies, active, pubs, discs>>

\* A call on its own, for a body whose revision was never completed or whose
\* removal was interrupted.
CleanupOrphan(t, r) ==
    /\ task[t] = Idle
    /\ r \notin revs
    /\ SetTask(t, [Idle EXCEPT !.pc = "mark", !.todo = <<r>>])
    /\ UNCHANGED <<drafts, store, pubs, discs>>

NextCandidate(t) ==
    IF Len(task[t].todo) = 1 THEN Return(t)
    ELSE SetTask(t, [task[t] EXCEPT !.pc = "drop", !.todo = Tail(@)])

\* A revision that came back raises; a marker that is there already is taken over.
LookUp(t) ==
    LET r == Head(task[t].todo) IN
    /\ task[t].pc = "mark"
    /\ IF r \in revs THEN Return(t)
       ELSE Goto(t, IF r \in markers THEN "check" ELSE "acquire")
    /\ UNCHANGED <<drafts, store, pubs, discs>>

\* The pointer is read next; AcquireMarker reads it again.
CheckActive(t) ==
    /\ task[t].pc = "check"
    /\ IF active.revision = Head(task[t].todo) THEN NextCandidate(t) ELSE Goto(t, "purge")
    /\ UNCHANGED <<drafts, store, pubs, discs>>

\* The marker keeps the identity from being created while its body goes.
AcquireMarker(t) ==
    LET r == Head(task[t].todo) IN
    /\ task[t].pc = "acquire"
    /\ \/ /\ r \notin revs \cup markers \cup {active.revision}
          /\ markers' = markers \cup {r}
          /\ Goto(t, "purge")
       \/ /\ r \in revs \cup markers \cup {active.revision}
          /\ NextCandidate(t)
          /\ UNCHANGED markers
    /\ UNCHANGED <<drafts, order, children, bodies, active, pubs, discs>>

\* delete_object; when it fails the marker goes and the call raises.
Purge(t) ==
    LET r == Head(task[t].todo) IN
    /\ task[t].pc = "purge"
    /\ \/ bodies' = bodies \ {r} /\ Goto(t, "release") /\ UNCHANGED markers
       \/ markers' = markers \ {r} /\ Return(t) /\ UNCHANGED bodies
    /\ UNCHANGED <<drafts, order, children, active, pubs, discs>>

\* A marker that somebody else released is no error, a revision in its place is.
Release(t) ==
    LET r == Head(task[t].todo) IN
    /\ task[t].pc = "release"
    /\ markers' = markers \ {r}
    /\ IF r \in revs THEN Return(t) ELSE NextCandidate(t)
    /\ UNCHANGED <<drafts, order, children, bodies, active, pubs, discs>>

(***************************************************************************)
(* The process dies, or a store that keeps no failure record is gone.       *)
(***************************************************************************)
Abort(t) ==
    /\ task[t] # Idle
    /\ Return(t)
    /\ UNCHANGED <<drafts, store, pubs, discs>>

PublishNext(t) ==
    \/ \E k \in Keys, v \in 1..Len(drafts) : Publish(t, k, v)
    \/ ReadActive(t) \/ Reserve(t) \/ Reopen(t)
    \/ PutBody(t) \/ PutMetadata(t) \/ Complete(t)
    \/ PublicationFails(t) \/ RecordFailure(t)

DiscardNext(t) ==
    \/ \E k \in Keys, v \in 1..Len(drafts) : Discard(t, k, v)
    \/ CreateDiscard(t) \/ CompareDraft(t) \/ SwapDraft(t)
    \/ CloseDiscard(t) \/ RejectDiscard(t)

RetainNext(t) ==
    \/ Retain(t) \/ DropMetadata(t)
    \/ \E r \in bodies \cup markers : CleanupOrphan(t, r)
    \/ LookUp(t) \/ CheckActive(t) \/ AcquireMarker(t) \/ Purge(t) \/ Release(t)

CallNext ==
    \/ \E doc \in Documents : SaveDraft(doc)
    \/ \E r \in revs : MoveActive(r)
    \/ \E t \in Tasks : PublishNext(t) \/ DiscardNext(t) \/ RetainNext(t) \/ Abort(t)

\* A creation of r has put the body and not yet the metadata.
Creates(t, r) == task[t].pc \in {"source metadata", "metadata"} /\ r = Revision(t)

\* A cleanup of r has begun.
Cleans(t, r) ==
    /\ task[t].pc \in {"mark", "check", "acquire", "purge", "release"}
    /\ r = Head(task[t].todo)

Creating   == {Revision(t) : t \in {u \in Tasks : task[u].pc \in {"source metadata", "metadata"}}}
Cleaned(r) == \E t \in Tasks : Cleans(t, r)
Meets(r)   == (\E t \in Tasks : Creates(t, r)) /\ Cleaned(r)

\* A revision a cleanup has met is remembered until the cleanup is over and did no harm.
Remember ==
    swept' = {r \in revs' \cup Creating' :
                 Meets(r)' \/ (r \in swept /\ (r \notin bodies' \/ Cleaned(r)'))}

Next == CallNext /\ Remember

Spec == Init /\ [][Next]_vars

(***************************************************************************)
(* Properties.                                                             *)
(***************************************************************************)
States == {"none", "pending", "applied", "failed"}

\* Every variable holds a value of its kind.
TypeOK ==
    /\ drafts \in Seq(Documents)
    /\ Range(order) = revs /\ \A r \in revs : children[r] \in Nat
    /\ \A r \in revs \cup bodies \cup markers : r.kind \in {"source", "resolved"}
    /\ active.revision \in revs \cup {NoRevision} /\ active.version \in Nat
    /\ \A k \in Keys : pubs[k].state \in States /\ discs[k].state \in States
    /\ \A t \in Tasks : task[t].key \in Keys \cup {NoKey} /\ task[t].want \in Nat

Store == INSTANCE ConfigurationStore WITH readable <- revs \cap bodies

\* The S3 and DynamoDB writes of create_revision, retain_revisions and the
\* cleanup, interleaved and interrupted anywhere, amount to the transactions of the
\* store: one draft line, revisions written once under a parent that is there,
\* nothing removed that the pointer or another revision refers to, and no revision
\* without its body unless a cleanup of it was under way while it was created.
ImplementsStore == [][Store!Next]_(Store!storeVars)

\* The pointer and every parent name a revision of the store, and the reference
\* counts that protect parents from retention stay right, whatever creations,
\* removals and failures interleave: with one too few a parent would go, with one
\* too many retention would refuse to work for good.
ReferencesHold ==
    /\ active.revision \in revs \cup {NoRevision}
    /\ CountsAgree

\* A publication that was applied published exactly the document of the draft
\* version its caller asked for, on top of what was active when it was reserved,
\* whoever edited the draft or repeated the request meanwhile.
AppliedPublishesDraft ==
    \A k \in Keys : pubs[k].state = "applied" =>
        /\ pubs[k].published.content.content = drafts[pubs[k].want]
        /\ pubs[k].published.parent = pubs[k].base
        /\ pubs[k].published.content.parent = SourceOf(pubs[k].base)

\* Calls that repeat a request, and failures they record late, never touch the
\* record of an applied publication or discard, nor change what a key stands for.
AppliedIsFinal ==
    [][ \A k \in Keys :
            /\ pubs[k].state = "applied" => pubs'[k] = pubs[k]
            /\ discs[k].state = "applied" => discs'[k] = discs[k]
            /\ pubs[k].state # "none" => Request(pubs'[k]) = Request(pubs[k])
            /\ pubs'[k].version >= pubs[k].version ]_vars

\* A discard that was applied put the document of the active revision it named
\* right after the draft version it named: no edit in between was overwritten.
DiscardRestoresActive ==
    \A k \in Keys : discs[k].state = "applied" =>
        /\ discs[k].result = discs[k].want + 1
        /\ drafts[discs[k].result] = SourceOf(discs[k].base).content

\* A discard is recorded as failed only when the draft it named is not the
\* current one any more.
FailedDiscardWasStale ==
    \A k \in Keys : discs[k].state = "failed" => Len(drafts) > discs[k].want

\* The record of a publication or a discard says what happened to the draft it named.
RecordsAreTrue ==
  /\ TypeOK
  /\ AppliedPublishesDraft
  /\ DiscardRestoresActive
  /\ FailedDiscardWasStale
=============================================================================
