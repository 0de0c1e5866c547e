------------------- MODULE ConfigurationPublicationProofs -------------------
(***************************************************************************)
(* The references between revisions hold, the interleaved writes of the AWS *)
(* store implement the configuration store, and records say what happened,   *)
(* for every number of tasks, keys, documents and revisions.                 *)
(***************************************************************************)
EXTENDS ConfigurationPublication, FiniteSetTheorems, SequenceTheorems, TLAPS

\* The revisions whose parent is r.
Kids(S, r) == {s \in S : s.parent = r}

\* Counting needs finitely many revisions.
References ==
    /\ IsFiniteSet(revs)
    /\ ReferencesHold

\* Calls that write a document carry one.
Carrying == {"active", "reserve", "reopen", "source body", "source metadata", "body",
             "metadata", "create", "compare", "swap"}

TaskShape == DOMAIN task = Tasks /\ \A t \in Tasks : DOMAIN task[t] = DOMAIN Idle

\* Where documents come from: the draft, or the source of the active revision.
DocumentsOK ==
    /\ drafts \in Seq(Documents)
    /\ \A r \in revs : r.kind = "resolved" => r.content.content \in Documents
    /\ active.revision # NoRevision => active.revision.kind = "resolved"

\* The store does not change.
Quiet == UNCHANGED <<children, active>>

(***************************************************************************)
(* Counting.                                                               *)
(***************************************************************************)
\* A revision that is added is one more child of its parent (create_revision).
LEMMA AddChild ==
    ASSUME NEW S, IsFiniteSet(S), NEW r, r \notin S, NEW p
    PROVE  Cardinality(Kids(S \cup {r}, p)) =
              IF p = r.parent THEN Cardinality(Kids(S, p)) + 1 ELSE Cardinality(Kids(S, p))
<1>1. IsFiniteSet(Kids(S, p))
  BY FS_Subset DEF Kids
<1>2. CASE p = r.parent
  <2>1. Kids(S \cup {r}, p) = Kids(S, p) \cup {r} /\ r \notin Kids(S, p)
    BY <1>2 DEF Kids
  <2>2. Cardinality(Kids(S, p) \cup {r}) = Cardinality(Kids(S, p)) + 1
    BY <1>1, <2>1, FS_AddElement
  <2>3. QED
    BY <1>2, <2>1, <2>2
<1>3. CASE p # r.parent
  <2>1. Kids(S \cup {r}, p) = Kids(S, p)
    BY <1>3 DEF Kids
  <2>2. QED
    BY <1>3, <2>1
<1>4. QED
  BY <1>2, <1>3

\* A revision that is removed is one child less of its parent (retain_revisions).
LEMMA DropChild ==
    ASSUME NEW S, IsFiniteSet(S), NEW r \in S, NEW p
    PROVE  Cardinality(Kids(S \ {r}, p)) =
              IF p = r.parent THEN Cardinality(Kids(S, p)) - 1 ELSE Cardinality(Kids(S, p))
<1>1. IsFiniteSet(Kids(S, p))
  BY FS_Subset DEF Kids
<1>2. CASE p = r.parent
  <2>1. Kids(S \ {r}, p) = Kids(S, p) \ {r} /\ r \in Kids(S, p)
    BY <1>2 DEF Kids
  <2>2. QED
    BY <1>1, <1>2, <2>1, FS_RemoveElement
<1>3. CASE p # r.parent
  <2>1. Kids(S \ {r}, p) = Kids(S, p)
    BY <1>3 DEF Kids
  <2>2. QED
    BY <1>3, <2>1
<1>4. QED
  BY <1>2, <1>3

\* A revision without children is nobody's parent.
LEMMA NoChild ==
    ASSUME NEW S, IsFiniteSet(S), NEW p, Cardinality(Kids(S, p)) = 0
    PROVE  \A s \in S : s.parent # p
<1>1. IsFiniteSet(Kids(S, p))
  BY FS_Subset DEF Kids
<1>2. Kids(S, p) = {}
  BY <1>1, FS_EmptySet
<1>3. QED
  BY <1>2 DEF Kids

(***************************************************************************)
(* References are an inductive invariant.                                   *)
(***************************************************************************)
\* A scope starts with nothing, or with one revision and its source, which
\* have no children.
LEMMA ReferencesInit == Init => References
<1> SUFFICES ASSUME Init PROVE References
  OBVIOUS
<1>1. CASE First = NoDocument
  <2>1. revs = {} /\ active.revision = NoRevision
    BY <1>1 DEF Init, revs, Range
  <2>2. QED
    BY <2>1, FS_EmptySet DEF References, ReferencesHold, CountsAgree
<1>2. CASE First # NoDocument
  <2> DEFINE src == Source(First, NoRevision)
             res == Resolved(src, NoRevision)
  <2>1. order = <<src, res>>
    BY <1>2 DEF Init
  <2>2. Range(order) = {src, res}
    BY <2>1 DEF Range
  <2>3. revs = {src, res} /\ \A r \in revs : children[r] = 0
    BY <2>2 DEF Init, revs
  <2>4. active.revision = res
    BY <1>2, <2>1 DEF Init
  <2>5. \A r \in revs : r.parent = NoRevision
    BY <2>3 DEF Source, Resolved
  <2>6. NoRevision \notin revs
    BY <2>3 DEF Source, Resolved, NoRevision
  <2>7. \A r \in revs : {s \in revs : s.parent = r} = {}
    BY <2>5, <2>6
  <2>8. IsFiniteSet(revs)
    <3>1. IsFiniteSet({src}) /\ revs = {src} \cup {res}
      BY <2>3, FS_Singleton
    <3>2. QED
      BY <3>1, FS_AddElement
  <2>9. QED
    BY <2>3, <2>4, <2>5, <2>7, <2>8, FS_EmptySet DEF References, ReferencesHold, CountsAgree
<1>3. QED
  BY <1>1, <1>2

\* The transaction of create_revision.
LEMMA PutMetadataReferences ==
    ASSUME NEW t \in Tasks, References, PutMetadata(t) PROVE References'
<1> DEFINE r == Revision(t)
<1>1. CASE UNCHANGED children
  BY <1>1 DEF PutMetadata, References, ReferencesHold, CountsAgree, revs
<1>2. CASE /\ r \notin revs \cup markers
           /\ r.parent \in revs \cup {NoRevision}
           /\ children' = [s \in revs \cup {r} |->
                    IF s = r THEN 0
                    ELSE IF s = r.parent THEN children[s] + 1 ELSE children[s]]
  <2> HIDE DEF r
  <2>1. revs' = revs \cup {r} /\ r \notin revs
    BY <1>2 DEF revs
  <2>2. active' = active
    BY DEF PutMetadata
  <2>3. IsFiniteSet(revs')
    BY <2>1, FS_AddElement DEF References
  <2>4. r.kind \in {"source", "resolved"}
    BY DEF r, Revision, SourceRevision, Source, Resolved
  <2>5. r # NoRevision
    BY <2>4 DEF NoRevision
  <2>6. Kids(revs, r) = {} /\ r.parent # r
    <3>1. \A s \in revs : s.parent \in revs \cup {NoRevision}
      BY DEF References, ReferencesHold, CountsAgree
    <3>2. \A s \in revs : s.parent # r
      BY <2>1, <2>5, <3>1
    <3>3. r.parent # r
      BY <1>2, <2>5
    <3>4. QED
      BY <3>2, <3>3 DEF Kids
  <2>7. \A s \in revs' : s.parent \in revs' \cup {NoRevision}
    BY <1>2, <2>1 DEF References, ReferencesHold, CountsAgree
  <2>8. \A s \in revs' : children'[s] = Cardinality(Kids(revs', s))
    <3> SUFFICES ASSUME NEW s \in revs' PROVE children'[s] = Cardinality(Kids(revs', s))
      OBVIOUS
    <3>1. Cardinality(Kids(revs', s)) = IF s = r.parent THEN Cardinality(Kids(revs, s)) + 1
                                        ELSE Cardinality(Kids(revs, s))
      BY <2>1, AddChild DEF References
    <3>2. CASE s = r
      BY <1>2, <2>1, <2>6, <3>1, <3>2, FS_EmptySet
    <3>3. CASE s # r
      <4>1. s \in revs
        BY <2>1, <3>3
      <4>2. children[s] = Cardinality(Kids(revs, s))
        BY <4>1 DEF References, ReferencesHold, CountsAgree, Kids
      <4>3. children'[s] = IF s = r.parent THEN children[s] + 1 ELSE children[s]
        BY <1>2, <3>3, <4>1
      <4>4. QED
        BY <3>1, <4>2, <4>3
    <3>4. QED
      BY <3>2, <3>3
  <2>9. QED
    BY <2>1, <2>2, <2>3, <2>7, <2>8 DEF References, ReferencesHold, CountsAgree, Kids
<1>3. QED
  BY <1>1, <1>2 DEF PutMetadata

\* The transaction of retain_revisions.
LEMMA DropMetadataReferences ==
    ASSUME NEW t \in Tasks, References, DropMetadata(t) PROVE References'
<1> DEFINE r == Head(task[t].todo)
<1>1. CASE UNCHANGED children
  BY <1>1 DEF DropMetadata, References, ReferencesHold, CountsAgree, revs
<1>2. CASE /\ r \in revs /\ r # active.revision /\ children[r] = 0
           /\ children' = [s \in revs \ {r} |->
                    IF s = r.parent THEN children[s] - 1 ELSE children[s]]
  <2> HIDE DEF r
  <2>1. revs' = revs \ {r} /\ r \in revs
    BY <1>2 DEF revs
  <2>2. active' = active
    BY DEF DropMetadata
  <2>3. IsFiniteSet(revs')
    BY <2>1, FS_Subset DEF References
  <2>4. Cardinality(Kids(revs, r)) = 0
    BY <1>2 DEF References, ReferencesHold, CountsAgree, Kids
  <2>5. \A s \in revs : s.parent # r
    BY <2>4, NoChild DEF References
  <2>6. \A s \in revs' : s.parent \in revs' \cup {NoRevision}
    <3>1. \A s \in revs : s.parent \in revs \cup {NoRevision}
      BY DEF References, ReferencesHold, CountsAgree
    <3>2. QED
      BY <2>1, <2>5, <3>1
  <2>7. \A s \in revs' : children'[s] = Cardinality(Kids(revs', s))
    <3> SUFFICES ASSUME NEW s \in revs' PROVE children'[s] = Cardinality(Kids(revs', s))
      OBVIOUS
    <3>1. Cardinality(Kids(revs', s)) = IF s = r.parent THEN Cardinality(Kids(revs, s)) - 1
                                        ELSE Cardinality(Kids(revs, s))
      BY <2>1, DropChild DEF References
    <3>2. children[s] = Cardinality(Kids(revs, s))
      BY <2>1 DEF References, ReferencesHold, CountsAgree, Kids
    <3>3. children'[s] = IF s = r.parent THEN children[s] - 1 ELSE children[s]
      BY <1>2, <2>1
    <3>4. QED
      BY <3>1, <3>2, <3>3
  <2>8. active.revision \in revs' \cup {NoRevision}
    BY <1>2, <2>1 DEF References, ReferencesHold
  <2>9. QED
    BY <2>2, <2>3, <2>6, <2>7, <2>8 DEF References, ReferencesHold, CountsAgree, Kids
<1>3. QED
  BY <1>1, <1>2 DEF DropMetadata

\* Every step but these two and the move of the pointer leaves the store alone.
LEMMA OtherSteps ==
    ASSUME NEW t \in Tasks, PublishNext(t) \/ DiscardNext(t) \/ RetainNext(t) \/ Abort(t)
    PROVE  PutMetadata(t) \/ DropMetadata(t) \/ Quiet
<1> USE DEF Quiet, store
<1>1. CASE PublishNext(t)
  BY <1>1 DEF PublishNext, Publish, ReadActive, Reserve, Reopen, PutBody, Complete,
              PublicationFails, RecordFailure
<1>2. CASE DiscardNext(t)
  BY <1>2 DEF DiscardNext, Discard, CreateDiscard, CompareDraft, SwapDraft, CloseDiscard,
              RejectDiscard
<1>3. CASE RetainNext(t)
  BY <1>3 DEF RetainNext, Retain, CleanupOrphan, LookUp, CheckActive, AcquireMarker, Purge, Release
<1>4. CASE Abort(t)
  BY <1>4 DEF Abort
<1>5. QED
  BY <1>1, <1>2, <1>3, <1>4

\* References are kept by every step.
LEMMA ReferencesNext == References /\ [Next]_vars => References'
<1> SUFFICES ASSUME References, [Next]_vars PROVE References'
  OBVIOUS
<1>1. CASE Quiet
  BY <1>1 DEF Quiet, References, ReferencesHold, CountsAgree, revs
<1>2. ASSUME NEW doc \in Documents, SaveDraft(doc) PROVE References'
  BY <1>1, <1>2 DEF SaveDraft, Quiet, store
<1>3. ASSUME NEW r \in revs, MoveActive(r) PROVE References'
  BY <1>3 DEF MoveActive, References, ReferencesHold, CountsAgree, revs
<1>4. ASSUME NEW t \in Tasks, PublishNext(t) \/ DiscardNext(t) \/ RetainNext(t) \/ Abort(t)
      PROVE  References'
  BY <1>1, <1>4, OtherSteps, PutMetadataReferences, DropMetadataReferences
<1>5. CASE UNCHANGED vars
  BY <1>1, <1>5 DEF Quiet, vars, store
<1>6. QED
  BY <1>2, <1>3, <1>4, <1>5 DEF Next, CallNext

\* Retention, creation and activation, interleaved and interrupted anywhere, leave
\* no dangling parent, no dangling pointer and no wrong reference count
\* (AwsConfigurationStore.create_revision, retain_revisions).
THEOREM ReferencesAlwaysHold == Spec => []ReferencesHold
<1>1. References => ReferencesHold
  BY DEF References
<1>2. QED
  BY <1>1, ReferencesInit, ReferencesNext, PTL DEF Spec

(***************************************************************************)
(* Documents are an inductive invariant.                                    *)
(***************************************************************************)
\* A task that will write a document carries one.
TaskDocs == TaskShape /\ \A t \in Tasks : task[t].pc \in Carrying => task[t].doc \in Documents

\* A task is replaced by one that carries a document if it needs one.
LEMMA SetTaskDocs ==
    ASSUME TaskDocs, NEW t \in Tasks, NEW value, SetTask(t, value),
           DOMAIN value = DOMAIN Idle, value.pc \in Carrying => value.doc \in Documents
    PROVE  TaskDocs'
  BY DEF TaskDocs, TaskShape, SetTask

LEMMA ReturnDocs ==
    ASSUME TaskDocs, NEW t \in Tasks, Return(t) PROVE TaskDocs'
<1>1. Idle.pc \notin Carrying
  BY DEF Idle, Carrying
<1>2. QED
  BY <1>1, SetTaskDocs DEF Return

\* A task that goes on keeps its document.
LEMMA GotoDocs ==
    ASSUME TaskDocs, NEW t \in Tasks, NEW pc, Goto(t, pc),
           task[t].pc \in Carrying \/ pc \notin Carrying
    PROVE  TaskDocs'
<1> DEFINE value == [task[t] EXCEPT !.pc = pc]
<1>1. DOMAIN task[t] = DOMAIN Idle /\ {"pc", "doc"} \subseteq DOMAIN Idle
  BY DEF TaskDocs, TaskShape, Idle
<1>2. DOMAIN value = DOMAIN Idle /\ value.pc = pc /\ value.doc = task[t].doc
  BY <1>1
<1>3. SetTask(t, value)
  BY DEF Goto
<1> HIDE DEF value
<1>4. value.pc \in Carrying => value.doc \in Documents
  BY <1>2 DEF TaskDocs
<1>5. QED
  BY <1>2, <1>3, <1>4, SetTaskDocs

\* A task that goes on with another held version or pc keeps its document.
LEMMA HeldDocs ==
    ASSUME TaskDocs, NEW t \in Tasks, NEW pc, NEW held,
           SetTask(t, [task[t] EXCEPT !.pc = pc, !.held = held]), task[t].pc \in Carrying
    PROVE  TaskDocs'
<1> DEFINE value == [task[t] EXCEPT !.pc = pc, !.held = held]
<1>1. DOMAIN task[t] = DOMAIN Idle /\ {"pc", "doc", "held"} \subseteq DOMAIN Idle
  BY DEF TaskDocs, TaskShape, Idle
<1>2. DOMAIN value = DOMAIN Idle /\ value.doc = task[t].doc
  BY <1>1
<1> HIDE DEF value
<1>3. value.doc \in Documents
  BY <1>2 DEF TaskDocs
<1>4. QED
  BY <1>2, <1>3, SetTaskDocs DEF value

\* publish takes its document from the draft, and keeps it.
LEMMA PublishDocs ==
    ASSUME TaskDocs, drafts \in Seq(Documents), NEW t \in Tasks, PublishNext(t)
    PROVE  TaskDocs'
<1>1. ASSUME NEW k \in Keys, NEW v \in 1..Len(drafts), Publish(t, k, v) PROVE TaskDocs'
  <2> DEFINE value == [Idle EXCEPT !.pc = "active", !.key = k, !.want = v, !.doc = drafts[v]]
  <2>1. DOMAIN value = DOMAIN Idle /\ value.doc = drafts[v]
    BY DEF Idle
  <2>2. drafts[v] \in Documents
    OBVIOUS
  <2>3. SetTask(t, value)
    BY <1>1 DEF Publish
  <2> HIDE DEF value
  <2>4. QED
    BY <2>1, <2>2, <2>3, SetTaskDocs
<1>2. CASE ReadActive(t)
  <2>1. CASE Return(t)
    BY <2>1, ReturnDocs
  <2>2. CASE SetTask(t, [task[t] EXCEPT !.pc = "reserve", !.base = active.revision])
    <3> DEFINE value == [task[t] EXCEPT !.pc = "reserve", !.base = active.revision]
    <3>1. DOMAIN task[t] = DOMAIN Idle /\ {"pc", "doc", "base"} \subseteq DOMAIN Idle
      BY DEF TaskDocs, TaskShape, Idle
    <3>2. DOMAIN value = DOMAIN Idle /\ value.doc = task[t].doc
      BY <3>1
    <3> HIDE DEF value
    <3>3. value.doc \in Documents
      BY <1>2, <3>2 DEF ReadActive, TaskDocs, Carrying
    <3>4. QED
      BY <2>2, <3>2, <3>3, SetTaskDocs DEF value
  <2>3. QED
    BY <1>2, <2>1, <2>2 DEF ReadActive
<1>3. CASE Reserve(t)
  <2>1. task[t].pc \in Carrying
    BY <1>3 DEF Reserve, Carrying
  <2>2. CASE Return(t)
    BY <2>2, ReturnDocs
  <2>3. CASE SetTask(t, [task[t] EXCEPT !.pc = "source body", !.held = 1])
    BY <2>1, <2>3, HeldDocs
  <2>4. ASSUME NEW held, NEW pc, SetTask(t, [task[t] EXCEPT !.held = held, !.pc = pc])
        PROVE TaskDocs'
    <3>1. [task[t] EXCEPT !.held = held, !.pc = pc] = [task[t] EXCEPT !.pc = pc, !.held = held]
      OBVIOUS
    <3>2. QED
      BY <2>1, <2>4, <3>1, HeldDocs
  <2>5. QED
    BY <1>3, <2>2, <2>3, <2>4 DEF Reserve
<1>4. CASE Reopen(t)
  <2>1. CASE Return(t)
    BY <2>1, ReturnDocs
  <2>2. CASE SetTask(t, [task[t] EXCEPT !.pc = "source body", !.held = @ + 1])
    BY <1>4, <2>2, HeldDocs DEF Reopen, Carrying
  <2>3. QED
    BY <1>4, <2>1, <2>2 DEF Reopen
<1>5. CASE PutBody(t)
  BY <1>5, GotoDocs DEF PutBody, Carrying
<1>6. CASE PutMetadata(t)
  BY <1>6, GotoDocs DEF PutMetadata, Carrying
<1>7. CASE Complete(t) \/ RecordFailure(t)
  BY <1>7, ReturnDocs DEF Complete, RecordFailure
<1>8. CASE PublicationFails(t)
  BY <1>8, GotoDocs DEF PublicationFails, Carrying
<1>9. QED
  BY <1>1, <1>2, <1>3, <1>4, <1>5, <1>6, <1>7, <1>8 DEF PublishNext

\* discard takes its document from the source of the active revision.
LEMMA DiscardDocs ==
    ASSUME TaskDocs, DocumentsOK, References, NEW t \in Tasks, DiscardNext(t)
    PROVE  TaskDocs'
<1>1. ASSUME NEW k \in Keys, NEW v \in 1..Len(drafts), Discard(t, k, v) PROVE TaskDocs'
  <2> DEFINE doc == SourceOf(active.revision).content
             value == [Idle EXCEPT !.pc = "create", !.key = k, !.want = v,
                          !.doc = doc, !.base = active.revision]
  <2>1. doc \in Documents
    BY <1>1 DEF Discard, DocumentsOK, References, ReferencesHold, SourceOf
  <2>2. SetTask(t, value)
    BY <1>1 DEF Discard
  <2> HIDE DEF doc
  <2>3. DOMAIN value = DOMAIN Idle /\ value.doc = doc
    BY DEF Idle
  <2> HIDE DEF value
  <2>4. QED
    BY <2>1, <2>2, <2>3, SetTaskDocs
<1>2. CASE CreateDiscard(t)
  <2>1. task[t].pc \in Carrying
    BY <1>2 DEF CreateDiscard, Carrying
  <2>2. CASE Return(t)
    BY <2>2, ReturnDocs
  <2>3. ASSUME NEW held, SetTask(t, [task[t] EXCEPT !.pc = "compare", !.held = held])
        PROVE  TaskDocs'
    BY <2>1, <2>3, HeldDocs
  <2>4. QED
    BY <1>2, <2>2, <2>3 DEF CreateDiscard
<1>3. CASE CompareDraft(t)
  BY <1>3, GotoDocs DEF CompareDraft, Carrying
<1>4. CASE SwapDraft(t)
  BY <1>4, GotoDocs DEF SwapDraft, Carrying
<1>5. CASE CloseDiscard(t) \/ RejectDiscard(t)
  BY <1>5, ReturnDocs DEF CloseDiscard, RejectDiscard
<1>6. QED
  BY <1>1, <1>2, <1>3, <1>4, <1>5 DEF DiscardNext

\* Retention and cleanup carry no document.
LEMMA RetainDocs ==
    ASSUME TaskDocs, NEW t \in Tasks, RetainNext(t)
    PROVE  TaskDocs'
<1>1. ASSUME NextCandidate(t) PROVE TaskDocs'
  <2>1. CASE Return(t)
    BY <2>1, ReturnDocs
  <2>2. CASE SetTask(t, [task[t] EXCEPT !.pc = "drop", !.todo = Tail(@)])
    <3> DEFINE value == [task[t] EXCEPT !.pc = "drop", !.todo = Tail(@)]
    <3>1. DOMAIN task[t] = DOMAIN Idle /\ {"pc", "todo"} \subseteq DOMAIN Idle
      BY DEF TaskDocs, TaskShape, Idle
    <3>2. DOMAIN value = DOMAIN Idle /\ value.pc = "drop"
      BY <3>1
    <3> HIDE DEF value
    <3>3. value.pc \notin Carrying
      BY <3>2 DEF Carrying
    <3>4. QED
      BY <2>2, <3>2, <3>3, SetTaskDocs DEF value
  <2>3. QED
    BY <1>1, <2>1, <2>2 DEF NextCandidate
<1>2. CASE Retain(t)
  <2> DEFINE todo == Candidates
             value == [Idle EXCEPT !.pc = "drop", !.todo = todo]
  <2>1. SetTask(t, value)
    BY <1>2 DEF Retain
  <2> HIDE DEF todo
  <2>2. DOMAIN value = DOMAIN Idle /\ value.pc = "drop"
    BY DEF Idle
  <2> HIDE DEF value
  <2>3. value.pc \notin Carrying
    BY <2>2 DEF Carrying
  <2>4. QED
    BY <2>1, <2>2, <2>3, SetTaskDocs
<1>3. ASSUME NEW r, CleanupOrphan(t, r) PROVE TaskDocs'
  <2> DEFINE todo == <<r>>
             value == [Idle EXCEPT !.pc = "mark", !.todo = todo]
  <2>1. SetTask(t, value)
    BY <1>3 DEF CleanupOrphan
  <2> HIDE DEF todo
  <2>2. DOMAIN value = DOMAIN Idle /\ value.pc = "mark"
    BY DEF Idle
  <2> HIDE DEF value
  <2>3. value.pc \notin Carrying
    BY <2>2 DEF Carrying
  <2>4. QED
    BY <2>1, <2>2, <2>3, SetTaskDocs
<1>4. CASE DropMetadata(t)
  BY <1>4, GotoDocs, ReturnDocs DEF DropMetadata, Carrying
<1>5. CASE LookUp(t)
  <2>1. "check" \notin Carrying /\ "acquire" \notin Carrying
    BY DEF Carrying
  <2>2. QED
    BY <1>5, <2>1, GotoDocs, ReturnDocs DEF LookUp
<1>6. CASE AcquireMarker(t)
  BY <1>1, <1>6, GotoDocs DEF AcquireMarker, Carrying
<1>7. CASE Purge(t)
  BY <1>7, GotoDocs, ReturnDocs DEF Purge, Carrying
<1>8. CASE Release(t)
  BY <1>1, <1>8, ReturnDocs DEF Release
<1>9. CASE CheckActive(t)
  BY <1>1, <1>9, GotoDocs DEF CheckActive, Carrying
<1>10. QED
  BY <1>2, <1>3, <1>4, <1>5, <1>6, <1>7, <1>8, <1>9 DEF RetainNext

\* In the beginning there is no draft, or the one that was published.
LEMMA DocumentsInit == Init => DocumentsOK /\ TaskDocs
<1> SUFFICES ASSUME Init PROVE DocumentsOK /\ TaskDocs
  OBVIOUS
<1>1. TaskDocs
  <2>1. Idle.pc \notin Carrying
    BY DEF Idle, Carrying
  <2>2. QED
    BY <2>1 DEF Init, TaskDocs, TaskShape
<1>2. CASE First = NoDocument
  <2>1. drafts = << >> /\ revs = {} /\ active.revision = NoRevision
    BY <1>2 DEF Init, revs, Range
  <2>2. QED
    BY <1>1, <2>1 DEF DocumentsOK
<1>3. CASE First # NoDocument
  <2> DEFINE src == Source(First, NoRevision)
             res == Resolved(src, NoRevision)
  <2>1. First \in Documents /\ drafts = <<First>> /\ order = <<src, res>>
    BY <1>3, PublicationConstants DEF Init
  <2>2. Range(order) = {src, res}
    BY <2>1 DEF Range
  <2>3. revs = {src, res} /\ active.revision = res
    BY <1>3, <2>1, <2>2 DEF Init, revs
  <2>4. drafts \in Seq(Documents)
    BY <2>1
  <2>5. src.kind = "source" /\ res.kind = "resolved" /\ res.content.content = First
    BY DEF Source, Resolved
  <2> HIDE DEF src, res
  <2>6. QED
    BY <1>1, <2>1, <2>3, <2>4, <2>5 DEF DocumentsOK
<1>4. QED
  BY <1>2, <1>3

\* Tasks carry documents whatever happens.
LEMMA TaskDocsNext == References /\ DocumentsOK /\ TaskDocs /\ [Next]_vars => TaskDocs'
<1> SUFFICES ASSUME References, DocumentsOK, TaskDocs, [Next]_vars PROVE TaskDocs'
  OBVIOUS
<1>1. CASE UNCHANGED task
  BY <1>1 DEF TaskDocs, TaskShape
<1>2. ASSUME NEW t \in Tasks, PublishNext(t) \/ DiscardNext(t) \/ RetainNext(t) \/ Abort(t)
      PROVE  TaskDocs'
  BY <1>2, PublishDocs, DiscardDocs, RetainDocs, ReturnDocs DEF Abort, DocumentsOK
<1>3. QED
  BY <1>1, <1>2 DEF Next, CallNext, SaveDraft, MoveActive, vars

\* Only SaveDraft and SwapDraft write the draft.
LEMMA DraftSteps ==
    ASSUME NEW t \in Tasks, PublishNext(t) \/ DiscardNext(t) \/ RetainNext(t) \/ Abort(t)
    PROVE  SwapDraft(t) \/ UNCHANGED drafts
<1>1. CASE PublishNext(t)
  BY <1>1 DEF PublishNext, Publish, ReadActive, Reserve, Reopen, PutBody, PutMetadata, Complete,
              PublicationFails, RecordFailure
<1>2. CASE DiscardNext(t)
  BY <1>2 DEF DiscardNext, Discard, CreateDiscard, CompareDraft, CloseDiscard, RejectDiscard
<1>3. CASE RetainNext(t)
  BY <1>3 DEF RetainNext, Retain, DropMetadata, CleanupOrphan, LookUp, CheckActive,
              AcquireMarker, Purge, Release
<1>4. CASE Abort(t)
  BY <1>4 DEF Abort
<1>5. QED
  BY <1>1, <1>2, <1>3, <1>4

\* The revision a task creates is a source, or holds the document of the task.
LEMMA RevisionDocument ==
    ASSUME TaskDocs, NEW t \in Tasks, task[t].pc \in {"source metadata", "metadata"},
           Revision(t).kind = "resolved"
    PROVE  Revision(t).content.content \in Documents
<1>1. task[t].doc \in Documents
  BY DEF TaskDocs, Carrying
<1>2. CASE task[t].pc = "source metadata"
  BY <1>2 DEF Revision, SourceRevision, Source
<1>3. CASE task[t].pc = "metadata"
  BY <1>1, <1>3 DEF Revision, SourceRevision, Source, Resolved
<1>4. QED
  BY <1>2, <1>3

\* Documents stay documents: in the draft, in revisions and under the pointer.
LEMMA DocumentsNext == DocumentsOK /\ TaskDocs /\ [Next]_vars => DocumentsOK'
<1> SUFFICES ASSUME DocumentsOK, TaskDocs, [Next]_vars PROVE DocumentsOK'
  OBVIOUS
<1>1. CASE UNCHANGED <<drafts, children, active>>
  BY <1>1 DEF DocumentsOK, revs
<1>2. ASSUME NEW doc \in Documents, SaveDraft(doc) PROVE DocumentsOK'
  BY <1>2 DEF SaveDraft, store, DocumentsOK, revs
<1>3. ASSUME NEW r \in revs, MoveActive(r) PROVE DocumentsOK'
  BY <1>3 DEF MoveActive, DocumentsOK, revs
<1>4. ASSUME NEW t \in Tasks, PutMetadata(t) PROVE DocumentsOK'
  <2> DEFINE r == Revision(t)
  <2>1. r.kind = "resolved" => r.content.content \in Documents
    BY <1>4, RevisionDocument DEF PutMetadata
  <2>2. revs' \subseteq revs \cup {r}
    BY <1>4 DEF PutMetadata, revs
  <2> HIDE DEF r
  <2>3. UNCHANGED <<drafts, active>>
    BY <1>4 DEF PutMetadata
  <2>4. QED
    BY <2>1, <2>2, <2>3 DEF DocumentsOK
<1>5. ASSUME NEW t \in Tasks, DropMetadata(t) PROVE DocumentsOK'
  <2>1. revs' \subseteq revs /\ UNCHANGED <<drafts, active>>
    BY <1>5 DEF DropMetadata, revs
  <2>2. QED
    BY <2>1 DEF DocumentsOK
<1>6. ASSUME NEW t \in Tasks, SwapDraft(t) PROVE DocumentsOK'
  <2>1. task[t].doc \in Documents
    BY <1>6 DEF SwapDraft, TaskDocs, Carrying
  <2>2. drafts' \in Seq(Documents)
    BY <1>6, <2>1 DEF SwapDraft, DocumentsOK
  <2>3. UNCHANGED <<children, active>>
    BY <1>6 DEF SwapDraft, store
  <2>4. QED
    BY <2>2, <2>3 DEF DocumentsOK, revs
<1>7. ASSUME NEW t \in Tasks, PublishNext(t) \/ DiscardNext(t) \/ RetainNext(t) \/ Abort(t)
      PROVE  DocumentsOK'
  BY <1>1, <1>4, <1>5, <1>6, <1>7, OtherSteps, DraftSteps DEF Quiet
<1>8. QED
  BY <1>1, <1>2, <1>3, <1>7 DEF Next, CallNext, vars, store

(***************************************************************************)
(* What a step does to the revisions.  One call creates or cleans one        *)
(* revision at a time, so all others stay as they are; and a revision that   *)
(* no cleanup met keeps its body.                                            *)
(***************************************************************************)
Kinds    == {"source", "resolved"}
Cleaning == {"mark", "check", "acquire", "purge", "release"}
Making   == {"source metadata", "metadata"}

Made(r) == \E t \in Tasks : Creates(t, r)

\* The bodies: a cleanup that meets a creation, or a revision, is remembered; every
\* other revision has its body; what is remembered is harmful or under way.
BodyOK(r) ==
    /\ Cleaned(r) /\ (r \in revs \/ Made(r)) => r \in swept
    /\ r \notin swept /\ (r \in revs \/ Made(r)) => r \in bodies
    /\ r \in swept => (r \in revs \/ Made(r)) /\ (r \notin bodies \/ Cleaned(r))

BodiesOK == \A r : BodyOK(r)

\* Nothing happens to r.
Like(r) ==
    /\ Made(r)' <=> Made(r)
    /\ Cleaned(r)' <=> Cleaned(r)
    /\ r \in revs' <=> r \in revs
    /\ r \in bodies' <=> r \in bodies

\* The body of r is put; its metadata is written, or taken away; a cleanup of it
\* begins, or removes its body; a creation or a cleanup of it ends or goes on.
Puts(r) ==
    /\ revs' = revs /\ bodies' = bodies \cup {r}
    /\ Cleaned(r)' <=> Cleaned(r)
Commits(r) ==
    /\ Made(r) /\ r \notin revs /\ r.parent \in revs \cup {NoRevision}
    /\ revs' = revs \cup {r} /\ bodies' = bodies
    /\ Cleaned(r)' <=> Cleaned(r)
Drops(r) ==
    /\ r \in revs /\ r # active.revision /\ children[r] = 0
    /\ revs' = revs \ {r} /\ bodies' = bodies
    /\ Made(r)' <=> Made(r)
Begins(r) ==
    /\ r \notin revs /\ revs' = revs /\ bodies' = bodies
    /\ Made(r)' <=> Made(r)
Wipes(r) ==
    /\ Cleaned(r) /\ revs' = revs /\ bodies' = bodies \ {r}
    /\ Made(r)' <=> Made(r)
    /\ Cleaned(r)' => Cleaned(r)
Ends(r) ==
    /\ revs' = revs /\ bodies' = bodies
    /\ Made(r)' => Made(r)
    /\ Cleaned(r)' => Cleaned(r)

Works(r) ==
    /\ \A s : s # r => Like(s)
    /\ UNCHANGED <<drafts, active>>
    /\ Puts(r) \/ Commits(r) \/ Drops(r) \/ Begins(r) \/ Wipes(r) \/ Ends(r)

\* A step that creates and cleans nothing may write the draft or move the pointer.
Writes ==
    /\ \A s : Like(s)
    /\ revs' = revs /\ bodies' = bodies
    /\ \/ UNCHANGED <<drafts, active>>
       \/ UNCHANGED active /\ \E doc \in Documents : drafts' = Append(drafts, doc)
       \/ /\ UNCHANGED drafts
          /\ \E r \in revs \cap bodies :
                active' = [revision |-> r, version |-> active.version + 1]

\* What a call creates and cleans is in its own state.
LEMMA OthersStay ==
    ASSUME TaskShape, NEW t \in Tasks, NEW x, SetTask(t, x)
    PROVE  task'[t] = x /\ \A u \in Tasks : u # t => task'[u] = task[u]
  BY DEF TaskShape, SetTask

LEMMA SameCall ==
    ASSUME NEW u, task'[u] = task[u], NEW s
    PROVE  (Creates(u, s)' <=> Creates(u, s)) /\ (Cleans(u, s)' <=> Cleans(u, s))
  BY DEF Creates, Cleans, Revision, SourceRevision

LEMMA MadeStays ==
    ASSUME NEW t \in Tasks, \A u \in Tasks : u # t => task'[u] = task[u], NEW s
    PROVE  /\ (Creates(t, s)' => Creates(t, s)) => (Made(s)' => Made(s))
           /\ (Creates(t, s)' <=> Creates(t, s)) => (Made(s)' <=> Made(s))
<1>1. \A u \in Tasks : u # t => (Creates(u, s)' <=> Creates(u, s))
  BY SameCall
<1> QED BY <1>1 DEF Made

LEMMA CleanedStays ==
    ASSUME NEW t \in Tasks, \A u \in Tasks : u # t => task'[u] = task[u], NEW s
    PROVE  /\ (Cleans(t, s)' => Cleans(t, s)) => (Cleaned(s)' => Cleaned(s))
           /\ (Cleans(t, s)' <=> Cleans(t, s)) => (Cleaned(s)' <=> Cleaned(s))
<1>1. \A u \in Tasks : u # t => (Cleans(u, s)' <=> Cleans(u, s))
  BY SameCall
<1> QED BY <1>1 DEF Cleaned

\* A call that goes on has the new pc and otherwise what it had.
LEMMA GoesOn ==
    ASSUME TaskShape, NEW t \in Tasks, NEW pc, Goto(t, pc)
    PROVE  /\ task'[t].pc = pc /\ task'[t].doc = task[t].doc
           /\ task'[t].base = task[t].base /\ task'[t].todo = task[t].todo
           /\ \A u \in Tasks : u # t => task'[u] = task[u]
<1>1. DOMAIN task[t] = DOMAIN Idle /\ {"pc", "doc", "base", "todo"} \subseteq DOMAIN Idle
  BY DEF TaskShape, Idle
<1>2. task'[t] = [task[t] EXCEPT !.pc = pc]
  BY OthersStay DEF Goto
<1>3. \A u \in Tasks : u # t => task'[u] = task[u]
  BY OthersStay DEF Goto
<1> QED BY <1>1, <1>2, <1>3

\* A call that neither creates nor cleans ends what it was at.
LEMMA EndsWorks ==
    ASSUME NEW t \in Tasks, \A u \in Tasks : u # t => task'[u] = task[u],
           task'[t].pc \notin Making \cup Cleaning,
           UNCHANGED <<drafts, children, bodies, active>>
    PROVE  \E r : Works(r)
<1>1. \A s : ~Creates(t, s)' /\ ~Cleans(t, s)'
  BY DEF Creates, Cleans, Making, Cleaning
<1>2. revs' = revs /\ bodies' = bodies
  BY DEF revs
<1> PICK r : r = IF task[t].pc \in Making THEN Revision(t) ELSE Head(task[t].todo)
  OBVIOUS
<1>3. \A s : s # r => ~Creates(t, s) /\ ~Cleans(t, s)
  BY DEF Creates, Cleans, Making
<1>4. \A s : s # r => Like(s)
  BY <1>1, <1>2, <1>3, MadeStays, CleanedStays DEF Like
<1>5. Ends(r)
  BY <1>1, <1>2, MadeStays, CleanedStays DEF Ends
<1>6. Works(r)
  BY <1>4, <1>5 DEF Works
<1> QED BY <1>6

\* A call that stays where it was, as far as revisions go.
LEMMA StaysWorks ==
    ASSUME NEW t \in Tasks, \A u \in Tasks : u # t => task'[u] = task[u],
           \A s : (Creates(t, s)' <=> Creates(t, s)) /\ (Cleans(t, s)' <=> Cleans(t, s)),
           UNCHANGED <<children, bodies>>
    PROVE  (\A s : Like(s)) /\ revs' = revs /\ bodies' = bodies
<1>1. revs' = revs /\ bodies' = bodies
  BY DEF revs
<1> QED BY <1>1, MadeStays, CleanedStays DEF Like

\* A cleanup that goes on with the same revision.
LEMMA CleaningWorks ==
    ASSUME TaskShape, NEW t \in Tasks, NEW pc, Goto(t, pc), task[t].pc \in Cleaning, pc \in Cleaning,
           UNCHANGED <<drafts, children, bodies, active>>
    PROVE  Writes
<1>1. /\ task'[t].pc = pc /\ task'[t].todo = task[t].todo
      /\ \A u \in Tasks : u # t => task'[u] = task[u]
  BY GoesOn
<1>2. \A s : (Creates(t, s)' <=> Creates(t, s)) /\ (Cleans(t, s)' <=> Cleans(t, s))
  BY <1>1 DEF Creates, Cleans, Cleaning
<1> QED BY <1>1, <1>2, StaysWorks DEF Writes

\* Return, Goto and NextCandidate to a place where nothing is created or cleaned.
LEMMA LeavesWorks ==
    ASSUME TaskShape, NEW t \in Tasks, UNCHANGED <<drafts, children, bodies, active>>,
           \/ Return(t) \/ NextCandidate(t)
           \/ \E pc : Goto(t, pc) /\ pc \notin Making \cup Cleaning
    PROVE  \E r : Works(r)
<1>1. CASE Return(t)
  <2>1. task'[t] = Idle /\ \A u \in Tasks : u # t => task'[u] = task[u]
    BY <1>1, OthersStay DEF Return
  <2>2. Idle.pc = "idle"
    BY DEF Idle
  <2>3. task'[t].pc \notin Making \cup Cleaning
    BY <2>1, <2>2 DEF Making, Cleaning
  <2> QED BY <2>1, <2>3, EndsWorks
<1>2. ASSUME NEW pc, Goto(t, pc), pc \notin Making \cup Cleaning PROVE \E r : Works(r)
  BY <1>2, GoesOn, EndsWorks
<1>3. CASE NextCandidate(t)
  <2> DEFINE todo == Tail(task[t].todo)
             x == [task[t] EXCEPT !.pc = "drop", !.todo = todo]
  <2>1. Return(t) \/ SetTask(t, x)
    BY <1>3 DEF NextCandidate
  <2> HIDE DEF todo
  <2>2. DOMAIN task[t] = DOMAIN Idle /\ {"pc", "todo"} \subseteq DOMAIN Idle
    BY DEF TaskShape, Idle
  <2>3. x.pc = "drop"
    BY <2>2
  <2> HIDE DEF x
  <2>4. CASE SetTask(t, x)
    <3>1. task'[t] = x /\ \A u \in Tasks : u # t => task'[u] = task[u]
      BY <2>4, OthersStay
    <3>2. task'[t].pc \notin Making \cup Cleaning
      BY <2>3, <3>1 DEF Making, Cleaning
    <3> QED BY <3>1, <3>2, EndsWorks
  <2> QED BY <1>1, <2>1, <2>4
<1> QED BY <1>1, <1>2, <1>3

\* A call given a new state that creates and cleans nothing (publish, discard).
LEMMA TakesWorks ==
    ASSUME TaskShape, NEW t \in Tasks, NEW x, SetTask(t, x), x.pc \notin Making \cup Cleaning,
           UNCHANGED <<drafts, children, bodies, active>>
    PROVE  \E r : Works(r)
<1>1. task'[t] = x /\ \A u \in Tasks : u # t => task'[u] = task[u]
  BY OthersStay
<1> QED BY <1>1, EndsWorks

\* create_revision puts the body.
LEMMA PutBodyWorks ==
    ASSUME TaskShape, NEW t \in Tasks, PutBody(t) PROVE \E r : Works(r)
<1> PICK r : r = Revision(t)
  OBVIOUS
<1>1. PICK pc \in {"source metadata", "metadata"} :
          Goto(t, pc) /\ (pc = "metadata" <=> task[t].pc = "body")
  BY DEF PutBody
<1>2. task[t].pc \in {"source body", "body"} /\ UNCHANGED <<drafts, children, active>>
      /\ bodies' = bodies \cup {r}
  BY DEF PutBody
<1>3. /\ task'[t].pc = pc /\ task'[t].doc = task[t].doc /\ task'[t].base = task[t].base
      /\ \A u \in Tasks : u # t => task'[u] = task[u]
  BY <1>1, GoesOn
<1>4. Revision(t)' = r
  BY <1>1, <1>2, <1>3 DEF Revision, SourceRevision
<1>5. \A s : ~Creates(t, s) /\ ~Cleans(t, s) /\ ~Cleans(t, s)' /\ (s # r => ~Creates(t, s)')
  BY <1>1, <1>2, <1>3, <1>4 DEF Creates, Cleans
<1>6. revs' = revs
  BY <1>2 DEF revs
<1>7. \A s : s # r => Like(s)
  BY <1>2, <1>3, <1>5, <1>6, MadeStays, CleanedStays DEF Like
<1>8. Puts(r)
  BY <1>2, <1>3, <1>5, <1>6, CleanedStays DEF Puts
<1>9. Works(r)
  BY <1>2, <1>7, <1>8 DEF Works
<1> QED BY <1>9

\* Then the metadata, or the creation fails.
LEMMA PutMetadataWorks ==
    ASSUME TaskShape, NEW t \in Tasks, PutMetadata(t) PROVE \E r : Works(r)
<1> PICK r : r = Revision(t)
  OBVIOUS
<1>1. PICK pc \in {"complete", "body", "failing"} : Goto(t, pc)
  BY DEF PutMetadata
<1>2. UNCHANGED <<drafts, bodies, active>> /\ task[t].pc \in {"source metadata", "metadata"}
  BY DEF PutMetadata
<1>3. pc \notin Making \cup Cleaning
  BY DEF Making, Cleaning
<1>4. CASE UNCHANGED children
  BY <1>1, <1>2, <1>3, <1>4, LeavesWorks
<1>5. CASE /\ r \notin revs /\ r.parent \in revs \cup {NoRevision}
           /\ revs' = revs \cup {r}
  <2>1. task'[t].pc = pc /\ \A u \in Tasks : u # t => task'[u] = task[u]
    BY <1>1, GoesOn
  <2>2. \A s : /\ Creates(t, s) <=> s = r
               /\ ~Creates(t, s)' /\ ~Cleans(t, s) /\ ~Cleans(t, s)'
    BY <1>2, <1>3, <2>1 DEF Creates, Cleans, Making, Cleaning
  <2>3. \A s : s # r => Like(s)
    BY <1>2, <1>5, <2>1, <2>2, MadeStays, CleanedStays DEF Like
  <2>4. Made(r)
    BY <2>2 DEF Made
  <2>5. Commits(r)
    BY <1>2, <1>5, <2>1, <2>2, <2>4, CleanedStays DEF Commits
  <2>6. Works(r)
    BY <1>2, <2>3, <2>5 DEF Works
  <2> QED BY <2>6
<1> QED BY <1>4, <1>5 DEF PutMetadata, revs

\* Retention takes the metadata away and goes on with the body.
LEMMA DropMetadataWorks ==
    ASSUME TaskShape, NEW t \in Tasks, DropMetadata(t) PROVE \E r : Works(r)
<1> PICK r : r = Head(task[t].todo)
  OBVIOUS
<1>1. UNCHANGED <<drafts, bodies, active>> /\ task[t].pc = "drop"
  BY DEF DropMetadata
<1>2. CASE UNCHANGED children /\ Return(t)
  BY <1>1, <1>2, LeavesWorks
<1>3. CASE /\ r \in revs /\ r # active.revision /\ children[r] = 0
           /\ revs' = revs \ {r} /\ Goto(t, "mark")
  <2>1. /\ task'[t].pc = "mark" /\ task'[t].todo = task[t].todo
        /\ \A u \in Tasks : u # t => task'[u] = task[u]
    BY <1>3, GoesOn
  <2>2. \A s : ~Creates(t, s) /\ ~Creates(t, s)' /\ ~Cleans(t, s) /\ (s # r => ~Cleans(t, s)')
    BY <1>1, <2>1 DEF Creates, Cleans
  <2>3. \A s : s # r => Like(s)
    BY <1>1, <1>3, <2>1, <2>2, MadeStays, CleanedStays DEF Like
  <2>4. Drops(r)
    BY <1>1, <1>3, <2>1, <2>2, MadeStays DEF Drops
  <2>5. Works(r)
    BY <1>1, <2>3, <2>4 DEF Works
  <2> QED BY <2>5
<1> QED BY <1>2, <1>3 DEF DropMetadata, revs

\* A cleanup begins on its own.
LEMMA CleanupWorks ==
    ASSUME TaskShape, NEW t \in Tasks, NEW r, CleanupOrphan(t, r) PROVE Works(r)
<1> DEFINE todo == <<r>>
           x == [Idle EXCEPT !.pc = "mark", !.todo = todo]
<1>1. /\ SetTask(t, x) /\ task[t] = Idle /\ r \notin revs
      /\ UNCHANGED <<drafts, children, bodies, active>>
  BY DEF CleanupOrphan, store
<1>2. Head(todo) = r
  OBVIOUS
<1> HIDE DEF todo
<1>3. x.pc = "mark" /\ x.todo = todo
  BY DEF Idle
<1> HIDE DEF x
<1>4. task'[t] = x /\ \A u \in Tasks : u # t => task'[u] = task[u]
  BY <1>1, OthersStay
<1>4a. Idle.pc = "idle"
  BY DEF Idle
<1>5. \A s : ~Creates(t, s) /\ ~Creates(t, s)' /\ ~Cleans(t, s) /\ (s # r => ~Cleans(t, s)')
  BY <1>1, <1>2, <1>3, <1>4, <1>4a DEF Creates, Cleans
<1>6. revs' = revs
  BY <1>1 DEF revs
<1>7. \A s : s # r => Like(s)
  BY <1>1, <1>4, <1>5, <1>6, MadeStays, CleanedStays DEF Like
<1>8. Begins(r)
  BY <1>1, <1>4, <1>5, <1>6, MadeStays DEF Begins
<1> QED BY <1>1, <1>7, <1>8 DEF Works

\* delete_object.
LEMMA PurgeWorks ==
    ASSUME TaskShape, NEW t \in Tasks, Purge(t) PROVE \E r : Works(r)
<1> PICK r : r = Head(task[t].todo)
  OBVIOUS
<1>1. UNCHANGED <<drafts, children, active>> /\ task[t].pc = "purge" /\ revs' = revs
  BY DEF Purge, revs
<1>2. CASE UNCHANGED bodies /\ Return(t)
  BY <1>1, <1>2, LeavesWorks
<1>3. CASE bodies' = bodies \ {r} /\ Goto(t, "release")
  <2>1. /\ task'[t].pc = "release" /\ task'[t].todo = task[t].todo
        /\ \A u \in Tasks : u # t => task'[u] = task[u]
    BY <1>3, GoesOn
  <2>2. \A s : /\ ~Creates(t, s) /\ ~Creates(t, s)'
               /\ Cleans(t, s) <=> s = r
               /\ Cleans(t, s)' <=> s = r
    BY <1>1, <2>1 DEF Creates, Cleans
  <2>3. \A s : s # r => Like(s)
    BY <1>1, <1>3, <2>1, <2>2, MadeStays, CleanedStays DEF Like
  <2>4. Cleaned(r)
    BY <2>2 DEF Cleaned
  <2>5. Wipes(r)
    BY <1>1, <1>3, <2>1, <2>2, <2>4, MadeStays, CleanedStays DEF Wipes
  <2>6. Works(r)
    BY <1>1, <2>3, <2>5 DEF Works
  <2> QED BY <2>6
<1> QED BY <1>2, <1>3 DEF Purge

LEMMA PublishWorks ==
    ASSUME TaskShape, NEW t \in Tasks, PublishNext(t) PROVE \E r : Works(r)
<1>1. ASSUME NEW k \in Keys, NEW v \in 1..Len(drafts), Publish(t, k, v) PROVE \E r : Works(r)
  <2> DEFINE x == [Idle EXCEPT !.pc = "active", !.key = k, !.want = v, !.doc = drafts[v]]
  <2>1. SetTask(t, x) /\ UNCHANGED <<drafts, children, bodies, active>>
    BY <1>1 DEF Publish, store
  <2>2. x.pc \notin Making \cup Cleaning
    BY DEF Idle, Making, Cleaning
  <2> HIDE DEF x
  <2> QED BY <2>1, <2>2, TakesWorks
<1>2. ASSUME NEW x, SetTask(t, x), x.pc \notin Making \cup Cleaning,
             UNCHANGED <<drafts, children, bodies, active>>
      PROVE  \E r : Works(r)
  BY <1>2, TakesWorks
<1>3. DOMAIN task[t] = DOMAIN Idle /\ {"pc", "base", "held"} \subseteq DOMAIN Idle
  BY DEF TaskShape, Idle
<1>4. CASE ReadActive(t)
  <2> DEFINE x == [task[t] EXCEPT !.pc = "reserve", !.base = active.revision]
  <2>1. Return(t) \/ SetTask(t, x)
    BY <1>4 DEF ReadActive
  <2>2. UNCHANGED <<drafts, children, bodies, active>>
    BY <1>4 DEF ReadActive, store
  <2>3. x.pc \notin Making \cup Cleaning
    BY <1>3 DEF Making, Cleaning
  <2> HIDE DEF x
  <2> QED BY <1>2, <2>1, <2>2, <2>3, LeavesWorks
<1>5. ASSUME NEW pc \in {"source body", "reopen"}, NEW held,
             SetTask(t, [task[t] EXCEPT !.pc = pc, !.held = held]),
             UNCHANGED <<drafts, children, bodies, active>>
      PROVE  \E r : Works(r)
  <2> DEFINE x == [task[t] EXCEPT !.pc = pc, !.held = held]
  <2>1. x.pc \notin Making \cup Cleaning
    BY <1>3 DEF Making, Cleaning
  <2> HIDE DEF x
  <2>2. SetTask(t, x)
    BY <1>5 DEF x
  <2> QED BY <1>2, <1>5, <2>1, <2>2
<1>6. CASE Reserve(t)
  <2>1. UNCHANGED <<drafts, children, bodies, active>>
    BY <1>6 DEF Reserve, store
  <2>2. CASE Return(t)
    BY <2>1, <2>2, LeavesWorks
  <2>3. CASE SetTask(t, [task[t] EXCEPT !.pc = "source body", !.held = 1])
    BY <1>5, <2>1, <2>3
  <2>4. ASSUME NEW held, NEW pc \in {"source body", "reopen"},
               SetTask(t, [task[t] EXCEPT !.held = held, !.pc = pc])
        PROVE  \E r : Works(r)
    <3>1. [task[t] EXCEPT !.held = held, !.pc = pc] = [task[t] EXCEPT !.pc = pc, !.held = held]
      OBVIOUS
    <3> QED BY <1>5, <2>1, <2>4, <3>1
  <2> QED BY <1>6, <2>2, <2>3, <2>4 DEF Reserve
<1>7. CASE Reopen(t)
  <2>1. UNCHANGED <<drafts, children, bodies, active>>
    BY <1>7 DEF Reopen, store
  <2>2. CASE Return(t)
    BY <2>1, <2>2, LeavesWorks
  <2>3. CASE SetTask(t, [task[t] EXCEPT !.pc = "source body", !.held = @ + 1])
    <3> DEFINE held == task[t].held + 1
    <3>1. SetTask(t, [task[t] EXCEPT !.pc = "source body", !.held = held])
      BY <2>3
    <3> HIDE DEF held
    <3> QED BY <1>5, <2>1, <3>1
  <2> QED BY <1>7, <2>2, <2>3 DEF Reopen
<1>8. CASE Complete(t) \/ RecordFailure(t)
  <2>1. Return(t) /\ UNCHANGED <<drafts, children, bodies, active>>
    BY <1>8 DEF Complete, RecordFailure, store
  <2> QED BY <2>1, LeavesWorks
<1>9. CASE PublicationFails(t)
  <2>1. Goto(t, "failing") /\ UNCHANGED <<drafts, children, bodies, active>>
    BY <1>9 DEF PublicationFails, store
  <2>2. "failing" \notin Making \cup Cleaning
    BY DEF Making, Cleaning
  <2> QED BY <2>1, <2>2, LeavesWorks
<1> QED BY <1>1, <1>4, <1>6, <1>7, <1>8, <1>9, PutBodyWorks, PutMetadataWorks DEF PublishNext

\* A discard writes the draft at most.
LEMMA DiscardWorks ==
    ASSUME TaskShape, TaskDocs, NEW t \in Tasks, DiscardNext(t) PROVE Writes \/ \E r : Works(r)
<1>1. ASSUME NEW k \in Keys, NEW v \in 1..Len(drafts), Discard(t, k, v) PROVE \E r : Works(r)
  <2> DEFINE x == [Idle EXCEPT !.pc = "create", !.key = k, !.want = v,
                      !.doc = SourceOf(active.revision).content, !.base = active.revision]
  <2>1. SetTask(t, x) /\ UNCHANGED <<drafts, children, bodies, active>>
    BY <1>1 DEF Discard, store
  <2>2. x.pc \notin Making \cup Cleaning
    BY DEF Idle, Making, Cleaning
  <2> HIDE DEF x
  <2> QED BY <2>1, <2>2, TakesWorks
<1>2. CASE CreateDiscard(t)
  <2>1. UNCHANGED <<drafts, children, bodies, active>>
    BY <1>2 DEF CreateDiscard, store
  <2>2. CASE Return(t)
    BY <2>1, <2>2, LeavesWorks
  <2>3. ASSUME NEW held, SetTask(t, [task[t] EXCEPT !.pc = "compare", !.held = held])
        PROVE  \E r : Works(r)
    <3> DEFINE x == [task[t] EXCEPT !.pc = "compare", !.held = held]
    <3>1. DOMAIN task[t] = DOMAIN Idle /\ {"pc", "held"} \subseteq DOMAIN Idle
      BY DEF TaskShape, Idle
    <3>2. x.pc \notin Making \cup Cleaning
      BY <3>1 DEF Making, Cleaning
    <3> HIDE DEF x
    <3>3. SetTask(t, x)
      BY <2>3 DEF x
    <3> QED BY <2>1, <3>2, <3>3, TakesWorks
  <2> QED BY <1>2, <2>2, <2>3 DEF CreateDiscard
<1>3. CASE CompareDraft(t)
  <2>1. UNCHANGED <<drafts, children, bodies, active>>
    BY <1>3 DEF CompareDraft, store
  <2>2. PICK pc \in {"swap", "close", "reject"} : Goto(t, pc)
    BY <1>3 DEF CompareDraft
  <2>3. pc \notin Making \cup Cleaning
    BY DEF Making, Cleaning
  <2> QED BY <2>1, <2>2, <2>3, LeavesWorks
<1>4. CASE SwapDraft(t)
  <2>1. UNCHANGED <<children, bodies, active>> /\ task[t].pc = "swap"
    BY <1>4 DEF SwapDraft, store
  <2>2. CASE UNCHANGED drafts /\ Goto(t, "reject")
    <3>1. "reject" \notin Making \cup Cleaning
      BY DEF Making, Cleaning
    <3> QED BY <2>1, <2>2, <3>1, LeavesWorks
  <2>3. CASE drafts' = Append(drafts, task[t].doc) /\ Goto(t, "close")
    <3>1. task'[t].pc = "close" /\ \A u \in Tasks : u # t => task'[u] = task[u]
      BY <2>3, GoesOn
    <3>2. \A s : (Creates(t, s)' <=> Creates(t, s)) /\ (Cleans(t, s)' <=> Cleans(t, s))
      BY <2>1, <3>1 DEF Creates, Cleans
    <3>3. task[t].doc \in Documents
      BY <2>1 DEF TaskDocs, Carrying
    <3>4. (\A s : Like(s)) /\ revs' = revs /\ bodies' = bodies
      BY <2>1, <3>1, <3>2, StaysWorks
    <3> QED BY <2>1, <2>3, <3>3, <3>4 DEF Writes
  <2> QED BY <1>4, <2>2, <2>3 DEF SwapDraft
<1>5. CASE CloseDiscard(t) \/ RejectDiscard(t)
  <2>1. Return(t) /\ UNCHANGED <<drafts, children, bodies, active>>
    BY <1>5 DEF CloseDiscard, RejectDiscard, store
  <2> QED BY <2>1, LeavesWorks
<1> QED BY <1>1, <1>2, <1>3, <1>4, <1>5 DEF DiscardNext

LEMMA RetainWorks ==
    ASSUME TaskShape, NEW t \in Tasks, RetainNext(t) PROVE Writes \/ \E r : Works(r)
<1>1. CASE Retain(t)
  <2> DEFINE todo == Candidates
             x == [Idle EXCEPT !.pc = "drop", !.todo = todo]
  <2>1. SetTask(t, x) /\ UNCHANGED <<drafts, children, bodies, active>>
    BY <1>1 DEF Retain, store
  <2> HIDE DEF todo
  <2>2. x.pc \notin Making \cup Cleaning
    BY DEF Idle, Making, Cleaning
  <2> HIDE DEF x
  <2> QED BY <2>1, <2>2, TakesWorks
<1>2. ASSUME NEW r \in bodies \cup markers, CleanupOrphan(t, r) PROVE \E s : Works(s)
  BY <1>2, CleanupWorks
<1>3. CASE LookUp(t) \/ CheckActive(t) \/ AcquireMarker(t) \/ Release(t)
  <2>1. UNCHANGED <<drafts, children, bodies, active>> /\ task[t].pc \in Cleaning
    BY <1>3 DEF LookUp, CheckActive, AcquireMarker, Release, store, Cleaning
  <2>2. \/ Return(t) \/ NextCandidate(t)
        \/ \E pc \in {"check", "acquire", "purge"} : Goto(t, pc)
    BY <1>3 DEF LookUp, CheckActive, AcquireMarker, Release
  <2>3. ASSUME NEW pc \in {"check", "acquire", "purge"}, Goto(t, pc) PROVE Writes
    <3>1. pc \in Cleaning
      BY DEF Cleaning
    <3> QED BY <2>1, <2>3, <3>1, CleaningWorks
  <2>4. CASE Return(t) \/ NextCandidate(t)
    BY <2>1, <2>4, LeavesWorks
  <2> QED BY <2>2, <2>3, <2>4
<1> QED BY <1>1, <1>2, <1>3, DropMetadataWorks, PurgeWorks DEF RetainNext

LEMMA StepWorks == TaskShape /\ TaskDocs /\ CallNext => Writes \/ \E r : Works(r)
<1> SUFFICES ASSUME TaskShape, TaskDocs, CallNext PROVE Writes \/ \E r : Works(r)
  OBVIOUS
<1>1. ASSUME UNCHANGED <<children, bodies, task>>
      PROVE  (\A s : Like(s)) /\ revs' = revs /\ bodies' = bodies
  BY <1>1, SameCall DEF Like, Made, Cleaned, revs
<1>2. ASSUME NEW doc \in Documents, SaveDraft(doc) PROVE Writes
  BY <1>1, <1>2 DEF SaveDraft, store, Writes
<1>3. ASSUME NEW r \in revs, MoveActive(r) PROVE Writes
  BY <1>1, <1>3 DEF MoveActive, Readable, Writes
<1>4. ASSUME NEW t \in Tasks, Abort(t) PROVE \E r : Works(r)
  <2>1. Return(t) /\ UNCHANGED <<drafts, children, bodies, active>>
    BY <1>4 DEF Abort, store
  <2> QED BY <2>1, LeavesWorks
<1> QED BY <1>2, <1>3, <1>4, PublishWorks, DiscardWorks, RetainWorks DEF CallNext

\* What the history remembers after a step.
LEMMA Remembers ==
    ASSUME Remember, NEW s
    PROVE  s \in swept' <=> /\ s \in revs' \/ Made(s)'
                            /\ \/ Made(s)' /\ Cleaned(s)'
                               \/ s \in swept /\ (s \notin bodies' \/ Cleaned(s)')
<1>1. s \in Creating' <=> Made(s)'
  BY DEF Creating, Made, Creates
<1>2. Meets(s)' <=> Made(s)' /\ Cleaned(s)'
  BY DEF Meets, Made
<1> QED BY <1>1, <1>2 DEF Remember

\* What nothing happens to stays remembered, or not.
LEMMA LikeBody ==
    ASSUME Remember, NEW s, BodyOK(s), Like(s)
    PROVE  BodyOK(s)' /\ (s \in swept' <=> s \in swept)
<1>1. s \in swept' <=> s \in swept
  BY Remembers DEF BodyOK, Like
<1> QED BY <1>1 DEF BodyOK, Like

LEMMA WorkBody ==
    ASSUME Remember, NEW r, BodyOK(r), Works(r) PROVE BodyOK(r)'
<1>1. Puts(r) \/ Commits(r) \/ Drops(r) \/ Begins(r) \/ Wipes(r) \/ Ends(r)
  BY DEF Works
<1>2. CASE Puts(r)
  BY <1>2, Remembers DEF BodyOK, Puts
<1>3. CASE Commits(r)
  BY <1>3, Remembers DEF BodyOK, Commits
<1>4. CASE Drops(r)
  BY <1>4, Remembers DEF BodyOK, Drops
<1>5. CASE Begins(r)
  BY <1>5, Remembers DEF BodyOK, Begins
<1>6. CASE Wipes(r)
  BY <1>6, Remembers DEF BodyOK, Wipes
<1>7. CASE Ends(r)
  BY <1>7, Remembers DEF BodyOK, Ends
<1> QED BY <1>1, <1>2, <1>3, <1>4, <1>5, <1>6, <1>7

\* In the beginning nothing is created and nothing cleaned.
LEMMA BodiesInit == Init => BodiesOK
<1> SUFFICES ASSUME Init PROVE BodiesOK
  OBVIOUS
<1>1. \A t \in Tasks : task[t].pc = "idle"
  BY DEF Init, Idle
<1>2. \A r : ~Made(r) /\ ~Cleaned(r)
  BY <1>1 DEF Made, Creates, Cleaned, Cleans
<1> QED BY <1>2 DEF BodiesOK, BodyOK, Init

LEMMA BodiesNext == BodiesOK /\ TaskDocs /\ [Next]_vars => BodiesOK'
<1> SUFFICES ASSUME BodiesOK, TaskDocs, [Next]_vars, NEW s PROVE BodyOK(s)'
  BY DEF BodiesOK
<1>1. BodyOK(s)
  BY DEF BodiesOK
<1>2. CASE UNCHANGED vars
  <2>1. UNCHANGED <<swept, children, bodies, task>>
    BY <1>2 DEF vars, store
  <2>2. (Made(s)' <=> Made(s)) /\ (Cleaned(s)' <=> Cleaned(s))
    BY <2>1, SameCall DEF Made, Cleaned
  <2> QED BY <1>1, <2>1, <2>2 DEF BodyOK, revs
<1>3. CASE CallNext /\ Remember
  <2>1. Writes \/ \E r : Works(r)
    BY <1>3, StepWorks DEF TaskDocs
  <2>2. CASE Writes
    BY <1>1, <1>3, <2>2, LikeBody DEF Writes
  <2>3. ASSUME NEW r, Works(r) PROVE BodyOK(s)'
    <3>1. CASE s = r
      BY <1>1, <1>3, <2>3, <3>1, WorkBody
    <3>2. CASE s # r
      BY <1>1, <1>3, <2>3, <3>2, LikeBody DEF Works
    <3> QED BY <3>1, <3>2
  <2> QED BY <2>1, <2>2, <2>3
<1> QED BY <1>2, <1>3 DEF Next

(***************************************************************************)
(* Every step is a step of the store, or none.                              *)
(***************************************************************************)
\* A draft is saved or restored, or the pointer moves.
LEMMA WriteStores ==
    ASSUME BodiesOK, Remember, Writes PROVE [Store!Next]_(Store!storeVars)
<1>1. swept' = swept
  BY LikeBody DEF BodiesOK, Writes, Remember
<1>2. revs' = revs /\ (revs \cap bodies)' = revs \cap bodies
  BY DEF Writes
<1>3. CASE UNCHANGED <<drafts, active>>
  BY <1>1, <1>2, <1>3 DEF Store!storeVars
<1>4. ASSUME UNCHANGED active, NEW doc \in Documents, drafts' = Append(drafts, doc)
      PROVE  Store!Next
  <2>1. Store!CompareAndSwapDraft(doc)
    BY <1>1, <1>2, <1>4 DEF Store!CompareAndSwapDraft
  <2> QED BY <2>1 DEF Store!Next
<1>5. ASSUME UNCHANGED drafts, NEW r \in revs \cap bodies,
             active' = [revision |-> r, version |-> active.version + 1]
      PROVE  Store!Next
  <2>1. Store!CompareAndSwapActive(r)
    BY <1>1, <1>2, <1>5 DEF Store!CompareAndSwapActive
  <2> QED BY <2>1 DEF Store!Next
<1> QED BY <1>3, <1>4, <1>5 DEF Writes

\* The metadata of a revision is written: with its body, unless a cleanup met it.
LEMMA CommitStores ==
    ASSUME BodiesOK, Remember, NEW r, Works(r), Commits(r), swept' = swept PROVE Store!Next
<1>1. (revs \cap bodies)' = IF r \in bodies THEN (revs \cap bodies) \cup {r} ELSE revs \cap bodies
  BY DEF Commits
<1>2. r \in swept \/ r \in bodies
  BY DEF BodiesOK, BodyOK, Commits
<1>3. Store!CreateRevision(r)
  BY <1>1, <1>2 DEF Store!CreateRevision, Commits, Works
<1> QED BY <1>3 DEF Store!Next, Commits

\* Retention takes nothing away that the pointer or another revision names.
LEMMA DropStores ==
    ASSUME References, BodiesOK, Remember, NEW r, Works(r), Drops(r),
           \A s : s # r => (s \in swept' <=> s \in swept),
           swept' = swept \cup {r} \/ swept' = swept \ {r} \/ swept' = swept
    PROVE  Store!Next
<1>1. Cardinality(Kids(revs, r)) = 0
  BY DEF References, ReferencesHold, CountsAgree, Kids, Drops
<1>2. \A s \in revs : s.parent # r /\ s.parent \in revs \cup {NoRevision}
  BY <1>1, NoChild DEF References, ReferencesHold, CountsAgree
<1>3. Store!Parents(revs) \subseteq revs'
  BY <1>2 DEF Store!Parents, Drops
<1>4. active.revision \in revs' \cup {NoRevision}
  BY DEF References, ReferencesHold, Drops
<1>5. revs' = revs \ {r} /\ r \in revs /\ bodies' = bodies /\ UNCHANGED <<drafts, active>>
  BY DEF Drops, Works
<1>6. revs' \subseteq revs /\ revs' # revs /\ revs \ revs' = {r}
      /\ (revs \cap bodies)' = (revs \cap bodies) \cap revs'
  BY <1>5
<1>7. swept \ {r} \subseteq swept' /\ swept' \subseteq swept \cup {r}
  OBVIOUS
<1>8. Store!RetainRevisions
  BY <1>3, <1>4, <1>5, <1>6, <1>7 DEF Store!RetainRevisions
<1> QED BY <1>8 DEF Store!Next

\* The other steps of a creation or a cleanup only matter to its own body.
LEMMA BodyStores ==
    ASSUME BodiesOK, BodiesOK', Remember, NEW r, Works(r), Puts(r) \/ Begins(r) \/ Wipes(r) \/ Ends(r),
           swept' = swept \cup {r} \/ swept' = swept \ {r} \/ swept' = swept
    PROVE  [Store!Next]_(Store!storeVars)
<1>1. revs' = revs /\ UNCHANGED <<drafts, active>>
  BY DEF Works, Puts, Begins, Wipes, Ends
<1>2. BodyOK(r) /\ BodyOK(r)'
  BY DEF BodiesOK
<1>3. \/ (revs \cap bodies)' = (revs \cap bodies) \cup ({r} \cap revs)
      \/ (revs \cap bodies)' = (revs \cap bodies) \ {r}
      \/ (revs \cap bodies)' = revs \cap bodies
  BY <1>1 DEF Puts, Begins, Wipes, Ends
<1>4. CASE UNCHANGED swept /\ (revs \cap bodies)' = revs \cap bodies
  BY <1>1, <1>4 DEF Store!storeVars
<1>5. CASE r \notin revs
  <2>1. (revs \cap bodies)' = revs \cap bodies
    BY <1>3, <1>5
  <2>2. CASE r \in swept \cup swept'
    <3>1. swept' \in {swept \cup {r}, swept \ {r}}
      BY <2>2
    <3>2. Store!Overlap(r)
      BY <1>1, <1>5, <2>1, <3>1 DEF Store!Overlap
    <3> QED BY <2>2, <3>2 DEF Store!Next
  <2>3. CASE r \notin swept \cup swept'
    <3>1. swept' = swept
      BY <2>3
    <3> QED BY <1>4, <2>1, <3>1
  <2> QED BY <2>2, <2>3
<1>6. CASE r \in revs
  <2>1. r \in swept' => r \in swept
    BY <1>1, <1>2, <1>6, Remembers DEF BodyOK, Puts, Begins, Wipes, Ends
  <2>2. CASE r \in swept /\ r \notin swept'
    <3>1. r \in bodies'
      BY <1>1, <1>2, <1>6, <2>2 DEF BodyOK
    <3>2. (revs \cap bodies)' = (revs \cap bodies) \cup {r}
      BY <1>1, <1>3, <1>6, <3>1
    <3>3. swept' = swept \ {r}
      BY <2>2
    <3>4. Store!Restore(r)
      BY <1>1, <1>6, <3>2, <3>3 DEF Store!Restore
    <3> QED BY <1>6, <3>4 DEF Store!Next
  <2>3. CASE r \in swept /\ r \in swept'
    <3>1. swept' = swept
      BY <2>3
    <3>2. CASE (revs \cap bodies)' = (revs \cap bodies) \cup {r}
      <4>1. Store!Restore(r)
        BY <1>1, <1>6, <3>1, <3>2 DEF Store!Restore
      <4> QED BY <1>6, <4>1 DEF Store!Next
    <3>3. CASE (revs \cap bodies)' = (revs \cap bodies) \ {r}
      <4>1. Store!Lose(r)
        BY <1>1, <2>3, <3>1, <3>3 DEF Store!Lose
      <4> QED BY <2>3, <4>1 DEF Store!Next
    <3> QED BY <1>3, <1>4, <1>6, <3>1, <3>2, <3>3
  <2>4. CASE r \notin swept /\ r \notin swept'
    <3>1. swept' = swept
      BY <2>4
    <3>2. r \in bodies /\ r \in bodies'
      BY <1>1, <1>2, <1>6, <2>4 DEF BodyOK
    <3>3. (revs \cap bodies)' = revs \cap bodies
      BY <1>1, <1>3, <1>6, <3>2
    <3> QED BY <1>4, <3>1, <3>3
  <2> QED BY <2>1, <2>2, <2>3, <2>4
<1> QED BY <1>5, <1>6

LEMMA WorkStores ==
    ASSUME References, BodiesOK, BodiesOK', Remember, NEW r, Works(r)
    PROVE  [Store!Next]_(Store!storeVars)
<1>1. \A s : s # r => (s \in swept' <=> s \in swept)
  BY LikeBody DEF BodiesOK, Works
<1>3. swept' = swept \cup {r} \/ swept' = swept \ {r} \/ swept' = swept
  BY <1>1
<1>4. CASE Commits(r)
  <2>1. r \in swept' <=> r \in swept
    <3>1. BodyOK(r)
      BY DEF BodiesOK
    <3> QED BY <1>4, <3>1, Remembers DEF BodyOK, Commits
  <2>2. swept' = swept
    BY <1>3, <2>1
  <2> QED BY <1>4, <2>2, CommitStores
<1>5. CASE Drops(r)
  BY <1>1, <1>3, <1>5, DropStores
<1>6. CASE Puts(r) \/ Begins(r) \/ Wipes(r) \/ Ends(r)
  BY <1>3, <1>6, BodyStores
<1> QED BY <1>4, <1>5, <1>6 DEF Works

LEMMA StoreStep ==
    References /\ BodiesOK /\ TaskDocs /\ [Next]_vars => [Store!Next]_(Store!storeVars)
<1> SUFFICES ASSUME References, BodiesOK, TaskDocs, [Next]_vars
             PROVE  [Store!Next]_(Store!storeVars)
  OBVIOUS
<1>1. CASE UNCHANGED vars
  BY <1>1 DEF vars, store, Store!storeVars, revs
<1>2. CASE CallNext /\ Remember
  <2>1. Writes \/ \E r : Works(r)
    BY <1>2, StepWorks DEF TaskDocs
  <2>2. BodiesOK'
    BY BodiesNext
  <2> QED BY <1>2, <2>1, <2>2, WriteStores, WorkStores
<1> QED BY <1>1, <1>2 DEF Next

\* The interleaved and interruptible S3 and DynamoDB writes of the AWS store, and
\* the service calls on top, take only steps of the store: one transaction each,
\* where a revision can only lose its body to a cleanup that was under way while it was
\* created (configuration/aws.py, create_revision, cleanup_orphaned_revision_body).
THEOREM ImplementsTheStore == Spec => ImplementsStore
<1> DEFINE Inv == References /\ BodiesOK /\ DocumentsOK /\ TaskDocs
<1>1. Init => Inv
  BY ReferencesInit, DocumentsInit, BodiesInit
<1>2. Inv /\ [Next]_vars => Inv'
  BY ReferencesNext, DocumentsNext, TaskDocsNext, BodiesNext
<1>3. Inv /\ [Next]_vars => [Store!Next]_(Store!storeVars)
  BY StoreStep
<1> HIDE DEF Inv
<1>4. QED
  BY <1>1, <1>2, <1>3, PTL DEF Spec, ImplementsStore

(***************************************************************************)
(* What the records say.  A record that was reserved carries the request it *)
(* was made for, a call that writes it made the same request and knows the   *)
(* version it read, and the draft only grows.                                *)
(***************************************************************************)
\* Where a call stands: publishing, with the record reserved, discarding, with
\* the record created, cleaning a body.
Writing    == {"reopen", "source body", "source metadata", "body", "metadata", "complete",
               "failing"}
Publishing == {"active", "reserve"} \cup Writing
Holding    == {"compare", "swap", "close", "reject"}
Discarding == {"create"} \cup Holding

PubOK(p, D) ==
    /\ DOMAIN p = DOMAIN NoPublication
    /\ p.state \in States /\ p.version \in Nat
    /\ p.state = "none" => p.version = 0
    /\ p.state # "none" => p.version >= 1 /\ p.want \in 1..Len(D) /\ p.doc = D[p.want]
    /\ p.state = "applied" =>
         p.published = Resolved(Source(p.doc, SourceOf(p.base)), p.base)

DiscOK(d, D) ==
    /\ DOMAIN d = DOMAIN NoDiscard
    /\ d.state \in States /\ d.version \in Nat
    /\ d.state = "none" => d.version = 0
    /\ d.state # "none" => /\ d.version >= 1 /\ d.want \in 1..Len(D)
                           /\ d.doc = SourceOf(d.base).content
    /\ d.state = "applied" => /\ d.result = d.want + 1
                              /\ d.want < Len(D) /\ D[d.want + 1] = d.doc
    /\ d.state = "failed" => d.want < Len(D)

\* A call that holds version x.held of record r, which has the state s unless
\* somebody has written since.
Holds(x, r, s) ==
    /\ r.state # "none" /\ Request(r) = Request(x)
    /\ x.held >= 1 /\ x.held <= r.version
    /\ r.version = x.held => r.state = s

TaskOK(x, D, P, Q) ==
    /\ DOMAIN x = DOMAIN Idle
    /\ x.key \in Keys \cup {NoKey} /\ x.want \in Nat /\ x.held \in Nat
    /\ x.pc \in Publishing => x.key \in Keys /\ x.want \in 1..Len(D) /\ x.doc = D[x.want]
    /\ x.pc \in Writing => Holds(x, P[x.key], IF x.pc = "reopen" THEN "failed" ELSE "pending")
    /\ x.pc \in Discarding => /\ x.key \in Keys /\ x.want \in 1..Len(D)
                              /\ x.doc = SourceOf(x.base).content
    /\ x.pc \in Holding => Holds(x, Q[x.key], "pending")
    /\ x.pc \in {"close", "reject"} => x.want < Len(D)
    /\ x.pc = "close" => D[x.want + 1] = x.doc
    /\ x.pc \in Cleaning => Head(x.todo).kind \in Kinds

RecordsOK ==
    /\ drafts \in Seq(Documents)
    /\ DOMAIN pubs = Keys /\ DOMAIN discs = Keys
    /\ \A k \in Keys : PubOK(pubs[k], drafts) /\ DiscOK(discs[k], drafts)

TasksOK ==
    /\ DOMAIN task = Tasks
    /\ \A t \in Tasks : TaskOK(task[t], drafts, pubs, discs)

\* The steps of the draft and of a record: the draft is appended to, a record that
\* is not applied gets its next version and keeps its request.
DraftStep(D, E) == Len(D) <= Len(E) /\ \A i \in 1..Len(D) : E[i] = D[i]

RecordStep(r, s) ==
    \/ s = r
    \/ /\ r.state # "applied" /\ s.state # "none" /\ s.version = r.version + 1
       /\ r.state # "none" => Request(s) = Request(r)

RecordsStep ==
    /\ DraftStep(drafts, drafts')
    /\ DOMAIN pubs' = Keys /\ DOMAIN discs' = Keys
    /\ \A k \in Keys : /\ PubOK(pubs'[k], drafts') /\ RecordStep(pubs[k], pubs'[k])
                       /\ DiscOK(discs'[k], drafts') /\ RecordStep(discs[k], discs'[k])

\* A call that does not move keeps what it knows when others write.
LEMMA HoldsStays ==
    ASSUME NEW x, NEW r, NEW s, NEW q, Holds(x, r, q), RecordStep(r, s),
           r.version \in Nat, x.held \in Nat
    PROVE  Holds(x, s, q)
  BY DEF Holds, RecordStep

LEMMA TaskStays ==
    ASSUME NEW x, NEW D \in Seq(Documents), NEW E \in Seq(Documents), NEW P, NEW P2, NEW Q, NEW Q2,
           TaskOK(x, D, P, Q), DraftStep(D, E),
           \A k \in Keys : RecordStep(P[k], P2[k]) /\ P[k].version \in Nat,
           \A k \in Keys : RecordStep(Q[k], Q2[k]) /\ Q[k].version \in Nat
    PROVE  TaskOK(x, E, P2, Q2)
<1>1. Len(D) \in Nat /\ Len(E) \in Nat
  OBVIOUS
<1>2. DOMAIN x = DOMAIN Idle /\ x.key \in Keys \cup {NoKey} /\ x.want \in Nat /\ x.held \in Nat
      /\ (x.pc \in Cleaning => Head(x.todo).kind \in Kinds)
  BY DEF TaskOK
<1>3. x.pc \in Publishing => x.key \in Keys /\ x.want \in 1..Len(E) /\ x.doc = E[x.want]
  BY <1>1, <1>2 DEF TaskOK, DraftStep
<1>4. ASSUME x.pc \in Writing
      PROVE  Holds(x, P2[x.key], IF x.pc = "reopen" THEN "failed" ELSE "pending")
  <2>1. x.key \in Keys /\ Holds(x, P[x.key], IF x.pc = "reopen" THEN "failed" ELSE "pending")
    BY <1>4 DEF TaskOK, Publishing
  <2> QED BY <2>1, <1>2, HoldsStays
<1>5. /\ x.pc \in Discarding => /\ x.key \in Keys /\ x.want \in 1..Len(E)
                                /\ x.doc = SourceOf(x.base).content
      /\ x.pc \in {"close", "reject"} => x.want < Len(E)
  BY <1>1, <1>2 DEF TaskOK, DraftStep
<1>6. ASSUME x.pc \in Holding PROVE Holds(x, Q2[x.key], "pending")
  <2>1. x.key \in Keys /\ Holds(x, Q[x.key], "pending")
    BY <1>6 DEF TaskOK, Discarding
  <2> QED BY <2>1, <1>2, HoldsStays
<1>7. x.pc = "close" => E[x.want + 1] = x.doc
  BY <1>1, <1>2 DEF TaskOK, DraftStep
<1> QED BY <1>2, <1>3, <1>4, <1>5, <1>6, <1>7 DEF TaskOK

\* A step of one call.
LEMMA TaskMoves ==
    ASSUME RecordsOK, TasksOK, drafts' \in Seq(Documents), RecordsStep, NEW t \in Tasks, NEW x,
           SetTask(t, x), TaskOK(x, drafts', pubs', discs')
    PROVE  (RecordsOK /\ TasksOK)'
<1>1. RecordsOK'
  BY DEF RecordsOK, RecordsStep
<1>2. DOMAIN task' = Tasks /\ \A s \in Tasks : task'[s] = IF s = t THEN x ELSE task[s]
  BY DEF TasksOK, SetTask
<1>3. \A s \in Tasks : TaskOK(task[s], drafts', pubs', discs')
  <2>1. \A k \in Keys : /\ RecordStep(pubs[k], pubs'[k]) /\ pubs[k].version \in Nat
                        /\ RecordStep(discs[k], discs'[k]) /\ discs[k].version \in Nat
    BY DEF RecordsOK, RecordsStep, PubOK, DiscOK
  <2>2. drafts \in Seq(Documents) /\ DraftStep(drafts, drafts')
    BY DEF RecordsOK, RecordsStep
  <2> QED BY <2>1, <2>2, TaskStays DEF TasksOK
<1>4. \A s \in Tasks : TaskOK(task'[s], drafts', pubs', discs')
  BY <1>2, <1>3
<1> QED BY <1>1, <1>2, <1>4 DEF TasksOK

\* Nothing is written.
LEMMA NothingWritten ==
    ASSUME RecordsOK, UNCHANGED <<drafts, pubs, discs>>
    PROVE  RecordsStep /\ drafts' \in Seq(Documents)
  BY DEF RecordsOK, RecordsStep, DraftStep, RecordStep

LEMMA IdleOK ==
    ASSUME NEW D, NEW P, NEW Q
    PROVE  TaskOK(Idle, D, P, Q)
  BY DEF TaskOK, Idle, Publishing, Writing, Discarding, Holding, Cleaning

\* A call goes on to pc, with what it knows.
LEMMA PcOK ==
    ASSUME NEW x, NEW D, NEW P, NEW Q, TaskOK(x, D, P, Q), NEW pc,
           pc \in Publishing => x.pc \in Publishing,
           pc \in Writing => x.pc \in Writing \ {"reopen"} /\ pc # "reopen",
           pc \in Discarding => x.pc \in Discarding,
           pc \in Holding => x.pc \in Holding,
           pc \in {"close", "reject"} => x.want < Len(D),
           pc = "close" => D[x.want + 1] = x.doc,
           pc \in Cleaning => Head(x.todo).kind \in Kinds
    PROVE  TaskOK([x EXCEPT !.pc = pc], D, P, Q)
<1> DEFINE y == [x EXCEPT !.pc = pc]
<1>1. DOMAIN x = DOMAIN Idle
      /\ {"pc", "key", "want", "doc", "base", "held", "todo"} \subseteq DOMAIN Idle
  BY DEF TaskOK, Idle
<1>2. /\ DOMAIN y = DOMAIN Idle /\ y.pc = pc /\ y.key = x.key /\ y.want = x.want
      /\ y.doc = x.doc /\ y.base = x.base /\ y.held = x.held /\ y.todo = x.todo
  BY <1>1
<1> HIDE DEF y
<1>3. \A r, s : Holds(x, r, s) => Holds(y, r, s)
  BY <1>2 DEF Holds, Request
<1>4. y.pc \in Writing => Holds(y, P[y.key], IF y.pc = "reopen" THEN "failed" ELSE "pending")
  BY <1>2, <1>3 DEF TaskOK
<1>5. y.pc \in Holding => Holds(y, Q[y.key], "pending")
  BY <1>2, <1>3 DEF TaskOK
<1>6. TaskOK(y, D, P, Q)
  BY <1>2, <1>4, <1>5 DEF TaskOK
<1> QED BY <1>6 DEF y

\* A call goes on and writes nothing.
LEMMA GotoRecords ==
    ASSUME RecordsOK, TasksOK, UNCHANGED <<drafts, pubs, discs>>, NEW t \in Tasks, NEW pc,
           Goto(t, pc),
           pc \in Publishing => task[t].pc \in Publishing,
           pc \in Writing => task[t].pc \in Writing \ {"reopen"} /\ pc # "reopen",
           pc \in Discarding => task[t].pc \in Discarding,
           pc \in Holding => task[t].pc \in Holding,
           pc \in {"close", "reject"} => task[t].want < Len(drafts),
           pc = "close" => drafts[task[t].want + 1] = task[t].doc,
           pc \in Cleaning => Head(task[t].todo).kind \in Kinds
    PROVE  (RecordsOK /\ TasksOK)' /\ RecordsStep
<1> DEFINE x == task[t]
<1>1. TaskOK(x, drafts, pubs, discs)
  BY DEF TasksOK
<1>2. SetTask(t, [x EXCEPT !.pc = pc])
  BY DEF Goto
<1> HIDE DEF x
<1>3. TaskOK([x EXCEPT !.pc = pc], drafts, pubs, discs)
  BY <1>1, PcOK DEF x
<1> QED BY <1>2, <1>3, NothingWritten, TaskMoves

\* A call that returns knows nothing.
LEMMA ReturnRecords ==
    ASSUME RecordsOK, TasksOK, RecordsStep, drafts' \in Seq(Documents), NEW t \in Tasks, Return(t)
    PROVE  (RecordsOK /\ TasksOK)'
  BY IdleOK, TaskMoves DEF Return

\* A version of the record of a key that was compared with the one the call holds.
LEMMA PublicationWritten ==
    ASSUME RecordsOK, TasksOK, UNCHANGED <<drafts, discs>>, NEW t \in Tasks, NEW new,
           task[t].pc \in Writing, UpdatePublication(t, new),
           DOMAIN new = DOMAIN NoPublication, Request(new) = Request(pubs[task[t].key]),
           new.state \in {"pending", "applied", "failed"},
           new.state = "applied" /\ pubs[task[t].key].version = task[t].held =>
               new.published = Resolved(Source(new.doc, SourceOf(new.base)), new.base)
    PROVE  RecordsStep /\ drafts' \in Seq(Documents)
<1> DEFINE k == task[t].key
           p == pubs[k]
           q == [new EXCEPT !.version = task[t].held + 1]
<1>1. k \in Keys /\ task[t].held \in Nat /\ Holds(task[t], p, IF task[t].pc = "reopen" THEN "failed" ELSE "pending")
  BY DEF TasksOK, TaskOK, Publishing
<1>2. CASE p.version # task[t].held
  <2>1. UNCHANGED pubs
    BY <1>2 DEF UpdatePublication
  <2> QED BY <2>1, NothingWritten
<1>3. CASE p.version = task[t].held
  <2>1. pubs' = [pubs EXCEPT ![k] = q]
    BY <1>3 DEF UpdatePublication
  <2>2. {"state", "version", "want", "doc", "base", "published"} \subseteq DOMAIN new
    BY DEF NoPublication
  <2>3. /\ DOMAIN q = DOMAIN NoPublication /\ q.version = task[t].held + 1
        /\ q.state = new.state /\ q.want = new.want /\ q.doc = new.doc /\ q.base = new.base
        /\ q.published = new.published
    BY <2>2
  <2>4. p.state # "none" /\ p.state # "applied" /\ Request(q) = Request(p)
    BY <1>1, <1>3, <2>3 DEF Holds, Request
  <2>5. PubOK(p, drafts)
    BY <1>1 DEF RecordsOK
  <2> HIDE DEF q, p, k
  <2>6. q.want = p.want /\ q.doc = p.doc
    BY <2>4 DEF Request
  <2>7. PubOK(q, drafts)
    BY <1>1, <1>3, <2>3, <2>4, <2>5, <2>6 DEF PubOK, States, p, k
  <2>8. RecordStep(p, q)
    BY <1>3, <2>3, <2>4 DEF RecordStep, p, k
  <2>9. DOMAIN pubs' = Keys /\ \A j \in Keys : pubs'[j] = IF j = k THEN q ELSE pubs[j]
    BY <1>1, <2>1 DEF RecordsOK
  <2>10. \A j \in Keys : PubOK(pubs'[j], drafts) /\ RecordStep(pubs[j], pubs'[j])
    BY <2>7, <2>8, <2>9 DEF RecordsOK, RecordStep, p
  <2>11. DraftStep(drafts, drafts') /\ drafts' \in Seq(Documents)
    BY DEF RecordsOK, DraftStep
  <2>12. \A j \in Keys : DiscOK(discs'[j], drafts) /\ RecordStep(discs[j], discs'[j])
    BY DEF RecordsOK, RecordStep
  <2> QED BY <2>9, <2>10, <2>11, <2>12 DEF RecordsStep, RecordsOK
<1> QED BY <1>2, <1>3

LEMMA DiscardWritten ==
    ASSUME RecordsOK, TasksOK, UNCHANGED <<drafts, pubs>>, NEW t \in Tasks, NEW new,
           task[t].pc \in Holding, UpdateDiscard(t, new),
           DOMAIN new = DOMAIN NoDiscard, Request(new) = Request(discs[task[t].key]),
           new.state \in {"applied", "failed"},
           new.state = "applied" => new.result = task[t].want + 1 /\ task[t].pc = "close",
           new.state = "failed" => task[t].pc = "reject"
    PROVE  RecordsStep /\ drafts' \in Seq(Documents)
<1> DEFINE k == task[t].key
           d == discs[k]
           q == [new EXCEPT !.version = task[t].held + 1]
<1>1. /\ k \in Keys /\ task[t].held \in Nat /\ Holds(task[t], d, "pending")
      /\ task[t].want < Len(drafts)
      /\ task[t].pc = "close" => drafts[task[t].want + 1] = task[t].doc
  BY DEF TasksOK, TaskOK, Discarding
<1>2. CASE d.version # task[t].held
  <2>1. UNCHANGED discs
    BY <1>2 DEF UpdateDiscard
  <2> QED BY <2>1, NothingWritten
<1>3. CASE d.version = task[t].held
  <2>1. discs' = [discs EXCEPT ![k] = q]
    BY <1>3 DEF UpdateDiscard
  <2>2. {"state", "version", "want", "doc", "base", "result"} \subseteq DOMAIN new
    BY DEF NoDiscard
  <2>3. /\ DOMAIN q = DOMAIN NoDiscard /\ q.version = task[t].held + 1
        /\ q.state = new.state /\ q.want = new.want /\ q.doc = new.doc /\ q.base = new.base
        /\ q.result = new.result
    BY <2>2
  <2>4. d.state = "pending" /\ Request(q) = Request(d) /\ Request(d) = Request(task[t])
    BY <1>1, <1>3, <2>3 DEF Holds, Request
  <2>5. DiscOK(d, drafts)
    BY <1>1 DEF RecordsOK
  <2> HIDE DEF q, d, k
  <2>6. /\ q.want = d.want /\ q.doc = d.doc /\ q.base = d.base
        /\ q.want = task[t].want /\ q.doc = task[t].doc
    BY <2>4 DEF Request
  <2>7. DiscOK(q, drafts)
    BY <1>1, <1>3, <2>3, <2>4, <2>5, <2>6 DEF DiscOK, States, d, k
  <2>8. RecordStep(d, q)
    BY <1>3, <2>3, <2>4 DEF RecordStep, d, k
  <2>9. DOMAIN discs' = Keys /\ \A j \in Keys : discs'[j] = IF j = k THEN q ELSE discs[j]
    BY <1>1, <2>1 DEF RecordsOK
  <2>10. \A j \in Keys : DiscOK(discs'[j], drafts) /\ RecordStep(discs[j], discs'[j])
    BY <2>7, <2>8, <2>9 DEF RecordsOK, RecordStep, d
  <2>11. DraftStep(drafts, drafts') /\ drafts' \in Seq(Documents)
    BY DEF RecordsOK, DraftStep
  <2>12. \A j \in Keys : PubOK(pubs'[j], drafts) /\ RecordStep(pubs[j], pubs'[j])
    BY DEF RecordsOK, RecordStep
  <2> QED BY <2>9, <2>10, <2>11, <2>12 DEF RecordsStep, RecordsOK
<1> QED BY <1>2, <1>3

(***************************************************************************)
(* The calls of publish, step by step.                                      *)
(***************************************************************************)
\* publish: the version it names is the draft's.
LEMMA PublishRecords ==
    ASSUME RecordsOK, TasksOK, NEW t \in Tasks, NEW k \in Keys, NEW v \in 1..Len(drafts),
           Publish(t, k, v)
    PROVE  (RecordsOK /\ TasksOK)' /\ RecordsStep
<1> DEFINE x == [Idle EXCEPT !.pc = "active", !.key = k, !.want = v, !.doc = drafts[v]]
<1>1. SetTask(t, x) /\ UNCHANGED <<drafts, pubs, discs>>
  BY DEF Publish
<1>2. DOMAIN x = DOMAIN Idle /\ x.pc = "active" /\ x.key = k /\ x.want = v
      /\ x.doc = drafts[v] /\ x.held = 0
  BY DEF Idle
<1> HIDE DEF x
<1>3. v \in Nat
  BY DEF RecordsOK
<1>4. TaskOK(x, drafts, pubs, discs)
  BY <1>2, <1>3 DEF TaskOK, Publishing, Writing, Discarding, Holding, Cleaning
<1> QED BY <1>1, <1>4, NothingWritten, TaskMoves

LEMMA ReadActiveRecords ==
    ASSUME RecordsOK, TasksOK, NEW t \in Tasks, ReadActive(t)
    PROVE  (RecordsOK /\ TasksOK)' /\ RecordsStep
<1> DEFINE x == [task[t] EXCEPT !.pc = "reserve", !.base = active.revision]
<1>1. UNCHANGED <<drafts, pubs, discs>> /\ (SetTask(t, x) \/ Return(t))
  BY DEF ReadActive
<1>2. TaskOK(task[t], drafts, pubs, discs) /\ task[t].pc = "active"
  BY DEF TasksOK, ReadActive
<1>3. DOMAIN task[t] = DOMAIN Idle
      /\ {"pc", "key", "want", "doc", "base", "held"} \subseteq DOMAIN Idle
  BY <1>2 DEF TaskOK, Idle
<1>4. /\ DOMAIN x = DOMAIN Idle /\ x.pc = "reserve" /\ x.key = task[t].key
      /\ x.want = task[t].want /\ x.doc = task[t].doc /\ x.held = task[t].held
  BY <1>3
<1> HIDE DEF x
<1>5. TaskOK(x, drafts, pubs, discs)
  BY <1>2, <1>4 DEF TaskOK, Publishing, Writing, Discarding, Holding, Cleaning
<1> QED BY <1>1, <1>5, NothingWritten, TaskMoves, ReturnRecords

\* A call that takes the record of its key into its hands.
LEMMA TakesPublication ==
    ASSUME NEW x, NEW D \in Seq(Documents), NEW P, NEW Q, TaskOK(x, D, P, Q), x.pc \in Publishing, NEW pc,
           NEW held \in Nat, pc \in Writing, NEW k, k = x.key,
           P[k].state # "none", Request(P[k]) = Request(x), held >= 1, held <= P[k].version,
           P[k].version = held => P[k].state = IF pc = "reopen" THEN "failed" ELSE "pending"
    PROVE  TaskOK([x EXCEPT !.pc = pc, !.held = held], D, P, Q)
<1> DEFINE y == [x EXCEPT !.pc = pc, !.held = held]
<1>1. DOMAIN x = DOMAIN Idle
      /\ {"pc", "key", "want", "doc", "base", "held", "todo"} \subseteq DOMAIN Idle
  BY DEF TaskOK, Idle
<1>2. /\ DOMAIN y = DOMAIN Idle /\ y.pc = pc /\ y.key = x.key /\ y.want = x.want
      /\ y.doc = x.doc /\ y.base = x.base /\ y.held = held
  BY <1>1
<1> HIDE DEF y
<1>3. Holds(y, P[y.key], IF y.pc = "reopen" THEN "failed" ELSE "pending")
  BY <1>2 DEF Holds, Request
<1>4. pc \in Publishing /\ pc \notin Discarding \cup Holding \cup Cleaning /\ pc \notin {"close", "reject"}
  BY DEF Publishing, Writing, Discarding, Holding, Cleaning
<1>5. TaskOK(y, D, P, Q)
  BY <1>2, <1>3, <1>4 DEF TaskOK
<1> QED BY <1>5 DEF y

\* create_publication: a new record is made for the request of the call, one that is
\* there has the same request.
LEMMA ReserveRecords ==
    ASSUME RecordsOK, TasksOK, NEW t \in Tasks, Reserve(t)
    PROVE  (RecordsOK /\ TasksOK)' /\ RecordsStep
<1> DEFINE k == task[t].key
           p == pubs[k]
           x == task[t]
<1>1. /\ TaskOK(x, drafts, pubs, discs) /\ x.pc = "reserve" /\ x.pc \in Publishing
      /\ k \in Keys /\ x.want \in 1..Len(drafts) /\ x.doc = drafts[x.want]
      /\ UNCHANGED <<drafts, discs>> /\ drafts \in Seq(Documents) /\ PubOK(p, drafts)
  BY DEF TasksOK, TaskOK, Reserve, Publishing, RecordsOK
<1>2. CASE UNCHANGED pubs /\ Return(t)
  BY <1>1, <1>2, NothingWritten, ReturnRecords
<1>3. CASE /\ p.state \in {"pending", "failed"}
           /\ Request(p) = Request(x)
           /\ SetTask(t, [x EXCEPT !.held = p.version,
                    !.pc = IF p.state = "failed" THEN "reopen" ELSE "source body"])
           /\ UNCHANGED pubs
  <2> DEFINE pc == IF p.state = "failed" THEN "reopen" ELSE "source body"
             held == p.version
  <2>1. pc \in Writing /\ held \in Nat /\ held >= 1
        /\ p.state = IF pc = "reopen" THEN "failed" ELSE "pending"
    BY <1>1, <1>3 DEF Writing, PubOK
  <2>2. held <= p.version
    <3>1. \A n \in Nat : n <= n
      OBVIOUS
    <3> QED BY <2>1, <3>1
  <2>3. SetTask(t, [x EXCEPT !.held = held, !.pc = pc])
    BY <1>3
  <2> HIDE DEF pc, held
  <2>4. [x EXCEPT !.held = held, !.pc = pc] = [x EXCEPT !.pc = pc, !.held = held]
    OBVIOUS
  <2> HIDE DEF x
  <2>5. p.state # "none" /\ Request(p) = Request(x)
    BY <1>3
  <2>6. TaskOK([x EXCEPT !.pc = pc, !.held = held], drafts, pubs, discs)
    BY <1>1, <2>1, <2>2, <2>5, TakesPublication DEF x
  <2> QED BY <1>1, <1>3, <2>3, <2>4, <2>6, NothingWritten, TaskMoves
<1>4. CASE /\ p.state = "none"
           /\ pubs' = [pubs EXCEPT ![k] =
                    [NoPublication EXCEPT !.state = "pending", !.version = 1,
                        !.want = x.want, !.doc = x.doc, !.base = x.base]]
           /\ SetTask(t, [x EXCEPT !.pc = "source body", !.held = 1])
  <2> DEFINE q == [NoPublication EXCEPT !.state = "pending", !.version = 1,
                        !.want = x.want, !.doc = x.doc, !.base = x.base]
  <2>1. /\ DOMAIN q = DOMAIN NoPublication /\ q.state = "pending" /\ q.version = 1
        /\ Request(q) = Request(x) /\ q.want = x.want /\ q.doc = x.doc
    BY DEF NoPublication, Request
  <2>2. pubs' = [pubs EXCEPT ![k] = q]
    BY <1>4
  <2> HIDE DEF q
  <2>3. DOMAIN pubs' = Keys /\ \A j \in Keys : pubs'[j] = IF j = k THEN q ELSE pubs[j]
    BY <1>1, <2>2 DEF RecordsOK
  <2>4. PubOK(q, drafts) /\ RecordStep(p, q)
    <3>1. p.version = 0
      BY <1>1, <1>4 DEF PubOK
    <3> QED BY <1>1, <1>4, <2>1, <3>1 DEF PubOK, States, RecordStep
  <2>5. RecordsStep /\ drafts' \in Seq(Documents)
    BY <1>1, <2>3, <2>4 DEF RecordsStep, RecordsOK, RecordStep, DraftStep
  <2>6. TaskOK(x, drafts', pubs', discs')
    <3>1. TaskOK(x, drafts, pubs, discs) /\ x.pc \notin Writing /\ x.pc \notin Holding
      BY <1>1 DEF Writing, Holding
    <3> HIDE DEF x
    <3> QED BY <1>1, <3>1 DEF TaskOK
  <2>7. pubs'[k] = q
    BY <1>1, <2>3
  <2> HIDE DEF x
  <2>8. TaskOK([x EXCEPT !.pc = "source body", !.held = 1], drafts', pubs', discs')
    <3>1. "source body" \in Writing /\ 1 \in Nat /\ 1 >= 1 /\ 1 <= pubs'[k].version
          /\ pubs'[k].state = IF "source body" = "reopen" THEN "failed" ELSE "pending"
      BY <2>1, <2>7 DEF Writing
    <3> QED BY <1>1, <2>1, <2>5, <2>6, <2>7, <3>1, TakesPublication DEF x
  <2> QED BY <1>4, <2>5, <2>8, TaskMoves DEF x
<1> QED BY <1>2, <1>3, <1>4 DEF Reserve

LEMMA ReopenRecords ==
    ASSUME RecordsOK, TasksOK, NEW t \in Tasks, Reopen(t)
    PROVE  (RecordsOK /\ TasksOK)' /\ RecordsStep
<1> DEFINE k == task[t].key
           new == [pubs[k] EXCEPT !.state = "pending"]
           x == task[t]
<1>1. /\ TaskOK(x, drafts, pubs, discs) /\ x.pc = "reopen" /\ x.pc \in Writing
      /\ x.pc \in Publishing /\ k \in Keys /\ Holds(x, pubs[k], "failed") /\ x.held \in Nat
      /\ UNCHANGED <<drafts, discs>> /\ PubOK(pubs[k], drafts) /\ UpdatePublication(t, new)
  BY DEF TasksOK, TaskOK, Reopen, Publishing, Writing, RecordsOK
<1>2. /\ DOMAIN new = DOMAIN NoPublication /\ Request(new) = Request(pubs[k])
      /\ new.state = "pending"
  BY <1>1 DEF PubOK, NoPublication, Request
<1>3. UNCHANGED <<drafts, discs>> /\ UpdatePublication(t, new)
  BY <1>1
<1> HIDE DEF new
<1>4. RecordsStep /\ drafts' \in Seq(Documents)
  BY <1>1, <1>2, <1>3, PublicationWritten
<1>5. CASE Return(t)
  BY <1>4, <1>5, ReturnRecords
<1>6. CASE pubs[k].version = x.held /\ SetTask(t, [x EXCEPT !.pc = "source body", !.held = @ + 1])
  <2> DEFINE held == x.held + 1
             q == [new EXCEPT !.version = held]
  <2>1. pubs' = [pubs EXCEPT ![k] = q]
    BY <1>1, <1>6 DEF UpdatePublication
  <2>2. /\ q.version = held /\ q.state = "pending" /\ Request(q) = Request(pubs[k])
        /\ held \in Nat /\ held >= 1
    BY <1>1, <1>2 DEF NoPublication, Request
  <2>3. SetTask(t, [x EXCEPT !.pc = "source body", !.held = held])
    BY <1>6
  <2> HIDE DEF q, held
  <2>4. pubs'[k] = q
    BY <1>1, <2>1 DEF RecordsOK
  <2>5. TaskOK(x, drafts', pubs', discs')
    BY <1>4, <1>1, TaskStays DEF RecordsStep, RecordsOK, PubOK, DiscOK
  <2> HIDE DEF x
  <2>6. /\ "source body" \in Writing /\ held <= pubs'[k].version
        /\ pubs'[k].state = IF "source body" = "reopen" THEN "failed" ELSE "pending"
        /\ pubs'[k].state # "none" /\ Request(pubs'[k]) = Request(x)
    BY <1>1, <2>2, <2>4 DEF Writing, Holds
  <2>7. TaskOK([x EXCEPT !.pc = "source body", !.held = held], drafts', pubs', discs')
    BY <1>1, <1>4, <2>2, <2>5, <2>6, TakesPublication DEF x
  <2> QED BY <1>4, <2>3, <2>7, TaskMoves DEF x
<1> QED BY <1>5, <1>6 DEF Reopen

\* complete_publication: the revision is made of the record's own document and base.
LEMMA CompleteRecords ==
    ASSUME RecordsOK, TasksOK, NEW t \in Tasks, Complete(t)
    PROVE  (RecordsOK /\ TasksOK)' /\ RecordsStep
<1> DEFINE k == task[t].key
           rev == Resolved(SourceRevision(t), task[t].base)
           new == [pubs[k] EXCEPT !.state = "applied", !.published = rev]
<1>1. /\ task[t].pc \in Writing /\ k \in Keys /\ Holds(task[t], pubs[k], "pending")
      /\ UNCHANGED <<drafts, discs>> /\ PubOK(pubs[k], drafts) /\ UpdatePublication(t, new)
      /\ Return(t)
  BY DEF TasksOK, TaskOK, Complete, Publishing, Writing, RecordsOK
<1>2. rev = Resolved(Source(pubs[k].doc, SourceOf(pubs[k].base)), pubs[k].base)
  BY <1>1 DEF Holds, Request, SourceRevision
<1> HIDE DEF rev
<1>3. /\ DOMAIN new = DOMAIN NoPublication /\ Request(new) = Request(pubs[k])
      /\ new.state = "applied" /\ new.published = rev
      /\ new.doc = pubs[k].doc /\ new.base = pubs[k].base
  BY <1>1 DEF PubOK, NoPublication, Request
<1>4. UNCHANGED <<drafts, discs>> /\ UpdatePublication(t, new)
  BY <1>1
<1> HIDE DEF new
<1>5. RecordsStep /\ drafts' \in Seq(Documents)
  BY <1>1, <1>2, <1>3, <1>4, PublicationWritten
<1> QED BY <1>1, <1>5, ReturnRecords

LEMMA RecordFailureRecords ==
    ASSUME RecordsOK, TasksOK, NEW t \in Tasks, RecordFailure(t)
    PROVE  (RecordsOK /\ TasksOK)' /\ RecordsStep
<1> DEFINE k == task[t].key
           new == [pubs[k] EXCEPT !.state = "failed"]
<1>1. /\ task[t].pc \in Writing /\ k \in Keys
      /\ UNCHANGED <<drafts, discs>> /\ PubOK(pubs[k], drafts) /\ UpdatePublication(t, new)
      /\ Return(t)
  BY DEF TasksOK, TaskOK, RecordFailure, Publishing, Writing, RecordsOK
<1>2. /\ DOMAIN new = DOMAIN NoPublication /\ Request(new) = Request(pubs[k])
      /\ new.state = "failed"
  BY <1>1 DEF PubOK, NoPublication, Request
<1>3. UNCHANGED <<drafts, discs>> /\ UpdatePublication(t, new)
  BY <1>1
<1> HIDE DEF new
<1>4. RecordsStep /\ drafts' \in Seq(Documents)
  BY <1>1, <1>2, <1>3, PublicationWritten
<1> QED BY <1>1, <1>4, ReturnRecords

\* create_revision and a failing call only move the call.
LEMMA RevisionRecords ==
    ASSUME RecordsOK, TasksOK, NEW t \in Tasks,
           PutBody(t) \/ PutMetadata(t) \/ PublicationFails(t)
    PROVE  (RecordsOK /\ TasksOK)' /\ RecordsStep
<1>1. UNCHANGED <<drafts, pubs, discs>> /\ task[t].pc \in Writing \ {"reopen"}
  BY DEF PutBody, PutMetadata, PublicationFails, Writing
<1>2. PICK pc \in {"source metadata", "metadata", "body", "complete", "failing"} : Goto(t, pc)
  BY DEF PutBody, PutMetadata, PublicationFails
<1>3. /\ pc \in Writing \ {"reopen"} /\ pc \in Publishing /\ task[t].pc \in Publishing
      /\ pc \notin Discarding /\ pc \notin Holding /\ pc \notin {"close", "reject"}
      /\ pc \notin Cleaning
  BY <1>1 DEF Writing, Publishing, Discarding, Holding, Cleaning
<1> QED BY <1>1, <1>2, <1>3, GotoRecords

LEMMA PublishNextRecords ==
    ASSUME RecordsOK, TasksOK, NEW t \in Tasks, PublishNext(t)
    PROVE  (RecordsOK /\ TasksOK)' /\ RecordsStep
  BY PublishRecords, ReadActiveRecords, ReserveRecords, ReopenRecords, CompleteRecords,
     RecordFailureRecords, RevisionRecords
     DEF PublishNext

(***************************************************************************)
(* The calls of discard, step by step.                                      *)
(***************************************************************************)
LEMMA DiscardRecords ==
    ASSUME RecordsOK, TasksOK, NEW t \in Tasks, NEW k \in Keys, NEW v \in 1..Len(drafts),
           Discard(t, k, v)
    PROVE  (RecordsOK /\ TasksOK)' /\ RecordsStep
<1> DEFINE base == active.revision
           doc == SourceOf(base).content
           x == [Idle EXCEPT !.pc = "create", !.key = k, !.want = v, !.doc = doc, !.base = base]
<1>1. SetTask(t, x) /\ UNCHANGED <<drafts, pubs, discs>>
  BY DEF Discard
<1> HIDE DEF base
<1>2. DOMAIN x = DOMAIN Idle /\ x.pc = "create" /\ x.key = k /\ x.want = v
      /\ x.doc = SourceOf(x.base).content /\ x.held = 0
  BY DEF Idle
<1> HIDE DEF x
<1>3. v \in Nat
  BY DEF RecordsOK
<1>4. TaskOK(x, drafts, pubs, discs)
  BY <1>2, <1>3 DEF TaskOK, Publishing, Writing, Discarding, Holding, Cleaning
<1> QED BY <1>1, <1>4, NothingWritten, TaskMoves

LEMMA TakesDiscard ==
    ASSUME NEW x, NEW D \in Seq(Documents), NEW P, NEW Q, TaskOK(x, D, P, Q), x.pc \in Discarding,
           NEW held \in Nat, NEW k, k = x.key,
           Q[k].state # "none", Request(Q[k]) = Request(x), held >= 1, held <= Q[k].version,
           Q[k].version = held => Q[k].state = "pending"
    PROVE  TaskOK([x EXCEPT !.pc = "compare", !.held = held], D, P, Q)
<1> DEFINE y == [x EXCEPT !.pc = "compare", !.held = held]
<1>1. DOMAIN x = DOMAIN Idle
      /\ {"pc", "key", "want", "doc", "base", "held", "todo"} \subseteq DOMAIN Idle
  BY DEF TaskOK, Idle
<1>2. /\ DOMAIN y = DOMAIN Idle /\ y.pc = "compare" /\ y.key = x.key /\ y.want = x.want
      /\ y.doc = x.doc /\ y.base = x.base /\ y.held = held
  BY <1>1
<1> HIDE DEF y
<1>3. Holds(y, Q[y.key], "pending")
  BY <1>2 DEF Holds, Request
<1>4. y.pc \in Discarding /\ y.pc \notin Publishing \cup Writing \cup Cleaning
      /\ y.pc \notin {"close", "reject"}
  BY <1>2 DEF Publishing, Writing, Discarding, Holding, Cleaning
<1>5. TaskOK(y, D, P, Q)
  BY <1>2, <1>3, <1>4 DEF TaskOK
<1> QED BY <1>5 DEF y

\* create_discard.
LEMMA CreateDiscardRecords ==
    ASSUME RecordsOK, TasksOK, NEW t \in Tasks, CreateDiscard(t)
    PROVE  (RecordsOK /\ TasksOK)' /\ RecordsStep
<1> DEFINE k == task[t].key
           d == discs[k]
           x == task[t]
<1>1. /\ TaskOK(x, drafts, pubs, discs) /\ x.pc = "create" /\ x.pc \in Discarding
      /\ k \in Keys /\ x.want \in 1..Len(drafts) /\ x.doc = SourceOf(x.base).content
      /\ UNCHANGED <<drafts, pubs>> /\ drafts \in Seq(Documents) /\ DiscOK(d, drafts)
  BY DEF TasksOK, TaskOK, CreateDiscard, Discarding, RecordsOK
<1>2. CASE UNCHANGED discs /\ Return(t)
  BY <1>1, <1>2, NothingWritten, ReturnRecords
<1>3. CASE /\ d.state = "pending"
           /\ Request(d) = Request(x)
           /\ SetTask(t, [x EXCEPT !.pc = "compare", !.held = d.version])
           /\ UNCHANGED discs
  <2> DEFINE held == d.version
  <2>1. held \in Nat /\ held >= 1 /\ d.state # "none" /\ Request(d) = Request(x)
    BY <1>1, <1>3 DEF DiscOK
  <2>2. held <= d.version
    <3>1. \A n \in Nat : n <= n
      OBVIOUS
    <3> QED BY <2>1, <3>1
  <2>3. SetTask(t, [x EXCEPT !.pc = "compare", !.held = held])
    BY <1>3
  <2> HIDE DEF held, x
  <2>4. TaskOK([x EXCEPT !.pc = "compare", !.held = held], drafts, pubs, discs)
    BY <1>1, <1>3, <2>1, <2>2, TakesDiscard DEF x
  <2> QED BY <1>1, <1>3, <2>3, <2>4, NothingWritten, TaskMoves
<1>4. CASE /\ d.state = "none"
           /\ discs' = [discs EXCEPT ![k] =
                    [NoDiscard EXCEPT !.state = "pending", !.version = 1,
                        !.want = x.want, !.doc = x.doc, !.base = x.base]]
           /\ SetTask(t, [x EXCEPT !.pc = "compare", !.held = 1])
  <2> DEFINE q == [NoDiscard EXCEPT !.state = "pending", !.version = 1,
                        !.want = x.want, !.doc = x.doc, !.base = x.base]
  <2>1. /\ DOMAIN q = DOMAIN NoDiscard /\ q.state = "pending" /\ q.version = 1
        /\ Request(q) = Request(x) /\ q.want = x.want /\ q.doc = x.doc /\ q.base = x.base
    BY DEF NoDiscard, Request
  <2>2. discs' = [discs EXCEPT ![k] = q]
    BY <1>4
  <2> HIDE DEF q
  <2>3. DOMAIN discs' = Keys /\ \A j \in Keys : discs'[j] = IF j = k THEN q ELSE discs[j]
    BY <1>1, <2>2 DEF RecordsOK
  <2>4. DiscOK(q, drafts) /\ RecordStep(d, q)
    <3>1. d.version = 0
      BY <1>1, <1>4 DEF DiscOK
    <3> QED BY <1>1, <1>4, <2>1, <3>1 DEF DiscOK, States, RecordStep
  <2>5. RecordsStep /\ drafts' \in Seq(Documents)
    BY <1>1, <2>3, <2>4 DEF RecordsStep, RecordsOK, RecordStep, DraftStep
  <2>6. TaskOK(x, drafts', pubs', discs')
    <3>1. TaskOK(x, drafts, pubs, discs) /\ x.pc \notin Writing /\ x.pc \notin Holding
      BY <1>1 DEF Writing, Holding
    <3> HIDE DEF x
    <3> QED BY <1>1, <3>1 DEF TaskOK
  <2>7. discs'[k] = q
    BY <1>1, <2>3
  <2> HIDE DEF x
  <2>8. TaskOK([x EXCEPT !.pc = "compare", !.held = 1], drafts', pubs', discs')
    <3>1. 1 \in Nat /\ 1 >= 1 /\ 1 <= discs'[k].version
          /\ discs'[k].state = "pending" /\ discs'[k].state # "none"
      BY <2>1, <2>7
    <3> QED BY <1>1, <2>1, <2>5, <2>6, <2>7, <3>1, TakesDiscard DEF x
  <2> QED BY <1>4, <2>5, <2>8, TaskMoves DEF x
<1> QED BY <1>2, <1>3, <1>4 DEF CreateDiscard

\* The draft is compared with the version the call names.
LEMMA CompareDraftRecords ==
    ASSUME RecordsOK, TasksOK, NEW t \in Tasks, CompareDraft(t)
    PROVE  (RecordsOK /\ TasksOK)' /\ RecordsStep
<1>1. /\ UNCHANGED <<drafts, pubs, discs>> /\ task[t].pc = "compare"
      /\ task[t].want \in 1..Len(drafts) /\ Len(drafts) \in Nat
  BY DEF CompareDraft, TasksOK, TaskOK, Discarding, Holding, RecordsOK
<1>2. PICK pc \in {"swap", "close", "reject"} :
        /\ Goto(t, pc)
        /\ pc \in {"close", "reject"} => Len(drafts) # task[t].want
        /\ pc = "close" => /\ Len(drafts) = task[t].want + 1
                           /\ drafts[Len(drafts)] = task[t].doc
  BY DEF CompareDraft
<1>3. /\ pc \notin Publishing /\ pc \notin Writing /\ pc \notin Cleaning
      /\ task[t].pc \in Discarding /\ task[t].pc \in Holding
  BY <1>1 DEF Writing, Publishing, Discarding, Holding, Cleaning
<1>4. pc \in {"close", "reject"} => task[t].want < Len(drafts)
  BY <1>1, <1>2
<1>5. pc = "close" => drafts[task[t].want + 1] = task[t].doc
  BY <1>2
<1> QED BY <1>1, <1>2, <1>3, <1>4, <1>5, GotoRecords

\* compare_and_swap_draft.
LEMMA SwapDraftRecords ==
    ASSUME RecordsOK, TasksOK, TaskDocs, NEW t \in Tasks, SwapDraft(t)
    PROVE  (RecordsOK /\ TasksOK)' /\ RecordsStep
<1>1. /\ UNCHANGED <<pubs, discs>> /\ task[t].pc = "swap"
      /\ task[t].want \in 1..Len(drafts) /\ Len(drafts) \in Nat
      /\ TaskOK(task[t], drafts, pubs, discs)
  BY DEF SwapDraft, TasksOK, TaskOK, Discarding, Holding, RecordsOK
<1>2. task[t].pc \in Discarding /\ task[t].pc \in Holding
  BY <1>1 DEF Discarding, Holding
<1>3. CASE UNCHANGED drafts /\ Len(drafts) # task[t].want /\ Goto(t, "reject")
  <2>1. "reject" \notin Publishing \cup Writing \cup Cleaning /\ task[t].want < Len(drafts)
    BY <1>1, <1>3 DEF Publishing, Writing, Cleaning
  <2> QED BY <1>1, <1>2, <1>3, <2>1, GotoRecords
<1>4. CASE /\ Len(drafts) = task[t].want /\ drafts' = Append(drafts, task[t].doc)
           /\ Goto(t, "close")
  <2> DEFINE doc == task[t].doc
             x == task[t]
  <2>1. doc \in Documents
    BY <1>1 DEF TaskDocs, Carrying
  <2>2. drafts \in Seq(Documents) /\ drafts' = Append(drafts, doc)
    BY <1>4 DEF RecordsOK
  <2> HIDE DEF doc
  <2>3. /\ drafts' \in Seq(Documents) /\ Len(drafts') = Len(drafts) + 1
        /\ DraftStep(drafts, drafts') /\ drafts'[Len(drafts) + 1] = doc
    BY <2>1, <2>2 DEF DraftStep
  <2>4. \A k \in Keys : PubOK(pubs[k], drafts') /\ DiscOK(discs[k], drafts')
    BY <1>1, <2>2, <2>3 DEF RecordsOK, DraftStep, PubOK, DiscOK
  <2>5. RecordsStep
    BY <1>1, <2>3, <2>4 DEF RecordsStep, RecordsOK, RecordStep
  <2>6. TaskOK(x, drafts', pubs', discs')
    <3>1. \A k \in Keys : /\ RecordStep(pubs[k], pubs'[k]) /\ pubs[k].version \in Nat
                          /\ RecordStep(discs[k], discs'[k]) /\ discs[k].version \in Nat
      BY <2>5 DEF RecordsStep, RecordsOK, PubOK, DiscOK
    <3> QED BY <1>1, <2>2, <2>3, <3>1, TaskStays
  <2>7. /\ x.want < Len(drafts') /\ drafts'[x.want + 1] = x.doc
        /\ "close" \notin Publishing \cup Writing \cup Cleaning
        /\ SetTask(t, [x EXCEPT !.pc = "close"])
    BY <1>1, <1>4, <2>3 DEF doc, Publishing, Writing, Cleaning, Goto
  <2> HIDE DEF x
  <2>8. TaskOK([x EXCEPT !.pc = "close"], drafts', pubs', discs')
    BY <1>2, <2>6, <2>7, PcOK DEF x
  <2> QED BY <2>3, <2>5, <2>7, <2>8, TaskMoves
<1> QED BY <1>3, <1>4 DEF SwapDraft

LEMMA CloseDiscardRecords ==
    ASSUME RecordsOK, TasksOK, NEW t \in Tasks, CloseDiscard(t) \/ RejectDiscard(t)
    PROVE  (RecordsOK /\ TasksOK)' /\ RecordsStep
<1> DEFINE k == task[t].key
<1>1. /\ task[t].pc \in Holding /\ k \in Keys /\ UNCHANGED <<drafts, pubs>> /\ Return(t)
      /\ DiscOK(discs[k], drafts)
  BY DEF TasksOK, TaskOK, CloseDiscard, RejectDiscard, Discarding, Holding, RecordsOK
<1>2. {"state", "want", "doc", "base", "result"} \subseteq DOMAIN discs[k]
      /\ DOMAIN discs[k] = DOMAIN NoDiscard
  BY <1>1 DEF DiscOK, NoDiscard
<1>3. CASE CloseDiscard(t)
  <2> DEFINE result == task[t].want + 1
             new == [discs[k] EXCEPT !.state = "applied", !.result = result]
  <2>1. UpdateDiscard(t, new) /\ task[t].pc = "close"
    BY <1>3 DEF CloseDiscard
  <2>2. /\ DOMAIN new = DOMAIN NoDiscard /\ Request(new) = Request(discs[k])
        /\ new.state = "applied" /\ new.result = result
    BY <1>2 DEF Request
  <2> HIDE DEF new
  <2>3. RecordsStep /\ drafts' \in Seq(Documents)
    BY <1>1, <2>1, <2>2, DiscardWritten
  <2> QED BY <1>1, <2>3, ReturnRecords
<1>4. CASE RejectDiscard(t)
  <2> DEFINE new == [discs[k] EXCEPT !.state = "failed"]
  <2>1. UpdateDiscard(t, new) /\ task[t].pc = "reject"
    BY <1>4 DEF RejectDiscard
  <2>2. /\ DOMAIN new = DOMAIN NoDiscard /\ Request(new) = Request(discs[k])
        /\ new.state = "failed"
    BY <1>2 DEF Request
  <2> HIDE DEF new
  <2>3. RecordsStep /\ drafts' \in Seq(Documents)
    BY <1>1, <2>1, <2>2, DiscardWritten
  <2> QED BY <1>1, <2>3, ReturnRecords
<1> QED BY <1>3, <1>4

LEMMA DiscardNextRecords ==
    ASSUME RecordsOK, TasksOK, TaskDocs, NEW t \in Tasks, DiscardNext(t)
    PROVE  (RecordsOK /\ TasksOK)' /\ RecordsStep
  BY DiscardRecords, CreateDiscardRecords, CompareDraftRecords, SwapDraftRecords,
     CloseDiscardRecords
     DEF DiscardNext

(***************************************************************************)
(* The order of the revisions, and what identities are used.                *)
(***************************************************************************)
\* s lists each element of S once.
Listing(s, S) ==
    /\ s \in Seq(S) /\ Range(s) = S
    /\ \A i, j \in 1..Len(s) : s[i] = s[j] => i = j

OrderOK == Listing(order, revs)

KindsOK == \A r \in revs \cup bodies \cup markers : r.kind \in Kinds

\* A row that is added stands last, one that is removed leaves the others in order.
LEMMA AppendOrder ==
    ASSUME NEW S, NEW s, Listing(s, S), NEW r, r \notin S
    PROVE  Listing(Append(s, r), S \cup {r})
<1> USE DEF Listing
<1> DEFINE u == Append(s, r)
<1>1. s \in Seq(S \cup {r}) /\ u \in Seq(S \cup {r}) /\ Len(u) = Len(s) + 1 /\ Len(s) \in Nat
  OBVIOUS
<1>2. \A i \in 1..Len(u) : u[i] = IF i = Len(s) + 1 THEN r ELSE s[i]
  OBVIOUS
<1> HIDE DEF u
<1>3. \A i \in 1..Len(s) : s[i] \in S
  OBVIOUS
<1>4. Range(u) = {u[i] : i \in 1..Len(u)} /\ Range(s) = {s[i] : i \in 1..Len(s)}
  BY <1>1 DEF Range
<1>5. Range(u) = S \cup {r}
  <2>1. Range(u) \subseteq S \cup {r}
    BY <1>1, RangeOfSeq
  <2>2. r \in Range(u)
    BY <1>1, <1>2, <1>4
  <2>3. \A x \in S : x \in Range(u)
    <3> SUFFICES ASSUME NEW x \in S PROVE x \in Range(u)
      OBVIOUS
    <3>1. PICK i \in 1..Len(s) : s[i] = x
      BY <1>4
    <3>2. i \in 1..Len(u) /\ u[i] = x
      BY <1>1, <1>2, <3>1
    <3> QED BY <1>4, <3>2
  <2> QED BY <2>1, <2>2, <2>3
<1>6. \A i, j \in 1..Len(u) : u[i] = u[j] => i = j
  BY <1>1, <1>2, <1>3
<1> QED BY <1>1, <1>5, <1>6 DEF u

LEMMA RemoveAtProperties ==
    ASSUME NEW S, NEW s \in Seq(S), NEW n \in 1..Len(s)
    PROVE  LET u == RemoveAt(s, n) IN
           /\ u \in Seq(S) /\ Len(u) = Len(s) - 1
           /\ \A i \in 1..Len(u) : u[i] = IF i < n THEN s[i] ELSE s[i + 1]
<1> DEFINE u == RemoveAt(s, n)
           a == SubSeq(s, 1, n - 1)
           b == SubSeq(s, n + 1, Len(s))
<1>1. Len(s) \in Nat /\ n \in Int /\ n >= 1 /\ n <= Len(s)
  OBVIOUS
<1>2. \A i \in 1..Len(s) : s[i] \in S
  OBVIOUS
<1>3. a \in Seq(S) /\ Len(a) = n - 1 /\ \A i \in 1..Len(a) : a[i] = s[i]
  <2>1. n - 1 \in Int /\ \A i \in 1..(n - 1) : s[i] \in S
    BY <1>1, <1>2
  <2>2. /\ a \in Seq(S) /\ Len(a) = IF 1 <= n - 1 THEN n - 1 - 1 + 1 ELSE 0
        /\ \A i \in 1..(n - 1 - 1 + 1) : a[i] = s[1 + i - 1]
    BY <2>1, SubSeqProperties
  <2> HIDE DEF a
  <2>3. n - 1 - 1 + 1 = n - 1 /\ (~(1 <= n - 1) => n - 1 = 0)
    BY <1>1
  <2>4. Len(a) = n - 1
    BY <2>2, <2>3
  <2>5. \A i \in 1..Len(a) : 1 + i - 1 = i
    BY <2>1, <2>4
  <2> QED BY <2>2, <2>3, <2>4, <2>5
<1>4. b \in Seq(S) /\ Len(b) = Len(s) - n /\ \A i \in 1..Len(b) : b[i] = s[n + i]
  <2>1. n + 1 \in Int /\ Len(s) \in Int /\ \A i \in (n + 1)..Len(s) : s[i] \in S
    BY <1>1, <1>2
  <2>2. /\ b \in Seq(S)
        /\ Len(b) = IF n + 1 <= Len(s) THEN Len(s) - (n + 1) + 1 ELSE 0
        /\ \A i \in 1..(Len(s) - (n + 1) + 1) : b[i] = s[n + 1 + i - 1]
    BY <2>1, SubSeqProperties
  <2> HIDE DEF b
  <2>3. Len(s) - (n + 1) + 1 = Len(s) - n /\ (~(n + 1 <= Len(s)) => Len(s) - n = 0)
    BY <1>1
  <2>4. Len(b) = Len(s) - n
    BY <2>2, <2>3
  <2>5. \A i \in 1..Len(b) : n + 1 + i - 1 = n + i
    BY <1>1, <2>4
  <2> QED BY <2>2, <2>3, <2>4, <2>5
<1>5. u = a \o b
  BY DEF RemoveAt
<1> HIDE DEF a, b, u
<1>6. Len(a) = n - 1 /\ Len(b) = Len(s) - n /\ a \in Seq(S) /\ b \in Seq(S)
  BY <1>3, <1>4
<1>7. u \in Seq(S) /\ Len(u) = Len(a) + Len(b)
  BY <1>5, <1>6, ConcatProperties
<1>8. \A i \in 1..(Len(a) + Len(b)) : u[i] = IF i <= Len(a) THEN a[i] ELSE b[i - Len(a)]
  <2>1. \A i \in 1..(Len(a) + Len(b)) :
            (a \o b)[i] = IF i <= Len(a) THEN a[i] ELSE b[i - Len(a)]
    BY <1>6, ConcatProperties
  <2> QED BY <1>5, <2>1
<1>9. Len(u) = Len(s) - 1
  BY <1>1, <1>6, <1>7
<1>10. ASSUME NEW i \in 1..Len(u) PROVE u[i] = IF i < n THEN s[i] ELSE s[i + 1]
  <2>1. i \in Int /\ i >= 1 /\ i <= Len(s) - 1
    BY <1>9
  <2>2. u[i] = IF i <= Len(a) THEN a[i] ELSE b[i - Len(a)]
    BY <1>7, <1>8
  <2>3. CASE i < n
    <3>1. i <= Len(a) /\ i \in 1..Len(a)
      BY <1>1, <1>6, <2>1, <2>3
    <3> QED BY <1>3, <2>2, <2>3, <3>1
  <2>4. CASE ~(i < n)
    <3>1. i - Len(a) \in 1..Len(b) /\ n + (i - Len(a)) = i + 1 /\ ~(i <= Len(a))
      BY <1>1, <1>6, <2>1, <2>4
    <3> QED BY <1>4, <2>2, <2>4, <3>1
  <2> QED BY <2>3, <2>4
<1> QED BY <1>7, <1>9, <1>10 DEF u

LEMMA RemoveOrder ==
    ASSUME NEW S, NEW s, Listing(s, S), NEW r \in S, NEW n \in 1..Len(s), s[n] = r
    PROVE  Listing(RemoveAt(s, n), S \ {r})
<1> USE DEF Listing
<1> DEFINE u == RemoveAt(s, n)
<1>1. Len(s) \in Nat /\ n \in Int /\ n >= 1 /\ n <= Len(s)
  OBVIOUS
<1>2. \A x \in S : \E k \in 1..Len(s) : s[k] = x
  BY DEF Range
<1>3. /\ u \in Seq(S) /\ Len(u) = Len(s) - 1
      /\ \A i \in 1..Len(u) : u[i] = IF i < n THEN s[i] ELSE s[i + 1]
  BY RemoveAtProperties
<1> HIDE DEF u
<1> DEFINE old(i) == IF i < n THEN i ELSE i + 1
<1>4. ASSUME NEW i \in 1..Len(u)
      PROVE  old(i) \in 1..Len(s) /\ old(i) # n /\ u[i] = s[old(i)]
  <2>1. i \in 1..(Len(s) - 1) /\ i \in Int /\ n \in Int
    BY <1>3
  <2>2. u[i] = IF i < n THEN s[i] ELSE s[i + 1]
    BY <1>3
  <2>3. CASE i < n
    <3>1. old(i) = i /\ u[i] = s[i]
      BY <2>2, <2>3
    <3>2. i \in 1..Len(s) /\ i # n
      BY <1>1, <2>1, <2>3
    <3> QED BY <3>1, <3>2
  <2>4. CASE ~(i < n)
    BY <1>1, <2>1, <2>2, <2>4
  <2> QED BY <2>3, <2>4
<1>5. ASSUME NEW k \in 1..Len(s), k # n PROVE \E i \in 1..Len(u) : old(i) = k
  <2>1. k \in Int /\ n \in Int /\ Len(u) = Len(s) - 1
    BY <1>3
  <2>2. CASE k < n
    <3>1. k \in 1..Len(u) /\ old(k) = k
      BY <1>1, <2>1, <2>2
    <3> QED BY <3>1
  <2>3. CASE n < k
    <3>1. k - 1 \in 1..Len(u) /\ old(k - 1) = k
      BY <1>1, <2>1, <2>3
    <3> QED BY <3>1
  <2> QED BY <1>5, <2>1, <2>2, <2>3
<1>6. \A i, j \in 1..Len(u) : old(i) = old(j) => i = j
  <2>1. \A i \in 1..Len(u) : i \in Int
    OBVIOUS
  <2> QED BY <2>1
<1> HIDE DEF old
<1>7. \A k \in 1..Len(s) : s[k] \in S /\ (k # n => s[k] # r)
  OBVIOUS
<1>8. \A i \in 1..Len(u) : u[i] \in S \ {r}
  BY <1>4, <1>7
<1>9. u \in Seq(S \ {r}) /\ Range(u) = {u[i] : i \in 1..Len(u)}
  <2>1. u \in Seq(S \ {r})
    BY <1>3, <1>8
  <2>2. DOMAIN u = 1..Len(u)
    BY <1>3
  <2> QED BY <2>1, <2>2 DEF Range
<1>10. \A x \in S \ {r} : x \in Range(u)
  <2> SUFFICES ASSUME NEW x \in S, x # r PROVE x \in Range(u)
    OBVIOUS
  <2>1. PICK k \in 1..Len(s) : s[k] = x /\ k # n
    BY <1>2
  <2>2. PICK i \in 1..Len(u) : old(i) = k
    BY <1>5, <2>1
  <2> QED BY <1>4, <1>9, <2>1, <2>2
<1>11. Range(u) = S \ {r}
  BY <1>8, <1>9, <1>10
<1>12. \A i, j \in 1..Len(u) : u[i] = u[j] => i = j
  BY <1>4, <1>6
<1> QED BY <1>9, <1>11, <1>12 DEF u

LEMMA InitStored == Init => OrderOK /\ KindsOK /\ active.version \in Nat
<1> SUFFICES ASSUME Init PROVE OrderOK /\ KindsOK /\ active.version \in Nat
  OBVIOUS
<1>1. revs = Range(order) /\ bodies = revs /\ markers = {} /\ active.version \in Nat
  BY DEF Init, revs
<1>2. CASE First = NoDocument
  <2>1. order = << >> /\ Range(order) = {}
    BY <1>2 DEF Init, Range
  <2> QED BY <1>1, <2>1 DEF OrderOK, Listing, KindsOK
<1>3. CASE First # NoDocument
  <2> DEFINE src == Source(First, NoRevision)
             res == Resolved(src, NoRevision)
  <2>1. order = <<src, res>>
    BY <1>3 DEF Init
  <2>2. src.kind \in Kinds /\ res.kind \in Kinds /\ src # res
    BY DEF Source, Resolved, Kinds
  <2> HIDE DEF src, res
  <2>3. Range(order) = {src, res}
    BY <2>1 DEF Range
  <2> QED BY <1>1, <2>1, <2>2, <2>3 DEF OrderOK, Listing, KindsOK
<1> QED BY <1>2, <1>3

\* A step writes the order and the counts together.
LEMMA OrderNext == OrderOK /\ [Next]_vars => OrderOK'
<1> SUFFICES ASSUME OrderOK, [Next]_vars PROVE OrderOK'
  OBVIOUS
<1>1. CASE UNCHANGED <<order, children>>
  BY <1>1 DEF OrderOK, revs
<1>2. ASSUME NEW t \in Tasks, PutMetadata(t) PROVE OrderOK'
  <2> DEFINE r == Revision(t)
  <2>1. CASE r \notin revs /\ order' = Append(order, r) /\ revs' = revs \cup {r}
    <3> HIDE DEF r
    <3> QED BY <2>1, AppendOrder DEF OrderOK
  <2> QED BY <1>1, <1>2, <2>1 DEF PutMetadata, revs
<1>3. ASSUME NEW t \in Tasks, DropMetadata(t) PROVE OrderOK'
  <2> DEFINE r == Head(task[t].todo)
  <2>1. CASE r \in revs /\ order' = RemoveAt(order, Position(r)) /\ revs' = revs \ {r}
    <3> HIDE DEF r
    <3>1. \E i \in 1..Len(order) : order[i] = r
      BY <2>1 DEF OrderOK, Listing, Range
    <3>2. Position(r) \in 1..Len(order) /\ order[Position(r)] = r
      BY <3>1 DEF Position
    <3> DEFINE n == Position(r)
    <3>3. n \in 1..Len(order) /\ order[n] = r /\ order' = RemoveAt(order, n)
      BY <2>1, <3>2
    <3> HIDE DEF n
    <3> QED BY <2>1, <3>3, RemoveOrder DEF OrderOK
  <2> QED BY <1>1, <1>3, <2>1 DEF DropMetadata, revs
<1>4. ASSUME NEW t \in Tasks, ~PutMetadata(t), ~DropMetadata(t),
             PublishNext(t) \/ DiscardNext(t) \/ RetainNext(t) \/ Abort(t)
      PROVE  UNCHANGED <<order, children>>
  <2>1. CASE PublishNext(t)
    BY <1>4, <2>1 DEF PublishNext, Publish, ReadActive, Reserve, Reopen, PutBody, Complete,
                      PublicationFails, RecordFailure, store
  <2>2. CASE DiscardNext(t)
    BY <2>2 DEF DiscardNext, Discard, CreateDiscard, CompareDraft, SwapDraft, CloseDiscard,
                RejectDiscard, store
  <2>3. CASE RetainNext(t)
    BY <1>4, <2>3 DEF RetainNext, Retain, CleanupOrphan, LookUp, CheckActive, AcquireMarker,
                      Purge, Release, store
  <2>4. CASE Abort(t)
    BY <2>4 DEF Abort, store
  <2> QED BY <1>4, <2>1, <2>2, <2>3, <2>4
<1> QED BY <1>1, <1>2, <1>3, <1>4 DEF Next, CallNext, SaveDraft, MoveActive, vars, store

\* What is created has a kind, and what is cleaned was created or found.
LEMMA KindsNext == KindsOK /\ TasksOK /\ [Next]_vars => KindsOK'
<1> SUFFICES ASSUME KindsOK, TasksOK, [Next]_vars PROVE KindsOK'
  OBVIOUS
<1>1. CASE UNCHANGED <<children, bodies, markers>>
  BY <1>1 DEF KindsOK, revs
<1>2. ASSUME NEW r, r.kind \in Kinds,
             revs' \cup bodies' \cup markers' \subseteq revs \cup bodies \cup markers \cup {r}
      PROVE  KindsOK'
  BY <1>2 DEF KindsOK
<1>3. ASSUME NEW t \in Tasks PROVE Revision(t).kind \in Kinds
  BY DEF Revision, SourceRevision, Source, Resolved, Kinds
<1>4. ASSUME NEW t \in Tasks, PutBody(t) \/ PutMetadata(t) PROVE KindsOK'
  <2> DEFINE r == Revision(t)
  <2>1. revs' \cup bodies' \cup markers' \subseteq revs \cup bodies \cup markers \cup {r}
    BY <1>4 DEF PutBody, PutMetadata, revs
  <2> QED BY <1>2, <1>3, <2>1
<1>5. ASSUME NEW t \in Tasks, AcquireMarker(t) PROVE KindsOK'
  <2> DEFINE r == Head(task[t].todo)
  <2>1. r.kind \in Kinds
    BY <1>5 DEF AcquireMarker, TasksOK, TaskOK, Cleaning
  <2>2. revs' \cup bodies' \cup markers' \subseteq revs \cup bodies \cup markers \cup {r}
    BY <1>5 DEF AcquireMarker, revs
  <2> HIDE DEF r
  <2> QED BY <1>2, <2>1, <2>2
<1>6. ASSUME NEW t \in Tasks, DropMetadata(t) \/ Purge(t) \/ Release(t) PROVE KindsOK'
  <2>1. revs' \cup bodies' \cup markers' \subseteq revs \cup bodies \cup markers
    BY <1>6 DEF DropMetadata, Purge, Release, revs
  <2> QED BY <2>1 DEF KindsOK
<1>7. ASSUME NEW t \in Tasks, PublishNext(t) \/ DiscardNext(t) \/ RetainNext(t) \/ Abort(t)
      PROVE  KindsOK'
  <2>1. CASE PublishNext(t)
    BY <1>1, <1>4, <2>1 DEF PublishNext, Publish, ReadActive, Reserve, Reopen, Complete,
                            PublicationFails, RecordFailure, store
  <2>2. CASE DiscardNext(t)
    BY <1>1, <2>2 DEF DiscardNext, Discard, CreateDiscard, CompareDraft, SwapDraft,
                      CloseDiscard, RejectDiscard, store
  <2>3. CASE RetainNext(t)
    BY <1>1, <1>5, <1>6, <2>3 DEF RetainNext, Retain, CleanupOrphan, LookUp, CheckActive, store
  <2>4. CASE Abort(t)
    BY <1>1, <2>4 DEF Abort, store
  <2> QED BY <1>7, <2>1, <2>2, <2>3, <2>4
<1> QED BY <1>1, <1>7 DEF Next, CallNext, SaveDraft, MoveActive, vars, store

(***************************************************************************)
(* Retention and the other steps do not touch the records.                  *)
(***************************************************************************)
\* A call that has no request to keep.
LEMMA BareOK ==
    ASSUME NEW x, NEW D, NEW P, NEW Q, DOMAIN x = DOMAIN Idle, x.key \in Keys \cup {NoKey},
           x.want \in Nat, x.held \in Nat,
           x.pc = "drop" \/ (x.pc = "mark" /\ Head(x.todo).kind \in Kinds)
    PROVE  TaskOK(x, D, P, Q)
  BY DEF TaskOK, Publishing, Writing, Discarding, Holding, Cleaning

LEMMA NextCandidateRecords ==
    ASSUME RecordsOK, TasksOK, UNCHANGED <<drafts, pubs, discs>>, NEW t \in Tasks, NextCandidate(t)
    PROVE  (RecordsOK /\ TasksOK)'
<1> DEFINE todo == Tail(task[t].todo)
           x == [task[t] EXCEPT !.pc = "drop", !.todo = todo]
<1>1. Return(t) \/ SetTask(t, x)
  BY DEF NextCandidate
<1>2. TaskOK(task[t], drafts, pubs, discs)
      /\ {"pc", "key", "want", "held", "todo"} \subseteq DOMAIN Idle
  BY DEF TasksOK, Idle
<1> HIDE DEF todo
<1>3. /\ DOMAIN x = DOMAIN Idle /\ x.pc = "drop" /\ x.key = task[t].key
      /\ x.want = task[t].want /\ x.held = task[t].held
  BY <1>2 DEF TaskOK
<1> HIDE DEF x
<1>4. TaskOK(x, drafts, pubs, discs)
  BY <1>2, <1>3, BareOK DEF TaskOK
<1> QED BY <1>1, <1>4, NothingWritten, TaskMoves, ReturnRecords

LEMMA RetainNextRecords ==
    ASSUME RecordsOK, TasksOK, KindsOK, NEW t \in Tasks, RetainNext(t)
    PROVE  (RecordsOK /\ TasksOK)' /\ RecordsStep
<1> DEFINE r == Head(task[t].todo)
<1>1. UNCHANGED <<drafts, pubs, discs>>
  BY DEF RetainNext, Retain, DropMetadata, CleanupOrphan, LookUp, CheckActive, AcquireMarker,
         Purge, Release
<1>2. RecordsStep /\ drafts' \in Seq(Documents)
  BY <1>1, NothingWritten
<1>3. ASSUME NEW pc \in Cleaning, Goto(t, pc), r.kind \in Kinds PROVE (RecordsOK /\ TasksOK)'
  <2>1. pc \notin Publishing \cup Discarding \cup Writing \cup Holding
        /\ pc \notin {"close", "reject"}
    BY <1>3 DEF Publishing, Discarding, Writing, Holding, Cleaning
  <2> QED BY <1>1, <1>3, <2>1, GotoRecords
<1>4. task[t].pc \in Cleaning => r.kind \in Kinds
  BY DEF TasksOK, TaskOK
<1>5. CASE Retain(t)
  <2> DEFINE todo == Candidates
             x == [Idle EXCEPT !.pc = "drop", !.todo = todo]
  <2>1. SetTask(t, x)
    BY <1>5 DEF Retain
  <2> HIDE DEF todo
  <2>2. DOMAIN x = DOMAIN Idle /\ x.pc = "drop" /\ x.key = NoKey /\ x.want = 0 /\ x.held = 0
    BY DEF Idle
  <2> HIDE DEF x
  <2>3. TaskOK(x, drafts, pubs, discs)
    BY <2>2, BareOK
  <2> QED BY <1>1, <1>2, <2>1, <2>3, TaskMoves
<1>6. ASSUME NEW b \in bodies \cup markers, CleanupOrphan(t, b) PROVE (RecordsOK /\ TasksOK)'
  <2> DEFINE todo == <<b>>
             x == [Idle EXCEPT !.pc = "mark", !.todo = todo]
  <2>1. SetTask(t, x)
    BY <1>6 DEF CleanupOrphan
  <2>2. Head(todo).kind \in Kinds
    BY <1>6 DEF KindsOK
  <2> HIDE DEF todo
  <2>3. /\ DOMAIN x = DOMAIN Idle /\ x.pc = "mark" /\ x.key = NoKey /\ x.want = 0
        /\ x.held = 0 /\ x.todo = todo
    BY DEF Idle
  <2> HIDE DEF x
  <2>4. TaskOK(x, drafts, pubs, discs)
    BY <2>2, <2>3, BareOK
  <2> QED BY <1>1, <1>2, <2>1, <2>4, TaskMoves
<1>7. CASE DropMetadata(t)
  <2>1. Return(t) \/ (Goto(t, "mark") /\ r \in revs)
    BY <1>7 DEF DropMetadata
  <2>2. r \in revs => r.kind \in Kinds
    BY DEF KindsOK
  <2> HIDE DEF r
  <2>3. "mark" \in Cleaning
    BY DEF Cleaning
  <2> QED BY <1>2, <1>3, <2>1, <2>2, <2>3, ReturnRecords
<1>8. CASE LookUp(t) \/ CheckActive(t) \/ AcquireMarker(t) \/ Purge(t) \/ Release(t)
  <2>1. task[t].pc \in Cleaning
    BY <1>8 DEF LookUp, CheckActive, AcquireMarker, Purge, Release, Cleaning
  <2>2. \/ Return(t) \/ NextCandidate(t)
        \/ \E pc \in {"check", "acquire", "purge", "release"} : Goto(t, pc)
    BY <1>8 DEF LookUp, CheckActive, AcquireMarker, Purge, Release
  <2>3. {"check", "acquire", "purge", "release"} \subseteq Cleaning
    BY DEF Cleaning
  <2> HIDE DEF r
  <2> QED BY <1>1, <1>2, <1>3, <1>4, <2>1, <2>2, <2>3, ReturnRecords, NextCandidateRecords
<1> QED BY <1>2, <1>5, <1>6, <1>7, <1>8 DEF RetainNext

\* The draft is saved.
LEMMA SaveDraftRecords ==
    ASSUME RecordsOK, TasksOK, NEW doc \in Documents, SaveDraft(doc)
    PROVE  (RecordsOK /\ TasksOK)' /\ RecordsStep
<1>1. /\ drafts \in Seq(Documents) /\ drafts' = Append(drafts, doc)
      /\ UNCHANGED <<pubs, discs, task>> /\ Len(drafts) \in Nat
  BY DEF SaveDraft, RecordsOK
<1>2. drafts' \in Seq(Documents) /\ Len(drafts') = Len(drafts) + 1 /\ DraftStep(drafts, drafts')
  BY <1>1 DEF DraftStep
<1>3. \A k \in Keys : PubOK(pubs[k], drafts') /\ DiscOK(discs[k], drafts')
  BY <1>1, <1>2 DEF RecordsOK, DraftStep, PubOK, DiscOK
<1>4. RecordsStep
  BY <1>1, <1>2, <1>3 DEF RecordsStep, RecordsOK, RecordStep
<1>5. RecordsOK'
  BY <1>2, <1>4 DEF RecordsOK, RecordsStep
<1>6. \A t \in Tasks : TaskOK(task[t], drafts', pubs', discs')
  <2>1. \A k \in Keys : /\ RecordStep(pubs[k], pubs'[k]) /\ pubs[k].version \in Nat
                        /\ RecordStep(discs[k], discs'[k]) /\ discs[k].version \in Nat
    BY <1>4 DEF RecordsOK, RecordsStep, PubOK, DiscOK
  <2> QED BY <1>1, <1>2, <2>1, TaskStays DEF TasksOK
<1> QED BY <1>1, <1>4, <1>5, <1>6 DEF TasksOK

LEMMA RecordsNext ==
    RecordsOK /\ TasksOK /\ TaskDocs /\ KindsOK /\ [Next]_vars
        => (RecordsOK /\ TasksOK)' /\ RecordsStep
<1> SUFFICES ASSUME RecordsOK, TasksOK, TaskDocs, KindsOK, [Next]_vars
             PROVE  (RecordsOK /\ TasksOK)' /\ RecordsStep
  OBVIOUS
<1>1. CASE UNCHANGED <<drafts, pubs, discs, task>>
  BY <1>1, NothingWritten DEF RecordsOK, TasksOK
<1>2. ASSUME NEW t \in Tasks, Abort(t) PROVE (RecordsOK /\ TasksOK)' /\ RecordsStep
  BY <1>2, NothingWritten, ReturnRecords DEF Abort
<1> QED BY <1>1, <1>2, SaveDraftRecords, PublishNextRecords, DiscardNextRecords, RetainNextRecords
           DEF Next, CallNext, MoveActive, vars

LEMMA InitRecords == Init => RecordsOK /\ TasksOK
<1> SUFFICES ASSUME Init PROVE RecordsOK /\ TasksOK
  OBVIOUS
<1>1. drafts \in Seq(Documents)
  BY PublicationConstants DEF Init
<1>2. PubOK(NoPublication, drafts) /\ DiscOK(NoDiscard, drafts)
  BY DEF PubOK, DiscOK, NoPublication, NoDiscard, States
<1> QED BY <1>1, <1>2, IdleOK DEF Init, RecordsOK, TasksOK

(***************************************************************************)
(* What the records say is true, for good.                                  *)
(***************************************************************************)
Authoring ==
    /\ References /\ DocumentsOK /\ TaskDocs
    /\ OrderOK /\ KindsOK /\ active.version \in Nat
    /\ RecordsOK /\ TasksOK

LEMMA InitAuthoring == Init => Authoring
  BY ReferencesInit, DocumentsInit, InitStored, InitRecords DEF Authoring

LEMMA NextAuthoring == Authoring /\ [Next]_vars => Authoring'
<1> SUFFICES ASSUME Authoring, [Next]_vars PROVE Authoring'
  OBVIOUS
<1>1. active.version' \in Nat
  <2>1. ASSUME NEW r \in revs, MoveActive(r) PROVE active.version' \in Nat
    BY <2>1 DEF MoveActive, Authoring
  <2>2. ASSUME NEW t \in Tasks, PublishNext(t) \/ DiscardNext(t) \/ RetainNext(t) \/ Abort(t)
        PROVE  UNCHANGED active
    BY <2>2, OtherSteps DEF Quiet, PutMetadata, DropMetadata
  <2> QED BY <2>1, <2>2 DEF Next, CallNext, SaveDraft, vars, store, Authoring
<1> QED BY <1>1, ReferencesNext, DocumentsNext, TaskDocsNext, OrderNext, KindsNext, RecordsNext
           DEF Authoring

LEMMA AuthoringIsTrue == Authoring => RecordsAreTrue
<1> SUFFICES ASSUME Authoring PROVE RecordsAreTrue
  OBVIOUS
<1>1. \A r \in revs : children[r] \in Nat
  <2> SUFFICES ASSUME NEW r \in revs PROVE children[r] \in Nat
    OBVIOUS
  <2>1. IsFiniteSet({s \in revs : s.parent = r})
    BY FS_Subset DEF Authoring, References
  <2>2. children[r] = Cardinality({s \in revs : s.parent = r})
    BY DEF Authoring, References, ReferencesHold, CountsAgree
  <2> QED BY <2>1, <2>2, FS_CardinalityType
<1>2. \A k \in Keys : pubs[k].state \in States /\ discs[k].state \in States
  BY DEF Authoring, RecordsOK, PubOK, DiscOK
<1>3. \A t \in Tasks : task[t].key \in Keys \cup {NoKey} /\ task[t].want \in Nat
  BY DEF Authoring, TasksOK, TaskOK
<1>4. TypeOK
  BY <1>1, <1>2, <1>3 DEF TypeOK, Authoring, RecordsOK, OrderOK, Listing, KindsOK, Kinds, References,
                          ReferencesHold
<1>5. AppliedPublishesDraft
  <2> SUFFICES ASSUME NEW k \in Keys, pubs[k].state = "applied"
               PROVE  /\ pubs[k].published.content.content = drafts[pubs[k].want]
                      /\ pubs[k].published.parent = pubs[k].base
                      /\ pubs[k].published.content.parent = SourceOf(pubs[k].base)
    BY DEF AppliedPublishesDraft
  <2>1. /\ pubs[k].doc = drafts[pubs[k].want]
        /\ pubs[k].published = Resolved(Source(pubs[k].doc, SourceOf(pubs[k].base)), pubs[k].base)
    BY DEF Authoring, RecordsOK, PubOK
  <2> QED BY <2>1 DEF Resolved, Source
<1>6. DiscardRestoresActive /\ FailedDiscardWasStale
  BY DEF DiscardRestoresActive, FailedDiscardWasStale, Authoring, RecordsOK, DiscOK
<1> QED BY <1>4, <1>5, <1>6 DEF RecordsAreTrue

\* What the record of a publication or a discard says happened, happened: the revision
\* has the document of the draft version that was asked for, a discard overwrote
\* no edit, and one that failed was stale (ConfigurationPublicationService.publish, discard).
THEOREM RecordsAreAlwaysTrue == Spec => []RecordsAreTrue
  BY InitAuthoring, NextAuthoring, AuthoringIsTrue, PTL DEF Spec

\* A record that is applied is never written again, and a key never stands for another
\* request (update_publication, update_discard).
THEOREM AppliedStaysFinal == Spec => AppliedIsFinal
<1> DEFINE Final == \A k \in Keys : /\ pubs[k].state = "applied" => pubs'[k] = pubs[k]
                                    /\ discs[k].state = "applied" => discs'[k] = discs[k]
                                    /\ pubs[k].state # "none" => Request(pubs'[k]) = Request(pubs[k])
                                    /\ pubs'[k].version >= pubs[k].version
<1>1. Authoring /\ [Next]_vars => [Final]_vars
  <2> SUFFICES ASSUME Authoring, [Next]_vars PROVE Final
    OBVIOUS
  <2> SUFFICES ASSUME NEW k \in Keys
               PROVE  /\ pubs[k].state = "applied" => pubs'[k] = pubs[k]
                      /\ discs[k].state = "applied" => discs'[k] = discs[k]
                      /\ pubs[k].state # "none" => Request(pubs'[k]) = Request(pubs[k])
                      /\ pubs'[k].version >= pubs[k].version
    OBVIOUS
  <2>1. RecordStep(pubs[k], pubs'[k]) /\ RecordStep(discs[k], discs'[k])
    BY RecordsNext DEF Authoring, RecordsStep
  <2>2. pubs[k].version \in Nat
    BY DEF Authoring, RecordsOK, PubOK
  <2> QED BY <2>1, <2>2 DEF RecordStep
<1> HIDE DEF Final
<1>2. Init => Authoring
  BY InitAuthoring
<1>3. Authoring /\ [Next]_vars => Authoring'
  BY NextAuthoring
<1>4. Spec => [][Final]_vars
  BY <1>1, <1>2, <1>3, PTL DEF Spec
<1> QED BY <1>4 DEF AppliedIsFinal, Final
=============================================================================
