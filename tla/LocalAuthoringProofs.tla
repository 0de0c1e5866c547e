------------------------- MODULE LocalAuthoringProofs -------------------------
(***************************************************************************)
(* Proofs about LocalAuthoring, for any workflows, triggers, clients and   *)
(* rights, and for any number of saves, edits by others, failed writes and *)
(* crashes.                                                                *)
(*                                                                         *)
(* The invariant, AuthoringInv, says of a save that nobody disturbs how    *)
(* far it has come (OnItsWay): each workflow the save is about has a file  *)
(* of its own, which holds the old declaration while its operation is      *)
(* pending and the new one from then on.  So the directory is a mix of two *)
(* documents at every moment, and the new document at the end.             *)
(***************************************************************************)
EXTENDS LocalAuthoring, FiniteSetTheorems, TLAPS

-----------------------------------------------------------------------------
(* Reading the directory.                                                  *)

SeenBy  == [version : AllDocuments, active : ClosedDocuments]
Records == {NoRecord} \cup [state : {"pending", "applied", "failed"}, version : AllDocuments]

\* Everything but the save.
Around ==
    /\ files \in [Workflows -> Files] /\ triggers \in [Triggers -> Workflows \cup {Absent}]
    /\ temporary \in BOOLEAN /\ store \in BOOLEAN /\ up \in BOOLEAN /\ disturbed \in BOOLEAN
    /\ aliases \in [Workflows -> Contents \cup {Absent}]
    /\ startup \in ClosedDocuments
    /\ records \in [DiscardKeys -> Records]
    /\ seen \in [Clients -> SeenBy \cup {NotSeen}]

LEMMA SourceDeclares ==
    ASSUME NEW w, Declares(w) # {}
    PROVE  Source(w) \in Declares(w)
  BY DEF Source

\* A declaration read from the directory is one of a file.
LEMMA DeclaredInFile ==
    ASSUME Around, NEW w, NEW x \in Declares(w)
    PROVE  /\ x \in Workflows /\ files[x] # NoFile /\ files[x].wf = w
           /\ w \in Workflows /\ files[x].content \in Contents
<1>1. x \in Workflows /\ files[x] # NoFile /\ files[x].wf = w
  BY DEF Declares, Present
<1> QED BY <1>1 DEF Around, Files

LEMMA OnDiskFields ==
    /\ OnDisk.tr = triggers
    /\ \A w \in Workflows :
         OnDisk.wf[w] = IF Declares(w) = {} THEN Absent ELSE files[Source(w)].content
  BY DEF OnDisk, Document

LEMMA OnDiskIsADocument ==
    ASSUME Around
    PROVE  OnDisk \in AllDocuments
<1> DEFINE content(w) == IF Declares(w) = {} THEN Absent ELSE files[Source(w)].content
<1>1. \A w \in Workflows : content(w) \in Contents \cup {Absent}
  BY SourceDeclares, DeclaredInFile
<1>2. triggers \in [Triggers -> Workflows \cup {Absent}]
  BY DEF Around
<1> HIDE DEF content
<1>3. [w \in Workflows |-> content(w)] \in [Workflows -> Contents \cup {Absent}]
  BY <1>1
<1>4. OnDisk = [wf |-> [w \in Workflows |-> content(w)], tr |-> triggers]
  BY DEF OnDisk, Document, content
<1> QED BY <1>2, <1>3, <1>4 DEF AllDocuments

LEMMA ReadableIsClosed ==
    ASSUME Around, Readable
    PROVE  Loadable /\ OnDisk \in ClosedDocuments
<1>1. Loadable /\ Closed(OnDisk)
  BY DEF Readable, ReadError, BundleError
<1> QED BY <1>1, OnDiskIsADocument DEF ClosedDocuments

LEMMA DeclaresAreFinite ==
    ASSUME NEW w
    PROVE  IsFiniteSet(Declares(w))
<1>1. Declares(w) \in SUBSET Workflows
  BY DEF Declares, Present
<1> QED BY <1>1, FS_Subset, AuthoringAssumption

LEMMA OnlyDeclaration ==
    ASSUME NEW w \in Workflows, Cardinality(Declares(w)) <= 1,
           NEW x \in Declares(w), NEW y \in Declares(w)
    PROVE  x = y
<1> SUFFICES ASSUME x # y PROVE FALSE
  OBVIOUS
<1>1. IsFiniteSet({x}) /\ Cardinality({x}) = 1
  BY FS_Singleton
<1>2. y \notin {x}
  OBVIOUS
<1>3. Cardinality({x} \cup {y}) = Cardinality({x}) + 1
  BY <1>1, <1>2, FS_AddElement
<1>4. {x} \cup {y} \in SUBSET Declares(w)
  OBVIOUS
<1>5. Cardinality({x} \cup {y}) <= Cardinality(Declares(w))
  BY <1>4, DeclaresAreFinite, FS_Subset
<1>6. Cardinality(Declares(w)) \in Nat
  BY DeclaresAreFinite, FS_CardinalityType
<1> QED BY <1>1, <1>3, <1>5, <1>6

\* The loader takes a directory in which no workflow has two declarations.
LEMMA DeclaredOnce ==
    ASSUME Loadable, NEW w \in Workflows, NEW x \in Declares(w), NEW y \in Declares(w)
    PROVE  x = y
  BY OnlyDeclaration DEF Loadable

LEMMA OneDeclarationIsOnce ==
    ASSUME NEW w, NEW x, Declares(w) \subseteq {x}
    PROVE  Cardinality(Declares(w)) <= 1
<1>1. IsFiniteSet({x}) /\ Cardinality({x}) = 1 /\ Declares(w) \in SUBSET {x}
  BY FS_Singleton
<1>2. Cardinality(Declares(w)) <= Cardinality({x})
  BY <1>1, FS_Subset
<1> QED BY <1>1, <1>2

\* A change of one declaration leaves a closed document, unless a trigger starts
\* the workflow that is removed.
LEMMA DocumentChanged ==
    ASSUME NEW doc \in ClosedDocuments, NEW w \in Workflows, NEW content \in Contents \cup {Absent},
           content = Absent => \A t \in Triggers : doc.tr[t] # w
    PROVE  Document([doc.wf EXCEPT ![w] = content], doc.tr) \in ClosedDocuments
<1> DEFINE new == [doc.wf EXCEPT ![w] = content]
<1>1. /\ doc.wf \in [Workflows -> Contents \cup {Absent}] /\ Closed(doc)
      /\ doc.tr \in [Triggers -> Workflows \cup {Absent}]
  BY DEF ClosedDocuments, AllDocuments
<1>2. /\ new \in [Workflows -> Contents \cup {Absent}]
      /\ \A v \in Workflows : new[v] = IF v = w THEN content ELSE doc.wf[v]
  BY <1>1
<1> HIDE DEF new
<1>3. \A t \in Triggers : doc.tr[t] # Absent => new[doc.tr[t]] # Absent
  <2> SUFFICES ASSUME NEW t \in Triggers, doc.tr[t] # Absent PROVE new[doc.tr[t]] # Absent
    OBVIOUS
  <2>1. doc.tr[t] \in Workflows /\ doc.wf[doc.tr[t]] # Absent
    BY <1>1 DEF Closed
  <2> QED BY <1>2, <2>1
<1>4. Document(new, doc.tr) = [wf |-> new, tr |-> doc.tr]
  BY DEF Document
<1>5. Document(new, doc.tr) \in AllDocuments /\ Closed(Document(new, doc.tr))
  BY <1>1, <1>2, <1>3, <1>4 DEF AllDocuments, Closed
<1> QED BY <1>5 DEF ClosedDocuments, new

-----------------------------------------------------------------------------
(* The invariant.                                                          *)

Changing == {"edit", "apply", "discard"}
Saves == [kind : {"create_draft", "update_draft", "import_draft", "update_triggers_fragment",
                  "update_workflow_fragment", "delete_workflow_fragment", "discard"},
          client : Clients, doc : ClosedDocuments, before : ClosedDocuments,
          key : DiscardKeys \cup {Nothing}, todo : SUBSET Ops, path : [Workflows -> Workflows]]

\* What is written is declared by the document, what is unlinked no longer is.
OpsFit(s) ==
    \A w \in Workflows :
      /\ Op("write", w) \in s.todo => s.doc.wf[w] # Absent
      /\ Op("unlink", w) \in s.todo => s.doc.wf[w] = Absent /\ s.before.wf[w] # Absent

SaveFits ==
    /\ save \in Saves \cup {NoSave}
    /\ save # NoSave =>
         /\ OpsFit(save)
         /\ Grants[save.client] \cap Changing # {}
         /\ save.key # Nothing => records[save.key] # NoRecord /\ records[save.key].state = "pending"

Named(s) == {w \in Workflows : s.before.wf[w] # Absent \/ s.doc.wf[w] # Absent}
Pending(s, w) == Op("write", w) \in s.todo \/ Op("unlink", w) \in s.todo
\* What the file of w declares while s is under way.
Now(s, w) == IF Pending(s, w) THEN s.before.wf[w] ELSE s.doc.wf[w]
FileFor(w, content) == IF content = Absent THEN NoFile ELSE [wf |-> w, content |-> content]

\* A save nobody disturbs: each workflow has a file of its own, with the old
\* declaration as long as its operation is pending and the new one from then on.
OnItsWay(s, fs, tr, temp) ==
    /\ \A v, w \in Named(s) : s.path[v] = s.path[w] => v = w
    /\ \A w \in Named(s) : fs[s.path[w]] = FileFor(w, Now(s, w))
    /\ \A x \in Workflows : fs[x] # NoFile => \E w \in Named(s) : s.path[w] = x
    /\ tr = IF TriggersOp \in s.todo THEN s.before.tr ELSE s.doc.tr
    /\ temp => \E o \in s.todo : o.op # "unlink"
    /\ \E w \in Workflows : s.doc.wf[w] # Absent

AuthoringInv ==
    /\ Around /\ PublishedIsValid /\ SaveFits
    /\ save # NoSave /\ ~disturbed => OnItsWay(save, files, triggers, temporary)

LEMMA SaveFields ==
    ASSUME NEW s \in Saves
    PROVE  /\ s # NoSave /\ s.kind # "none" /\ s.client \in Clients
           /\ s.doc \in ClosedDocuments /\ s.before \in ClosedDocuments
           /\ s.key \in DiscardKeys \cup {Nothing} /\ s.todo \subseteq Ops
           /\ s.path \in [Workflows -> Workflows]
  BY DEF Saves, NoSave

LEMMA OpFields ==
    /\ \A v, w : /\ Op("write", v) # Op("unlink", w) /\ Op("write", v) # TriggersOp
                 /\ Op("unlink", v) # TriggersOp
                 /\ Op("write", v) = Op("write", w) => v = w
                 /\ Op("unlink", v) = Op("unlink", w) => v = w
                 /\ Op("write", v).op = "write" /\ Op("unlink", v).op = "unlink"
    /\ TriggersOp.op = "triggers"
    /\ \A o \in Ops : o = TriggersOp \/ \E w \in Workflows : o \in {Op("write", w), Op("unlink", w)}
    /\ \A w \in Workflows : Op("write", w) \in Ops /\ Op("unlink", w) \in Ops
    /\ TriggersOp \in Ops
  BY DEF Op, TriggersOp, Ops

\* What the directory declares during a save nobody disturbs.
LEMMA DirectoryOnItsWay ==
    ASSUME NEW s \in Saves, OnItsWay(s, files, triggers, temporary), Around
    PROVE  /\ \A w \in Workflows : /\ OnDisk.wf[w] = Now(s, w)
                                   /\ Cardinality(Declares(w)) <= 1
           /\ OnDisk.tr \in {s.before.tr, s.doc.tr}
<1>1. ASSUME NEW w \in Workflows
      PROVE  /\ Declares(w) \subseteq {s.path[w]}
             /\ Declares(w) # {} => Now(s, w) # Absent /\ files[s.path[w]].content = Now(s, w)
             /\ Declares(w) = {} => Now(s, w) = Absent
  <2>1. ASSUME NEW x \in Declares(w)
        PROVE  /\ x = s.path[w] /\ Now(s, w) # Absent /\ files[x].content = Now(s, w)
    <3>1. x \in Workflows /\ files[x] # NoFile /\ files[x].wf = w
      BY <2>1 DEF Declares, Present
    <3>2. PICK v \in Named(s) : s.path[v] = x
      BY <3>1 DEF OnItsWay
    <3>3. files[x] = FileFor(v, Now(s, v))
      BY <3>2 DEF OnItsWay
    <3>4. Now(s, v) # Absent /\ files[x] = [wf |-> v, content |-> Now(s, v)]
      BY <3>1, <3>3 DEF FileFor
    <3>5. v = w
      BY <3>1, <3>4
    <3> QED BY <3>2, <3>4, <3>5
  <2>2. ASSUME Now(s, w) # Absent PROVE s.path[w] \in Declares(w)
    <3>1. w \in Named(s)
      BY <2>2 DEF Now, Named
    <3>2. files[s.path[w]] = [wf |-> w, content |-> Now(s, w)]
      BY <2>2, <3>1 DEF OnItsWay, FileFor
    <3>3. w # Absent /\ s.path[w] \in Workflows
      BY AuthoringAssumption, SaveFields
    <3>4. files[s.path[w]] # NoFile
      BY <3>2, <3>3 DEF NoFile
    <3> QED BY <3>2, <3>3, <3>4 DEF Declares, Present
  <2> QED BY <2>1, <2>2
<1>2. \A w \in Workflows : OnDisk.wf[w] = Now(s, w)
  <2> TAKE w \in Workflows
  <2>1. CASE Declares(w) = {}
    BY <1>1, <2>1, OnDiskFields
  <2>2. CASE Declares(w) # {}
    <3>1. Source(w) = s.path[w]
      BY <1>1, <2>2, SourceDeclares
    <3> QED BY <1>1, <2>2, <3>1, OnDiskFields
  <2> QED BY <2>1, <2>2
<1>3. \A w \in Workflows : Cardinality(Declares(w)) <= 1
  BY <1>1, OneDeclarationIsOnce
<1>4. OnDisk.tr \in {s.before.tr, s.doc.tr}
  BY OnDiskFields DEF OnItsWay
<1> QED BY <1>2, <1>3, <1>4

-----------------------------------------------------------------------------
(* A save begins.                                                          *)

LEMMA ChangesAre ==
    ASSUME NEW doc
    PROVE  /\ Persisted(doc) \subseteq Ops
           /\ \A w \in Workflows :
                /\ Op("write", w) \in Persisted(doc) <=> doc.wf[w] # Absent /\ doc.wf[w] # OnDisk.wf[w]
                /\ Op("unlink", w) \in Persisted(doc) <=> doc.wf[w] = Absent /\ OnDisk.wf[w] # Absent
           /\ TriggersOp \in Persisted(doc) <=> doc.tr # OnDisk.tr
  BY OpFields DEF Persisted, Changed, Removed, TriggerWrite

LEMMA PathsBegin ==
    ASSUME Around, Loadable, NEW doc, ~Clash(doc), NEW p,
           p = [w \in Workflows |-> WorkflowPath(w)]
    PROVE  /\ p \in [Workflows -> Workflows]
           /\ \A v, w \in Workflows :
                /\ OnDisk.wf[v] # Absent \/ doc.wf[v] # Absent
                /\ OnDisk.wf[w] # Absent \/ doc.wf[w] # Absent
                => (p[v] = p[w] => v = w)
           /\ \A w \in Workflows : OnDisk.wf[w] # Absent \/ doc.wf[w] # Absent =>
                files[p[w]] = FileFor(w, OnDisk.wf[w])
           /\ \A x \in Present : OnDisk.wf[files[x].wf] # Absent /\ p[files[x].wf] = x
<1>1. ASSUME NEW w \in Workflows, Declares(w) # {}
      PROVE  /\ p[w] \in Declares(w) /\ files[p[w]].wf = w /\ p[w] \in Present
             /\ OnDisk.wf[w] = files[p[w]].content /\ OnDisk.wf[w] # Absent
             /\ files[p[w]] = [wf |-> w, content |-> files[p[w]].content]
  <2>1. p[w] = Source(w) /\ Source(w) \in Declares(w)
    BY <1>1, SourceDeclares DEF WorkflowPath
  <2>2. /\ p[w] \in Workflows /\ files[p[w]] # NoFile /\ files[p[w]].wf = w
        /\ files[p[w]].content \in Contents
    BY <2>1, DeclaredInFile
  <2>3. files[p[w]] = [wf |-> w, content |-> files[p[w]].content]
    BY <2>2 DEF Around, Files
  <2>4. OnDisk.wf[w] = files[p[w]].content
    BY <1>1, <2>1, OnDiskFields
  <2> QED BY <2>1, <2>2, <2>3, <2>4, AuthoringAssumption DEF Present
<1>2. ASSUME NEW w \in Workflows, Declares(w) = {}
      PROVE  p[w] = w /\ OnDisk.wf[w] = Absent
  BY <1>2, OnDiskFields DEF WorkflowPath
<1>3. ASSUME NEW w \in Workflows, Declares(w) = {}, doc.wf[w] # Absent
      PROVE  w \notin Present
  BY <1>2, <1>3 DEF Clash, Changed
<1>4. p \in [Workflows -> Workflows]
  <2>1. \A w \in Workflows : p[w] \in Workflows
    BY <1>1, <1>2, DeclaredInFile
  <2> QED BY <2>1
<1>5. ASSUME NEW v \in Workflows, NEW w \in Workflows, p[v] = p[w],
             OnDisk.wf[v] # Absent \/ doc.wf[v] # Absent, OnDisk.wf[w] # Absent \/ doc.wf[w] # Absent
      PROVE  v = w
  <2>1. CASE Declares(v) # {} /\ Declares(w) # {}
    <3>1. files[p[v]].wf = v /\ files[p[w]].wf = w
      BY <1>1, <2>1
    <3> QED BY <1>5, <3>1
  <2>2. CASE Declares(v) = {} /\ Declares(w) = {}
    BY <1>2, <1>5, <2>2
  <2>3. CASE Declares(v) # {} /\ Declares(w) = {}
    <3>1. p[v] \in Present /\ p[w] \notin Present
      BY <1>1, <1>2, <1>3, <1>5, <2>3
    <3> QED BY <1>5, <3>1
  <2>4. CASE Declares(v) = {} /\ Declares(w) # {}
    <3>1. p[w] \in Present /\ p[v] \notin Present
      BY <1>1, <1>2, <1>3, <1>5, <2>4
    <3> QED BY <1>5, <3>1
  <2> QED BY <2>1, <2>2, <2>3, <2>4
<1>6. ASSUME NEW w \in Workflows, OnDisk.wf[w] # Absent \/ doc.wf[w] # Absent
      PROVE  files[p[w]] = FileFor(w, OnDisk.wf[w])
  <2>1. CASE Declares(w) # {}
    BY <1>1, <2>1 DEF FileFor
  <2>2. CASE Declares(w) = {}
    BY <1>2, <1>3, <1>6, <2>2 DEF FileFor, Present
  <2> QED BY <2>1, <2>2
<1>7. ASSUME NEW x \in Present
      PROVE  OnDisk.wf[files[x].wf] # Absent /\ p[files[x].wf] = x
  <2> DEFINE w == files[x].wf
  <2>1. x \in Declares(w) /\ w \in Workflows
    BY DeclaredInFile DEF Declares
  <2>2. p[w] \in Declares(w) /\ OnDisk.wf[w] # Absent
    BY <1>1, <2>1
  <2> QED BY <2>1, <2>2, DeclaredOnce
<1> QED BY <1>4, <1>5, <1>6, <1>7

LEMMA BeginStep ==
    ASSUME AuthoringInv, Readable, NEW c \in Clients, NEW kind, NEW key \in DiscardKeys \cup {Nothing},
           kind \in {"create_draft", "update_draft", "import_draft", "update_triggers_fragment",
                     "update_workflow_fragment", "delete_workflow_fragment", "discard"},
           Grants[c] \cap Changing # {}, NEW doc \in ClosedDocuments, BeginSave(c, kind, doc, key),
           records' \in [DiscardKeys -> Records],
           key # Nothing => records'[key] # NoRecord /\ records'[key].state = "pending"
    PROVE  AuthoringInv'
<1> DEFINE p == [w \in Workflows |-> WorkflowPath(w)]
           s == [kind |-> kind, client |-> c, doc |-> doc, before |-> OnDisk, key |-> key,
                 todo |-> Persisted(doc), path |-> p]
<1>1. /\ save' = s
      /\ disturbed' = (disturbed \/ Clash(doc) \/ \A w \in Workflows : doc.wf[w] = Absent)
      /\ UNCHANGED <<files, triggers, temporary, store, aliases, up, startup, seen>>
  BY DEF BeginSave, directoryVars
<1>2. Around /\ PublishedIsValid /\ Loadable /\ OnDisk \in ClosedDocuments
  BY ReadableIsClosed DEF AuthoringInv
<1>3. p \in [Workflows -> Workflows]
  <2>1. \A w \in Workflows : WorkflowPath(w) \in Workflows
    BY <1>2, SourceDeclares, DeclaredInFile DEF WorkflowPath
  <2> QED BY <2>1
<1>4. /\ s.kind = kind /\ s.client = c /\ s.doc = doc /\ s.before = OnDisk /\ s.key = key
      /\ s.todo = Persisted(doc) /\ s.path = p
  OBVIOUS
<1>5. s \in Saves
  BY <1>2, <1>3, ChangesAre DEF Saves
<1>6. SaveFits'
  <2>1. OpsFit(s)
    BY <1>4, ChangesAre DEF OpsFit
  <2> HIDE DEF s
  <2> QED BY <1>1, <1>4, <1>5, <2>1 DEF SaveFits
<1>7. Around' /\ PublishedIsValid'
  BY <1>1, <1>2 DEF Around, PublishedIsValid
<1>8. ASSUME ~disturbed' PROVE OnItsWay(s, files, triggers, temporary)
  <2> HIDE DEF p, s
  <2>1. ~Clash(doc) /\ \E w \in Workflows : doc.wf[w] # Absent
    BY <1>1, <1>8
  <2>2. \A w \in Workflows : Now(s, w) = OnDisk.wf[w]
    BY <1>4, ChangesAre DEF Now, Pending
  <2>3. \A w : w \in Named(s) <=> w \in Workflows /\ (OnDisk.wf[w] # Absent \/ doc.wf[w] # Absent)
    BY <1>4 DEF Named
  <2>4. /\ \A v, w \in Named(s) : p[v] = p[w] => v = w
        /\ \A w \in Named(s) : files[p[w]] = FileFor(w, Now(s, w))
    BY <1>2, <2>1, <2>2, <2>3, PathsBegin DEF p
  <2>5. \A x \in Workflows : files[x] # NoFile => \E w \in Named(s) : p[w] = x
    <3> SUFFICES ASSUME NEW x \in Workflows, files[x] # NoFile PROVE \E w \in Named(s) : p[w] = x
      OBVIOUS
    <3>0. x \in Present
      BY DEF Present
    <3>1. OnDisk.wf[files[x].wf] # Absent /\ p[files[x].wf] = x
      BY <1>2, <2>1, <3>0, PathsBegin DEF p
    <3>2. files[x].wf \in Workflows
      BY <1>2, <3>0, DeclaredInFile DEF Declares
    <3> QED BY <2>3, <3>1, <3>2
  <2>7. triggers = IF TriggersOp \in s.todo THEN s.before.tr ELSE s.doc.tr
    BY <1>4, ChangesAre, OnDiskFields
  <2>8. ~temporary
    BY <1>2 DEF Loadable
  <2> QED BY <1>4, <2>1, <2>4, <2>5, <2>7, <2>8 DEF OnItsWay
<1>9. save' # NoSave /\ ~disturbed' => OnItsWay(save', files', triggers', temporary')
  BY <1>1, <1>8
<1> QED BY <1>6, <1>7, <1>9 DEF AuthoringInv

-----------------------------------------------------------------------------
(* The steps of a save.                                                    *)

LEMMA QuietStep ==
    ASSUME AuthoringInv, Around', PublishedIsValid',
           UNCHANGED <<files, triggers, temporary, save, disturbed>>,
           save # NoSave => UNCHANGED records
    PROVE  AuthoringInv'
<1>1. SaveFits'
  BY DEF AuthoringInv, SaveFits
<1>2. save' # NoSave /\ ~disturbed' => OnItsWay(save', files', triggers', temporary')
  BY DEF AuthoringInv
<1> QED BY <1>1, <1>2 DEF AuthoringInv

LEMMA EndStep ==
    ASSUME Around', PublishedIsValid', save' = NoSave
    PROVE  AuthoringInv'
  BY DEF AuthoringInv, SaveFits

\* An operation done: the save goes on with the others.
LEMMA OperationDone ==
    ASSUME AuthoringInv, NEW o \in Ops, Doing(o), OpDone(o), InSave,
           Around',
           ~disturbed => OnItsWay(save', files', triggers', temporary')
    PROVE  AuthoringInv'
<1>1. save \in Saves /\ save # NoSave /\ OpsFit(save)
  BY DEF AuthoringInv, SaveFits, Doing
<1>2. save' \in Saves /\ save'.client = save.client /\ save'.key = save.key /\ OpsFit(save')
  <2>1. /\ save' \in Saves /\ save'.client = save.client /\ save'.key = save.key
        /\ save'.todo = save.todo \ {o} /\ save'.doc = save.doc /\ save'.before = save.before
    BY <1>1 DEF OpDone, Saves
  <2> QED BY <1>1, <2>1 DEF OpsFit
<1>3. UNCHANGED <<records, disturbed, aliases>>
  BY DEF InSave, processVars
<1>4. SaveFits'
  BY <1>1, <1>2, <1>3 DEF AuthoringInv, SaveFits
<1>5. PublishedIsValid'
  BY <1>3 DEF AuthoringInv, PublishedIsValid
<1> QED BY <1>3, <1>4, <1>5 DEF AuthoringInv

LEMMA SaveLeft ==
    ASSUME NEW s \in Saves, NEW o \in Ops, NEW t, t = [s EXCEPT !.todo = @ \ {o}]
    PROVE  /\ t.todo = s.todo \ {o} /\ t.doc = s.doc /\ t.before = s.before /\ t.path = s.path
           /\ Named(t) = Named(s)
           /\ \A w \in Workflows :
                Now(t, w) = IF o \in {Op("write", w), Op("unlink", w)} /\ ~Pending(t, w)
                            THEN s.doc.wf[w] ELSE Now(s, w)
<1>1. t.todo = s.todo \ {o} /\ t.doc = s.doc /\ t.before = s.before /\ t.path = s.path
  BY DEF Saves
<1>2. Named(t) = Named(s)
  BY <1>1 DEF Named
<1> QED BY <1>1, <1>2 DEF Now, Pending

LEMMA AroundInSave ==
    ASSUME Around, InSave, files' \in [Workflows -> Files],
           triggers' \in [Triggers -> Workflows \cup {Absent}], temporary' \in BOOLEAN
    PROVE  Around'
<1>1. UNCHANGED <<store, aliases, up, startup, records, seen, disturbed>>
  BY DEF InSave, processVars
<1> QED BY <1>1 DEF Around

\* The file of one workflow, written or unlinked.
LEMMA FileDone ==
    ASSUME NEW s \in Saves, NEW w \in Workflows, NEW o \in {Op("write", w), Op("unlink", w)},
           o \in s.todo, OpsFit(s), Around, NEW temp, NEW fs, NEW t,
           OnItsWay(s, files, triggers, temporary),
           fs = [files EXCEPT ![s.path[w]] = FileFor(w, s.doc.wf[w])],
           t = [s EXCEPT !.todo = @ \ {o}],
           temp => temporary /\ o.op = "unlink"
    PROVE  OnItsWay(t, fs, triggers, temp)
<1>1. /\ t.todo = s.todo \ {o} /\ t.doc = s.doc /\ t.before = s.before /\ t.path = s.path
      /\ Named(t) = Named(s) /\ o \in Ops
  BY SaveLeft, OpFields
<1>2. /\ w \in Named(s) /\ ~Pending(t, w)
  BY <1>1, OpFields DEF OpsFit, Named, Pending
<1>3. Now(t, w) = s.doc.wf[w]
  BY <1>1, <1>2 DEF Now
<1>4. \A v \in Workflows : v # w => Now(t, v) = Now(s, v)
  <2> SUFFICES ASSUME NEW v \in Workflows, v # w PROVE Now(t, v) = Now(s, v)
    OBVIOUS
  <2>1. o \notin {Op("write", v), Op("unlink", v)}
    BY OpFields
  <2> QED BY <1>1, <2>1 DEF Now, Pending
<1>5. /\ files \in [Workflows -> Files] /\ s.path[w] \in Workflows
      /\ fs[s.path[w]] = FileFor(w, s.doc.wf[w])
      /\ \A x \in Workflows : x # s.path[w] => fs[x] = files[x]
  BY SaveFields DEF Around
<1>6. \A v \in Named(t) : fs[t.path[v]] = FileFor(v, Now(t, v))
  <2> SUFFICES ASSUME NEW v \in Named(s), v # w PROVE fs[s.path[v]] = FileFor(v, Now(s, v))
    BY <1>1, <1>3, <1>4, <1>5 DEF Named
  <2>1. s.path[v] # s.path[w] /\ s.path[v] \in Workflows /\ v \in Workflows
    BY <1>2, SaveFields DEF OnItsWay, Named
  <2> QED BY <1>5, <2>1 DEF OnItsWay
<1>7. \A x \in Workflows : fs[x] # NoFile => \E v \in Named(t) : t.path[v] = x
  <2> SUFFICES ASSUME NEW x \in Workflows, fs[x] # NoFile PROVE \E v \in Named(s) : s.path[v] = x
    BY <1>1
  <2>1. CASE x = s.path[w]
    BY <1>2, <2>1
  <2>2. CASE x # s.path[w]
    BY <1>5, <2>2 DEF OnItsWay
  <2> QED BY <2>1, <2>2
<1>8. TriggersOp \in t.todo <=> TriggersOp \in s.todo
  BY <1>1, OpFields
<1>9. temp => \E q \in t.todo : q.op # "unlink"
  BY <1>1 DEF OnItsWay
<1>10. /\ \A u, v \in Named(t) : t.path[u] = t.path[v] => u = v
       /\ triggers = IF TriggersOp \in t.todo THEN t.before.tr ELSE t.doc.tr
       /\ \E v \in Workflows : t.doc.wf[v] # Absent
  BY <1>1, <1>8 DEF OnItsWay
<1> QED BY <1>6, <1>7, <1>9, <1>10 DEF OnItsWay

LEMMA MakeTemporaryStep ==
    ASSUME AuthoringInv, MakeTemporary
    PROVE  AuthoringInv'
<1>1. PICK o \in Ops : /\ Doing(o) /\ o.op # "unlink"
                       /\ temporary' = TRUE
                       /\ UNCHANGED <<files, triggers, save>> /\ InSave
  BY DEF MakeTemporary
<1>2. Around' /\ UNCHANGED <<aliases, records, disturbed>>
  BY <1>1, AroundInSave DEF AuthoringInv, Around, InSave, processVars
<1>3. PublishedIsValid' /\ SaveFits'
  BY <1>1, <1>2 DEF AuthoringInv, PublishedIsValid, SaveFits
<1>4. save' # NoSave /\ ~disturbed' => OnItsWay(save', files', triggers', temporary')
  <2> SUFFICES ASSUME save # NoSave, ~disturbed PROVE OnItsWay(save, files, triggers, TRUE)
    BY <1>1, <1>2
  <2>1. OnItsWay(save, files, triggers, temporary) /\ o \in save.todo
    BY <1>1 DEF AuthoringInv, Doing
  <2> QED BY <1>1, <2>1 DEF OnItsWay
<1> QED BY <1>2, <1>3, <1>4 DEF AuthoringInv

LEMMA ReplaceWorkflowStep ==
    ASSUME AuthoringInv, ReplaceWorkflow
    PROVE  AuthoringInv'
<1>1. PICK w \in Workflows :
        /\ Doing(Op("write", w)) /\ temporary
        /\ files' = [files EXCEPT ![save.path[w]] = [wf |-> w, content |-> save.doc.wf[w]]]
        /\ temporary' = FALSE /\ OpDone(Op("write", w))
        /\ UNCHANGED triggers /\ InSave
  BY DEF ReplaceWorkflow
<1> DEFINE o == Op("write", w)
<1>2. save # NoSave /\ o \in save.todo /\ o \in Ops /\ save \in Saves
  BY <1>1, OpFields DEF Doing, AuthoringInv, SaveFits
<1>3. /\ save.path[w] \in Workflows /\ save.doc.wf[w] \in Contents \cup {Absent}
      /\ save.doc.wf[w] # Absent /\ OpsFit(save)
  BY <1>2, SaveFields DEF ClosedDocuments, AllDocuments, AuthoringInv, SaveFits, OpsFit
<1>4. files' = [files EXCEPT ![save.path[w]] = FileFor(w, save.doc.wf[w])]
  BY <1>1, <1>3 DEF FileFor
<1>5. Around'
  <2>1. FileFor(w, save.doc.wf[w]) \in Files
    BY <1>3 DEF FileFor, Files
  <2>2. files' \in [Workflows -> Files] /\ UNCHANGED triggers /\ temporary' \in BOOLEAN
    BY <1>1, <1>3, <1>4, <2>1 DEF AuthoringInv, Around
  <2> QED BY <1>1, <2>2, AroundInSave DEF AuthoringInv, Around
<1>6. ~disturbed => OnItsWay(save', files', triggers', temporary')
  <2> SUFFICES ASSUME ~disturbed PROVE OnItsWay(save', files', triggers, FALSE)
    BY <1>1
  <2>1. save' = [save EXCEPT !.todo = @ \ {o}]
    BY <1>1 DEF OpDone
  <2>2. OnItsWay(save, files, triggers, temporary) /\ Around
    BY <1>2 DEF AuthoringInv
  <2>3. \A temp, fs, t :
           /\ fs = [files EXCEPT ![save.path[w]] = FileFor(w, save.doc.wf[w])]
           /\ t = [save EXCEPT !.todo = @ \ {o}] /\ (temp => temporary /\ o.op = "unlink")
           => OnItsWay(t, fs, triggers, temp)
    BY <1>2, <1>3, <2>2, FileDone
  <2> QED BY <1>2, <1>4, <2>1, <2>3
<1> QED BY <1>1, <1>2, <1>5, <1>6, OperationDone

LEMMA UnlinkWorkflowStep ==
    ASSUME AuthoringInv, UnlinkWorkflow
    PROVE  AuthoringInv'
<1>1. PICK w \in Workflows :
        /\ Doing(Op("unlink", w))
        /\ files' = [files EXCEPT ![save.path[w]] = NoFile]
        /\ OpDone(Op("unlink", w))
        /\ UNCHANGED <<triggers, temporary>> /\ InSave
  BY DEF UnlinkWorkflow
<1> DEFINE o == Op("unlink", w)
<1>2. save # NoSave /\ o \in save.todo /\ o \in Ops /\ save \in Saves /\ o.op = "unlink"
  BY <1>1, OpFields DEF Doing, AuthoringInv, SaveFits
<1>3. save.path[w] \in Workflows /\ save.doc.wf[w] = Absent /\ OpsFit(save)
  BY <1>2, SaveFields DEF AuthoringInv, SaveFits, OpsFit
<1>4. files' = [files EXCEPT ![save.path[w]] = FileFor(w, save.doc.wf[w])]
  BY <1>1, <1>3 DEF FileFor
<1>5. Around'
  <2>1. files' \in [Workflows -> Files]
    BY <1>1, <1>3 DEF AuthoringInv, Around, Files
  <2> QED BY <1>1, <2>1, AroundInSave DEF AuthoringInv, Around
<1>6. ~disturbed => OnItsWay(save', files', triggers', temporary')
  <2> SUFFICES ASSUME ~disturbed PROVE OnItsWay(save', files', triggers, temporary)
    BY <1>1
  <2>1. save' = [save EXCEPT !.todo = @ \ {o}]
    BY <1>1 DEF OpDone
  <2>2. OnItsWay(save, files, triggers, temporary) /\ Around
    BY <1>2 DEF AuthoringInv
  <2>3. \A temp, fs, t :
           /\ fs = [files EXCEPT ![save.path[w]] = FileFor(w, save.doc.wf[w])]
           /\ t = [save EXCEPT !.todo = @ \ {o}] /\ (temp => temporary /\ o.op = "unlink")
           => OnItsWay(t, fs, triggers, temp)
    BY <1>2, <1>3, <2>2, FileDone
  <2> QED BY <1>2, <1>4, <2>1, <2>3
<1> QED BY <1>1, <1>2, <1>5, <1>6, OperationDone

LEMMA ReplaceTriggersStep ==
    ASSUME AuthoringInv, ReplaceTriggers
    PROVE  AuthoringInv'
<1>1. /\ Doing(TriggersOp) /\ OpDone(TriggersOp) /\ InSave
      /\ triggers' = save.doc.tr /\ temporary' = FALSE /\ UNCHANGED files
  BY DEF ReplaceTriggers
<1>2. save # NoSave /\ TriggersOp \in save.todo /\ TriggersOp \in Ops /\ save \in Saves
  BY <1>1, OpFields DEF Doing, AuthoringInv, SaveFits
<1>3. Around'
  <2>1. save.doc.tr \in [Triggers -> Workflows \cup {Absent}]
    BY <1>2, SaveFields DEF ClosedDocuments, AllDocuments
  <2> QED BY <1>1, <2>1, AroundInSave DEF AuthoringInv, Around
<1>4. ~disturbed => OnItsWay(save', files', triggers', temporary')
  <2> SUFFICES ASSUME ~disturbed PROVE OnItsWay(save', files, save.doc.tr, FALSE)
    BY <1>1
  <2>1. save' = [save EXCEPT !.todo = @ \ {TriggersOp}]
    BY <1>1 DEF OpDone
  <2>2. OnItsWay(save, files, triggers, temporary)
    BY <1>2 DEF AuthoringInv
  <2>3. /\ save'.todo = save.todo \ {TriggersOp} /\ save'.doc = save.doc
        /\ save'.path = save.path /\ Named(save') = Named(save)
    BY <1>2, <2>1, SaveLeft
  <2>4. \A w \in Workflows : Now(save', w) = Now(save, w)
    <3> TAKE w \in Workflows
    <3>1. TriggersOp \notin {Op("write", w), Op("unlink", w)}
      BY OpFields
    <3> QED BY <1>2, <2>1, <3>1, SaveLeft
  <2> QED BY <2>2, <2>3, <2>4 DEF OnItsWay, Named
<1> QED BY <1>1, <1>2, <1>3, <1>4, OperationDone

-----------------------------------------------------------------------------
(* How a save ends, and what happens around it.                            *)

LEMMA LearnsFits ==
    ASSUME Around, NEW c \in Clients, NEW doc \in AllDocuments, Learns(c, doc)
    PROVE  seen' \in [Clients -> SeenBy \cup {NotSeen}]
<1>1. [version |-> doc, active |-> startup] \in SeenBy
  BY DEF Around, SeenBy
<1> QED BY <1>1 DEF Learns, Around

LEMMA RecordEnds ==
    ASSUME NEW r \in Records, r # NoRecord
    PROVE  /\ [r EXCEPT !.state = "applied"] \in Records
           /\ [r EXCEPT !.state = "applied"].state = "applied"
           /\ [r EXCEPT !.state = "applied"].version = r.version
  BY DEF Records, NoRecord

\* The record of a discard is the one its save was begun for.
LEMMA AnsweredRecords ==
    ASSUME AuthoringInv, save # NoSave, SaveAnswered
    PROVE  /\ records' \in [DiscardKeys -> Records]
           /\ \A k \in DiscardKeys :
                \/ records'[k] = records[k]
                \/ /\ save.key = k /\ records[k].state = "pending"
                   /\ records'[k].state = "applied" /\ records'[k].version = records[k].version
<1>1. save \in Saves /\ records \in [DiscardKeys -> Records]
  BY DEF AuthoringInv, SaveFits, Around
<1>2. CASE save.key = Nothing
  BY <1>1, <1>2 DEF SaveAnswered
<1>3. CASE save.key # Nothing
  <2> DEFINE k == save.key
             r == [records[k] EXCEPT !.state = "applied"]
  <2>1. k \in DiscardKeys
    BY <1>1, <1>3, SaveFields
  <2>2. /\ records[k] \in Records /\ records[k] # NoRecord /\ records[k].state = "pending"
    BY <1>1, <1>3, <2>1 DEF AuthoringInv, SaveFits
  <2>3. r \in Records /\ r.state = "applied" /\ r.version = records[k].version
    BY <2>2, RecordEnds
  <2>4. records' = [records EXCEPT ![k] = r]
    BY <1>3 DEF SaveAnswered
  <2> HIDE DEF r, k
  <2>5. records' \in [DiscardKeys -> Records] /\ records'[k] = r
    BY <1>1, <2>1, <2>3, <2>4
  <2>6. \A j \in DiscardKeys : j # k => records'[j] = records[j]
    BY <1>1, <2>4
  <2>7. save.key = k
    BY DEF k
  <2> QED BY <2>2, <2>3, <2>5, <2>6, <2>7
<1> QED BY <1>2, <1>3

LEMMA FinishSaveStep ==
    ASSUME AuthoringInv, FinishSave
    PROVE  AuthoringInv'
<1>1. save # NoSave /\ save \in Saves /\ save' = NoSave
  BY DEF FinishSave, AuthoringInv, SaveFits, SaveAnswered
<1>2. save.client \in Clients /\ save.doc \in AllDocuments
  BY <1>1, SaveFields DEF ClosedDocuments
<1>3. Around /\ PublishedIsValid
  BY DEF AuthoringInv
<1>4. ASSUME SaveAnswered
      PROVE  /\ UNCHANGED <<files, triggers, temporary, store, up, startup, disturbed>>
             /\ records' \in [DiscardKeys -> Records]
             /\ seen' \in [Clients -> SeenBy \cup {NotSeen}]
  BY <1>1, <1>2, <1>3, <1>4, AnsweredRecords, LearnsFits DEF SaveAnswered, directoryVars
<1>5. CASE SaveAnswered /\ MayPublish(save.doc) /\ Publish(save.doc)
  <2>1. aliases' = save.doc.wf /\ ValidDocument(save.doc)
    BY <1>5 DEF Publish, MayPublish
  <2>2. PublishedIsValid' /\ aliases' \in [Workflows -> Contents \cup {Absent}]
    BY <1>2, <2>1 DEF PublishedIsValid, ValidDocument, AllDocuments
  <2>3. Around'
    BY <1>3, <1>4, <1>5, <2>2 DEF Around
  <2> QED BY <1>1, <2>2, <2>3, EndStep
<1>6. CASE SaveAnswered /\ UNCHANGED aliases
  <2>1. Around' /\ PublishedIsValid'
    BY <1>3, <1>4, <1>6 DEF Around, PublishedIsValid
  <2> QED BY <1>1, <2>1, EndStep
<1>7. CASE UNCHANGED <<directoryVars, store, aliases, processVars, seen, disturbed, saves, faults>>
  <2>1. Around' /\ PublishedIsValid'
    BY <1>3, <1>7 DEF Around, PublishedIsValid, directoryVars, processVars
  <2> QED BY <1>1, <2>1, EndStep
<1> QED BY <1>5, <1>6, <1>7 DEF FinishSave

LEMMA SaveFailsStep ==
    ASSUME AuthoringInv, SaveFails
    PROVE  AuthoringInv'
<1>1. /\ save' = NoSave /\ temporary' = FALSE /\ disturbed' = TRUE
      /\ UNCHANGED <<files, triggers, store, aliases, up, startup, records, seen>>
  BY DEF SaveFails, processVars
<1>2. Around' /\ PublishedIsValid'
  BY <1>1 DEF AuthoringInv, Around, PublishedIsValid
<1> QED BY <1>1, <1>2, EndStep

LEMMA CrashStep ==
    ASSUME AuthoringInv, Crash
    PROVE  AuthoringInv'
<1>1. /\ save' = NoSave /\ up' = FALSE
      /\ UNCHANGED <<files, triggers, temporary, store, aliases, startup, seen>>
  BY DEF Crash, directoryVars
<1>2. records' \in [DiscardKeys -> Records] /\ disturbed' \in BOOLEAN
  BY DEF Crash, Records, AuthoringInv, Around
<1>3. Around' /\ PublishedIsValid'
  BY <1>1, <1>2 DEF AuthoringInv, Around, PublishedIsValid
<1> QED BY <1>1, <1>3, EndStep

LEMMA RestartStep ==
    ASSUME AuthoringInv, Restart
    PROVE  AuthoringInv'
<1>1. /\ up' = TRUE /\ startup' = OnDisk /\ Readable
      /\ UNCHANGED <<files, triggers, temporary, store, aliases, records, save, seen, disturbed>>
  BY DEF Restart, directoryVars
<1>2. Around
  BY DEF AuthoringInv
<1>3. startup' \in ClosedDocuments
  BY <1>1, <1>2, ReadableIsClosed
<1>4. Around' /\ PublishedIsValid'
  BY <1>1, <1>2, <1>3 DEF AuthoringInv, Around, PublishedIsValid
<1> QED BY <1>1, <1>4, QuietStep

LEMMA EditStep ==
    ASSUME AuthoringInv, Edit
    PROVE  AuthoringInv'
<1>1. /\ disturbed' = TRUE
      /\ UNCHANGED <<temporary, store, aliases, up, startup, records, save, seen>>
  BY DEF Edit, processVars
<1>2. /\ files' \in [Workflows -> Files]
      /\ triggers' \in [Triggers -> Workflows \cup {Absent}]
  <2>1. /\ files \in [Workflows -> Files] /\ NoFile \in Files
        /\ triggers \in [Triggers -> Workflows \cup {Absent}]
    BY DEF AuthoringInv, Around, Files
  <2>2. ASSUME NEW x \in Edited,
               files' = [files EXCEPT ![x.file] = [wf |-> x.wf, content |-> x.content]]
        PROVE  files' \in [Workflows -> Files]
    <3>1. [wf |-> x.wf, content |-> x.content] \in Files /\ x.file \in Workflows
      BY AuthoringAssumption DEF Files
    <3> QED BY <2>1, <2>2, <3>1
  <2>3. ASSUME NEW x \in Present, files' = [files EXCEPT ![x] = NoFile]
        PROVE  files' \in [Workflows -> Files]
    BY <2>1, <2>3
  <2> QED BY <2>1, <2>2, <2>3 DEF Edit
<1>3. Around' /\ PublishedIsValid'
  BY <1>1, <1>2 DEF AuthoringInv, Around, PublishedIsValid
<1>4. SaveFits'
  BY <1>1 DEF AuthoringInv, SaveFits
<1> QED BY <1>1, <1>3, <1>4 DEF AuthoringInv

LEMMA ClearTemporaryStep ==
    ASSUME AuthoringInv, ClearTemporary
    PROVE  AuthoringInv'
<1>1. /\ save' = NoSave /\ temporary' = FALSE
      /\ UNCHANGED <<files, triggers, store, aliases, up, startup, records, seen, disturbed>>
  BY DEF ClearTemporary, processVars
<1>2. Around' /\ PublishedIsValid'
  BY <1>1 DEF AuthoringInv, Around, PublishedIsValid
<1> QED BY <1>1, <1>2, EndStep

-----------------------------------------------------------------------------
(* Requests.                                                               *)

EditKinds == {"create_draft", "update_draft", "import_draft", "update_triggers_fragment",
              "update_workflow_fragment", "delete_workflow_fragment"}

LEMMA MayChange ==
    ASSUME NEW c \in Clients, NEW kind \in EditKinds \cup {"discard"}, Request(c, kind)
    PROVE  Grants[c] \cap Changing # {} /\ save = NoSave
<1>1. RouteAction(kind) \in Changing
  BY DEF RouteAction, EditKinds, Changing
<1> QED BY <1>1 DEF Request

\* A request that reads, or is refused, changes at most what its client knows.
LEMMA ReadingStep ==
    ASSUME AuthoringInv, Unsaved, UNCHANGED aliases, seen' \in [Clients -> SeenBy \cup {NotSeen}]
    PROVE  AuthoringInv'
<1>1. UNCHANGED <<files, triggers, temporary, store, up, startup, records, save, disturbed>>
  BY DEF Unsaved, directoryVars, processVars
<1>2. Around' /\ PublishedIsValid'
  BY <1>1 DEF AuthoringInv, Around, PublishedIsValid
<1> QED BY <1>1, <1>2, QuietStep

LEMMA ReadsStep ==
    ASSUME AuthoringInv, NEW c \in Clients, Reads(c)
    PROVE  AuthoringInv'
<1>1. Unsaved /\ UNCHANGED aliases
  BY DEF Reads, ReadDraft, ReadWorkflowFragment, ExportDraft, ValidateDraft,
         PreviewWorkflowFragment, ReadDiscard
<1>2. UNCHANGED seen \/ Learns(c, OnDisk)
  BY DEF Reads, ReadDraft, ReadWorkflowFragment, ExportDraft, ValidateDraft,
         PreviewWorkflowFragment, ReadDiscard
<1>3. Around /\ OnDisk \in AllDocuments
  BY OnDiskIsADocument DEF AuthoringInv
<1>4. seen' \in [Clients -> SeenBy \cup {NotSeen}]
  BY <1>2, <1>3, LearnsFits DEF Around
<1> QED BY <1>1, <1>4, ReadingStep

LEMMA RefusedStep ==
    ASSUME AuthoringInv, save = NoSave, NEW error, Refuse(error),
           records' \in [DiscardKeys -> Records]
    PROVE  AuthoringInv'
<1>1. UNCHANGED <<files, triggers, temporary, store, aliases, up, startup, save, seen, disturbed>>
  BY DEF Refuse, directoryVars
<1>2. Around' /\ PublishedIsValid'
  BY <1>1 DEF AuthoringInv, Around, PublishedIsValid
<1> QED BY <1>1, <1>2, QuietStep

LEMMA NoErrorOfTwo ==
    ASSUME NEW a, NEW b, First(a, b) = "none"
    PROVE  a = "none" /\ b = "none"
  BY DEF First

LEMMA SaveOrStep ==
    ASSUME AuthoringInv, NEW c \in Clients, NEW kind \in EditKinds, Request(c, kind),
           NEW error, NEW doc, SaveOr(c, kind, error, doc),
           error = "none" => doc \in ClosedDocuments /\ Readable
    PROVE  AuthoringInv'
<1>1. Grants[c] \cap Changing # {} /\ save = NoSave
  BY MayChange
<1>2. records' = records /\ records \in [DiscardKeys -> Records]
  BY DEF SaveOr, AuthoringInv, Around
<1>3. CASE error = "none"
  <2>1. BeginSave(c, kind, doc, Nothing)
    BY <1>3 DEF SaveOr
  <2> QED BY <1>1, <1>2, <1>3, <2>1, BeginStep DEF EditKinds
<1>4. CASE error # "none"
  BY <1>1, <1>2, <1>4, RefusedStep DEF SaveOr
<1> QED BY <1>3, <1>4

LEMMA VersionIsRead ==
    ASSUME NEW version, VersionError(version) = "none"
    PROVE  Readable /\ OnDisk = version
  BY DEF VersionError, Readable

LEMMA DraftStep ==
    ASSUME AuthoringInv, NEW c \in Clients, NEW doc \in Submitted, NEW kind,
           CreateDraft(c, kind, doc) \/ UpdateDraft(c, kind, doc)
    PROVE  AuthoringInv'
<1>1. doc \in AllDocuments
  BY AuthoringAssumption
<1>2. CASE CreateDraft(c, kind, doc)
  <2> DEFINE error == First(Check(Closed(doc), "invalid"), ReadError)
  <2>1. kind \in EditKinds /\ Request(c, kind) /\ SaveOr(c, kind, error, doc)
    BY <1>2 DEF CreateDraft, EditKinds
  <2>2. error = "none" => doc \in ClosedDocuments /\ Readable
    BY <1>1, NoErrorOfTwo DEF Check, Readable, ClosedDocuments
  <2> QED BY <2>1, <2>2, SaveOrStep
<1>3. CASE UpdateDraft(c, kind, doc)
  <2> DEFINE error == First(Check(Closed(doc), "invalid"), VersionError(seen[c].version))
  <2>1. kind \in EditKinds /\ Request(c, kind) /\ SaveOr(c, kind, error, doc)
    BY <1>3 DEF UpdateDraft, EditKinds
  <2>2. error = "none" => doc \in ClosedDocuments /\ Readable
    BY <1>1, NoErrorOfTwo, VersionIsRead DEF Check, ClosedDocuments
  <2> QED BY <2>1, <2>2, SaveOrStep
<1> QED BY <1>2, <1>3

LEMMA TriggersFragmentStep ==
    ASSUME AuthoringInv, NEW c \in Clients, NEW tr \in [Triggers -> Workflows \cup {Absent}],
           UpdateTriggersFragment(c, tr)
    PROVE  AuthoringInv'
<1> DEFINE doc == Document(OnDisk.wf, tr)
           error == First(VersionError(seen[c].version), Check(Closed(doc), "invalid"))
           kind == "update_triggers_fragment"
<1>1. kind \in EditKinds /\ Request(c, kind) /\ SaveOr(c, kind, error, doc)
  BY DEF UpdateTriggersFragment, EditKinds
<1>2. doc \in AllDocuments
  BY OnDiskIsADocument DEF AuthoringInv, AllDocuments, Document
<1>3. error = "none" => doc \in ClosedDocuments /\ Readable
  BY <1>2, NoErrorOfTwo, VersionIsRead DEF Check, ClosedDocuments
<1> QED BY <1>1, <1>3, SaveOrStep

LEMMA WorkflowFragmentStep ==
    ASSUME AuthoringInv, NEW c \in Clients, NEW x \in Fragments,
           UpdateWorkflowFragment(c, x.wf, x.name, x.content)
    PROVE  AuthoringInv'
<1> DEFINE doc == Document([OnDisk.wf EXCEPT ![x.wf] = x.content], triggers)
           error == First(Check(x.name = x.wf, "fragment"), VersionError(seen[c].version))
           kind == "update_workflow_fragment"
<1>1. kind \in EditKinds /\ Request(c, kind) /\ SaveOr(c, kind, error, doc)
  BY DEF UpdateWorkflowFragment, EditKinds
<1>2. x.wf \in Workflows /\ x.content \in Contents /\ x.content # Absent
  BY AuthoringAssumption
<1>3. error = "none" => Readable
  BY NoErrorOfTwo, VersionIsRead
<1>4. Readable => doc \in ClosedDocuments
  <2> SUFFICES ASSUME Readable PROVE doc \in ClosedDocuments
    OBVIOUS
  <2>1. OnDisk \in ClosedDocuments /\ OnDisk.tr = triggers
    BY ReadableIsClosed, OnDiskFields DEF AuthoringInv
  <2>2. Document([OnDisk.wf EXCEPT ![x.wf] = x.content], OnDisk.tr) \in ClosedDocuments
    BY <1>2, <2>1, DocumentChanged
  <2> QED BY <2>1, <2>2
<1> HIDE DEF doc, error
<1> QED BY <1>1, <1>3, <1>4, SaveOrStep

LEMMA DeleteFragmentStep ==
    ASSUME AuthoringInv, NEW c \in Clients, NEW w \in Workflows, DeleteWorkflowFragment(c, w)
    PROVE  AuthoringInv'
<1> DEFINE doc == Document([OnDisk.wf EXCEPT ![w] = Absent], triggers)
           held == \E t \in Triggers : triggers[t] = w
           error == First(VersionError(seen[c].version),
                          First(Check(OnDisk.wf[w] # Absent, "not_found"),
                                Check(~held, "dependency")))
           kind == "delete_workflow_fragment"
<1>1. kind \in EditKinds /\ Request(c, kind) /\ SaveOr(c, kind, error, doc)
  BY DEF DeleteWorkflowFragment, EditKinds
<1>2. error = "none" => Readable /\ ~held
  BY NoErrorOfTwo, VersionIsRead DEF Check
<1>3. Readable /\ ~held => doc \in ClosedDocuments
  <2> SUFFICES ASSUME Readable, ~held PROVE doc \in ClosedDocuments
    OBVIOUS
  <2>1. OnDisk \in ClosedDocuments /\ OnDisk.tr = triggers
    BY ReadableIsClosed, OnDiskFields DEF AuthoringInv
  <2>2. \A t \in Triggers : OnDisk.tr[t] # w
    BY <2>1
  <2>3. Document([OnDisk.wf EXCEPT ![w] = Absent], OnDisk.tr) \in ClosedDocuments
    BY <2>1, <2>2, DocumentChanged
  <2> QED BY <2>1, <2>3
<1> HIDE DEF doc, error, held
<1> QED BY <1>1, <1>2, <1>3, SaveOrStep

LEMMA ApplyStep ==
    ASSUME AuthoringInv, NEW c \in Clients, Apply(c)
    PROVE  AuthoringInv'
<1>1. UNCHANGED <<files, triggers, temporary, store, up, startup, records, save, seen, disturbed>>
  BY DEF Apply, Unsaved, directoryVars, processVars
<1>2. \/ UNCHANGED aliases
      \/ Publish(OnDisk) /\ ValidDocument(OnDisk)
  BY DEF Apply
<1>3. OnDisk \in AllDocuments /\ Around /\ PublishedIsValid
  BY OnDiskIsADocument DEF AuthoringInv
<1>4. aliases' \in [Workflows -> Contents \cup {Absent}] /\ PublishedIsValid'
  BY <1>2, <1>3 DEF Around, Publish, ValidDocument, PublishedIsValid, AllDocuments
<1>5. Around'
  BY <1>1, <1>3, <1>4 DEF Around
<1> QED BY <1>1, <1>4, <1>5, QuietStep

LEMMA RecordMade ==
    ASSUME Around, NEW k \in DiscardKeys, NEW version \in AllDocuments,
           NEW state \in {"pending", "applied", "failed"}, SetRecord(k, state, version)
    PROVE  /\ records' \in [DiscardKeys -> Records]
           /\ records'[k] # NoRecord /\ records'[k].state = state
           /\ \A j \in DiscardKeys \ {k} : records'[j] = records[j]
<1>1. [state |-> state, version |-> version] \in Records
  BY DEF Records
<1>2. [state |-> state, version |-> version] # NoRecord
  BY DEF NoRecord
<1> QED BY <1>1, <1>2 DEF SetRecord, Around

LEMMA DiscardStep ==
    ASSUME AuthoringInv, NEW c \in Clients, NEW k \in DiscardKeys, Discard(c, k)
    PROVE  AuthoringInv'
<1> DEFINE version == seen[c].version
<1>1. Around /\ records \in [DiscardKeys -> Records]
  BY DEF AuthoringInv, Around
<1>2. Grants[c] \cap Changing # {} /\ save = NoSave
  BY MayChange DEF Discard
<1>3. version \in AllDocuments
  BY <1>1 DEF Discard, KnowsVersion, Around, SeenBy
<1>4. CASE UNCHANGED records /\ \E error : Refuse(error)
  BY <1>1, <1>2, <1>4, RefusedStep
<1>5. CASE SetRecord(k, "pending", version) /\ \E error : Refuse(error)
  BY <1>1, <1>2, <1>3, <1>5, RecordMade, RefusedStep
<1>6. CASE SetRecord(k, "failed", version) /\ \E error : Refuse(error)
  BY <1>1, <1>2, <1>3, <1>6, RecordMade, RefusedStep
<1>7. CASE Readable /\ SetRecord(k, "pending", version) /\ BeginSave(c, "discard", startup, k)
  <2>1. startup \in ClosedDocuments
    BY <1>1 DEF Around
  <2>2. records' \in [DiscardKeys -> Records] /\ records'[k] # NoRecord /\ records'[k].state = "pending"
    BY <1>1, <1>3, <1>7, RecordMade
  <2> QED BY <1>2, <1>7, <2>1, <2>2, BeginStep
<1> QED BY <1>4, <1>5, <1>6, <1>7 DEF Discard

LEMMA InitFits == Init => AuthoringInv
<1> SUFFICES ASSUME Init PROVE AuthoringInv
  OBVIOUS
<1>1. PICK d \in Directories : files = d.files /\ triggers = d.triggers
  BY DEF Init
<1>2. /\ temporary = FALSE /\ Readable /\ store \in HasCatalog /\ up = TRUE /\ startup = OnDisk
      /\ aliases = [w \in Workflows |-> Absent] /\ records = [k \in DiscardKeys |-> NoRecord]
      /\ save = NoSave /\ seen = [c \in Clients |-> NotSeen] /\ disturbed = FALSE
  BY DEF Init
<1>3. /\ files \in [Workflows -> Files] /\ triggers \in [Triggers -> Workflows \cup {Absent}]
      /\ store \in BOOLEAN
  BY <1>1, <1>2, AuthoringAssumption
<1>4. /\ aliases \in [Workflows -> Contents \cup {Absent}] /\ PublishedIsValid
      /\ records \in [DiscardKeys -> Records] /\ seen \in [Clients -> SeenBy \cup {NotSeen}]
  BY <1>2, AuthoringAssumption DEF PublishedIsValid, Records
<1>5. OnDisk \in ClosedDocuments
  <2> DEFINE content(w) == IF Declares(w) = {} THEN Absent ELSE files[Source(w)].content
  <2>1. \A w \in Workflows : content(w) \in Contents \cup {Absent}
    <3> TAKE w \in Workflows
    <3>1. CASE Declares(w) # {}
      <4>1. Source(w) \in Workflows /\ files[Source(w)] # NoFile
        BY <3>1, SourceDeclares DEF Declares, Present
      <4> QED BY <1>3, <4>1 DEF Files
    <3> QED BY <3>1
  <2> HIDE DEF content
  <2>2. [w \in Workflows |-> content(w)] \in [Workflows -> Contents \cup {Absent}]
    BY <2>1
  <2>3. OnDisk = [wf |-> [w \in Workflows |-> content(w)], tr |-> triggers]
    BY DEF OnDisk, Document, content
  <2>4. OnDisk \in AllDocuments
    BY <1>3, <2>2, <2>3 DEF AllDocuments
  <2> QED BY <1>2, <2>4 DEF Readable, ReadError, BundleError, ClosedDocuments
<1>6. Around
  BY <1>2, <1>3, <1>4, <1>5 DEF Around
<1> QED BY <1>2, <1>4, <1>6 DEF AuthoringInv, SaveFits

LEMMA DirectoryIsKept == AuthoringInv /\ [Next]_authoringVars => AuthoringInv'
<1> SUFFICES ASSUME AuthoringInv, [Next]_authoringVars PROVE AuthoringInv'
  OBVIOUS
<1>1. ASSUME NEW c \in Clients, Writes(c) PROVE AuthoringInv'
  BY <1>1, DraftStep, TriggersFragmentStep, WorkflowFragmentStep, DeleteFragmentStep, ApplyStep,
     DiscardStep DEF Writes
<1>2. ASSUME SaveSteps PROVE AuthoringInv'
  BY <1>2, MakeTemporaryStep, ReplaceWorkflowStep, ReplaceTriggersStep, UnlinkWorkflowStep,
     SaveFailsStep, FinishSaveStep DEF SaveSteps
<1>3. CASE UNCHANGED authoringVars
  <2>1. UNCHANGED <<files, triggers, temporary, store, aliases, up, startup, records, save, seen,
                    disturbed>>
    BY <1>3 DEF authoringVars, directoryVars, processVars
  <2>2. Around' /\ PublishedIsValid'
    BY <2>1 DEF AuthoringInv, Around, PublishedIsValid
  <2> QED BY <2>1, <2>2, QuietStep
<1> QED BY <1>1, <1>2, <1>3, ReadsStep, CrashStep, RestartStep, EditStep, ClearTemporaryStep
        DEF Next

-----------------------------------------------------------------------------
(* The properties.                                                         *)

\* The relationships compare everything either document declares.
LEMMA DifferencesAreShown ==
    ASSUME NEW a \in AllDocuments, NEW b \in AllDocuments
    PROVE  a # b <=> \E d \in DOMAIN Relationships(a, b) : Relationships(a, b)[d] # "active"
<1> DEFINE R == Relationships(a, b)
<1>1. /\ DOMAIN R = Compared(a, b)
      /\ \A d \in Compared(a, b) : R[d] = RelationshipState(DeclarationOf(a, d), DeclarationOf(b, d))
  BY DEF Relationships
<1>2. \A x, y : x # Absent \/ y # Absent => (RelationshipState(x, y) = "active" <=> x = y)
  <2> SUFFICES ASSUME NEW x, NEW y, x # Absent \/ y # Absent
               PROVE  RelationshipState(x, y) = "active" <=> x = y
    OBVIOUS
  <2>1. CASE x = y
    BY <2>1 DEF RelationshipState
  <2>2. CASE x # y /\ x = Absent
    BY <2>2 DEF RelationshipState
  <2>3. CASE x # y /\ x # Absent /\ y = Absent
    BY <2>3 DEF RelationshipState
  <2>4. CASE x # y /\ x # Absent /\ y # Absent
    BY <2>4 DEF RelationshipState
  <2> QED BY <2>1, <2>2, <2>3, <2>4
<1>3. (\E d \in DOMAIN R : R[d] # "active") <=>
        \E d \in Compared(a, b) : DeclarationOf(a, d) # DeclarationOf(b, d)
  <2>1. \A d \in Compared(a, b) : DeclarationOf(a, d) # Absent \/ DeclarationOf(b, d) # Absent
    BY DEF Compared, Declared, DeclarationOf
  <2> HIDE DEF R
  <2> QED BY <1>1, <1>2, <2>1
<1>4. /\ a = [wf |-> a.wf, tr |-> a.tr] /\ b = [wf |-> b.wf, tr |-> b.tr]
      /\ a.wf \in [Workflows -> Contents \cup {Absent}] /\ b.wf \in [Workflows -> Contents \cup {Absent}]
      /\ a.tr \in [Triggers -> Workflows \cup {Absent}] /\ b.tr \in [Triggers -> Workflows \cup {Absent}]
  BY DEF AllDocuments
<1>5. ASSUME a # b PROVE \E d \in Compared(a, b) : DeclarationOf(a, d) # DeclarationOf(b, d)
  <2>1. a.wf # b.wf \/ a.tr # b.tr
    BY <1>4, <1>5
  <2>2. (\E w \in Workflows : a.wf[w] # b.wf[w]) \/ (\E t \in Triggers : a.tr[t] # b.tr[t])
    BY <1>4, <2>1
  <2>3. ASSUME NEW w \in Workflows, a.wf[w] # b.wf[w]
        PROVE  \E d \in Compared(a, b) : DeclarationOf(a, d) # DeclarationOf(b, d)
    <3>1. <<"workflow", w>> \in Compared(a, b)
      BY <2>3 DEF Compared, Declared
    <3>2. DeclarationOf(a, <<"workflow", w>>) = a.wf[w] /\ DeclarationOf(b, <<"workflow", w>>) = b.wf[w]
      BY DEF DeclarationOf
    <3> QED BY <2>3, <3>1, <3>2
  <2>4. ASSUME NEW t \in Triggers, a.tr[t] # b.tr[t]
        PROVE  \E d \in Compared(a, b) : DeclarationOf(a, d) # DeclarationOf(b, d)
    <3>1. <<"trigger", t>> \in Compared(a, b)
      BY <2>4 DEF Compared, Declared
    <3>2. DeclarationOf(a, <<"trigger", t>>) = a.tr[t] /\ DeclarationOf(b, <<"trigger", t>>) = b.tr[t]
      BY DEF DeclarationOf
    <3> QED BY <2>4, <3>1, <3>2
  <2> QED BY <2>2, <2>3, <2>4
<1> QED BY <1>3, <1>5

\* At every moment of a save that nobody disturbs, however many workflows and
\* clients there are, every file holds what it held before or what the document
\* says; what the catalog names is valid; only clients with the right to it have a
\* save in progress; and the relationships tell whether a restart is needed.
THEOREM DirectoryAlwaysSound == Spec => []DirectoryIsSound
<1>1. AuthoringInv => DirectoryIsSound
  <2> SUFFICES ASSUME AuthoringInv PROVE DirectoryIsSound
    OBVIOUS
  <2>1. Around /\ PublishedIsValid /\ SaveFits
    BY DEF AuthoringInv
  <2>2. TypeOK
    <3>1. save # NoSave => save.doc \in ClosedDocuments /\ save.todo \subseteq Ops
      BY <2>1, SaveFields DEF SaveFits
    <3>2. \A c \in Clients : seen[c] # NotSeen => 
             seen[c] \in [version : AllDocuments, active : ClosedDocuments]
      BY <2>1 DEF Around, SeenBy
    <3>3. records \in [DiscardKeys -> {NoRecord} \cup
                         [state : {"pending", "applied", "failed"}, version : AllDocuments]]
      BY <2>1 DEF Around, Records
    <3> QED BY <2>1, <3>1, <3>2, <3>3 DEF TypeOK, Around
  <2>3. EachFileIsOldOrNew
    <3> SUFFICES ASSUME save # NoSave, ~disturbed PROVE EachFileIsOldOrNew
      BY DEF EachFileIsOldOrNew
    <3>1. save \in Saves /\ OnItsWay(save, files, triggers, temporary)
      BY DEF AuthoringInv, SaveFits
    <3>2. \A w \in Workflows : OnDisk.wf[w] \in {save.before.wf[w], save.doc.wf[w]}
      BY <2>1, <3>1, DirectoryOnItsWay DEF Now
    <3>3. OnDisk.tr \in {save.before.tr, save.doc.tr}
      BY <2>1, <3>1, DirectoryOnItsWay
    <3> QED BY <3>2, <3>3, OnDiskFields DEF EachFileIsOldOrNew
  <2>4. ViewersChangeNothing
    BY <2>1 DEF ViewersChangeNothing, SaveFits, Changing
  <2>5. RelationshipsTellRestart
    <3>1. OnDisk \in AllDocuments /\ startup \in AllDocuments
      BY <2>1, OnDiskIsADocument DEF Around, ClosedDocuments
    <3> QED BY <3>1, DifferencesAreShown DEF RelationshipsTellRestart, RestartRequired
  <2> QED BY <2>1, <2>2, <2>3, <2>4, <2>5 DEF DirectoryIsSound
<1> QED BY <1>1, InitFits, DirectoryIsKept, PTL DEF Spec

-----------------------------------------------------------------------------
(* What an answer says.                                                    *)

\* With every operation done, the directory holds the document of the save, and
\* it can be read if the reader accepts that document.
Holds(doc) ==
    /\ OnDisk = doc
    /\ Readable <=> Acceptable(doc)
    /\ Readable <=> BundleError = "none"
FinishedIsOnDisk ==
    \A s \in Saves :
      /\ Around /\ s.todo = {} /\ OnItsWay(s, files, triggers, temporary)
      => Holds(s.doc)

LEMMA Finished == FinishedIsOnDisk
<1> SUFFICES ASSUME NEW s \in Saves, Around, s.todo = {}, OnItsWay(s, files, triggers, temporary)
             PROVE  Holds(s.doc)
  BY DEF FinishedIsOnDisk
<1>1. \A w \in Workflows : Now(s, w) = s.doc.wf[w]
  BY DEF Now, Pending
<1>2. s.doc \in AllDocuments /\ Closed(s.doc)
  BY SaveFields DEF ClosedDocuments
<1>3. OnDisk \in AllDocuments
  BY OnDiskIsADocument
<1>4. \A w \in Workflows : OnDisk.wf[w] = s.doc.wf[w] /\ Cardinality(Declares(w)) <= 1
  BY <1>1, DirectoryOnItsWay
<1>5. OnDisk.tr = s.doc.tr
  BY OnDiskFields DEF OnItsWay
<1>6. OnDisk = s.doc
  <2>1. OnDisk.wf = s.doc.wf
    BY <1>2, <1>3, <1>4 DEF AllDocuments
  <2> QED BY <1>2, <1>3, <1>5, <2>1 DEF AllDocuments
<1>7. Present # {}
  <2>1. PICK w \in Workflows : s.doc.wf[w] # Absent
    BY DEF OnItsWay
  <2>2. Declares(w) # {}
    BY <1>4, <2>1, OnDiskFields
  <2> QED BY <2>2 DEF Declares
<1>8. ~temporary
  BY DEF OnItsWay
<1>9. (\A x \in Present : files[x].content \notin Unloadable)
        <=> (\A w \in Workflows : s.doc.wf[w] \notin Unloadable)
  <2>1. ASSUME NEW w \in Workflows, \A x \in Present : files[x].content \notin Unloadable
        PROVE  s.doc.wf[w] \notin Unloadable
    <3>1. CASE Declares(w) = {}
      BY <1>4, <3>1, OnDiskFields, AuthoringAssumption
    <3>2. CASE Declares(w) # {}
      <4>1. Source(w) \in Present
        BY <3>2, SourceDeclares DEF Declares
      <4> QED BY <1>4, <2>1, <3>2, <4>1, OnDiskFields
    <3> QED BY <3>1, <3>2
  <2>2. ASSUME NEW x \in Present, \A w \in Workflows : s.doc.wf[w] \notin Unloadable
        PROVE  files[x].content \notin Unloadable
    <3> DEFINE w == files[x].wf
    <3>1. x \in Declares(w)
      BY DEF Declares
    <3>2. w \in Workflows
      BY <3>1, DeclaredInFile
    <3> HIDE DEF w
    <3>3. Source(w) \in Declares(w) /\ Declares(w) # {}
      BY <3>1, SourceDeclares
    <3>4. Source(w) = x
      BY <1>4, <3>1, <3>2, <3>3, OnlyDeclaration
    <3>5. s.doc.wf[w] = files[x].content
      BY <1>4, <3>2, <3>3, <3>4, OnDiskFields
    <3> QED BY <2>2, <3>2, <3>5
  <2> QED BY <2>1, <2>2
<1>10. Loadable <=> \A w \in Workflows : s.doc.wf[w] \notin Unloadable
  BY <1>4, <1>7, <1>8, <1>9 DEF Loadable
<1>11. BundleError = "none" <=> Loadable /\ Bounded(s.doc)
  BY <1>6 DEF BundleError
<1>12. Readable <=> BundleError = "none"
  BY <1>2, <1>6 DEF Readable, ReadError
<1> QED BY <1>6, <1>10, <1>11, <1>12 DEF Acceptable, Holds

LEMMA FinishedNext == FinishedIsOnDisk'
  BY Finished, PTL

\* Who ends a save, and what the answer is.
LEMMA SaveEnds ==
    ASSUME AuthoringInv, [Next]_authoringVars, save # NoSave, save' = NoSave
    PROVE  disturbed' \/ FinishSave
<1>1. ASSUME NEW c \in Clients, Reads(c) \/ Writes(c) PROVE FALSE
  BY <1>1 DEF Reads, Writes, ReadDraft, ReadWorkflowFragment, ExportDraft, ValidateDraft,
     PreviewWorkflowFragment, ReadDiscard, CreateDraft, UpdateDraft, UpdateTriggersFragment,
     UpdateWorkflowFragment, DeleteWorkflowFragment, Apply, Discard, Request
<1>2. ASSUME NEW o, OpDone(o) PROVE FALSE
  <2>1. save \in Saves
    BY DEF AuthoringInv, SaveFits
  <2>2. save'.kind = save.kind
    BY <1>2, <2>1 DEF OpDone, Saves
  <2> QED BY <2>1, <2>2, SaveFields DEF NoSave
<1>3. ASSUME SaveSteps PROVE disturbed' \/ FinishSave
  <2>1. CASE FinishSave
    BY <2>1
  <2>2. CASE SaveFails
    BY <2>2 DEF SaveFails
  <2> QED BY <1>2, <1>3, <2>1, <2>2 DEF SaveSteps, MakeTemporary, ReplaceWorkflow, ReplaceTriggers,
              UnlinkWorkflow
<1>4. CASE Crash
  BY <1>4 DEF Crash
<1>5. CASE Restart \/ Edit \/ ClearTemporary
  BY <1>5 DEF Restart, Edit, ClearTemporary
<1>6. CASE UNCHANGED authoringVars
  BY <1>6 DEF authoringVars
<1> QED BY <1>1, <1>3, <1>4, <1>5, <1>6 DEF Next

LEMMA ErrorsAreTold ==
    ASSUME NEW error \in {"none", "load", "invalid"}, Answer(error)
    PROVE  last' <=> error = "none"
<1>1. /\ Status("none") = 200
      /\ Status("invalid") = 422
      /\ Status("load") = 500
  BY DEF Status
<1>2. (Status(error) = 200) <=> error = "none"
  BY <1>1
<1> QED BY <1>2 DEF Answer

\* A save ends with the directory as it is, and with the error of publishing it.
LEMMA FinishIsTold ==
    ASSUME FinishSave
    PROVE  /\ save.todo = {} /\ UNCHANGED <<files, triggers, temporary>>
           /\ last' <=> PublishError(save.doc) = "none"
<1>1. PublishError(save.doc) \in {"none", "load", "invalid"}
  BY DEF PublishError, BundleError
<1>2. CASE PublishError(save.doc) = "none" /\ SaveAnswered
  <2>1. Answer("none")
    BY <1>2 DEF SaveAnswered
  <2>2. last' <=> "none" = "none"
    BY <2>1, ErrorsAreTold
  <2> QED BY <1>2, <2>2 DEF FinishSave, SaveAnswered, directoryVars
<1>3. CASE PublishError(save.doc) # "none"
  <2>1. Answer(PublishError(save.doc)) /\ UNCHANGED directoryVars /\ save.todo = {}
    BY <1>3 DEF FinishSave
  <2>2. last' <=> PublishError(save.doc) = "none"
    BY <1>1, <2>1, ErrorsAreTold
  <2> QED BY <2>1, <2>2 DEF directoryVars
<1> QED BY <1>2, <1>3 DEF FinishSave

\* What a step does to a record.
RecordGoesOn(k) ==
    \/ records'[k] = records[k]
    \/ /\ records[k].state = "pending" /\ records'[k].state = "applied"
       /\ records'[k].version = records[k].version
       /\ save # NoSave /\ save.key = k

LEMMA RecordsGoOn ==
    ASSUME AuthoringInv, [Next]_authoringVars, up', NEW k \in DiscardKeys, records[k] # NoRecord
    PROVE  RecordGoesOn(k)
<1>1. ASSUME NEW c \in Clients, Reads(c) PROVE UNCHANGED records
  BY <1>1 DEF Reads, ReadDraft, ReadWorkflowFragment, ExportDraft, ValidateDraft,
     PreviewWorkflowFragment, ReadDiscard, Unsaved, processVars
<1>2. ASSUME NEW c \in Clients, Writes(c) PROVE records'[k] = records[k]
  <2>1. ASSUME NEW j \in DiscardKeys, Discard(c, j) PROVE records'[k] = records[k]
    <3>1. CASE UNCHANGED records
      BY <3>1
    <3>2. CASE ~Recorded(j) /\ \E state : SetRecord(j, state, seen[c].version)
      <4>1. k # j
        BY <3>2 DEF Recorded
      <4> QED BY <3>2, <4>1 DEF SetRecord, AuthoringInv, Around
    <3> QED BY <2>1, <3>1, <3>2 DEF Discard
  <2> QED BY <1>2, <2>1 DEF Writes, CreateDraft, UpdateDraft, UpdateTriggersFragment,
              UpdateWorkflowFragment, DeleteWorkflowFragment, SaveOr, Apply, Unsaved, processVars
<1>3. ASSUME FinishSave PROVE RecordGoesOn(k)
  <2>1. CASE SaveAnswered
    <3>1. save # NoSave
      BY <1>3 DEF FinishSave
    <3> QED BY <2>1, <3>1, AnsweredRecords DEF RecordGoesOn
  <2> QED BY <1>3, <2>1 DEF FinishSave, processVars, RecordGoesOn
<1>4. ASSUME SaveSteps PROVE FinishSave \/ UNCHANGED records
  BY <1>4 DEF SaveSteps, MakeTemporary, ReplaceWorkflow, ReplaceTriggers, UnlinkWorkflow, SaveFails,
     InSave, processVars
<1>5. CASE Crash
  BY <1>5 DEF Crash
<1>6. CASE Restart \/ Edit \/ ClearTemporary \/ UNCHANGED authoringVars
  BY <1>6 DEF Restart, Edit, ClearTemporary, authoringVars, processVars, RecordGoesOn
<1> QED BY <1>1, <1>2, <1>3, <1>4, <1>5, <1>6 DEF Next, RecordGoesOn

\* A save that ended, met no edit, fault or name clash left in the directory exactly the
\* document it was asked to save, readable if the reader accepts the document, and with
\* a catalog it was refused if and only if it is not; and a discard key stands for one
\* request as long as the process lives, whatever is repeated or fails.
THEOREM SavesAreAlwaysDone == Spec => SavesAreDone
<1>1. AuthoringInv /\ AuthoringInv' /\ FinishedIsOnDisk /\ FinishedIsOnDisk' /\ [Next]_authoringVars =>
        [(save # NoSave /\ save' = NoSave /\ ~disturbed')
           => /\ OnDisk' = save.doc
              /\ Readable' <=> Acceptable(save.doc)
              /\ last' <=> (store => Readable')]_authoringVars
  <2> SUFFICES ASSUME AuthoringInv, AuthoringInv', FinishedIsOnDisk, FinishedIsOnDisk',
                      [Next]_authoringVars, save # NoSave, save' = NoSave, ~disturbed'
               PROVE  /\ OnDisk' = save.doc
                      /\ Readable' <=> Acceptable(save.doc)
                      /\ last' <=> (store => Readable')
    OBVIOUS
  <2>1. FinishSave
    BY SaveEnds
  <2>2. /\ save \in Saves /\ save.todo = {} /\ UNCHANGED <<files, triggers, temporary>>
        /\ last' <=> PublishError(save.doc) = "none"
    BY <2>1, FinishIsTold DEF AuthoringInv, SaveFits
  <2>3. ~disturbed
    BY <2>1 DEF FinishSave, SaveAnswered
  <2>4. OnItsWay(save, files, triggers, temporary)
    BY <2>3 DEF AuthoringInv, SaveFits
  <2>5. OnItsWay(save, files', triggers', temporary')
    BY <2>2, <2>4
  <2>6. Around /\ Around'
    BY DEF AuthoringInv
  <2>7. Holds(save.doc)
    BY <2>2, <2>4, <2>6 DEF FinishedIsOnDisk
  <2>8. /\ OnDisk' = save.doc
        /\ Readable' <=> Acceptable(save.doc)
    <3>1. \A s \in Saves : /\ Around' /\ s.todo = {} /\ OnItsWay(s, files', triggers', temporary')
                           => /\ OnDisk' = s.doc
                              /\ Readable' <=> Acceptable(s.doc)
      BY DEF FinishedIsOnDisk, Holds
    <3> QED BY <2>2, <2>5, <2>6, <3>1
  <2>9. PublishError(save.doc) = "none" <=> (store => Readable)
    <3>1. Readable => Bounded(save.doc)
      BY <2>7 DEF Holds, Acceptable
    <3>2. Readable <=> BundleError = "none"
      BY <2>7 DEF Holds
    <3> QED BY <3>1, <3>2 DEF PublishError
  <2>10. Readable <=> Readable'
    BY <2>7, <2>8 DEF Holds
  <2> QED BY <2>2, <2>8, <2>9, <2>10
<1>2. AuthoringInv /\ [Next]_authoringVars =>
        [ up' => \A k \in DiscardKeys : records[k] # NoRecord =>
            \/ records'[k] = records[k]
            \/ /\ records[k].state = "pending" /\ records'[k].state = "applied"
               /\ records'[k].version = records[k].version
               /\ save # NoSave /\ save.key = k ]_authoringVars
  BY RecordsGoOn DEF RecordGoesOn
<1>3. Spec => EndedSaveIsOnDisk
  BY <1>1, InitFits, DirectoryIsKept, Finished, FinishedNext, PTL DEF Spec, EndedSaveIsOnDisk
<1>4. Spec => DiscardIsDoneOnce
  BY <1>2, InitFits, DirectoryIsKept, PTL DEF Spec, DiscardIsDoneOnce
<1> QED BY <1>3, <1>4 DEF SavesAreDone

=============================================================================
