---------------------------- MODULE LocalAuthoring ----------------------------
(***************************************************************************)
(* Local authoring: the console edits the configuration directory itself   *)
(* (configuration/local_authoring.py behind runtime/local_authoring_api.py *)
(* and over configuration/source.py).                                      *)
(*                                                                         *)
(* A request runs on the event loop without awaiting once its body is      *)
(* read, so requests follow one another; but a save writes file by file,   *)
(* and between two of its system calls the process may die, a call may     *)
(* fail, and somebody may edit the directory.  The directory is durable;   *)
(* the startup document and the discard records die with the process.      *)
(*                                                                         *)
(* A document's version is a digest of it: here the document itself.       *)
(***************************************************************************)
EXTENDS FiniteSets, Naturals

CONSTANTS
  Workflows,     \* the workflow names; `<name>.yaml` is file <name>
  Place,         \* [Workflows -> Nat]: where a name comes in the sorted names
  Contents,      \* declarations of a workflow
  Invalid,       \* those the validator of the merged configuration rejects
  Unloadable,    \* those whose file the loader refuses (1 MiB, nesting of 32)
  Unbounded,     \* documents whose bundle is refused: secret fields, depth, items, bytes
  Triggers,
  Clients,
  Grants,        \* [Clients -> SUBSET Actions]
  Submitted,     \* the documents clients submit
  Fragments,     \* the workflow fragments they submit: [wf, name, content]
  Edited,        \* the declarations an outside editor writes: [file, wf, content]
  DiscardKeys,
  MaxDiscardRecords,
  Directories,   \* the directories the process may be started on
  HasCatalog,    \* SUBSET BOOLEAN: with or without a definition catalog
  MaxSaves,      \* saves begun in one behaviour
  MaxFaults      \* edits by others, failed writes and crashes in one behaviour

VARIABLES
  files,      \* [Workflows -> NoFile or [wf, content]]
  triggers,   \* triggers.yaml: [Triggers -> Workflows or Absent]
  temporary,  \* a temporary file lies in the directory
  store,      \* there is a definition catalog
  aliases,    \* its active definitions: [Workflows -> Contents or Absent]
  up, startup, records,   \* the process and what it keeps in memory
  save,       \* the save in progress, or NoSave
  seen,       \* [Clients -> [version, active] last answered to it, or NotSeen]
  last,       \* the last answer was no error
  disturbed,  \* an edit, a fault or a file name clash has met a save or the files
  saves, faults

directoryVars == <<files, triggers, temporary>>
processVars == <<up, startup, records>>
authoringVars == <<directoryVars, store, aliases, processVars, save, seen, last,
                   disturbed, saves, faults>>

Absent == "absent"
Nothing == "nothing"
NoSave == [kind |-> "none"]
NoFile == [wf |-> Absent, content |-> Absent]
Files == [wf : Workflows, content : Contents] \cup {NoFile}
NoRecord == [state |-> "none"]
NotSeen == [kind |-> "none"]
Actions == {"view", "edit", "validate", "apply", "discard"}

-----------------------------------------------------------------------------
(* Documents and reading them *)

Document(wf, tr) == [wf |-> wf, tr |-> tr]
Closed(doc) == \A t \in Triggers : doc.tr[t] # Absent => doc.wf[doc.tr[t]] # Absent
AllDocuments == [wf : [Workflows -> Contents \cup {Absent}],
                 tr : [Triggers -> Workflows \cup {Absent}]]
ClosedDocuments == {doc \in AllDocuments : Closed(doc)}

ASSUME AuthoringAssumption ==
  /\ IsFiniteSet(Workflows) /\ Absent \notin Workflows \cup Contents
  /\ Place \in [Workflows -> Nat]
  /\ \A v, w \in Workflows : Place[v] = Place[w] => v = w
  /\ Invalid \subseteq Contents /\ HasCatalog \subseteq BOOLEAN
  /\ Grants \in [Clients -> SUBSET Actions] /\ Nothing \notin DiscardKeys
  /\ Unloadable \subseteq Contents /\ Unbounded \subseteq AllDocuments
  /\ Submitted \subseteq AllDocuments
  /\ Fragments \subseteq [wf : Workflows, name : Workflows \cup {Absent}, content : Contents]
  /\ Edited \subseteq [file : Workflows, wf : Workflows, content : Contents]
  /\ Directories \subseteq [files : [Workflows -> Files],
                            triggers : [Triggers -> Workflows \cup {Absent}]]

ValidDocument(doc) == \A w \in Workflows : doc.wf[w] \notin Invalid

Present == {x \in Workflows : files[x] # NoFile}
Declares(w) == {x \in Present : files[x].wf = w}
Source(w) == CHOOSE x \in Declares(w) : TRUE

\* ConfigLoader.load_all: no foreign file in the directory, at least one
\* workflow, each declared once, in a file within the loader's limits.
\* Anything else is a ConfigLoadError.
Loadable ==
  /\ ~temporary
  /\ Present # {}
  /\ \A w \in Workflows : Cardinality(Declares(w)) <= 1
  /\ \A x \in Present : files[x].content \notin Unloadable

OnDisk == Document([w \in Workflows |-> IF Declares(w) = {} THEN Absent
                                        ELSE files[Source(w)].content],
                   triggers)

\* ConfigurationBundle.validate_bounds.
Bounded(doc) == doc \notin Unbounded

\* The bundle of the directory, and the authoring document made of it.
BundleError == IF ~Loadable THEN "load" ELSE IF ~Bounded(OnDisk) THEN "invalid" ELSE "none"
ReadError == IF BundleError = "none" /\ ~Closed(OnDisk) THEN "invalid" ELSE BundleError
Readable == ReadError = "none"

\* LocalAuthoringDocument asks less of a document than the reader does.
Acceptable(doc) == Bounded(doc) /\ \A w \in Workflows : doc.wf[w] \notin Unloadable

RestartRequired == OnDisk # startup

\* build_configuration_relationships: every declaration of either document.
RelationshipState(working, active) ==
  CASE working = active -> "active"
    [] working = Absent -> "removed_pending_apply"
    [] active = Absent  -> "new_pending_apply"
    [] OTHER            -> "modified"
Declared(doc) == {<<"workflow", w>> : w \in {v \in Workflows : doc.wf[v] # Absent}}
                   \cup {<<"trigger", t>> : t \in {s \in Triggers : doc.tr[s] # Absent}}
DeclarationOf(doc, d) == IF d[1] = "workflow" THEN doc.wf[d[2]] ELSE doc.tr[d[2]]
\* Mutant: only the workflows are compared.
DeclaredWorkflows(doc) == {<<"workflow", w>> : w \in {v \in Workflows : doc.wf[v] # Absent}}
ComparedWorkflows(working, active) == DeclaredWorkflows(working) \cup DeclaredWorkflows(active)
Compared(working, active) == Declared(working) \cup Declared(active)

Relationships(working, active) ==
  [d \in Compared(working, active) |->
     RelationshipState(DeclarationOf(working, d), DeclarationOf(active, d))]

-----------------------------------------------------------------------------
(* LocalAuthoringConfigurationApi *)

\* Mutant: the import route asks for the right of the export beside it.
RouteActionImportViews(kind) ==
  IF kind = "import_draft" THEN "view"
  ELSE CASE kind \in {"create_draft", "update_draft",
                      "update_triggers_fragment", "update_workflow_fragment",
                      "delete_workflow_fragment"}       -> "edit"
         [] kind \in {"validate_draft", "preview_workflow_fragment"} -> "validate"
         [] kind = "apply"                              -> "apply"
         [] kind = "discard"                            -> "discard"
         [] OTHER                                       -> "view"
\* resolve_route: what each kind of request must be allowed to do.
RouteAction(kind) ==
  CASE kind \in {"create_draft", "update_draft", "import_draft",
                 "update_triggers_fragment", "update_workflow_fragment",
                 "delete_workflow_fragment"}            -> "edit"
    [] kind \in {"validate_draft", "preview_workflow_fragment"} -> "validate"
    [] kind = "apply"                                   -> "apply"
    [] kind = "discard"                                 -> "discard"
    [] OTHER                                            -> "view"

Status(error) ==
  CASE error = "none"        -> 200
    [] error = "not_found"   -> 404
    [] error = "dependency"  -> 409
    [] error = "conflict"    -> 409
    [] error = "limit"       -> 413
    [] error = "fragment"    -> 422
    [] error = "invalid"     -> 422
    [] error = "unavailable" -> 503
    [] error = "load"        -> 500   \* a ConfigLoadError no handler names

Answer(error) == last' = (Status(error) = 200)

Request(c, kind) == up /\ save = NoSave /\ RouteAction(kind) \in Grants[c]
\* Who may change something keeps the version it was answered.
Learns(c, doc) ==
  seen' = IF Grants[c] \cap {"edit", "apply", "discard"} = {} THEN seen
          ELSE [seen EXCEPT ![c] = [version |-> doc, active |-> startup]]
KnowsVersion(c) == seen[c] # NotSeen

Unsaved == UNCHANGED <<directoryVars, store, processVars, save, disturbed, saves, faults>>

\* The requests that only read.  The draft and relationships answer the
\* version, and the relationships the identity of the active document.
ReadDraft(c, kind) ==
  /\ kind \in {"read_draft", "read_relationships", "read_triggers_fragment"}
  /\ Request(c, kind)
  /\ Answer(ReadError)
  /\ IF Readable THEN Learns(c, OnDisk) ELSE UNCHANGED seen
  /\ Unsaved /\ UNCHANGED aliases

ReadWorkflowFragment(c, w) ==
  LET error == IF ~Readable THEN ReadError
               ELSE IF OnDisk.wf[w] = Absent THEN "not_found" ELSE "none" IN
  /\ Request(c, "read_workflow_fragment")
  /\ Answer(error)
  /\ IF error = "none" THEN Learns(c, OnDisk) ELSE UNCHANGED seen
  /\ Unsaved /\ UNCHANGED aliases

ExportDraft(c) ==
  /\ Request(c, "export_draft") /\ KnowsVersion(c)
  /\ Answer(IF Readable /\ OnDisk # seen[c].version THEN "conflict" ELSE ReadError)
  /\ Unsaved /\ UNCHANGED <<seen, aliases>>

ValidateDraft(c) ==
  /\ Request(c, "validate_draft")
  /\ Answer(ReadError)
  /\ Unsaved /\ UNCHANGED <<seen, aliases>>

PreviewWorkflowFragment(c) ==
  /\ Request(c, "preview_workflow_fragment")
  /\ \E error \in {"none", "limit"} : Answer(error)
  /\ Unsaved /\ UNCHANGED <<seen, aliases>>

ReadDiscard(c, k) ==
  /\ Request(c, "read_discard")
  /\ Answer(IF records[k] = NoRecord THEN "not_found" ELSE "none")
  /\ Unsaved /\ UNCHANGED <<seen, aliases>>

-----------------------------------------------------------------------------
(* A save: which files, in which order *)

Changed(doc) == {w \in Workflows : doc.wf[w] # Absent /\ doc.wf[w] # OnDisk.wf[w]}
Removed(doc) == {w \in Workflows : doc.wf[w] = Absent /\ OnDisk.wf[w] # Absent}
Op(op, w) == [op |-> op, wf |-> w]
TriggersOp == Op("triggers", Absent)
Ops == [op : {"write", "unlink"}, wf : Workflows] \cup {TriggersOp}
TriggerWrite(doc) == IF doc.tr = OnDisk.tr THEN {} ELSE {TriggersOp}

\* Mutant: removed workflows keep their files.
PersistedKeepsRemoved(doc) == {Op("write", w) : w \in Changed(doc)} \cup TriggerWrite(doc)
\* _persist_files: what it does to the directory ...
Persisted(doc) ==
  {Op("write", w) : w \in Changed(doc)} \cup {Op("unlink", w) : w \in Removed(doc)}
    \cup TriggerWrite(doc)

\* ... and in which order: writes, then unlinks, both by name, then the triggers.
Precedes(o, p) ==
  \/ o.op = "write" /\ p.op # "write"
  \/ o.op = "unlink" /\ p.op = "triggers"
  \/ o.op = p.op /\ o.op # "triggers" /\ Place[o.wf] < Place[p.wf]

\* _workflow_path: the file it was loaded from, or the one of its name.  A file
\* declares one workflow, so a source is never shared.
WorkflowPath(w) == IF Declares(w) = {} THEN w ELSE Source(w)

\* The file of a new workflow's name may be the declaration of another one.
Clash(doc) == \E w \in Changed(doc) : Declares(w) = {} /\ w \in Present

BeginSave(c, kind, doc, key) ==
  /\ saves < MaxSaves /\ saves' = saves + 1
  /\ save' = [kind |-> kind, client |-> c, doc |-> doc, before |-> OnDisk, key |-> key,
              todo |-> Persisted(doc), path |-> [w \in Workflows |-> WorkflowPath(w)]]
  /\ disturbed' = (disturbed \/ Clash(doc) \/ \A w \in Workflows : doc.wf[w] = Absent)
  /\ UNCHANGED <<directoryVars, store, aliases, up, startup, seen, last, faults>>

Refuse(error) ==
  /\ Answer(error)
  /\ UNCHANGED <<directoryVars, store, aliases, up, startup, save, seen, disturbed, saves, faults>>

\* Begin a save of doc unless error.
SaveOr(c, kind, error, doc) ==
  /\ IF error = "none" THEN BeginSave(c, kind, doc, Nothing) ELSE Refuse(error)
  /\ UNCHANGED records

\* The read and the version check every conditional save begins with.
VersionError(version) ==
  IF ~Readable THEN ReadError ELSE IF OnDisk # version THEN "conflict" ELSE "none"
First(error, other) == IF error # "none" THEN error ELSE other
Check(ok, error) == IF ok THEN "none" ELSE error

\* create_draft, and an import without a version, replace what is there.
CreateDraft(c, kind, doc) ==
  /\ kind \in {"create_draft", "import_draft"}
  /\ Request(c, kind)
  /\ SaveOr(c, kind, First(Check(Closed(doc), "invalid"), ReadError), doc)

UpdateDraft(c, kind, doc) ==
  /\ kind \in {"update_draft", "import_draft"}
  /\ Request(c, kind) /\ KnowsVersion(c)
  /\ SaveOr(c, kind, First(Check(Closed(doc), "invalid"), VersionError(seen[c].version)), doc)

UpdateTriggersFragment(c, tr) ==
  LET doc == Document(OnDisk.wf, tr) IN
  /\ Request(c, "update_triggers_fragment") /\ KnowsVersion(c)
  /\ SaveOr(c, "update_triggers_fragment",
            First(VersionError(seen[c].version), Check(Closed(doc), "invalid")), doc)

\* name is the workflow the fragment declares, or Absent when it does not parse.
UpdateWorkflowFragment(c, w, name, content) ==
  LET doc == Document([OnDisk.wf EXCEPT ![w] = content], triggers) IN
  /\ Request(c, "update_workflow_fragment") /\ KnowsVersion(c)
  /\ SaveOr(c, "update_workflow_fragment",
            First(Check(name = w, "fragment"), VersionError(seen[c].version)), doc)

DeleteWorkflowFragment(c, w) ==
  LET doc == Document([OnDisk.wf EXCEPT ![w] = Absent], triggers)
      held == \E t \in Triggers : triggers[t] = w IN
  /\ Request(c, "delete_workflow_fragment") /\ KnowsVersion(c)
  /\ SaveOr(c, "delete_workflow_fragment",
            First(VersionError(seen[c].version),
                  First(Check(OnDisk.wf[w] # Absent, "not_found"), Check(~held, "dependency"))), doc)

-----------------------------------------------------------------------------
(* apply and discard *)

Publish(doc) == aliases' = doc.wf

Apply(c) ==
  /\ Request(c, "apply") /\ KnowsVersion(c)
  /\ LET error == First(VersionError(seen[c].version), Check(store, "unavailable")) IN
     \/ /\ error # "none"
        /\ Answer(error) /\ UNCHANGED aliases
     \/ /\ error = "none" /\ ~ValidDocument(OnDisk)
        /\ Answer("invalid") /\ UNCHANGED aliases
     \/ /\ error = "none" /\ ValidDocument(OnDisk)
        /\ \/ Answer("none") /\ Publish(OnDisk)
           \/ Answer("unavailable") /\ UNCHANGED aliases   \* CatalogError
  /\ Unsaved /\ UNCHANGED seen

SetRecord(k, state, version) ==
  records' = [records EXCEPT ![k] = [state |-> state, version |-> version]]

\* Mutant: a record that failed or did not finish is tried again.
RecordedApplied(k) == records[k] # NoRecord /\ records[k].state = "applied"
\* A record under this key: the same request that was applied is answered
\* again, every other one is a conflict.
Recorded(k) == records[k] # NoRecord

Discard(c, k) ==
  /\ Request(c, "discard") /\ KnowsVersion(c)
  /\ LET version == seen[c].version
         known == {j \in DiscardKeys \ {k} : records[j] # NoRecord} IN
     \/ /\ seen[c].active # startup
        /\ Refuse("conflict") /\ UNCHANGED records
     \/ /\ seen[c].active = startup /\ Recorded(k)
        /\ Refuse(Check(records[k] = [state |-> "applied", version |-> version], "conflict"))
        /\ UNCHANGED records
     \/ /\ seen[c].active = startup /\ ~Recorded(k)
        /\ Cardinality(known) >= MaxDiscardRecords
        /\ Refuse("limit") /\ UNCHANGED records
     \/ /\ seen[c].active = startup /\ ~Recorded(k)
        /\ Cardinality(known) < MaxDiscardRecords
        /\ \/ /\ ~Readable
              /\ SetRecord(k, "pending", version) /\ Refuse(ReadError)
           \/ /\ Readable /\ OnDisk # version
              /\ SetRecord(k, "failed", version) /\ Refuse("conflict")
           \/ /\ Readable /\ OnDisk = version
              /\ SetRecord(k, "pending", version)
              /\ BeginSave(c, "discard", startup, k)

-----------------------------------------------------------------------------
(* The steps of a save.  _write_atomic makes a temporary file beside the     *)
(* target and replaces the target by it; an OSError removes the temporary    *)
(* file and ends the save where it is.                                       *)

Doing(o) ==
  /\ up /\ save # NoSave /\ o \in save.todo
  /\ \A p \in save.todo \ {o} : Precedes(o, p)
OpDone(o) == save' = [save EXCEPT !.todo = @ \ {o}]
InSave == UNCHANGED <<store, aliases, processVars, seen, last, disturbed, saves, faults>>

\* Mutant: the target is opened for writing in place of a temporary file.
MakeTemporaryTruncates ==
  \E o \in Ops :
    /\ Doing(o) /\ o.op # "unlink" /\ ~temporary
    /\ temporary' = TRUE
    /\ files' = IF o.op = "write" THEN [files EXCEPT ![save.path[o.wf]] = NoFile] ELSE files
    /\ UNCHANGED <<triggers, save>> /\ InSave
MakeTemporary ==
  \E o \in Ops :
    /\ Doing(o) /\ o.op # "unlink" /\ ~temporary
    /\ temporary' = TRUE
    /\ UNCHANGED <<files, triggers, save>> /\ InSave

ReplaceWorkflow ==
  \E w \in Workflows :
    /\ Doing(Op("write", w)) /\ temporary
    /\ files' = [files EXCEPT ![save.path[w]] = [wf |-> w, content |-> save.doc.wf[w]]]
    /\ temporary' = FALSE /\ OpDone(Op("write", w))
    /\ UNCHANGED triggers /\ InSave

ReplaceTriggers ==
  /\ Doing(TriggersOp) /\ temporary
  /\ triggers' = save.doc.tr
  /\ temporary' = FALSE /\ OpDone(TriggersOp)
  /\ UNCHANGED files /\ InSave

UnlinkWorkflow ==
  \E w \in Workflows :
    /\ Doing(Op("unlink", w))
    /\ files' = [files EXCEPT ![save.path[w]] = NoFile]
    /\ OpDone(Op("unlink", w))
    /\ UNCHANGED <<triggers, temporary>> /\ InSave

\* The call fails, or the declaration renders to more than a file may hold.
SaveFails ==
  /\ faults < MaxFaults /\ faults' = faults + 1
  /\ \E o \in Ops : Doing(o)
  /\ temporary' = FALSE
  /\ save' = NoSave /\ disturbed' = TRUE
  /\ Answer("unavailable")
  /\ UNCHANGED <<files, triggers, store, aliases, processVars, seen, saves>>

\* Mutant: a saved draft is published as it is.
MayPublishAny(doc) == store
\* The end of _save: publish what is valid, answer the version of the document.
\* To publish, the directory is read again and the document merged into it: a
\* ConfigLoadError or a ValidationError there escapes, after the files were
\* written, and leaves a discard pending.
PublishError(doc) ==
  IF ~store THEN "none"
  ELSE IF BundleError # "none" THEN BundleError
  ELSE IF ~Bounded(doc) THEN "invalid" ELSE "none"
MayPublish(doc) == store /\ ValidDocument(doc)

SaveAnswered ==
  /\ save' = NoSave
  /\ Answer("none")
  /\ Learns(save.client, save.doc)
  /\ records' = IF save.key = Nothing THEN records
                ELSE [records EXCEPT ![save.key].state = "applied"]
  /\ UNCHANGED <<directoryVars, store, up, startup, disturbed, saves, faults>>

FinishSave ==
  /\ up /\ save # NoSave /\ save.todo = {}
  /\ LET error == PublishError(save.doc) IN
     \/ /\ error = "none" /\ MayPublish(save.doc)
        /\ Publish(save.doc) /\ SaveAnswered
     \/ /\ error = "none"
        /\ UNCHANGED aliases /\ SaveAnswered
     \/ /\ error # "none"
        /\ save' = NoSave /\ Answer(error)
        /\ UNCHANGED <<directoryVars, store, aliases, processVars, seen, disturbed, saves, faults>>

-----------------------------------------------------------------------------
(* The process and the directory around it *)

Crash ==
  /\ up /\ faults < MaxFaults /\ faults' = faults + 1
  /\ up' = FALSE /\ save' = NoSave
  /\ records' = [k \in DiscardKeys |-> NoRecord]
  /\ disturbed' = (disturbed \/ save # NoSave)
  /\ UNCHANGED <<directoryVars, store, aliases, startup, seen, last, saves>>

\* Mutant: the constructor takes what the loader returns as it is.
RestartUnchecked ==
  /\ ~up /\ Loadable
  /\ up' = TRUE /\ startup' = OnDisk
  /\ UNCHANGED <<directoryVars, store, aliases, records, save, seen, last, disturbed, saves, faults>>
\* The constructor reads the directory and fails when it cannot.
Restart ==
  /\ ~up /\ Readable
  /\ up' = TRUE /\ startup' = OnDisk
  /\ UNCHANGED <<directoryVars, store, aliases, records, save, seen, last, disturbed, saves, faults>>

\* Somebody edits one file of the directory, or clears away a temporary file.
Edit ==
  /\ faults < MaxFaults /\ faults' = faults + 1
  /\ \/ \E x \in Edited :
          /\ files' = [files EXCEPT ![x.file] = [wf |-> x.wf, content |-> x.content]]
          /\ UNCHANGED triggers
     \/ \E x \in Present : files' = [files EXCEPT ![x] = NoFile] /\ UNCHANGED triggers
     \/ \E tr \in [Triggers -> Workflows \cup {Absent}] :
          triggers' = tr /\ tr # triggers /\ UNCHANGED files
  /\ disturbed' = TRUE
  /\ UNCHANGED <<temporary, store, aliases, processVars, save, seen, last, saves>>

ClearTemporary ==
  /\ temporary /\ save = NoSave
  /\ temporary' = FALSE
  /\ UNCHANGED <<files, triggers, store, aliases, processVars, save, seen, last, disturbed, saves, faults>>

Init ==
  /\ \E d \in Directories : files = d.files /\ triggers = d.triggers
  /\ temporary = FALSE /\ Readable
  /\ store \in HasCatalog
  /\ aliases = [w \in Workflows |-> Absent]
  /\ up = TRUE /\ startup = OnDisk
  /\ records = [k \in DiscardKeys |-> NoRecord]
  /\ save = NoSave
  /\ seen = [c \in Clients |-> NotSeen]
  /\ last = TRUE
  /\ disturbed = FALSE
  /\ saves = 0 /\ faults = 0

Reads(c) ==
  \/ \E kind \in {"read_draft", "read_relationships", "read_triggers_fragment"} : ReadDraft(c, kind)
  \/ \E w \in Workflows : ReadWorkflowFragment(c, w)
  \/ ExportDraft(c)
  \/ ValidateDraft(c)
  \/ PreviewWorkflowFragment(c)
  \/ \E k \in DiscardKeys : ReadDiscard(c, k)

Writes(c) ==
  \/ \E doc \in Submitted :
       \/ \E kind \in {"create_draft", "import_draft"} : CreateDraft(c, kind, doc)
       \/ \E kind \in {"update_draft", "import_draft"} : UpdateDraft(c, kind, doc)
  \/ \E tr \in [Triggers -> Workflows \cup {Absent}] : UpdateTriggersFragment(c, tr)
  \/ \E x \in Fragments : UpdateWorkflowFragment(c, x.wf, x.name, x.content)
  \/ \E w \in Workflows : DeleteWorkflowFragment(c, w)
  \/ Apply(c)
  \/ \E k \in DiscardKeys : Discard(c, k)

SaveSteps ==
  \/ MakeTemporary \/ ReplaceWorkflow \/ ReplaceTriggers \/ UnlinkWorkflow
  \/ SaveFails \/ FinishSave

Next ==
  \/ \E c \in Clients : Reads(c) \/ Writes(c)
  \/ SaveSteps
  \/ Crash \/ Restart \/ Edit \/ ClearTemporary

Spec == Init /\ [][Next]_authoringVars

-----------------------------------------------------------------------------
(* Properties *)

TypeOK ==
  /\ files \in [Workflows -> Files]
  /\ triggers \in [Triggers -> Workflows \cup {Absent}]
  /\ temporary \in BOOLEAN /\ store \in BOOLEAN /\ up \in BOOLEAN /\ disturbed \in BOOLEAN
  /\ aliases \in [Workflows -> Contents \cup {Absent}]
  /\ startup \in ClosedDocuments
  /\ records \in [DiscardKeys -> {NoRecord} \cup
                    [state : {"pending", "applied", "failed"}, version : AllDocuments]]
  /\ save # NoSave => save.doc \in ClosedDocuments /\ save.todo \subseteq Ops
  /\ \A c \in Clients : seen[c] # NotSeen => seen[c] \in [version : AllDocuments, active : ClosedDocuments]

\* A save that ended and met no edit, fault or name clash left in the directory
\* exactly the document it was asked to save, whatever it was answered.  The
\* directory can be read afterwards, by a request or a restart, if the reader
\* accepts that document; if it does not, the save is refused all the same only
\* where there is a catalog, so an error says that the directory is unreadable.
EndedSaveIsOnDisk ==
  [][ (save # NoSave /\ save' = NoSave /\ ~disturbed')
        => /\ OnDisk' = save.doc
           /\ Readable' <=> Acceptable(save.doc)
           /\ last' <=> (store => Readable') ]_authoringVars

\* At every moment of a save that nobody disturbs, each workflow and the trigger
\* file hold what they held before or what the document says, never anything
\* between: a crash there mixes two documents and tears no declaration.
EachFileIsOldOrNew ==
  (save # NoSave /\ ~disturbed) =>
    /\ \A w \in Workflows :
         LET now == IF Declares(w) = {} THEN Absent ELSE files[Source(w)].content
         IN  now \in {save.before.wf[w], save.doc.wf[w]}
    /\ triggers \in {save.before.tr, save.doc.tr}

\* Within one life of the process a discard key stands for one request: its record
\* ends once and is never replaced, so the draft is discarded at most once for it.
DiscardIsDoneOnce ==
  [][ up' => \A k \in DiscardKeys :
        records[k] # NoRecord =>
          \/ records'[k] = records[k]
          \/ /\ records[k].state = "pending" /\ records'[k].state = "applied"
             /\ records'[k].version = records[k].version
             /\ save # NoSave /\ save.key = k ]_authoringVars

\* The catalog never names a definition the validator rejects, whether a save or
\* an apply published it.
PublishedIsValid == \A w \in Workflows : aliases[w] \notin Invalid

\* A client without the right to edit, apply or discard changes neither the
\* directory nor the catalog, through any route.
ViewersChangeNothing ==
  save # NoSave => Grants[save.client] \cap {"edit", "apply", "discard"} # {}

\* The console's list of relationships shows a change exactly when the draft
\* needs a restart to take effect.
RelationshipsTellRestart ==
  (up /\ Readable) =>
    LET related == Relationships(OnDisk, startup)
    IN  RestartRequired <=> \E d \in DOMAIN related : related[d] # "active"

\* At every moment of a save the directory has old and new files and nothing in between, what
\* is published is valid, and the console is told when a restart is needed.
DirectoryIsSound ==
  /\ TypeOK
  /\ EachFileIsOldOrNew
  /\ PublishedIsValid
  /\ ViewersChangeNothing
  /\ RelationshipsTellRestart

\* A save that ended is on disk and is answered by whether it can be read again where there
\* is a catalog, and a discard is done once whatever is repeated.
SavesAreDone ==
  /\ EndedSaveIsOnDisk
  /\ DiscardIsDoneOnce
=============================================================================
