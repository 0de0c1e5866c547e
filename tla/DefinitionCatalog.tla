-------------------------- MODULE DefinitionCatalog --------------------------
(***************************************************************************)
(* The definition catalog: immutable manifests and one alias document that *)
(* names the active definition of every workflow (definitions/catalog.py), *)
(* over files or over S3 (definitions/s3.py), with publish, load and       *)
(* import (definitions/migration.py).  Several processes share the store.  *)
(*                                                                         *)
(* A manifest is its content: key <<workflow, digest>>.  The version of    *)
(* the alias document is a digest of its content in both stores, so a      *)
(* document that returns to an earlier content has its version again.      *)
(***************************************************************************)
EXTENDS FiniteSets, Naturals

CONSTANTS
  Workflows, Digests,
  Callers,
  CatalogCalls,      \* [kind, want]: the calls a caller may make
  MaxCatalogFaults   \* crashes and failed writes in one behaviour

VARIABLES
  backend,     \* "local" | "s3"
  manifests,   \* [Workflows \X Digests -> "absent" | "torn" | "ok"]
  aliases,     \* the alias document, or Unpublished
  call,        \* [Callers -> call]
  lost,        \* an alias document was replaced that its writer had not seen
  catFaults

catalogVars == <<backend, manifests, aliases, call, lost, catFaults>>

NoDigest == "none"
Unpublished == [w \in Workflows |-> NoDigest]
Documents == [Workflows -> Digests \cup {NoDigest}]

ASSUME CallsAssumption ==
  CatalogCalls \subseteq [kind : {"publish", "import", "load"}, want : Documents]

Keys == Workflows \X Digests
Named(document) == {w \in Workflows : document[w] # NoDigest}
KeysOf(document) == {<<w, document[w]>> : w \in Named(document)}
Stored == {k \in Keys : manifests[k] = "ok"}
Torn == {k \in Keys : manifests[k] = "torn"}
NoFile == <<NoDigest, NoDigest>>
NoCall == [pc |-> "idle"]

CatalogFault == catFaults < MaxCatalogFaults /\ catFaults' = catFaults + 1
NoCatalogFault == UNCHANGED catFaults

SetCall(c, value) == call' = [call EXCEPT ![c] = value]
GoTo(c, pc) == SetCall(c, [call[c] EXCEPT !.pc = pc])
Finish(c, result) == SetCall(c, [pc |-> "done", result |-> result])

CatalogIs(store) ==
  /\ backend = store
  /\ manifests = [k \in Keys |-> "absent"]
  /\ aliases = Unpublished
  /\ call = [c \in Callers |-> NoCall]
  /\ lost = FALSE
  /\ catFaults = 0

CatalogInit == \E store \in {"local", "s3"} : CatalogIs(store)

-----------------------------------------------------------------------------
(* DefinitionCatalogStore._load_state: the alias document, then the        *)
(* manifests, then the constructor of DefinitionCatalog.                   *)

Begin(c, request) ==
  /\ call[c] = NoCall \/ call[c].pc = "done"
  /\ SetCall(c, [pc |-> "first", kind |-> request.kind, want |-> request.want,
                 base |-> Unpublished, known |-> {}, todo |-> {}, file |-> NoFile])
  /\ UNCHANGED <<backend, manifests, aliases, lost, catFaults>>

(* Mutant: an import looks only at the aliases it brings. *)
ImportConflictsIncomingOnly(base, want) ==
  \E w \in Named(base) \cap Named(want) : want[w] # base[w]

(* plan_catalog_import: an alias that would change, or that the bundle     *)
(* does not have, is a conflict.                                           *)
ImportConflicts(base, want) == \E w \in Named(base) : want[w] # base[w]

(* Mutant: the alias document is swapped before the manifests are created. *)
AfterLoadSwapFirst(c, base, known) ==
  LET k == call[c].kind
      want == call[c].want
  IN  IF ~(KeysOf(base) \subseteq known) THEN Finish(c, "missing")
      ELSE IF k = "load" THEN Finish(c, IF base = want THEN "ok" ELSE "drift")
      ELSE IF k = "import" /\ ImportConflicts(base, want) THEN Finish(c, "conflict")
      ELSE SetCall(c, [call[c] EXCEPT !.base = base, !.known = known, !.pc = "swap",
                                      !.todo = KeysOf(want)])

(* What follows the load: a load compares the authored definitions         *)
(* (verify_authored), publish creates all its manifests, an import the     *)
(* ones that are missing, unless it conflicts.                             *)
AfterLoad(c, base, known) ==
  LET k == call[c].kind
      want == call[c].want
  IN  IF ~(KeysOf(base) \subseteq known) THEN Finish(c, "missing")
      ELSE IF k = "load" THEN Finish(c, IF base = want THEN "ok" ELSE "drift")
      ELSE IF k = "import" /\ ImportConflicts(base, want) THEN Finish(c, "conflict")
      ELSE SetCall(c, [call[c] EXCEPT !.base = base, !.known = known, !.pc = "create",
                         !.todo = IF k = "import" THEN KeysOf(want) \ known ELSE KeysOf(want)])

(* Mutant: the manifests are listed before the alias document is read. *)
ReadsListFirst(pc) == IF pc = "first" THEN "manifests" ELSE "aliases"

Reads(pc) == IF pc = "first" THEN "aliases" ELSE "manifests"

Load(c) ==
  LET reads == Reads(call[c].pc)
      base == IF reads = "aliases" THEN aliases ELSE call[c].base
      known == IF reads = "manifests" THEN Stored ELSE call[c].known
  IN  /\ call[c].pc \in {"first", "second"}
      /\ IF reads = "aliases" /\ call[c].kind = "load" /\ aliases = Unpublished
         THEN Finish(c, "unpublished")
         ELSE IF reads = "manifests" /\ Torn # {} THEN Finish(c, "corrupt")
         ELSE IF call[c].pc = "first"
         THEN SetCall(c, [call[c] EXCEPT !.pc = "second", !.base = base, !.known = known])
         ELSE AfterLoad(c, base, known)
      /\ UNCHANGED <<backend, manifests, aliases, lost, catFaults>>

-----------------------------------------------------------------------------
(* create_immutable: a file is created empty and then written; an S3       *)
(* object appears whole.  An existing object must have the same content.   *)

Manifest(k, state) == manifests' = [manifests EXCEPT ![k] = state]

CreateFile(c, k) ==
  /\ backend = "local" /\ call[c].pc = "create" /\ k \in call[c].todo
  /\ CASE manifests[k] = "absent" -> /\ Manifest(k, "torn")
                                     /\ SetCall(c, [call[c] EXCEPT !.pc = "write", !.file = k])
       [] manifests[k] = "torn" -> UNCHANGED manifests /\ Finish(c, "conflict")
       [] OTHER -> UNCHANGED manifests /\ SetCall(c, [call[c] EXCEPT !.todo = @ \ {k}])
  /\ UNCHANGED <<backend, aliases, lost, catFaults>>

(* The stream is flushed, or the write fails and leaves the torn file. *)
WriteFile(c) ==
  /\ call[c].pc = "write"
  /\ \/ /\ Manifest(call[c].file, "ok") /\ NoCatalogFault
        /\ SetCall(c, [call[c] EXCEPT !.pc = "create", !.todo = @ \ {call[c].file}])
     \/ /\ CatalogFault /\ UNCHANGED manifests /\ Finish(c, "storage")
  /\ UNCHANGED <<backend, aliases, lost>>

PutManifest(c, k) ==
  /\ backend = "s3" /\ call[c].pc = "create" /\ k \in call[c].todo
  /\ \/ /\ Manifest(k, "ok") /\ NoCatalogFault
        /\ SetCall(c, [call[c] EXCEPT !.todo = @ \ {k}])
     \/ /\ CatalogFault /\ Finish(c, "storage")
        /\ (Manifest(k, "ok") \/ UNCHANGED manifests)
  /\ UNCHANGED <<backend, aliases, lost>>

-----------------------------------------------------------------------------
(* The alias document.                                                     *)

(* publish goes on to the swap; import has nothing to do when no alias is  *)
(* new, and loads the store again before it swaps (replace_aliases).       *)
Created(c) ==
  /\ call[c].pc = "create" /\ call[c].todo = {}
  /\ IF call[c].kind = "publish" THEN GoTo(c, "swap")
     ELSE IF call[c].want = call[c].base THEN Finish(c, "ok")
     ELSE IF Torn # {} THEN Finish(c, "corrupt")
     ELSE IF ~(KeysOf(aliases) \cup KeysOf(call[c].want) \subseteq Stored)
     THEN Finish(c, "missing")
     ELSE GoTo(c, "swap")
  /\ UNCHANGED <<backend, manifests, aliases, lost, catFaults>>

(* compare_and_swap reads first: an identical document is a success. *)
ReadBeforeSwap(c) ==
  /\ call[c].pc = "swap"
  /\ IF aliases = call[c].want THEN Finish(c, "ok")
     ELSE IF backend = "local" /\ aliases # call[c].base THEN Finish(c, "conflict")
     ELSE GoTo(c, IF backend = "local" THEN "replace" ELSE "put")
  /\ UNCHANGED <<backend, manifests, aliases, lost, catFaults>>

(* The file is renamed over whatever is there by now. *)
ReplaceFile(c) ==
  /\ call[c].pc = "replace"
  /\ \/ /\ aliases' = call[c].want /\ lost' = (lost \/ aliases # call[c].base)
        /\ Finish(c, "ok") /\ NoCatalogFault
     \/ /\ CatalogFault /\ Finish(c, "storage") /\ UNCHANGED <<aliases, lost>>
  /\ UNCHANGED <<backend, manifests>>

(* Mutant: the put carries no condition. *)
PutMatchesAlways(c) == TRUE

(* IfMatch with the version the call began with, IfNoneMatch without one. *)
PutMatches(c) == aliases = call[c].base

PutAliases(c) ==
  /\ call[c].pc = "put"
  /\ \/ /\ PutMatches(c) /\ aliases' = call[c].want /\ lost' = (lost \/ aliases # call[c].base)
        /\ \/ GoTo(c, "verify") /\ NoCatalogFault
           \/ Finish(c, "storage") /\ CatalogFault
     \/ ~PutMatches(c) /\ GoTo(c, "reread") /\ NoCatalogFault /\ UNCHANGED <<aliases, lost>>
     \/ CatalogFault /\ Finish(c, "storage") /\ UNCHANGED <<aliases, lost>>
  /\ UNCHANGED <<backend, manifests>>

(* _conditional_write reads the object back: after its write it must be    *)
(* there, after a refusal it may be there by somebody else's hand.         *)
ReadBack(c) ==
  /\ call[c].pc \in {"verify", "reread"}
  /\ Finish(c, IF aliases = call[c].want THEN "ok"
               ELSE IF call[c].pc = "verify" THEN "storage" ELSE "conflict")
  /\ UNCHANGED <<backend, manifests, aliases, lost, catFaults>>

Crash(c) ==
  /\ call[c] # NoCall /\ call[c].pc # "done"
  /\ CatalogFault
  /\ SetCall(c, NoCall)
  /\ UNCHANGED <<backend, manifests, aliases, lost>>

CatalogNext ==
  \E c \in Callers :
     \/ \E request \in CatalogCalls : Begin(c, request)
     \/ Load(c) \/ WriteFile(c) \/ Created(c) \/ ReadBeforeSwap(c)
     \/ \E k \in Keys : CreateFile(c, k) \/ PutManifest(c, k)
     \/ ReplaceFile(c) \/ PutAliases(c) \/ ReadBack(c) \/ Crash(c)

-----------------------------------------------------------------------------
(* Every alias names a complete manifest, whatever publishers, importers   *)
(* and crashes interleave: manifests are created before the document that  *)
(* names them is swapped.                                                  *)
AliasesResolve == KeysOf(aliases) \subseteq Stored

(* A load, or the load inside publish and import, never finds an alias     *)
(* without its manifest, although it reads the two separately.             *)
LoadFindsEveryDefinition ==
  \A c \in Callers : call[c].pc = "done" => call[c].result # "missing"

(* In S3 no alias document is replaced by a writer that had not read it;   *)
(* files have a window between the check and the rename.                   *)
NoLostAliases == lost => backend = "local"

(* An import adds aliases; it never changes or removes one that is there   *)
(* when it swaps the document it planned for.                              *)
ImportKeepsAliases ==
  [][\A c \in Callers :
       /\ call[c].pc \in {"replace", "put"} /\ call[c].kind = "import"
       /\ aliases' # aliases /\ call'[c] # call[c] /\ aliases = call[c].base
       => \A w \in Named(aliases) : aliases'[w] = aliases[w]]_catalogVars
=============================================================================
