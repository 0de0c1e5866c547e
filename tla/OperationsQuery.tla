--------------------------- MODULE OperationsQuery ---------------------------
(***************************************************************************)
(* OperationsQueryService (runtime/operations_query.py) over a definition  *)
(* catalog that other processes publish to: paged lists of workflows and   *)
(* of definitions, and the detail of a workflow with its children.  A read *)
(* of the catalog sees one state of it; the next page is read from a later *)
(* one.                                                                    *)
(*                                                                         *)
(* Workflows and digests are numbers (pages are sorted); 0 is no digest.   *)
(* The version of the alias document is its content.                       *)
(***************************************************************************)
EXTENDS Naturals, Sequences, SequencesExt

CONSTANTS
  QueryScopes,
  WorkflowNames, DefinitionKeys,   \* keys <<workflow, digest>>
  ChildrenOf,       \* [key -> sequence of the keys of its children]
  Readers,
  PageLimit,
  MaxChildren,      \* MAX_CONTROL_LIST_LIMIT for the children of a workflow
  MaxPublications   \* changes of the catalogs in one behaviour

ASSUME QueryAssumption ==
  /\ IsFiniteSet(DefinitionKeys) /\ IsFiniteSet(WorkflowNames)
  /\ WorkflowNames \subseteq Nat \ {0} /\ DefinitionKeys \subseteq WorkflowNames \X (Nat \ {0})
  /\ ChildrenOf \in [DefinitionKeys -> Seq(DefinitionKeys)]
  /\ PageLimit \in Nat \ {0}

VARIABLES
  catalog,      \* [QueryScopes -> [aliases, manifests]]
  reader,       \* [Readers -> reader]
  publications

queryVars == <<catalog, reader, publications>>

NoCursor == [kind |-> "none"]
Resting == [pc |-> "idle", cursor |-> NoCursor]

KeyLess(k, l) == k[1] < l[1] \/ (k[1] = l[1] /\ k[2] < l[2])

(* Keys and all their descendants: the least set that has them and the     *)
(* children of what it has.                                                *)
Closure(keys) ==
  {k \in DefinitionKeys :
    \A closed \in SUBSET DefinitionKeys :
      keys \subseteq closed /\ (\A j \in closed : Range(ChildrenOf[j]) \subseteq closed)
        => k \in closed}

QueriesInit ==
  /\ catalog = [s \in QueryScopes |-> [aliases |-> [n \in WorkflowNames |-> 0], manifests |-> {}]]
  /\ reader = [r \in Readers |-> Resting]
  /\ publications = 0

Changed == publications < MaxPublications /\ publications' = publications + 1

(* Definitions are stored before an alias names them, children first or    *)
(* last, and are never removed.                                            *)
StoreManifest(s, k) ==
  /\ Changed /\ k \notin catalog[s].manifests
  /\ catalog' = [catalog EXCEPT ![s].manifests = @ \cup {k}]
  /\ UNCHANGED reader

ReplaceAlias(s, k) ==
  /\ Changed /\ Closure({k}) \subseteq catalog[s].manifests
  /\ catalog[s].aliases[k[1]] # k[2]
  /\ catalog' = [catalog EXCEPT ![s].aliases[k[1]] = k[2]]
  /\ UNCHANGED reader

-----------------------------------------------------------------------------
(* list_workflows and list_definitions *)
InOrder(keys) ==
  CHOOSE f \in [1..Cardinality(keys) -> keys] :
    \A i, j \in DOMAIN f : i < j => KeyLess(f[i], f[j])

AliasKeys(aliases) == {<<n, aliases[n]>> : n \in {m \in WorkflowNames : aliases[m] # 0}}

Items(s, kind) ==
  IF kind = "definitions" THEN InOrder(catalog[s].manifests)
  ELSE InOrder(AliasKeys(catalog[s].aliases))

PageFrom(items, offset) == SubSeq(items, offset + 1, Min({offset + PageLimit, Len(items)}))

(* Mutant: the scope inside the cursor is not compared. *)
PageOffsetAnyScope(s, kind, snapshot, cursor) ==
  IF cursor = NoCursor THEN "first"
  ELSE IF cursor.kind # kind THEN "invalid_query"
  ELSE IF cursor.snapshot # snapshot THEN "stale_cursor"
  ELSE "offset"

(* Mutant: a cursor is good for every version of the alias document. *)
PageOffsetAnySnapshot(s, kind, snapshot, cursor) ==
  IF cursor = NoCursor THEN "first"
  ELSE IF cursor.scope # s \/ cursor.kind # kind THEN "invalid_query"
  ELSE "offset"

(* _page_offset and decode_scope_cursor *)
PageOffset(s, kind, snapshot, cursor) ==
  IF cursor = NoCursor THEN "first"
  ELSE IF cursor.scope # s \/ cursor.kind # kind THEN "invalid_query"
  ELSE IF cursor.snapshot # snapshot THEN "stale_cursor"
  ELSE "offset"

(* One page, with the cursor of the page before if there is one: _page. *)
ListPage(r, s, kind) ==
  LET items == Items(s, kind)
      snapshot == catalog[s].aliases
      verdict == PageOffset(s, kind, snapshot, reader[r].cursor)
      offset == IF verdict = "offset" THEN reader[r].cursor.offset ELSE 0
      page == PageFrom(items, offset)
      next == offset + Len(page)
      got == IF verdict = "first" THEN page ELSE reader[r].got \o page
      base == IF verdict = "first" THEN items ELSE reader[r].base
  IN  /\ reader[r].pc \in {"idle", "paging"}
      /\ reader' = [reader EXCEPT ![r] =
           IF verdict \in {"invalid_query", "stale_cursor"}
           THEN [pc |-> verdict, cursor |-> NoCursor]
           ELSE [pc |-> IF next < Len(items) THEN "paging" ELSE "listed",
                 kind |-> kind, got |-> got, base |-> base,
                 cursor |-> IF next < Len(items)
                            THEN [scope |-> s, kind |-> kind, offset |-> next, snapshot |-> snapshot]
                            ELSE NoCursor]]
      /\ UNCHANGED <<catalog, publications>>

-----------------------------------------------------------------------------
(* workflow_detail: the active definition of one state of the catalog, and *)
(* _workflow_children, which takes the last pending child first.           *)
DescribeWorkflow(r, s, n) ==
  LET digest == catalog[s].aliases[n]
  IN  /\ reader[r].pc = "idle"
      /\ reader' = [reader EXCEPT ![r] =
           IF digest = 0 THEN [pc |-> "not_found", cursor |-> NoCursor]
           ELSE [pc |-> "children", cursor |-> NoCursor, root |-> <<n, digest>>,
                 known |-> catalog[s].manifests, pending |-> ChildrenOf[<<n, digest>>],
                 children |-> {}]]
      /\ UNCHANGED <<catalog, publications>>

(* Mutant: the children of a child are not looked at. *)
PendingDirectOnly(rest, child) == rest

Pending(rest, child) == rest \o ChildrenOf[child]

PopChild(r) ==
  LET d == reader[r]
      child == Last(d.pending)
      rest == Front(d.pending)
  IN  /\ d.pc = "children" /\ d.pending # <<>>
      /\ reader' = [reader EXCEPT ![r] =
           IF child \notin d.known THEN [pc |-> "unavailable", cursor |-> NoCursor]
           ELSE IF \E k \in d.children : k[1] = child[1] THEN [d EXCEPT !.pending = rest]
           ELSE IF Cardinality(d.children) = MaxChildren
           THEN [pc |-> "unavailable", cursor |-> NoCursor]
           ELSE [d EXCEPT !.children = @ \cup {child}, !.pending = Pending(rest, child)]]
      /\ UNCHANGED <<catalog, publications>>

Described(r) ==
  /\ reader[r].pc = "children" /\ reader[r].pending = <<>>
  /\ reader' = [reader EXCEPT ![r].pc = "described"]
  /\ UNCHANGED <<catalog, publications>>

QueriesNext ==
  \/ \E s \in QueryScopes, k \in DefinitionKeys : StoreManifest(s, k) \/ ReplaceAlias(s, k)
  \/ \E r \in Readers :
       \/ \E s \in QueryScopes, kind \in {"workflows", "definitions"} : ListPage(r, s, kind)
       \/ \E s \in QueryScopes, n \in WorkflowNames : DescribeWorkflow(r, s, n)
       \/ PopChild(r) \/ Described(r)

-----------------------------------------------------------------------------
(* A list of workflows that was read to its end, page by page, is the list *)
(* as it was when the first page was read, whatever was published in       *)
(* between (operations_query.py _page_offset, STALE_CURSOR).               *)
WorkflowPagesAreOneList ==
  \A r \in Readers :
     reader[r].pc = "listed" /\ reader[r].kind = "workflows" => reader[r].got = reader[r].base

(* A list of definitions may repeat one that was pushed down by a new      *)
(* definition, whose arrival does not change the alias version in the      *)
(* cursor; it never misses one that was there at the first page and shows  *)
(* none of another scope.                                                  *)
NoDefinitionIsMissed ==
  \A r \in Readers :
     reader[r].pc = "listed" /\ reader[r].kind = "definitions"
     => Range(reader[r].base) \subseteq Range(reader[r].got)

(* The detail of a workflow shows the children of its children to the end  *)
(* (_workflow_children).                                                   *)
EveryChildIsShown ==
  \A r \in Readers :
     reader[r].pc = "described"
     => \A k \in reader[r].children \cup {reader[r].root} :
          \A i \in DOMAIN ChildrenOf[k] : \E c \in reader[r].children : c[1] = ChildrenOf[k][i][1]
=============================================================================
