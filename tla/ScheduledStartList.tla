------------------------- MODULE ScheduledStartList -------------------------
(***************************************************************************)
(* ScheduledStartService.list (runtime/scheduled_start_service.py): a page *)
(* of a walk through the scheduled starts of a scope, while starts are     *)
(* created, end and are cleaned up.                                        *)
(*                                                                         *)
(* A page the caller gets may begin and end inside pages of Temporal, and  *)
(* may take several: the cursor names a page of Temporal, its size and an  *)
(* offset in it, and the page is fetched again.  Temporal lists schedules  *)
(* in one order, here that of their numbers; its token stands for the last *)
(* schedule of a page (external).                                          *)
(***************************************************************************)
EXTENDS Naturals, Sequences, SequencesExt, FiniteSetsExt

CONSTANTS
  ListIds,             \* 1..n
  ListLimits,          \* page limits a caller asks for
  ListConcurrency,     \* describe_concurrency
  MaxScan,             \* max_schedules
  MaxListChanges       \* bound: changes of the starts

ASSUME ListAssumption ==
  /\ IsFiniteSet(ListIds) /\ ListIds \subseteq Nat \ {0} /\ ListLimits \subseteq Nat \ {0}
  /\ ListConcurrency \in Nat \ {0} /\ MaxScan \in Nat

VARIABLES
  starts,       \* [ListIds -> "none" | "pending" | "ended"]
  walk,         \* the caller's walk
  listChanges,
  removed       \* history: starts cleaned up during the walk

listVars == <<starts, walk, listChanges, removed>>

NoToken == 0
NoListCursor == [size |-> 0]
Filters == {{"pending"}, {"pending", "ended"}}
Existing == {i \in ListIds : starts[i] # "none"}

ListIs(first) ==
  /\ starts = first
  /\ walk = [pc |-> "idle", cursor |-> NoListCursor, got |-> {}, base |-> {}]
  /\ listChanges = 0 /\ removed = {}
ListInit == \E first \in [ListIds -> {"none", "pending"}] : ListIs(first)

Changes == listChanges < MaxListChanges /\ listChanges' = listChanges + 1 /\ UNCHANGED walk

StartAppears(i) ==
  Changes /\ starts[i] = "none" /\ i \notin removed
  /\ starts' = [starts EXCEPT ![i] = "pending"] /\ UNCHANGED removed
StartEnds(i) ==
  Changes /\ starts[i] = "pending" /\ starts' = [starts EXCEPT ![i] = "ended"] /\ UNCHANGED removed
StartIsRemoved(i) ==
  Changes /\ starts[i] # "none" /\ starts' = [starts EXCEPT ![i] = "none"]
  /\ removed' = removed \cup {i}

(* Client.list_schedules, external: the page after a token. *)
Ascending(ids) ==
  CHOOSE f \in [1..Cardinality(ids) -> ids] : \A i, j \in DOMAIN f : i < j => f[i] < f[j]
After(token) == Ascending({i \in Existing : i > token})
PageAfter(token, size) == SubSeq(After(token), 1, Min({size, Len(After(token))}))
TokenAfter(token, size) ==
  IF Len(After(token)) > size THEN After(token)[size] ELSE NoToken

-----------------------------------------------------------------------------
Ends(reason) ==
  walk' = [pc |-> reason, cursor |-> NoListCursor, got |-> walk.got, base |-> walk.base]

(* The request, with _decode_cursor: a page of Temporal keeps its size, and *)
(* the filter must be the one of the page before.                           *)
AskPage(limit, filter) ==
  /\ walk.pc \in {"idle", "paging"}
  /\ IF walk.pc = "paging" /\ walk.cursor.filter # filter THEN Ends("invalid_request")
     ELSE walk' =
       [pc |-> "fetch", limit |-> limit, filter |-> filter, records |-> {}, scanned |-> 0,
        got |-> walk.got,
        base |-> IF walk.pc = "idle" THEN Existing ELSE walk.base,
        token |-> IF walk.pc = "idle" THEN NoToken ELSE walk.cursor.token,
        index |-> IF walk.pc = "idle" THEN 0 ELSE walk.cursor.offset,
        size |-> IF walk.pc = "idle" THEN limit ELSE walk.cursor.size]
  /\ UNCHANGED <<starts, listChanges, removed>>

(* fetch_next_page: a page that has shrunk below the cursor's offset makes  *)
(* the cursor invalid.                                                      *)
FetchPage ==
  LET entries == PageAfter(walk.token, walk.size) IN
  /\ walk.pc = "fetch"
  /\ IF walk.index > Len(entries) THEN Ends("invalid_request")
     ELSE walk' =
       [pc |-> "scan", limit |-> walk.limit, filter |-> walk.filter, records |-> walk.records,
        scanned |-> walk.scanned, got |-> walk.got, base |-> walk.base, token |-> walk.token,
        index |-> walk.index, size |-> walk.size,
        entries |-> entries, next |-> TokenAfter(walk.token, walk.size)]
  /\ UNCHANGED <<starts, listChanges, removed>>

(* Mutant: the rest of the page of Temporal is left out. *)
NextPositionOfToken(offset) ==
  IF walk.next = NoToken THEN NoListCursor
  ELSE [size |-> walk.size, token |-> walk.next, offset |-> 0, filter |-> walk.filter]

(* _next_list_position and _encode_cursor *)
NextPosition(offset) ==
  IF offset < Len(walk.entries)
  THEN [size |-> walk.size, token |-> walk.token, offset |-> offset, filter |-> walk.filter]
  ELSE IF walk.next = NoToken THEN NoListCursor
  ELSE [size |-> walk.size, token |-> walk.next, offset |-> 0, filter |-> walk.filter]

PageIsFull(records, cursor) ==
  walk' = [pc |-> IF cursor = NoListCursor THEN "listed" ELSE "paging", cursor |-> cursor,
           got |-> walk.got \cup records, base |-> walk.base, filter |-> walk.filter]

(* _describe_list_entries describes a batch at once: one that is gone fails *)
(* the request.  The records that fit are taken up to the limit.            *)
Scan ==
  LET count == Min({ListConcurrency, Len(walk.entries) - walk.index, MaxScan - walk.scanned})
      batch == SubSeq(walk.entries, walk.index + 1, walk.index + count)
      hits == {i \in DOMAIN batch : starts[batch[i]] \in walk.filter}
      room == walk.limit - Cardinality(walk.records)
      last == CHOOSE i \in hits : Cardinality({j \in hits : j <= i}) = room
      Taken(positions) == walk.records \cup {batch[i] : i \in positions}
  IN  /\ walk.pc = "scan" /\ walk.index < Len(walk.entries)
      /\ IF walk.scanned >= MaxScan THEN Ends("quota_unavailable")
         ELSE IF ~(Range(batch) \subseteq Existing) THEN Ends("temporal_unavailable")
         ELSE IF Cardinality(hits) >= room
         THEN PageIsFull(Taken({i \in hits : i <= last}), NextPosition(walk.index + last))
         ELSE walk' = [walk EXCEPT !.records = Taken(hits), !.index = @ + count,
                                   !.scanned = @ + count]
      /\ UNCHANGED <<starts, listChanges, removed>>

(* The page of Temporal is used up: the next one, or the end. *)
NextFetch ==
  /\ walk.pc = "scan" /\ walk.index >= Len(walk.entries)
  /\ IF walk.next = NoToken THEN PageIsFull(walk.records, NoListCursor)
     ELSE walk' = [pc |-> "fetch", limit |-> walk.limit, filter |-> walk.filter,
                   records |-> walk.records, scanned |-> walk.scanned, got |-> walk.got,
                   base |-> walk.base, token |-> walk.next, index |-> 0, size |-> walk.size]
  /\ UNCHANGED <<starts, listChanges, removed>>

ListNext ==
  \/ \E i \in ListIds : StartAppears(i) \/ StartEnds(i) \/ StartIsRemoved(i)
  \/ \E limit \in ListLimits, filter \in Filters : AskPage(limit, filter)
  \/ FetchPage \/ Scan \/ NextFetch

-----------------------------------------------------------------------------
(* A walk that was read to its end shows every start that was there before *)
(* and after it and always fitted the filter, but for as many as were      *)
(* cleaned up meanwhile: an offset in a page that lost an entry skips one  *)
(* (list, _next_list_position).                                            *)
WalkMissesOnlyForRemoved ==
  walk.pc = "listed" =>
    Cardinality({i \in walk.base \cap Existing : starts[i] = "pending"} \ walk.got)
      <= Cardinality(removed)
=============================================================================
