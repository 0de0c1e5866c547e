---------------------------- MODULE ObjectEvents ----------------------------
(***************************************************************************)
(* A workflow that is started by the objects written to S3 and writes      *)
(* objects itself: S3ObjectCreatedEventMapper (runtime/cloud_events.py).   *)
(* The mapping names the keys that start the workflow and the destinations *)
(* it writes to; one that could start itself is refused when it is built.  *)
(*                                                                         *)
(* Keys, prefixes and suffixes are sequences.  Every write makes an event  *)
(* with a sequencer of its own, delivered late and more than once.         *)
(***************************************************************************)
EXTENDS Naturals, Sequences, FiniteSets

CONSTANTS
  Buckets, ObjectKeys,
  KeyFilters,         \* S3ObjectKeyFilter: [bucket, prefix, suffix]
  MaxWrites           \* bound

VARIABLES
  mapping,     \* [source, destinations]
  objects,     \* the writes: [bucket, key, sequencer, by]
  startedBy    \* the events that started the workflow

objectVars == <<mapping, objects, startedBy>>

Letters ==
  UNION {{k[i] : i \in DOMAIN k}
         : k \in ObjectKeys \cup {f.prefix : f \in KeyFilters} \cup {f.suffix : f \in KeyFilters}}

ASSUME ObjectsAssumption ==
  /\ ObjectKeys \subseteq Seq(Letters)
  /\ KeyFilters \subseteq [bucket : Buckets, prefix : Seq(Letters), suffix : Seq(Letters)]

StartsWith(key, prefix) == Len(prefix) <= Len(key) /\ SubSeq(key, 1, Len(prefix)) = prefix
EndsWith(key, suffix) ==
  Len(suffix) <= Len(key) /\ SubSeq(key, Len(key) - Len(suffix) + 1, Len(key)) = suffix

(* S3ObjectKeyFilter.matches *)
Matches(filter, bucket, key) ==
  filter.bucket = bucket /\ StartsWith(key, filter.prefix) /\ EndsWith(key, filter.suffix)

(* Mutant: only a destination inside the source counts. *)
FiltersOverlapInside(left, right) ==
  /\ left.bucket = right.bucket
  /\ StartsWith(right.prefix, left.prefix) /\ EndsWith(right.suffix, left.suffix)

(* _s3_filters_overlap *)
FiltersOverlap(left, right) ==
  /\ left.bucket = right.bucket
  /\ StartsWith(left.prefix, right.prefix) \/ StartsWith(right.prefix, left.prefix)
  /\ EndsWith(left.suffix, right.suffix) \/ EndsWith(right.suffix, left.suffix)

(* S3ObjectCreatedEventMapper.__init__ *)
Mappings ==
  {[source |-> s, destinations |-> {d}] : s, d \in KeyFilters}
MappingAccepted(candidate) ==
  \A d \in candidate.destinations : ~FiltersOverlap(candidate.source, d)

ObjectsAre(accepted) == mapping = accepted /\ objects = {} /\ startedBy = {}
ObjectsInit == \E c \in Mappings : MappingAccepted(c) /\ ObjectsAre(c)

WriteObject(bucket, key, by) ==
  /\ Cardinality(objects) < MaxWrites
  /\ objects' = objects \cup {[bucket |-> bucket, key |-> key, by |-> by,
                               sequencer |-> Cardinality(objects) + 1]}
  /\ UNCHANGED <<mapping, startedBy>>

OthersWrite(bucket, key) == WriteObject(bucket, key, "others")
WorkflowWrites(bucket, key) ==
  /\ startedBy # {} /\ \E d \in mapping.destinations : Matches(d, bucket, key)
  /\ WriteObject(bucket, key, "workflow")

(* _s3_object_event_identity *)
EventIdentity(o) == <<o.bucket, o.key, o.sequencer>>

(* _parse, event_identity and to_start_request; the identity makes the     *)
(* start idempotent.                                                       *)
DeliverEvent(o) ==
  /\ o \in objects /\ Matches(mapping.source, o.bucket, o.key)
  /\ startedBy' = startedBy \cup {EventIdentity(o)}
  /\ UNCHANGED <<mapping, objects>>

ObjectsNext ==
  \/ \E b \in Buckets, k \in ObjectKeys : OthersWrite(b, k) \/ WorkflowWrites(b, k)
  \/ \E o \in objects : DeliverEvent(o)

(* No object the workflow wrote to its destinations starts it again, for   *)
(* any filters the mapping accepts (_s3_filters_overlap).                  *)
OwnWritesStartNothing ==
  \A o \in objects : o.by = "workflow" => EventIdentity(o) \notin startedBy
=============================================================================
