------------------------------ MODULE StateBus ------------------------------
(***************************************************************************)
(* The in-memory state bus of openaice/core/state_bus.py.                  *)
(*                                                                         *)
(* put_fragments is one action for each way an iteration of its loop can   *)
(* go; the fragments of a batch are chosen one at a time, which covers     *)
(* every batch.  The clock (datetime.utcnow, monotone here) ticks between  *)
(* any two steps.  The bus is single-threaded (state_bus.py:31), so reads  *)
(* and clear wait for put_fragments to return or raise.                    *)
(***************************************************************************)
EXTENDS Integers, Sequences

CONSTANTS
  Ids,           \* entity ids
  Types,         \* entity types: the keys of ENTITY_TYPE_MAP
  Sources,       \* source_type of a fragment
  Fields,        \* names of the data fields
  Values,        \* values of the data fields
  Bad,           \* the values that the entity classes' validation refuses
  Known,         \* Known[t]: the fields the class of type t declares
  Fragments,     \* the fragments the adapters may deliver
  NoValue,       \* a field that is missing, or None
  Absent,        \* no entity under this id
  MaxLog,        \* _max_fragment_log (10_000 in the code)
  MaxBatch,      \* bound: fragments in one call
  MaxFragments,  \* bound: fragments (per entity too) between calls of clear
  MaxTime        \* bound: last reading of the clock

FieldMap == [Fields -> Values \cup {NoValue}]

(* A fragment clashes when it carries a key that every entity has as an    *)
(* attribute but no class as a field: copy, json, update_freshness.        *)
Fragment == [id : Ids, type : Types, source : Sources, at : Nat,
             aware : BOOLEAN, clash : BOOLEAN, fields : FieldMap]

(* An entity has the time zone of its observed_at: a datetime is aware or  *)
(* naive, and Python neither compares nor subtracts the one and the other. *)
Entity == [type : Types, source : Sources, at : Nat, aware : BOOLEAN,
           fresh : Int, fields : FieldMap]

ASSUME StateBusAssumption ==
  /\ Bad \subseteq Values
  /\ Known \in [Types -> SUBSET Fields]
  /\ Fragments \subseteq Fragment
  /\ NoValue \notin Values
  /\ Absent \notin Entity \cup [at : Nat, fields : FieldMap]
  /\ MaxLog \in Nat

VARIABLES
  entities,      \* _entities: id |-> entity, or Absent
  order,         \* the ids in the dict's insertion order
  fragment_log,  \* _fragment_log
  now,           \* datetime.utcnow()
  putting,       \* put_fragments is in its loop
  updated_ids,   \* its local list
  returned,      \* how the last put_fragments ended, and what it returned
  touched,       \* history: entities created or written by this call
  received,      \* history: per id, the fragments compared since it appeared
  handled        \* history: the iterations completed since clear

vars == <<entities, order, fragment_log, now, putting, updated_ids, returned,
          touched, received, handled>>

dict == <<entities, order>>

-----------------------------------------------------------------------------
(* The data of one merge *)

Present(e) == entities[e] # Absent

Blank == [f \in Fields |-> NoValue]

(* Mutated form: None erases the field *)
BugNoneErases(type, frag, f) == f \in Known[type]

(* A fragment's field counts when the entity has it and it is not None;    *)
(* the normalizer has dropped what is None (normalizer.py:94), so the      *)
(* constructor never sees one.  See PutMergeClash for attributes that are  *)
(* no fields.                                                              *)
Carries(type, frag, f) == f \in Known[type] /\ frag.fields[f] # NoValue

Overlay(type, old, frag) ==
  [f \in Fields |-> IF Carries(type, frag, f) THEN frag.fields[f] ELSE old[f]]

Valid(frag) == \A f \in Known[frag.type] : frag.fields[f] \notin Bad

Created(frag) ==
  [type |-> frag.type, source |-> frag.source, at |-> frag.at,
   aware |-> frag.aware, fresh |-> 0,
   fields |-> Overlay(frag.type, Blank, frag)]

(* What a merge has written when update_freshness is called *)
Rewritten(entity, frag) ==
  [entity EXCEPT !.at = frag.at, !.source = frag.source,
                 !.fields = Overlay(entity.type, entity.fields, frag)]

(* Mutated form: the freshness of the old observed_at is kept *)
BugNoRefresh(entity, frag) == Rewritten(entity, frag)

(* update_freshness raises for an aware entity, after the fields are set *)
Merged(entity, frag) ==
  [Rewritten(entity, frag) EXCEPT
     !.fresh = IF entity.aware THEN @ ELSE now - frag.at]

(* What is left of a fragment whose clashing key comes before the others   *)
Before(frag, others) ==
  [frag EXCEPT !.fields = [f \in Fields |-> IF f \in others THEN NoValue ELSE @[f]]]

-----------------------------------------------------------------------------
Init ==
  /\ entities = [e \in Ids |-> Absent]
  /\ order = <<>>
  /\ fragment_log = <<>>
  /\ now = 0
  /\ putting = FALSE
  /\ updated_ids = <<>>
  /\ returned = [outcome |-> "none", ids |-> <<>>]
  /\ touched = {}
  /\ received = [e \in Ids |-> <<>>]
  /\ handled = <<>>

PutBegin ==
  /\ ~putting
  /\ putting' = TRUE
  /\ updated_ids' = <<>>
  /\ touched' = {}
  /\ UNCHANGED <<dict, fragment_log, now, returned, received, handled>>

(* The loop takes another fragment *)
Takes(frag) ==
  /\ putting
  /\ frag \in Fragments
  /\ Len(updated_ids) < MaxBatch
  /\ Len(handled) < MaxFragments
  /\ Len(received[frag.id]) < MaxFragments

(* Mutated form: the log takes one fragment too many *)
BugLogOneMore(frag) ==
  /\ updated_ids' = Append(updated_ids, frag.id)
  /\ fragment_log' = IF Len(fragment_log) <= MaxLog
                     THEN Append(fragment_log, frag) ELSE fragment_log
  /\ handled' = Append(handled, frag)
  /\ UNCHANGED <<now, putting, returned>>

(* Mutated form: the id is appended under the test of the log's length *)
BugIdUnderLogTest(frag) ==
  /\ IF Len(fragment_log) < MaxLog
     THEN /\ fragment_log' = Append(fragment_log, frag)
          /\ updated_ids' = Append(updated_ids, frag.id)
     ELSE UNCHANGED <<fragment_log, updated_ids>>
  /\ handled' = Append(handled, frag)
  /\ UNCHANGED <<now, putting, returned>>

(* The end of an iteration: the id is returned whatever became of the      *)
(* fragment, and the log takes it while there is room.                     *)
Finish(frag) ==
  /\ updated_ids' = Append(updated_ids, frag.id)
  /\ fragment_log' = IF Len(fragment_log) < MaxLog
                     THEN Append(fragment_log, frag) ELSE fragment_log
  /\ handled' = Append(handled, frag)
  /\ UNCHANGED <<now, putting, returned>>

(* An exception leaves put_fragments in the middle of the batch *)
Raise ==
  /\ putting' = FALSE
  /\ returned' = [outcome |-> "raised", ids |-> <<>>]
  /\ UNCHANGED <<order, fragment_log, now, updated_ids, handled>>

PutCreate(frag) ==
  /\ Takes(frag)
  /\ ~Present(frag.id)
  /\ Valid(frag)
  /\ entities' = [entities EXCEPT ![frag.id] = Created(frag)]
  /\ order' = Append(order, frag.id)
  /\ touched' = touched \cup {frag.id}
  /\ received' = [received EXCEPT ![frag.id] = <<frag>>]
  /\ Finish(frag)

(* The constructor raises and _create_entity only logs it *)
PutCreateFails(frag) ==
  /\ Takes(frag)
  /\ ~Present(frag.id)
  /\ ~Valid(frag)
  /\ UNCHANGED <<dict, touched, received>>
  /\ Finish(frag)

(* Mutated form: the time zones are not told apart *)
BugMixZones(frag) == Present(frag.id)

(* The two times can be compared *)
Comparable(frag) ==
  /\ Present(frag.id)
  /\ frag.aware = entities[frag.id].aware

(* Mutated forms: a tie is stale; nothing is *)
BugTieIsStale(frag) == frag.at <= entities[frag.id].at
BugNeverStale(frag) == FALSE

Stale(frag) == frag.at < entities[frag.id].at

PutSkip(frag) ==
  /\ Takes(frag)
  /\ Comparable(frag)
  /\ Stale(frag)
  /\ received' = [received EXCEPT ![frag.id] = Append(@, frag)]
  /\ UNCHANGED <<dict, touched>>
  /\ Finish(frag)

(* _merge_fragment, but for what update_freshness raises *)
Merge(frag) ==
  /\ Takes(frag)
  /\ Comparable(frag)
  /\ ~Stale(frag)
  /\ ~frag.clash
  /\ entities' = [entities EXCEPT ![frag.id] = Merged(@, frag)]
  /\ touched' = touched \cup {frag.id}
  /\ received' = [received EXCEPT ![frag.id] = Append(@, frag)]

PutMerge(frag) ==
  /\ Merge(frag)
  /\ ~frag.aware
  /\ UNCHANGED order
  /\ Finish(frag)

(* utcnow() minus an aware time raises, when the entity is already written *)
PutMergeRaises(frag) ==
  /\ Merge(frag)
  /\ frag.aware
  /\ Raise

(* hasattr finds the clashing key and setattr raises ValueError, once      *)
(* observed_at and the keys before it are written and before the others    *)
(* and update_freshness; the constructor takes only fields.                *)
PutMergeClash(frag) ==
  /\ Takes(frag)
  /\ Comparable(frag)
  /\ ~Stale(frag)
  /\ frag.clash
  /\ \E others \in SUBSET Fields : LET first == Before(frag, others) IN
       /\ entities' = [entities EXCEPT ![frag.id] = Rewritten(@, first)]
       /\ received' = [received EXCEPT ![frag.id] = Append(@, first)]
  /\ touched' = touched \cup {frag.id}
  /\ Raise

(* Mutated form: the fragment replaces the entity it cannot be compared to *)
BugReplaceOnMixed(frag) ==
  /\ Takes(frag)
  /\ Present(frag.id)
  /\ ~Comparable(frag)
  /\ entities' = [entities EXCEPT ![frag.id] = Created(frag)]
  /\ touched' = touched \cup {frag.id}
  /\ received' = [received EXCEPT ![frag.id] = <<frag>>]
  /\ UNCHANGED order
  /\ Finish(frag)

(* The comparison of a naive with an aware time raises *)
PutCompareRaises(frag) ==
  /\ Takes(frag)
  /\ Present(frag.id)
  /\ ~Comparable(frag)
  /\ Raise
  /\ UNCHANGED <<entities, touched, received>>

(* Mutated form: the fragments are returned, not their ids *)
BugReturnFragments ==
  /\ putting
  /\ putting' = FALSE
  /\ returned' = [outcome |-> "ok", ids |-> handled]
  /\ UNCHANGED <<dict, fragment_log, now, updated_ids, touched, received,
                 handled>>

PutReturn ==
  /\ putting
  /\ putting' = FALSE
  /\ returned' = [outcome |-> "ok", ids |-> updated_ids]
  /\ UNCHANGED <<dict, fragment_log, now, updated_ids, touched, received,
                 handled>>

-----------------------------------------------------------------------------
Refresh(entity) == [entity EXCEPT !.fresh = now - entity.at]

GetEntity(e) ==
  /\ ~putting
  /\ Present(e)
  /\ ~entities[e].aware
  /\ entities' = [entities EXCEPT ![e] = Refresh(@)]
  /\ UNCHANGED <<order, fragment_log, now, putting, updated_ids, returned,
                 touched, received, handled>>

(* The loop of get_all_entities reaches e: no aware entity is before it *)
Reaches(e) ==
  \E i \in DOMAIN order :
    /\ order[i] = e
    /\ \A j \in 1..i : ~entities[order[j]].aware

(* get_all_entities, and get_entities_by_type and snapshot on top of it:   *)
(* the loop stops with a TypeError at the first aware entity.              *)
GetAllEntities ==
  /\ ~putting
  /\ entities' = [e \in Ids |-> IF Present(e) /\ Reaches(e)
                                THEN Refresh(entities[e]) ELSE entities[e]]
  /\ UNCHANGED <<order, fragment_log, now, putting, updated_ids, returned,
                 touched, received, handled>>

Clear ==
  /\ ~putting
  /\ entities' = [e \in Ids |-> Absent]
  /\ order' = <<>>
  /\ fragment_log' = <<>>
  /\ received' = [e \in Ids |-> <<>>]
  /\ handled' = <<>>
  /\ UNCHANGED <<now, putting, updated_ids, returned, touched>>

Tick ==
  /\ now < MaxTime
  /\ now' = now + 1
  /\ UNCHANGED <<dict, fragment_log, putting, updated_ids, returned, touched,
                 received, handled>>

PutFragment(frag) ==
  \/ PutCreate(frag)
  \/ PutCreateFails(frag)
  \/ PutSkip(frag)
  \/ PutMerge(frag)
  \/ PutMergeRaises(frag)
  \/ PutMergeClash(frag)
  \/ PutCompareRaises(frag)

Next ==
  \/ PutBegin
  \/ \E frag \in Fragments : PutFragment(frag)
  \/ PutReturn
  \/ \E e \in Ids : GetEntity(e)
  \/ GetAllEntities
  \/ Clear
  \/ Tick

Spec == Init /\ [][Next]_vars
=============================================================================
