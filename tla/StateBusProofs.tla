--------------------------- MODULE StateBusProofs ---------------------------
(***************************************************************************)
(* Proofs about the state bus, and about the freshness guardrail that      *)
(* reads it, for every set of ids, fields, values and fragments and every  *)
(* bound.                                                                  *)
(***************************************************************************)
EXTENDS FreshnessGate, TLAPS

(* An entity made by the constructor is an entity (_create_entity).        *)
LEMMA CreatedType ==
  ASSUME NEW frag \in Fragment
  PROVE  Created(frag) \in Entity
<1>1. Overlay(frag.type, Blank, frag) \in FieldMap
  BY DEF Overlay, Blank, Carries, FieldMap, Fragment
<1> QED
  BY <1>1 DEF Created, Entity, Fragment

(* A merged entity is an entity (_merge_fragment).                         *)
LEMMA MergedType ==
  ASSUME NEW entity \in Entity, NEW frag \in Fragment, now \in Nat
  PROVE  Merged(entity, frag) \in Entity
<1>1. Overlay(entity.type, entity.fields, frag) \in FieldMap
  BY DEF Overlay, Carries, FieldMap, Fragment, Entity
<1>2. now - frag.at \in Int
  BY DEF Fragment
<1>3. Rewritten(entity, frag) \in Entity
  BY <1>1 DEF Rewritten, Entity, Fragment
<1> QED
  BY <1>2, <1>3 DEF Merged, Entity

(* What is left of a fragment at a clashing key is a fragment, of the same *)
(* entity and time.                                                        *)
LEMMA BeforeType ==
  ASSUME NEW frag \in Fragment, NEW others
  PROVE  LET g == Before(frag, others) IN
         /\ g \in Fragment /\ g.id = frag.id /\ g.at = frag.at
         /\ g.aware = frag.aware /\ g.clash = frag.clash
<1>1. [f \in Fields |-> IF f \in others THEN NoValue ELSE frag.fields[f]] \in FieldMap
  BY DEF FieldMap, Fragment
<1> QED
  BY <1>1 DEF Before, Fragment

(* y is what a merge of g leaves of entity, whatever its freshness is      *)
Wrote(entity, g, y) ==
  /\ y \in Entity /\ y.at = g.at /\ y.source = g.source
  /\ y.aware = entity.aware /\ y.type = entity.type
  /\ y.fields = Overlay(entity.type, entity.fields, g)

(* Of frag, all or what comes before a clashing key is written             *)
WritesAs(frag, g, y) ==
  /\ g \in Fragment /\ g.id = frag.id /\ g.at = frag.at
  /\ g.aware = frag.aware /\ g.clash = frag.clash
  /\ Wrote(entities[frag.id], g, y)
  /\ entities' = [entities EXCEPT ![frag.id] = y]
  /\ received' = [received EXCEPT ![frag.id] = Append(@, g)]

(* A merge that is broken off writes what a merge of less would write      *)
(* (_merge_fragment up to the exception of setattr).                       *)
LEMMA MergeWrites ==
  ASSUME NEW frag \in Fragments, Merge(frag) \/ PutMergeClash(frag),
         entities \in [Ids -> Entity \cup {Absent}], now \in Nat
  PROVE  /\ frag \in Fragment /\ frag.id \in Ids
         /\ Present(frag.id) /\ entities[frag.id] \in Entity
         /\ frag.aware = entities[frag.id].aware
         /\ ~(frag.at < entities[frag.id].at)
         /\ touched' = touched \cup {frag.id}
         /\ \E g, y : /\ WritesAs(frag, g, y)
                      /\ \/ Merge(frag) /\ g = frag /\ y = Merged(entities[frag.id], frag)
                         \/ /\ PutMergeClash(frag) /\ frag.clash
                            /\ y.fresh = entities[frag.id].fresh
<1>1. frag \in Fragment /\ frag.id \in Ids
  BY StateBusAssumption DEF Fragment
<1> DEFINE x == entities[frag.id]
<1>2. /\ Present(frag.id) /\ frag.aware = x.aware /\ ~(frag.at < x.at)
      /\ touched' = touched \cup {frag.id}
  BY DEF Merge, PutMergeClash, Comparable, Stale
<1>3. x \in Entity
  BY <1>1, <1>2 DEF Present
<1>4. CASE Merge(frag)
  <2> DEFINE y == Merged(x, frag)
  <2>1. y \in Entity
    BY <1>1, <1>3, MergedType
  <2>2. Wrote(x, frag, y)
    BY <1>1, <1>3, <2>1 DEF Wrote, Merged, Rewritten, Entity
  <2>3. /\ entities' = [entities EXCEPT ![frag.id] = y]
        /\ received' = [received EXCEPT ![frag.id] = Append(@, frag)]
    BY <1>4 DEF Merge
  <2> HIDE DEF y
  <2>4. WritesAs(frag, frag, y)
    BY <1>1, <2>2, <2>3 DEF WritesAs
  <2> QED
    BY <1>1, <1>2, <1>3, <1>4, <2>4 DEF y
<1>5. CASE PutMergeClash(frag)
  <2>1. PICK others \in SUBSET Fields :
          /\ entities' = [entities EXCEPT ![frag.id] = Rewritten(@, Before(frag, others))]
          /\ received' = [received EXCEPT ![frag.id] = Append(@, Before(frag, others))]
    BY <1>5 DEF PutMergeClash
  <2> DEFINE g == Before(frag, others)
             y == Rewritten(x, g)
  <2>2. /\ g \in Fragment /\ g.id = frag.id /\ g.at = frag.at
        /\ g.aware = frag.aware /\ g.clash = frag.clash
    BY <1>1, BeforeType
  <2>3. /\ entities' = [entities EXCEPT ![frag.id] = y]
        /\ received' = [received EXCEPT ![frag.id] = Append(@, g)]
    BY <2>1
  <2> HIDE DEF g
  <2>4. Overlay(x.type, x.fields, g) \in FieldMap
    BY <1>3, <2>2 DEF Overlay, Carries, FieldMap, Fragment, Entity
  <2>5. Wrote(x, g, y) /\ y.fresh = x.fresh
    BY <1>3, <2>2, <2>4 DEF Wrote, Rewritten, Entity, Fragment
  <2> HIDE DEF y
  <2>6. WritesAs(frag, g, y)
    BY <2>2, <2>3, <2>5 DEF WritesAs
  <2>7. frag.clash
    BY <1>5 DEF PutMergeClash
  <2> QED
    BY <1>1, <1>2, <1>3, <1>5, <2>5, <2>6, <2>7
<1> QED
  BY <1>4, <1>5

(* A refreshed entity is an entity (update_freshness).                     *)
LEMMA RefreshType ==
  ASSUME NEW entity \in Entity, now \in Nat
  PROVE  Refresh(entity) \in Entity
BY DEF Refresh, Entity

(* Every variable of the bus keeps its type through every call, whatever   *)
(* the fragments carry.                                                    *)
THEOREM TypeCorrect == Spec => []TypeOK
<1> /\ <<>> \in Seq(Ids) /\ <<>> \in Seq(Fragment)
    /\ \A o \in {"none", "ok", "raised"}, s \in Seq(Ids) :
         [outcome |-> o, ids |-> s] \in
           [outcome : {"none", "ok", "raised"}, ids : Seq(Ids)]
  OBVIOUS
<1>1. Init => TypeOK
  <2> SUFFICES ASSUME Init PROVE TypeOK
    OBVIOUS
  <2>1. /\ entities \in [Ids -> Entity \cup {Absent}]
        /\ received \in [Ids -> Seq(Fragment)]
    BY DEF Init
  <2>2. returned \in [outcome : {"none", "ok", "raised"}, ids : Seq(Ids)]
    BY DEF Init
  <2> QED
    BY <2>1, <2>2 DEF Init, TypeOK
<1>2. TypeOK /\ [Next]_vars => TypeOK'
  <2> SUFFICES ASSUME TypeOK, [Next]_vars
               PROVE  TypeOK'
    OBVIOUS
  <2> USE DEF TypeOK
  <2>1. CASE PutBegin
    BY <2>1 DEF PutBegin, dict
  <2>2. ASSUME NEW frag \in Fragments, PutFragment(frag)
        PROVE  TypeOK'
    <3> frag \in Fragment /\ frag.id \in Ids
      BY StateBusAssumption DEF Fragment
    <3>1. CASE PutCreate(frag)
      BY <3>1, CreatedType DEF PutCreate, Finish
    <3>2. CASE PutCreateFails(frag)
      BY <3>2 DEF PutCreateFails, Finish, dict
    <3>3. CASE PutSkip(frag)
      BY <3>3 DEF PutSkip, Finish, dict
    <3>4. ASSUME Merge(frag) \/ PutMergeClash(frag)
          PROVE  /\ entities' \in [Ids -> Entity \cup {Absent}]
                 /\ touched' \in SUBSET Ids
                 /\ received' \in [Ids -> Seq(Fragment)]
      <4>1. touched' = touched \cup {frag.id} /\ \E g, y : WritesAs(frag, g, y)
        BY <3>4, MergeWrites
      <4> QED
        BY <4>1 DEF WritesAs, Wrote
    <3>5. CASE PutMerge(frag)
      BY <3>4, <3>5 DEF PutMerge, Finish
    <3>6. CASE PutMergeRaises(frag)
      BY <3>4, <3>6 DEF PutMergeRaises, Raise
    <3>7. CASE PutMergeClash(frag)
      BY <3>4, <3>7 DEF PutMergeClash, Raise
    <3>8. CASE PutCompareRaises(frag)
      BY <3>8 DEF PutCompareRaises, Raise
    <3> QED
      BY <2>2, <3>1, <3>2, <3>3, <3>5, <3>6, <3>7, <3>8 DEF PutFragment
  <2>3. CASE PutReturn
    BY <2>3 DEF PutReturn, dict
  <2>4. ASSUME NEW e \in Ids, GetEntity(e)
        PROVE  TypeOK'
    BY <2>4, RefreshType DEF GetEntity, Present
  <2>5. CASE GetAllEntities
    BY <2>5, RefreshType DEF GetAllEntities, Present
  <2>6. CASE Clear
    BY <2>6 DEF Clear
  <2>7. CASE Tick
    BY <2>7 DEF Tick, dict
  <2>8. CASE UNCHANGED vars
    BY <2>8 DEF vars
  <2> QED
    BY <2>1, <2>2, <2>3, <2>4, <2>5, <2>6, <2>7, <2>8 DEF Next
<1> QED
  BY <1>1, <1>2, PTL DEF Spec

-----------------------------------------------------------------------------
(* The history of one entity *)

(* A fragment older than one before it is not new and leaves the others as *)
(* they were.                                                              *)
LEMMA AppendStale ==
  ASSUME NEW s \in Seq(Fragment), NEW frag \in Fragment, NEW type, NEW f,
         NEW k \in DOMAIN s, frag.at < s[k].at
  PROVE  Carriers(type, Append(s, frag), f) = Carriers(type, s, f)
<1> DEFINE t == Append(s, frag)
<1>1. /\ DOMAIN s = 1..Len(s) /\ DOMAIN t = 1..(Len(s) + 1)
      /\ t[Len(s) + 1] = frag /\ \A i \in DOMAIN s : t[i] = s[i]
  OBVIOUS
<1>2. ~Newest(t, Len(s) + 1)
  <2>1. k \in 1..((Len(s) + 1) - 1) /\ t[k].at = s[k].at
    BY <1>1
  <2>2. ~(t[k].at <= t[Len(s) + 1].at)
    <3> s[k] \in Fragment
      OBVIOUS
    <3> QED
      BY <2>1, <1>1 DEF Fragment
  <2> QED
    BY <2>1, <2>2 DEF Newest
<1>3. ASSUME NEW i \in DOMAIN s
      PROVE  Newest(t, i) <=> Newest(s, i)
  BY <1>1 DEF Newest
<1> QED
  BY <1>1, <1>2, <1>3 DEF Carriers

(* A fragment as new as all before it joins them.                          *)
LEMMA AppendNewest ==
  ASSUME NEW s \in Seq(Fragment), NEW frag \in Fragment, NEW type, NEW f,
         \A k \in DOMAIN s : s[k].at <= frag.at
  PROVE  /\ Carries(type, frag, f) =>
              Carriers(type, Append(s, frag), f) =
                Carriers(type, s, f) \cup {Len(s) + 1}
         /\ ~Carries(type, frag, f) =>
              Carriers(type, Append(s, frag), f) = Carriers(type, s, f)
<1> DEFINE t == Append(s, frag)
<1>1. /\ DOMAIN s = 1..Len(s) /\ DOMAIN t = 1..(Len(s) + 1)
      /\ t[Len(s) + 1] = frag /\ \A i \in DOMAIN s : t[i] = s[i]
  OBVIOUS
<1>2. Newest(t, Len(s) + 1)
  BY <1>1 DEF Newest
<1>3. ASSUME NEW i \in DOMAIN s
      PROVE  Newest(t, i) <=> Newest(s, i)
  BY <1>1 DEF Newest
<1> QED
  BY <1>1, <1>2, <1>3 DEF Carriers

(* What the entity remembers of the fragments it was compared with *)
Recorded(entity, s) ==
  /\ HoldsNewest(entity, s)
  /\ \E i \in DOMAIN s : IsFrom(entity, s, i)
  /\ \A i \in DOMAIN s : s[i].aware = entity.aware

(* The entity its first fragment creates records that fragment.            *)
LEMMA CreatedRecorded ==
  ASSUME NEW frag \in Fragment
  PROVE  Recorded(Created(frag), <<frag>>)
<1> DEFINE s == <<frag>>
<1>1. DOMAIN s = {1} /\ s[1] = frag
  OBVIOUS
<1>2. frag.at \in Nat
  BY DEF Fragment
<1>3. Newest(s, 1)
  BY DEF Newest
<1>4. HoldsNewest(Created(frag), s)
  <2> SUFFICES ASSUME NEW f \in Fields
               PROVE \/ /\ Carriers(frag.type, s, f) = {}
                        /\ Created(frag).fields[f] = NoValue
                     \/ /\ IsLast(Carriers(frag.type, s, f), 1)
                        /\ Created(frag).fields[f] = s[1].fields[f]
    BY <1>1 DEF HoldsNewest, Created
  <2>1. Carriers(frag.type, s, f) =
          IF Carries(frag.type, frag, f) THEN {1} ELSE {}
    BY <1>1, <1>3 DEF Carriers
  <2>2. Created(frag).fields[f] =
          IF Carries(frag.type, frag, f) THEN frag.fields[f] ELSE NoValue
    BY DEF Created, Overlay, Blank
  <2> QED
    BY <2>1, <2>2, <1>1 DEF IsLast
<1>5. IsFrom(Created(frag), s, 1)
  BY <1>1, <1>2 DEF IsFrom, Created
<1> QED
  BY <1>1, <1>4, <1>5 DEF Recorded, Created

(* A stale fragment changes nothing, and rightly so.                       *)
LEMMA SkipRecorded ==
  ASSUME NEW entity \in Entity, NEW s \in Seq(Fragment), NEW frag \in Fragment,
         Recorded(entity, s), frag.aware = entity.aware, frag.at < entity.at
  PROVE  Recorded(entity, Append(s, frag))
<1> DEFINE t == Append(s, frag)
<1>1. /\ DOMAIN s = 1..Len(s) /\ DOMAIN t = 1..(Len(s) + 1)
      /\ t[Len(s) + 1] = frag /\ \A i \in DOMAIN s : t[i] = s[i] /\ s[i] \in Fragment
  OBVIOUS
<1>2. PICK k \in DOMAIN s : IsFrom(entity, s, k)
  BY DEF Recorded
<1>3. frag.at < s[k].at
  BY <1>2 DEF IsFrom
<1>4. \A f \in Fields :
        Carriers(entity.type, t, f) = Carriers(entity.type, s, f)
  BY <1>3, AppendStale
<1>5. HoldsNewest(entity, t)
  BY <1>1, <1>4 DEF HoldsNewest, Recorded
<1>6. IsFrom(entity, t, k)
  <2>1. s[k].at \in Nat /\ frag.at \in Nat /\ t[k] = s[k]
    BY <1>1 DEF Fragment
  <2> QED
    BY <1>1, <1>2, <1>3, <2>1 DEF IsFrom
<1> QED
  BY <1>1, <1>5, <1>6 DEF Recorded

(* A fragment that is not stale becomes the newest of the history.         *)
LEMMA MergeRecorded ==
  ASSUME NEW entity \in Entity, NEW s \in Seq(Fragment), NEW frag \in Fragment,
         Recorded(entity, s), frag.aware = entity.aware,
         ~(frag.at < entity.at), NEW m, Wrote(entity, frag, m)
  PROVE  /\ Recorded(m, Append(s, frag))
         /\ Len(s) > 0 /\ IsFrom(m, Append(s, frag), Len(s) + 1)
<1> DEFINE t == Append(s, frag)
           n == Len(s) + 1
<1>1. /\ DOMAIN s = 1..Len(s) /\ DOMAIN t = 1..n
      /\ t[n] = frag /\ \A i \in DOMAIN s : t[i] = s[i] /\ s[i] \in Fragment
  OBVIOUS
<1>2. /\ m.at = frag.at /\ m.source = frag.source
      /\ m.aware = entity.aware /\ m.type = entity.type
      /\ m.fields = Overlay(entity.type, entity.fields, frag)
  BY DEF Wrote
<1>3. \A i \in DOMAIN s : s[i].at <= frag.at
  <2>1. PICK k \in DOMAIN s : IsFrom(entity, s, k)
    BY DEF Recorded
  <2>2. \A i \in DOMAIN s : s[i].at \in Nat
    BY <1>1 DEF Fragment
  <2>3. frag.at \in Nat /\ entity.at \in Nat
    BY DEF Fragment, Entity
  <2> QED
    BY <2>1, <2>2, <2>3 DEF IsFrom
<1>4. HoldsNewest(m, t)
  <2> SUFFICES ASSUME NEW f \in Fields
               PROVE \/ /\ Carriers(entity.type, t, f) = {}
                        /\ m.fields[f] = NoValue
                     \/ \E i \in DOMAIN t :
                          /\ IsLast(Carriers(entity.type, t, f), i)
                          /\ m.fields[f] = t[i].fields[f]
    BY <1>2 DEF HoldsNewest
  <2>1. Carriers(entity.type, s, f) \subseteq DOMAIN s
    BY DEF Carriers
  <2>2. CASE Carries(entity.type, frag, f)
    <3>1. Carriers(entity.type, t, f) = Carriers(entity.type, s, f) \cup {n}
      BY <1>3, <2>2, AppendNewest
    <3>2. IsLast(Carriers(entity.type, t, f), n)
      BY <3>1, <2>1, <1>1 DEF IsLast
    <3>3. m.fields[f] = t[n].fields[f]
      BY <1>1, <1>2, <2>2 DEF Overlay
    <3> QED
      BY <3>2, <3>3, <1>1
  <2>3. CASE ~Carries(entity.type, frag, f)
    <3>1. Carriers(entity.type, t, f) = Carriers(entity.type, s, f)
      BY <1>3, <2>3, AppendNewest
    <3>2. m.fields[f] = entity.fields[f]
      BY <1>2, <2>3 DEF Overlay
    <3> QED
      BY <3>1, <3>2, <1>1 DEF Recorded, HoldsNewest
  <2> QED
    BY <2>2, <2>3
<1>5. IsFrom(m, t, n)
  <2> frag.at \in Nat
    BY DEF Fragment
  <2> QED
    BY <1>1, <1>2, <1>3 DEF IsFrom
<1>6. \A i \in DOMAIN t : t[i].aware = m.aware
  BY <1>1, <1>2 DEF Recorded
<1>7. Len(s) > 0
  BY <1>1 DEF Recorded
<1> QED
  BY <1>1, <1>4, <1>5, <1>6, <1>7 DEF Recorded

(* Recomputing the freshness leaves the record as it is.                   *)
LEMMA RefreshRecorded ==
  ASSUME NEW entity \in Entity, NEW s, Recorded(entity, s)
  PROVE  Recorded(Refresh(entity), s)
<1> DEFINE r == Refresh(entity)
<1>1. /\ r.type = entity.type /\ r.fields = entity.fields
      /\ r.at = entity.at /\ r.source = entity.source
      /\ r.aware = entity.aware
  BY DEF Refresh, Entity
<1> QED
  BY <1>1 DEF Recorded, HoldsNewest, IsFrom

(* The inductive invariant: every entity records what it was given, and    *)
(* nothing is recorded under an id that has no entity.                     *)
HistoryInv ==
  \A e \in Ids : /\ Present(e) => Recorded(entities[e], received[e])
                 /\ ~Present(e) => received[e] = <<>>

(* A step that leaves an entity and its history alone keeps them recorded. *)
LEMMA OtherRecorded ==
  ASSUME HistoryInv, NEW e \in Ids,
         entities'[e] = entities[e], received'[e] = received[e]
  PROVE  /\ Present(e)' => Recorded(entities'[e], received'[e])
         /\ ~Present(e)' => received'[e] = <<>>
BY DEF HistoryInv, Present

(* An iteration of put_fragments keeps every entity recorded.              *)
LEMMA PutRecorded ==
  ASSUME TypeOK, HistoryInv, NEW frag \in Fragments, PutFragment(frag)
  PROVE  HistoryInv'
<1> DEFINE d == frag.id
<1>1. frag \in Fragment /\ d \in Ids
  BY StateBusAssumption DEF Fragment
<1>2. Created(frag) \in Entity
  BY <1>1, CreatedType
<1>3. SUFFICES
        /\ Present(d)' => Recorded(entities'[d], received'[d])
        /\ ~Present(d)' => received'[d] = <<>>
        /\ \A e \in Ids \ {d} : /\ entities'[e] = entities[e]
                                /\ received'[e] = received[e]
  BY OtherRecorded DEF HistoryInv, Present
<1>4. ASSUME Present(d)
      PROVE  /\ entities[d] \in Entity /\ received[d] \in Seq(Fragment)
             /\ Recorded(entities[d], received[d])
  BY <1>1, <1>4 DEF TypeOK, Present, HistoryInv
<1>5. CASE PutCreate(frag)
  <2>1. entities'[d] = Created(frag) /\ received'[d] = <<frag>>
    BY <1>1, <1>5 DEF PutCreate, TypeOK
  <2>2. Present(d)'
    BY <2>1, <1>2, StateBusAssumption DEF Present
  <2> QED
    BY <2>1, <2>2, <1>1, <1>5, CreatedRecorded DEF PutCreate, TypeOK
<1>6. CASE PutCreateFails(frag) \/ PutCompareRaises(frag)
  BY <1>1, <1>6 DEF PutCreateFails, PutCompareRaises, HistoryInv, dict, Present
<1>7. CASE PutSkip(frag)
  <2>1. /\ entities' = entities /\ Present(d)
        /\ received'[d] = Append(received[d], frag)
        /\ frag.aware = entities[d].aware /\ frag.at < entities[d].at
    BY <1>1, <1>7 DEF PutSkip, Comparable, Stale, dict, TypeOK
  <2>2. Recorded(entities[d], Append(received[d], frag))
    BY <2>1, <1>1, <1>4, SkipRecorded
  <2> QED
    BY <2>1, <2>2, <1>1, <1>7 DEF PutSkip, TypeOK, Present
<1>8. CASE PutMerge(frag) \/ PutMergeRaises(frag) \/ PutMergeClash(frag)
  <2>1. Merge(frag) \/ PutMergeClash(frag)
    BY <1>8 DEF PutMerge, PutMergeRaises
  <2>2. /\ Present(d) /\ entities[d] \in Entity
        /\ frag.aware = entities[d].aware /\ ~(frag.at < entities[d].at)
        /\ \E g, y : WritesAs(frag, g, y)
    BY <2>1, MergeWrites DEF TypeOK
  <2>3. PICK g, y : WritesAs(frag, g, y)
    BY <2>2
  <2>4. Recorded(y, Append(received[d], g))
    <3>1. /\ g \in Fragment /\ g.aware = entities[d].aware /\ ~(g.at < entities[d].at)
          /\ Wrote(entities[d], g, y)
      BY <2>2, <2>3 DEF WritesAs
    <3> QED
      BY <1>4, <2>2, <3>1, MergeRecorded
  <2>5. /\ entities'[d] = y /\ received'[d] = Append(received[d], g)
        /\ \A e \in Ids \ {d} : entities'[e] = entities[e] /\ received'[e] = received[e]
    BY <1>1, <2>3 DEF WritesAs, TypeOK
  <2>6. Present(d)'
    BY <2>3, <2>5, StateBusAssumption DEF Present, WritesAs, Wrote
  <2> QED
    BY <2>4, <2>5, <2>6
<1> QED
  BY <1>5, <1>6, <1>7, <1>8 DEF PutFragment

(* Every call keeps every entity recorded.                                 *)
LEMMA NextRecorded ==
  ASSUME TypeOK, HistoryInv, [Next]_vars
  PROVE  HistoryInv'
<1>1. CASE \E frag \in Fragments : PutFragment(frag)
  BY <1>1, PutRecorded
<1>2. CASE PutBegin \/ PutReturn \/ Tick \/ UNCHANGED vars
  BY <1>2 DEF PutBegin, PutReturn, Tick, vars, dict, HistoryInv, Present
<1>3. CASE \/ \E e \in Ids : GetEntity(e)
           \/ GetAllEntities
  <2>1. received' = received
    BY <1>3 DEF GetEntity, GetAllEntities
  <2>2. ASSUME NEW e \in Ids
        PROVE  \/ entities'[e] = entities[e]
               \/ Present(e) /\ entities'[e] = Refresh(entities[e])
    BY <1>3 DEF GetEntity, GetAllEntities, TypeOK
  <2>3. ASSUME NEW e \in Ids, Present(e), entities'[e] = Refresh(entities[e])
        PROVE  Present(e)' /\ Recorded(entities'[e], received[e])
    <3>1. entities[e] \in Entity /\ now \in Nat
      BY <2>3 DEF TypeOK, Present
    <3>2. Refresh(entities[e]) \in Entity
      BY <3>1, RefreshType
    <3>3. Recorded(Refresh(entities[e]), received[e])
      BY <2>3, <3>1, RefreshRecorded DEF HistoryInv
    <3> QED
      BY <2>3, <3>2, <3>3, StateBusAssumption DEF Present
  <2> QED
    BY <2>1, <2>2, <2>3, OtherRecorded DEF HistoryInv
<1>4. CASE Clear
  BY <1>4 DEF Clear, HistoryInv, Present
<1> QED
  BY <1>1, <1>2, <1>3, <1>4 DEF Next

(* The history of every entity is recorded in every state.                 *)
THEOREM HistoryCorrect == Spec => []HistoryInv
<1>1. Init => HistoryInv
  BY DEF Init, HistoryInv, Present
<1>2. TypeOK /\ HistoryInv /\ [Next]_vars => HistoryInv'
  BY NextRecorded
<1> QED
  BY <1>1, <1>2, TypeCorrect, PTL DEF Spec

(* Newer data wins, field by field, in whatever order fragments come, and  *)
(* a tie goes to the later one (_merge_fragment).                          *)
THEOREM NewestWinsHolds == Spec => []NewestWins
<1>1. HistoryInv => NewestWins
  BY DEF HistoryInv, Recorded, NewestWins
<1> QED
  BY <1>1, HistoryCorrect, PTL

(* An entity's observed_at is the newest time received, its source the     *)
(* last fragment that new (_merge_fragment).                               *)
THEOREM ObservedAtHolds == Spec => []ObservedAtIsNewest
<1>1. HistoryInv => ObservedAtIsNewest
  BY DEF HistoryInv, Recorded, ObservedAtIsNewest
<1> QED
  BY <1>1, HistoryCorrect, PTL

(* Naive and aware times are never mixed in one entity.                    *)
THEOREM OneZoneHolds == Spec => []OneZone
<1>1. HistoryInv => OneZone
  BY DEF HistoryInv, Recorded, OneZone
<1> QED
  BY <1>1, HistoryCorrect, PTL

-----------------------------------------------------------------------------
(* The log, the result and the freshness *)

(* The fragment log is the first MaxLog fragments handled since clear      *)
(* (put_fragments keeps it bounded by dropping the newest).                *)
THEOREM LogIsPrefixHolds == Spec => []LogIsPrefix
<1>1. Init => LogIsPrefix
  BY StateBusAssumption DEF Init, LogIsPrefix
<1>2. TypeOK /\ LogIsPrefix /\ [Next]_vars => LogIsPrefix'
  <2> SUFFICES ASSUME TypeOK, LogIsPrefix, [Next]_vars
               PROVE  LogIsPrefix'
    OBVIOUS
  <2>1. CASE UNCHANGED <<fragment_log, handled>>
    BY <2>1 DEF LogIsPrefix
  <2>2. ASSUME NEW frag \in Fragments, Finish(frag)
        PROVE  LogIsPrefix'
    <3>1. /\ frag \in Fragment /\ MaxLog \in Nat
          /\ fragment_log \in Seq(Fragment) /\ handled \in Seq(Fragment)
      BY StateBusAssumption DEF TypeOK
    <3>2. CASE Len(fragment_log) < MaxLog
      <4>1. Len(fragment_log) = Len(handled)
        BY <3>1, <3>2 DEF LogIsPrefix
      <4> QED
        BY <2>2, <3>1, <3>2, <4>1 DEF Finish, LogIsPrefix
    <3>3. CASE ~(Len(fragment_log) < MaxLog)
      <4>1. Len(fragment_log) = MaxLog /\ ~(Len(handled) < MaxLog)
        BY <3>1, <3>3 DEF LogIsPrefix
      <4> QED
        BY <2>2, <3>1, <3>3, <4>1 DEF Finish, LogIsPrefix
    <3> QED
      BY <3>2, <3>3
  <2>3. CASE Clear
    BY <2>3, StateBusAssumption DEF Clear, LogIsPrefix
  <2>4. ASSUME NEW frag \in Fragments, PutFragment(frag)
        PROVE  Finish(frag) \/ UNCHANGED <<fragment_log, handled>>
    BY <2>4 DEF PutFragment, PutCreate, PutCreateFails, PutSkip, PutMerge,
                PutMergeRaises, PutMergeClash, PutCompareRaises, Raise
  <2>5. \/ UNCHANGED <<fragment_log, handled>>
        \/ \E frag \in Fragments : PutFragment(frag)
        \/ Clear
    BY DEF Next, PutBegin, PutReturn, GetEntity, GetAllEntities, Tick, vars
  <2> QED
    BY <2>1, <2>2, <2>3, <2>4, <2>5
<1> QED
  BY <1>1, <1>2, TypeCorrect, PTL DEF Spec

Names(ids, e) == \E i \in DOMAIN ids : ids[i] = e

(* While put_fragments runs, the ids of its list name what it has written. *)
TouchedInv ==
  /\ putting => \A e \in touched : Names(updated_ids, e)
  /\ ~putting /\ returned.outcome = "ok" =>
       \A e \in touched : Names(returned.ids, e)

(* put_fragments returns the id of every entity the call changed.          *)
THEOREM ReturnedNamesTouchedHolds == Spec => []ReturnedNamesTouched
<1>1. Init => TouchedInv
  BY DEF Init, TouchedInv
<1>2. TypeOK /\ TouchedInv /\ [Next]_vars => TouchedInv'
  <2> SUFFICES ASSUME TypeOK, TouchedInv, [Next]_vars
               PROVE  TouchedInv'
    OBVIOUS
  <2>1. CASE PutBegin
    BY <2>1 DEF PutBegin, TouchedInv
  <2>2. ASSUME NEW frag \in Fragments, PutFragment(frag)
        PROVE  TouchedInv'
    <3>1. CASE Raise
      BY <3>1 DEF Raise, TouchedInv
    <3>2. CASE Finish(frag)
      <4>1. updated_ids \in Seq(Ids) /\ frag.id \in Ids /\ putting
        BY <2>2, StateBusAssumption
           DEF TypeOK, Fragment, PutFragment, PutCreate, PutCreateFails,
               PutSkip, PutMerge, Merge, PutMergeRaises, PutMergeClash, PutCompareRaises,
               Takes
      <4>2. putting' /\ updated_ids' = Append(updated_ids, frag.id)
        BY <3>2, <4>1 DEF Finish
      <4>3. touched' \subseteq touched \cup {frag.id}
        BY <2>2 DEF PutFragment, PutCreate, PutCreateFails, PutSkip, PutMerge,
                    Merge, PutMergeRaises, PutMergeClash, PutCompareRaises
      <4>4. Names(updated_ids', frag.id)
        <5>1. /\ Len(updated_ids) + 1 \in DOMAIN updated_ids'
              /\ updated_ids'[Len(updated_ids) + 1] = frag.id
          BY <4>1, <4>2
        <5> QED
          BY <5>1 DEF Names
      <4>5. \A e : Names(updated_ids, e) => Names(updated_ids', e)
        <5>1. \A i \in DOMAIN updated_ids :
                i \in DOMAIN updated_ids' /\ updated_ids'[i] = updated_ids[i]
          BY <4>1, <4>2
        <5> QED
          BY <5>1 DEF Names
      <4> QED
        BY <4>1, <4>2, <4>3, <4>4, <4>5 DEF TouchedInv
    <3> QED
      BY <2>2, <3>1, <3>2 DEF PutFragment, PutCreate, PutCreateFails, PutSkip,
                              PutMerge, PutMergeRaises, PutMergeClash, PutCompareRaises
  <2>3. CASE PutReturn
    BY <2>3 DEF PutReturn, TouchedInv
  <2>4. CASE UNCHANGED <<putting, updated_ids, returned, touched>>
    BY <2>4 DEF TouchedInv
  <2> QED
    BY <2>1, <2>2, <2>3, <2>4
       DEF Next, GetEntity, GetAllEntities, Clear, Tick, vars
<1>3. TouchedInv => ReturnedNamesTouched
  BY DEF TouchedInv, Names, ReturnedNamesTouched
<1> QED
  BY <1>1, <1>2, <1>3, TypeCorrect, PTL DEF Spec

(* update_freshness never succeeds on an aware entity, so its freshness is *)
(* the default still.                                                      *)
FreshInv ==
  \A e \in Ids : Present(e) =>
    IF entities[e].aware THEN entities[e].fresh = 0
    ELSE entities[e].fresh # 0 /\ ~BrokenOff(e) =>
           entities[e].at + entities[e].fresh <= now

(* A freshness that was computed belongs to the present observed_at,       *)
(* except where a clashing key broke the last merge off.                   *)
THEOREM FreshnessRebasedHolds == Spec => []FreshnessRebased
<1>1. Init => FreshInv
  BY DEF Init, FreshInv, Present
<1>2. TypeOK /\ HistoryInv /\ FreshInv /\ [Next]_vars => FreshInv'
  <2> SUFFICES ASSUME TypeOK, HistoryInv, FreshInv, [Next]_vars
               PROVE  FreshInv'
    OBVIOUS
  <2>1. now \in Nat /\ now' \in Nat /\ now <= now'
    <3>1. ASSUME NEW frag \in Fragments, PutFragment(frag)
          PROVE  now' = now
      BY <3>1 DEF PutFragment, PutCreate, PutCreateFails, PutSkip, PutMerge,
                  PutMergeRaises, PutMergeClash, PutCompareRaises, Finish, Raise
    <3>2. now' = now \/ Tick
      BY <3>1 DEF Next, PutBegin, PutReturn, GetEntity, GetAllEntities, Clear, vars
    <3> QED
      BY <3>2 DEF TypeOK, Tick
  <2> DEFINE Age(x, broken, t) ==
               IF x.aware THEN x.fresh = 0
               ELSE x.fresh # 0 /\ ~broken => x.at + x.fresh <= t
  <2> SUFFICES ASSUME NEW e \in Ids, Present(e)'
               PROVE  Age(entities'[e], BrokenOff(e)', now')
    BY DEF FreshInv
  <2>2. ASSUME Present(e), entities'[e] = entities[e], BrokenOff(e) => BrokenOff(e)'
        PROVE  Age(entities'[e], BrokenOff(e)', now')
    <3>1. entities[e].at \in Nat /\ entities[e].fresh \in Int
      BY <2>2 DEF TypeOK, Present, Entity
    <3> QED
      BY <2>1, <2>2, <3>1 DEF FreshInv
  <2>3. CASE entities'[e] = entities[e] /\ received'[e] = received[e]
    BY <2>2, <2>3 DEF BrokenOff, IsFrom, Present
  <2>4. ASSUME NEW frag \in Fragments, PutCreate(frag), frag.id = e
        PROVE  Age(entities'[e], BrokenOff(e)', now')
    <3>1. entities'[e] = Created(frag)
      BY <2>4 DEF PutCreate, TypeOK
    <3> QED
      BY <3>1 DEF Created
  <2>5. ASSUME NEW frag \in Fragments, PutSkip(frag), frag.id = e
        PROVE  Age(entities'[e], BrokenOff(e)', now')
    <3> DEFINE x == entities[e]
               s == received[e]
               t == Append(s, frag)
    <3>1. /\ Present(e) /\ entities' = entities /\ received'[e] = t
          /\ frag.at < x.at /\ x \in Entity /\ s \in Seq(Fragment)
      BY <2>5 DEF PutSkip, Comparable, Stale, TypeOK, dict, Present
    <3>2. /\ DOMAIN s = 1..Len(s) /\ DOMAIN t = 1..(Len(s) + 1) /\ Len(s) \in Nat
          /\ t[Len(s) + 1] = frag /\ \A i \in DOMAIN s : t[i] = s[i]
      BY <3>1
    <3>3. frag.at \in Nat /\ x.at \in Nat
      BY <3>1, StateBusAssumption DEF Fragment, Entity
    <3>4. ASSUME NEW i \in DOMAIN s, IsFrom(x, s, i)
          PROVE  i \in DOMAIN t /\ IsFrom(x, t, i) /\ t[i] = s[i]
      BY <3>1, <3>2, <3>3, <3>4 DEF IsFrom
    <3>5. BrokenOff(e) => BrokenOff(e)'
      BY <3>1, <3>4 DEF BrokenOff, IsFrom
    <3> QED
      BY <2>2, <3>1, <3>5
  <2>6. ASSUME NEW frag \in Fragments, Merge(frag) \/ PutMergeClash(frag), frag.id = e
        PROVE  Age(entities'[e], BrokenOff(e)', now')
    <3> DEFINE x == entities[e]
    <3>1. /\ frag \in Fragment /\ Present(e) /\ x \in Entity
          /\ frag.aware = x.aware /\ ~(frag.at < x.at)
          /\ \E g, y : /\ WritesAs(frag, g, y)
                      /\ \/ Merge(frag) /\ g = frag /\ y = Merged(x, frag)
                         \/ /\ PutMergeClash(frag) /\ frag.clash
                            /\ y.fresh = x.fresh
      BY <2>6, MergeWrites DEF TypeOK
    <3>2. PICK g, y : /\ WritesAs(frag, g, y)
                      /\ \/ Merge(frag) /\ g = frag /\ y = Merged(x, frag)
                         \/ /\ PutMergeClash(frag) /\ frag.clash
                            /\ y.fresh = x.fresh
      BY <3>1
    <3>3. /\ entities'[e] = y /\ received'[e] = Append(received[e], g)
          /\ Wrote(x, g, y) /\ y.aware = x.aware
          /\ g \in Fragment /\ g.aware = x.aware /\ g.at = frag.at /\ g.clash = frag.clash
      BY <2>6, <3>1, <3>2 DEF WritesAs, Wrote, TypeOK
    <3>4. CASE y = Merged(x, frag)
      <4>1. frag.at \in Nat
        BY <3>1 DEF Fragment
      <4>2. x.aware => x.fresh = 0
        BY <3>1 DEF FreshInv
      <4> QED
        BY <2>1, <3>1, <3>3, <3>4, <4>1, <4>2 DEF Merged, Rewritten, Entity
    <3>5. CASE frag.clash /\ y.fresh = x.fresh
      <4>1. received[e] \in Seq(Fragment) /\ Recorded(x, received[e])
        BY <3>1 DEF TypeOK, HistoryInv
      <4>2. ~(g.at < x.at)
        BY <3>1, <3>3
      <4>3. Len(received[e]) > 0 /\ IsFrom(y, received'[e], Len(received[e]) + 1)
        BY <3>1, <3>3, <4>1, <4>2, MergeRecorded
      <4>4. /\ Len(received[e]) + 1 \in DOMAIN received'[e] /\ Len(received[e]) + 1 > 1
            /\ received'[e][Len(received[e]) + 1] = g
        BY <3>3, <4>1, <4>3
      <4>5. BrokenOff(e)'
        BY <3>3, <3>5, <4>3, <4>4 DEF BrokenOff, IsFrom
      <4>6. x.aware => x.fresh = 0
        BY <3>1 DEF FreshInv
      <4> QED
        BY <3>3, <3>5, <4>5, <4>6
    <3> QED
      BY <3>2, <3>4, <3>5
  <2>7. ASSUME (\E d \in Ids : GetEntity(d)) \/ GetAllEntities,
               entities'[e] # entities[e]
        PROVE  Age(entities'[e], BrokenOff(e)', now')
    <3>1. /\ entities[e] \in Entity /\ ~entities[e].aware
          /\ entities'[e] = Refresh(entities[e])
      <4>1. CASE GetAllEntities
        BY <2>7, <4>1 DEF GetAllEntities, Reaches, TypeOK, Present
      <4>2. CASE \E d \in Ids : GetEntity(d)
        BY <2>7, <4>2 DEF GetEntity, TypeOK, Present
      <4> QED
        BY <2>7, <4>1, <4>2
    <3> QED
      BY <2>1, <3>1 DEF Refresh, Entity
  <2>8. ASSUME NEW frag \in Fragments, PutFragment(frag)
        PROVE  Age(entities'[e], BrokenOff(e)', now')
    <3>1. CASE frag.id = e
      BY <2>3, <2>4, <2>5, <2>6, <2>8, <3>1
         DEF PutFragment, PutCreateFails, PutMerge, PutMergeRaises, PutCompareRaises, dict
    <3>2. CASE frag.id # e
      <4>1. entities'[e] = entities[e] /\ received'[e] = received[e]
        BY <2>8, <3>2 DEF PutFragment, PutCreate, PutCreateFails, PutSkip, PutMerge,
             PutMergeRaises, PutMergeClash, PutCompareRaises, Merge, dict, TypeOK
      <4> QED
        BY <2>3, <4>1
    <3> QED
      BY <3>1, <3>2
  <2>9. CASE (\E d \in Ids : GetEntity(d)) \/ GetAllEntities
    <3>1. received' = received
      BY <2>9 DEF GetEntity, GetAllEntities
    <3> QED
      BY <2>3, <2>7, <2>9, <3>1
  <2>10. CASE Clear
    BY <2>10 DEF Clear, Present
  <2>11. CASE PutBegin \/ PutReturn \/ Tick \/ UNCHANGED vars
    <3>1. entities' = entities /\ received' = received
      BY <2>11 DEF PutBegin, PutReturn, Tick, vars, dict
    <3> QED
      BY <2>3, <3>1
  <2> QED
    BY <2>8, <2>9, <2>10, <2>11 DEF Next
<1>3. TypeOK /\ FreshInv => FreshnessRebased
  BY DEF FreshInv, FreshnessRebased
<1> QED
  BY <1>1, <1>2, <1>3, TypeCorrect, HistoryCorrect, PTL DEF Spec

(* An aware time in the store stays there until clear: no fragment and no  *)
(* read heals what makes get_all_entities raise.                           *)
THEOREM PoisonPersistsHolds == Spec => PoisonPersists
<1>1. TypeOK /\ [Next]_vars => (Poisoned => Poisoned' \/ Empty')
  <2> SUFFICES ASSUME TypeOK, [Next]_vars, NEW e \in Ids,
                      Present(e), entities[e].aware, ~Clear
               PROVE  Present(e)' /\ entities'[e].aware
    BY DEF Poisoned, Empty, Clear, Present
  <2>1. entities[e] \in Entity /\ now \in Nat
    BY DEF TypeOK, Present
  <2>2. CASE entities'[e] = entities[e]
    BY <2>2 DEF Present
  <2>3. ASSUME NEW g, Wrote(entities[e], g, entities'[e])
        PROVE  Present(e)' /\ entities'[e].aware
    BY <2>3, StateBusAssumption DEF Present, Wrote
  <2>4. CASE entities'[e] = Refresh(entities[e])
    <3>1. Refresh(entities[e]) \in Entity
      BY <2>1, RefreshType
    <3>2. Refresh(entities[e]).aware = entities[e].aware
      BY <2>1 DEF Refresh, Entity
    <3> QED
      BY <2>4, <3>1, <3>2, StateBusAssumption DEF Present
  <2>5. \/ entities'[e] = entities[e]
        \/ \E g : Wrote(entities[e], g, entities'[e])
        \/ entities'[e] = Refresh(entities[e])
    <3>1. ASSUME NEW frag \in Fragments, PutFragment(frag)
          PROVE  \/ entities'[e] = entities[e]
                 \/ \E g : Wrote(entities[e], g, entities'[e])
      <4>1. CASE Merge(frag) \/ PutMergeClash(frag)
        <5>1. frag.id \in Ids /\ \E g, y : WritesAs(frag, g, y)
          BY <2>1, <4>1, MergeWrites DEF TypeOK
        <5> QED
          BY <5>1 DEF WritesAs, TypeOK
      <4> QED
        BY <3>1, <4>1 DEF PutFragment, PutCreate, PutCreateFails, PutSkip, PutMerge,
                          PutMergeRaises, PutCompareRaises, TypeOK, dict
    <3> QED
      BY <3>1
         DEF Next, PutBegin, PutReturn, GetEntity, GetAllEntities, Tick, vars,
             dict, TypeOK
  <2> QED
    BY <2>2, <2>3, <2>4, <2>5
<1> QED
  BY <1>1, TypeCorrect, PTL DEF Spec, PoisonPersists

-----------------------------------------------------------------------------
(* The refinement *)

(* The time of an entity is one that a fragment brought *)
SeenInv ==
  \A e \in Ids : Present(e) =>
    entities[e].at \in {frag.at : frag \in Fragments}

(* The bus is the store its documentation describes: entities appear, go   *)
(* forward without forgetting a field, and vanish only all at once.        *)
THEOREM StoreImplemented == Spec => ImplementsStore
<1> DEFINE Times == {frag.at : frag \in Fragments}
           Seen(x) == [at |-> x.at, fields |-> x.fields]
<1>1. Init => SeenInv /\ Store!Init
  BY DEF Init, SeenInv, View, Present, Store!Init
<1>2. TypeOK /\ SeenInv /\ [Next]_vars => SeenInv' /\ [Store!Next]_View
  <2> SUFFICES ASSUME TypeOK, SeenInv, [Next]_vars
               PROVE  SeenInv' /\ [Store!Next]_View
    OBVIOUS
  <2>1. ASSUME NEW x \in Entity
        PROVE  x # Absent /\ Seen(x) # Absent
    BY StateBusAssumption DEF Entity
  <2>2. /\ View = [e \in Ids |-> IF Present(e) THEN Seen(entities[e]) ELSE Absent]
        /\ View' = [e \in Ids |-> IF Present(e)' THEN Seen(entities'[e])
                                  ELSE Absent]
    BY DEF View
  <2>3. CASE entities' = entities
    BY <2>3 DEF SeenInv, View, Present
  <2>4. ASSUME NEW frag \in Fragments, PutCreate(frag)
        PROVE  SeenInv' /\ Store!Next
    <3> DEFINE d == frag.id
               x == Created(frag)
    <3>1. frag \in Fragment /\ d \in Ids /\ frag.at \in Times /\ x \in Entity
      BY CreatedType, StateBusAssumption DEF Fragment
    <3>2. ~Present(d) /\ entities' = [entities EXCEPT ![d] = x]
      BY <2>4 DEF PutCreate
    <3>3. SeenInv'
      BY <3>1, <3>2 DEF SeenInv, Present, Created, TypeOK
    <3>4. Seen(x) \in [at : Times, fields : [Fields -> Values \cup {NoValue}]]
      BY <3>1 DEF Created, Entity, FieldMap
    <3>5. View' = [View EXCEPT ![d] = Seen(x)]
      BY <2>1, <2>2, <3>1, <3>2 DEF Present, TypeOK
    <3>6. View[d] = Absent
      BY <2>2, <3>1, <3>2
    <3>7. Store!Appear(d)
      BY <3>4, <3>5, <3>6 DEF Store!Appear, Store!View
    <3> QED
      BY <3>1, <3>3, <3>7 DEF Store!Next
  <2>5. ASSUME NEW frag \in Fragments, Merge(frag) \/ PutMergeClash(frag)
        PROVE  SeenInv' /\ Store!Next
    <3> DEFINE d == frag.id
               old == entities[d]
    <3>1. /\ frag \in Fragment /\ d \in Ids /\ frag.at \in Times
          /\ Present(d) /\ ~(frag.at < old.at) /\ old \in Entity
          /\ \E g, y : WritesAs(frag, g, y)
      BY <2>5, MergeWrites DEF TypeOK
    <3>2. PICK g, new : WritesAs(frag, g, new)
      BY <3>1
    <3>3. entities' = [entities EXCEPT ![d] = new] /\ new \in Entity
      BY <3>2 DEF WritesAs, Wrote
    <3>4. /\ new.at = frag.at
          /\ new.fields = Overlay(old.type, old.fields, g)
      BY <3>2 DEF WritesAs, Wrote
    <3>5. SeenInv'
      BY <3>1, <3>3, <3>4 DEF SeenInv, Present, TypeOK
    <3>6. Seen(new) \in [at : Times, fields : [Fields -> Values \cup {NoValue}]]
      BY <3>1, <3>3, <3>4 DEF Entity, FieldMap
    <3>7. View' = [View EXCEPT ![d] = Seen(new)]
      BY <2>1, <2>2, <3>1, <3>2, <3>3 DEF Present, TypeOK
    <3>8. View[d] = Seen(old) /\ View[d] # Absent
      BY <2>1, <2>2, <3>1, <3>2, <3>3
    <3>9. Seen(new).at >= Seen(old).at
      BY <3>1, <3>2, <3>3, <3>4 DEF Fragment, Entity
    <3>10. Store!Keeps(Seen(old), Seen(new))
      BY <3>4 DEF Store!Keeps, Overlay, Carries
    <3>11. Store!Advance(d)
      BY <3>6, <3>7, <3>8, <3>9, <3>10 DEF Store!Advance, Store!View
    <3> QED
      BY <3>1, <3>5, <3>11 DEF Store!Next
  <2>6. CASE (\E d \in Ids : GetEntity(d)) \/ GetAllEntities
    <3>1. ASSUME NEW e \in Ids
          PROVE  \/ entities'[e] = entities[e]
                 \/ Present(e) /\ entities'[e] = Refresh(entities[e])
      BY <2>6 DEF GetEntity, GetAllEntities, TypeOK
    <3>2. ASSUME NEW e \in Ids, Present(e), entities'[e] = Refresh(entities[e])
          PROVE  Present(e)' /\ Seen(entities'[e]) = Seen(entities[e])
      <4>1. entities[e] \in Entity /\ now \in Nat
        BY <3>2 DEF TypeOK, Present
      <4>2. Refresh(entities[e]) \in Entity
        BY <4>1, RefreshType
      <4>3. Seen(Refresh(entities[e])) = Seen(entities[e])
        BY <4>1 DEF Refresh, Entity
      <4> QED
        BY <2>1, <3>2, <4>2, <4>3 DEF Present
    <3>3. View' = View
      BY <2>2, <3>1, <3>2 DEF Present
    <3>4. SeenInv'
      BY <3>1, <3>2 DEF SeenInv, Present
    <3> QED
      BY <3>3, <3>4
  <2>7. CASE Clear
    BY <2>2, <2>7 DEF Clear, SeenInv, Present, Store!Next, Store!Reset
  <2> QED
    BY <2>3, <2>4, <2>5, <2>6, <2>7
       DEF Next, PutBegin, PutFragment, PutCreateFails, PutSkip, PutMerge,
           PutMergeRaises, PutCompareRaises, PutReturn, Tick, vars, dict
<1> QED
  BY <1>1, <1>2, TypeCorrect, PTL DEF Spec, ImplementsStore, Store!Spec
-----------------------------------------------------------------------------
(* The freshness guardrail over the bus *)

(* Checking entities is reading them: the gated bus is the bus.            *)
LEMMA GateIsBus == GateSpec => Spec
<1>1. GateInit => Init
  BY DEF GateInit
<1>2. [GateNext]_gateVars => [Next]_vars
  BY DEF GateNext, gateVars, CheckFreshness, Next
<1> QED
  BY <1>1, <1>2, PTL DEF GateSpec, Spec

(* A verdict is about the entity as it stands.                             *)
VerdictInv ==
  verdict # NoVerdict =>
    /\ verdict.entity \in Ids
    /\ Present(verdict.entity)
    /\ verdict.passed <=>
         now - entities[verdict.entity].at <= max_staleness_seconds

(* The guardrail passes an entity exactly when the newest fragment it was  *)
(* given is recent enough, in whatever order the fragments came            *)
(* (_check_freshness over _merge_fragment).                                *)
THEOREM VerdictIsNewestHolds == GateSpec => []VerdictIsNewest
<1>1. GateInit => VerdictInv
  BY DEF GateInit, VerdictInv
<1>2. TypeOK /\ VerdictInv /\ [GateNext]_gateVars => VerdictInv'
  <2> SUFFICES ASSUME TypeOK, VerdictInv, [GateNext]_gateVars
               PROVE  VerdictInv'
    OBVIOUS
  <2>1. ASSUME NEW e \in Ids, CheckFreshness(e)
        PROVE  VerdictInv'
    <3>1. /\ entities[e] \in Entity /\ now \in Nat /\ now' = now
          /\ entities'[e] = Refresh(entities[e])
      BY <2>1 DEF CheckFreshness, GetEntity, Present, TypeOK
    <3>2. /\ Refresh(entities[e]) \in Entity
          /\ Refresh(entities[e]).fresh = now - Refresh(entities[e]).at
      BY <3>1, RefreshType DEF Refresh, Entity
    <3>3. /\ verdict'.entity = e
          /\ verdict'.passed <=> entities'[e].fresh <= max_staleness_seconds
      BY <2>1 DEF CheckFreshness
    <3> QED
      BY <3>1, <3>2, <3>3, StateBusAssumption DEF VerdictInv, Present
  <2>2. CASE verdict' = NoVerdict
    BY <2>2 DEF VerdictInv
  <2>3. CASE UNCHANGED gateVars
    BY <2>3 DEF gateVars, vars, VerdictInv, Present
  <2> QED
    BY <2>1, <2>2, <2>3 DEF GateNext
<1>3. TypeOK /\ VerdictInv /\ ObservedAtIsNewest => VerdictIsNewest
  <2> SUFFICES ASSUME TypeOK, VerdictInv, ObservedAtIsNewest,
                      verdict # NoVerdict
               PROVE  verdict.passed <=>
                        \E i \in DOMAIN received[verdict.entity] :
                          Fresh(received[verdict.entity][i])
    BY DEF VerdictIsNewest
  <2> DEFINE e == verdict.entity
             s == received[e]
  <2>1. /\ e \in Ids /\ Present(e)
        /\ verdict.passed <=> now - entities[e].at <= max_staleness_seconds
    BY DEF VerdictInv
  <2>2. PICK k \in DOMAIN s : IsFrom(entities[e], s, k)
    BY <2>1 DEF ObservedAtIsNewest
  <2>3. \A i \in DOMAIN s : s[i].at \in Nat /\ s[i].at <= s[k].at
    <3>1. s \in Seq(Fragment)
      BY <2>1 DEF TypeOK
    <3>2. \A i \in DOMAIN s : s[i] \in Fragment
      BY <3>1
    <3> QED
      BY <2>2, <3>2 DEF IsFrom, Fragment
  <2>4. entities[e].at = s[k].at /\ now \in Nat /\ max_staleness_seconds \in Nat
    BY <2>2, FreshnessGateAssumption DEF IsFrom, TypeOK
  <2> HIDE DEF s, e
  <2>5. verdict.passed <=> \E i \in DOMAIN s : Fresh(s[i])
    BY <2>1, <2>2, <2>3, <2>4 DEF Fresh
  <2> QED
    BY <2>5 DEF s, e
<1> QED
  BY <1>1, <1>2, <1>3, GateIsBus, TypeCorrect, ObservedAtHolds, PTL DEF GateSpec
=============================================================================
