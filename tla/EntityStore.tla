----------------------------- MODULE EntityStore -----------------------------
(***************************************************************************)
(* What the state bus promises its readers (docs/architecture/             *)
(* canonical-state-model.md:113-118), without batches, logs, exceptions or *)
(* the data of any fragment: an entity appears once, its observation time  *)
(* never goes back, a field it knows is never forgotten, and only a reset  *)
(* removes it.                                                             *)
(***************************************************************************)
EXTENDS Integers

CONSTANTS Ids, Fields, Values, Times, NoValue, Absent

VARIABLE view   \* id |-> what a reader may see of it, or Absent

View == [at : Times, fields : [Fields -> Values \cup {NoValue}]]

Init == view = [e \in Ids |-> Absent]

Appear(e) ==
  /\ view[e] = Absent
  /\ \E v \in View : view' = [view EXCEPT ![e] = v]

Keeps(old, new) ==
  \A f \in Fields : old.fields[f] # NoValue => new.fields[f] # NoValue

Advance(e) ==
  /\ view[e] # Absent
  /\ \E v \in View :
       /\ v.at >= view[e].at
       /\ Keeps(view[e], v)
       /\ view' = [view EXCEPT ![e] = v]

Reset == view' = [e \in Ids |-> Absent]

Next == Reset \/ \E e \in Ids : Appear(e) \/ Advance(e)

Spec == Init /\ [][Next]_view
=============================================================================
