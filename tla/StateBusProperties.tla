------------------------- MODULE StateBusProperties -------------------------
(***************************************************************************)
(* What the state bus has to get right, stated over the fragments it was   *)
(* given (received, handled), never over what its code decided about them. *)
(***************************************************************************)
EXTENDS StateBus

(* Every variable of the bus has its type.                                 *)
TypeOK ==
  /\ entities \in [Ids -> Entity \cup {Absent}]
  /\ order \in Seq(Ids)
  /\ fragment_log \in Seq(Fragment)
  /\ now \in Nat
  /\ putting \in BOOLEAN
  /\ updated_ids \in Seq(Ids)
  /\ returned \in [outcome : {"none", "ok", "raised"}, ids : Seq(Ids)]
  /\ touched \in SUBSET Ids
  /\ received \in [Ids -> Seq(Fragment)]
  /\ handled \in Seq(Fragment)

(* The i-th fragment is at least as new as all that came before it *)
Newest(s, i) == \A j \in 1..(i-1) : s[j].at <= s[i].at

(* The fragments of s that were new when they came and carry f *)
Carriers(type, s, f) ==
  {i \in DOMAIN s : Newest(s, i) /\ Carries(type, s[i], f)}

IsLast(S, i) == i \in S /\ \A j \in S : j <= i

HoldsNewest(entity, s) ==
  \A f \in Fields :
    \/ Carriers(entity.type, s, f) = {} /\ entity.fields[f] = NoValue
    \/ \E i \in DOMAIN s : /\ IsLast(Carriers(entity.type, s, f), i)
                           /\ entity.fields[f] = s[i].fields[f]

IsFrom(entity, s, i) ==
  /\ entity.at = s[i].at
  /\ entity.source = s[i].source
  /\ \A j \in DOMAIN s : s[j].at <= s[i].at /\ (s[j].at = s[i].at => j <= i)

(* In whatever order fragments come, a field holds the value of the last   *)
(* fragment that carried it and was not older than one before it: a stale  *)
(* fragment changes nothing, a tie is taken, None and unknown fields do    *)
(* not erase (_merge_fragment, _create_entity).                            *)
NewestWins ==
  \A e \in Ids : Present(e) => HoldsNewest(entities[e], received[e])

(* observed_at is the newest time received since the entity appeared, and  *)
(* source_type names the last fragment that was that new.                  *)
ObservedAtIsNewest ==
  \A e \in Ids : Present(e) =>
    \E i \in DOMAIN received[e] : IsFrom(entities[e], received[e], i)

(* A naive and an aware time never meet in an entity: all the fragments    *)
(* compared with it are of its own kind (datetime's TypeError).            *)
OneZone ==
  \A e \in Ids : \A i \in DOMAIN received[e] :
    Present(e) /\ received[e][i].aware = entities[e].aware

(* The fragment log is the first MaxLog fragments handled since clear, in  *)
(* order: rejected ones take room, and the newest are the ones it lacks.   *)
LogIsPrefix ==
  /\ Len(fragment_log) = IF Len(handled) < MaxLog THEN Len(handled) ELSE MaxLog
  /\ \A i \in DOMAIN fragment_log : fragment_log[i] = handled[i]

(* What put_fragments returns names every entity the call changed.         *)
ReturnedNamesTouched ==
  ~putting /\ returned.outcome = "ok" =>
    \A e \in touched : \E i \in DOMAIN returned.ids : returned.ids[i] = e

(* The last write of e stopped at a clashing key *)
BrokenOff(e) ==
  \E i \in DOMAIN received[e] :
    IsFrom(entities[e], received[e], i) /\ i > 1 /\ received[e][i].clash

(* A computed freshness belongs to the entity's present observed_at: no    *)
(* entity claims to be older than that time allows (update_freshness is    *)
(* called after observed_at changes), unless a key that clashes kept the   *)
(* merge from it.                                                          *)
FreshnessRebased ==
  \A e \in Ids : Present(e) /\ entities[e].fresh # 0 /\ ~BrokenOff(e) =>
    entities[e].at + entities[e].fresh <= now

Empty == \A e \in Ids : ~Present(e)

Poisoned == \E e \in Ids : Present(e) /\ entities[e].aware

(* Once an aware time is in the store get_all_entities raises; no later    *)
(* fragment heals it, only clear does.                                     *)
PoisonPersists ==
  [][Poisoned => Poisoned' \/ Empty']_vars

View ==
  [e \in Ids |-> IF Present(e)
                 THEN [at |-> entities[e].at, fields |-> entities[e].fields]
                 ELSE Absent]

Store == INSTANCE EntityStore
           WITH view <- View, Times <- {frag.at : frag \in Fragments}

(* The bus implements the store its documentation describes.               *)
ImplementsStore == Store!Spec
=============================================================================
