---------------------------- MODULE ReplayServer ----------------------------
(***************************************************************************)
(* openaice/api/server.py: the endpoints over the shared app.state.  The   *)
(* handlers are plain functions, so FastAPI runs each request on a thread  *)
(* of a pool; every read and every assignment of an attribute of app.state *)
(* is a step of its own.  What a replay publishes is named by its request; *)
(* Entities[s] and Recs[s] say how many of each scenario s yields.         *)
(***************************************************************************)
EXTENDS Integers, FiniteSets

CONSTANTS
  Replays,           \* the POST /replay requests
  StateReads,        \* the GET /state requests
  RecReads,          \* the GET /recommendations requests
  Scenarios,         \* scenario directories that exist
  Entities, Recs,    \* scenario |-> number of entities, of recommendations
  NoJsonEntities,    \* replays with an entity that JSON cannot hold (a NaN)
  NoJsonRecs,        \* replays with such a recommendation
  Missing,           \* a scenario path that does not exist
  Nothing,           \* the empty list app.state starts with; no scenario yet
  PoolSize           \* threads that run handlers

Requests == Replays \cup StateReads \cup RecReads

ASSUME ReplayServerAssumption ==
  /\ Replays \cap (StateReads \cup RecReads) = {}
  /\ StateReads \cap RecReads = {}
  /\ Entities \in [Scenarios -> Nat] /\ Recs \in [Scenarios -> Nat]
  /\ Missing \notin Scenarios /\ Nothing \notin Scenarios \cup {Missing} \cup Requests
  /\ PoolSize \in Nat \ {0}

VARIABLES
  entities,         \* app.state.entities: the replay that published it
  recommendations,  \* app.state.recommendations, likewise
  pc,               \* request |-> where its handler is
  scenario,         \* replay |-> request.scenario_path
  count,            \* read |-> the length it has read
  list,             \* read |-> the list it has iterated
  before            \* history: request |-> those answered when it began

vars == <<entities, recommendations, pc, scenario, count, list, before>>

(* All of the handler's assignments are made; an answer that is unwritten  *)
(* is a 500 after that, for what JSON cannot hold.                         *)
Completed == {"ok", "unwritten"}
Answered == Completed \cup {"not_found", "error"}
Running == {r \in Requests : pc[r] \notin {"idle"} \cup Answered}
Done == {r \in Requests : pc[r] \in Answered}

EntityCount(who) == IF who = Nothing THEN 0 ELSE Entities[scenario[who]]
RecCount(who) == IF who = Nothing THEN 0 ELSE Recs[scenario[who]]

Init ==
  /\ entities = Nothing
  /\ recommendations = Nothing
  /\ pc = [r \in Requests |-> "idle"]
  /\ scenario = [r \in Replays |-> Nothing]
  /\ count = [r \in StateReads \cup RecReads |-> 0]
  /\ list = [r \in StateReads \cup RecReads |-> Nothing]
  /\ before = [r \in Requests |-> {}]

(* Mutated form: a thread that has answered does not return to the pool    *)
BugThreadsLeak(r, where) ==
  /\ pc[r] = "idle"
  /\ Cardinality(Running \cup Done) < PoolSize
  /\ pc' = [pc EXCEPT ![r] = where]
  /\ before' = [before EXCEPT ![r] = Done]

(* A free thread of the pool takes the request.                            *)
Takes(r, where) ==
  /\ pc[r] = "idle"
  /\ Cardinality(Running) < PoolSize
  /\ pc' = [pc EXCEPT ![r] = where]
  /\ before' = [before EXCEPT ![r] = Done]

Goes(r, from, to) == pc[r] = from /\ pc' = [pc EXCEPT ![r] = to]

-----------------------------------------------------------------------------
(* POST /replay *)

BeginReplay(r, s) ==
  /\ Takes(r, IF s = Missing THEN "not_found" ELSE "pipeline")
  /\ scenario' = [scenario EXCEPT ![r] = s]
  /\ UNCHANGED <<entities, recommendations, count, list>>

(* Mutated form: the entities are published before the rules are evaluated,*)
(* whose failure then leaves them there                                    *)
BugPublishEarly(r) ==
  /\ Goes(r, "pipeline", "error")
  /\ entities' = r
  /\ UNCHANGED <<recommendations, scenario, count, list, before>>

(* The pipeline works on objects of its own; an exception is answered 500. *)
PipelineRaises(r) ==
  /\ Goes(r, "pipeline", "error")
  /\ UNCHANGED <<entities, recommendations, scenario, count, list, before>>

StoreEntities(r) ==
  /\ Goes(r, "pipeline", "half")
  /\ entities' = r
  /\ UNCHANGED <<recommendations, scenario, count, list, before>>

(* Mutated form: stored after the answer, as by a background task          *)
BugAnswerFirst(r) ==
  /\ \/ Goes(r, "half", "ok") /\ UNCHANGED recommendations
     \/ /\ pc[r] = "ok" /\ recommendations' = r /\ UNCHANGED pc
  /\ UNCHANGED <<entities, scenario, count, list, before>>

(* Mutated form: an empty list of recommendations is not stored            *)
BugKeepsOld(r) ==
  /\ Goes(r, "half", "stored")
  /\ recommendations' = IF Recs[scenario[r]] = 0 THEN recommendations ELSE r
  /\ UNCHANGED <<entities, scenario, count, list, before>>

StoreRecommendations(r) ==
  /\ Goes(r, "half", "stored")
  /\ recommendations' = r
  /\ UNCHANGED <<entities, scenario, count, list, before>>

(* The answer is made from the replay's own locals; if that cannot be      *)
(* written, what was stored stays.                                         *)
AnswerReplay(r) ==
  /\ Goes(r, "stored", IF r \in NoJsonRecs THEN "unwritten" ELSE "ok")
  /\ UNCHANGED <<entities, recommendations, scenario, count, list, before>>

-----------------------------------------------------------------------------
(* GET /state and GET /recommendations: a length, then the list itself *)

BeginRead(r) ==
  /\ Takes(r, "read")
  /\ UNCHANGED <<entities, recommendations, scenario, count, list>>

ReadCount(r) ==
  /\ Goes(r, "read", "counted")
  /\ count' = [count EXCEPT ![r] = IF r \in StateReads THEN EntityCount(entities)
                                   ELSE RecCount(recommendations)]
  /\ UNCHANGED <<entities, recommendations, scenario, list, before>>

ReadList(r) ==
  LET read   == IF r \in StateReads THEN entities ELSE recommendations
      noJson == IF r \in StateReads THEN NoJsonEntities ELSE NoJsonRecs
  IN
  /\ Goes(r, "counted", IF read \in noJson THEN "unwritten" ELSE "ok")
  /\ list' = [list EXCEPT ![r] = read]
  /\ UNCHANGED <<entities, recommendations, scenario, count, before>>

-----------------------------------------------------------------------------
Replay(r) ==
  \/ \E s \in Scenarios \cup {Missing} : BeginReplay(r, s)
  \/ PipelineRaises(r) \/ StoreEntities(r) \/ StoreRecommendations(r) \/ AnswerReplay(r)

Read(r) == BeginRead(r) \/ ReadCount(r) \/ ReadList(r)

Next == (\E r \in Replays : Replay(r)) \/ (\E r \in StateReads \cup RecReads : Read(r))

(* A thread that runs a handler goes on; a waiting request gets a thread.  *)
Fairness ==
  /\ \A r \in Replays : WF_vars(Replay(r))
  /\ \A r \in StateReads \cup RecReads : WF_vars(Read(r))

Spec == Init /\ [][Next]_vars
FairSpec == Spec /\ Fairness

-----------------------------------------------------------------------------
(* Every variable keeps its type: only replays that exist and have begun   *)
(* are published.                                                          *)
TypeOK ==
  /\ {entities, recommendations} \subseteq
       {Nothing} \cup {r \in Replays : pc[r] \in {"half", "stored"} \cup Completed}
  /\ \A r \in Replays : pc[r] \in {"idle", "pipeline", "half", "stored"} \cup Answered
  /\ \A r \in StateReads \cup RecReads : pc[r] \in {"idle", "read", "counted"} \cup Completed
  /\ scenario \in [Replays -> Scenarios \cup {Missing, Nothing}]
  /\ count \in [StateReads \cup RecReads -> Nat]
  /\ list \in [StateReads \cup RecReads -> Replays \cup {Nothing}]
  /\ before \in [Requests -> SUBSET Requests]

(* Once a replay has been answered, what an earlier one had stored before  *)
(* it began never comes back (server.py:135-136): neither into app.state,  *)
(* nor to a reader that began after both.  So even if the answers to them  *)
(* could not be written.                                                   *)
NoResurrection ==
  \A a, b \in Replays : a \in before[b] /\ {pc[a], pc[b]} \subseteq Completed =>
    /\ entities # a /\ recommendations # a
    /\ \A g \in StateReads \cup RecReads : b \in before[g] => list[g] # a

(* A replay whose pipeline fails, or whose path does not exist, is never   *)
(* seen.  One that fails later, when its answer is written, is.            *)
FailureIsInvisible ==
  \A r \in Replays : pc[r] \in {"error", "not_found"} =>
    /\ entities # r /\ recommendations # r
    /\ \A g \in StateReads \cup RecReads : list[g] # r

(* When no replay is running, entities and recommendations of different    *)
(* replays can only stand side by side if those two ran at the same time.  *)
MixedOnlyIfOverlapped ==
  Running \cap Replays = {} /\ entities # recommendations =>
    /\ entities # Nothing /\ recommendations # Nothing
    /\ entities \notin before[recommendations]
    /\ recommendations \notin before[entities]

(* Every request a client sends is answered, with more requests than       *)
(* threads too.                                                            *)
EveryRequestAnswered == \A r \in Requests : <>(pc[r] \in Answered)

-----------------------------------------------------------------------------
(* Claims of the repository *)

(* server.py:66, docs/guide/api.md:33: GET /state gives a snapshot, so its *)
(* entity_count is the number of its entities.                             *)
StateIsSnapshot ==
  \A g \in StateReads : pc[g] = "ok" => count[g] = EntityCount(list[g])
=============================================================================
