------------------------- MODULE ReplayServerProofs -------------------------
(***************************************************************************)
(* Proofs about the server's shared state, for any number of requests,     *)
(* scenarios and threads.                                                  *)
(***************************************************************************)
EXTENDS ReplayServer, TLAPS

USE DEF Completed

Reads == StateReads \cup RecReads

Published(who) == who = Nothing \/ (who \in Replays /\ pc[who] \in {"half", "stored"} \cup Completed)

(* What is published was published by a replay that got that far.          *)
PcType ==
  /\ \A r \in Replays : pc[r] \in {"idle", "pipeline", "half", "stored"} \cup Answered
  /\ \A r \in Reads : pc[r] \in {"idle", "read", "counted"} \cup Completed

Sources ==
  /\ DOMAIN pc = Requests
  /\ PcType
  /\ Published(entities)
  /\ Published(recommendations) /\ (recommendations \in Replays => pc[recommendations] # "half")
  /\ list \in [Reads -> Replays \cup {Nothing}]
  /\ \A g \in Reads : Published(list[g]) /\ (pc[g] \notin Completed => list[g] = Nothing)
  /\ \A r \in Replays : /\ pc[r] \in {"half", "stored"} \cup Completed => entities # Nothing
                        /\ pc[r] \in {"stored"} \cup Completed => recommendations # Nothing

(* A request only looks back on requests already answered.                 *)
Past ==
  /\ before \in [Requests -> SUBSET Requests]
  /\ \A r \in Requests : \A a \in before[r] : pc[a] \in Answered
  /\ \A r \in Requests : pc[r] = "idle" => before[r] = {}
  /\ \A r \in Requests : r \notin before[r]

(* A replay that has stored has driven out those that came before it.      *)
Replaced ==
  \A b \in Replays : \A a \in before[b] :
    /\ pc[b] \in {"half", "stored"} \cup Completed => entities # a
    /\ pc[b] \in {"stored"} \cup Completed => recommendations # a

NotRead ==
  \A a, b \in Replays : a \in before[b] /\ pc[a] \in Completed /\ pc[b] \in Completed =>
    \A g \in Reads : b \in before[g] => list[g] # a

IInv == Sources /\ Past /\ Replaced /\ NotRead

-----------------------------------------------------------------------------

(* The names of requests do not meet.                                      *)
LEMMA Names ==
  /\ Replays \cap Reads = {} /\ StateReads \cap RecReads = {}
  /\ Requests = Replays \cup Reads
  /\ Nothing \notin Requests
BY ReplayServerAssumption DEF Reads, Requests

(* Taking a request disturbs no other, and looks back on answered ones.    *)
LEMMA BeginKeeps ==
  ASSUME IInv, NEW r \in Requests, NEW where \in {"pipeline", "not_found", "read"},
         r \in Replays => where # "read", r \in Reads => where = "read",
         Takes(r, where), UNCHANGED <<entities, recommendations, list>>
  PROVE  IInv'
<1>1. /\ pc[r] = "idle" /\ pc' = [pc EXCEPT ![r] = where]
      /\ before' = [before EXCEPT ![r] = Done]
      /\ DOMAIN pc = Requests
  BY DEF Takes, IInv, Sources
<1>2. /\ \A q \in Requests : q # r => pc'[q] = pc[q]
      /\ pc'[r] = where
      /\ \A q \in Requests : q # r => before'[q] = before[q]
      /\ before \in [Requests -> SUBSET Requests]
      /\ before'[r] = Done
  BY <1>1 DEF IInv, Past
<1>3. /\ \A a \in Done : a \in Requests /\ pc[a] \in Answered /\ a # r
      /\ \A a \in Done : pc'[a] \in Answered
  BY <1>1, <1>2 DEF Done, Answered
<1>4. Sources'
  <2>1. DOMAIN pc' = Requests /\ PcType'
    BY <1>1, <1>2, Names DEF IInv, Sources, PcType, Answered
  <2>2. \A who : Published(who) => Published(who)'
    BY <1>1, <1>2, Names DEF Published
  <2>3. \A q \in Replays : pc'[q] \in {"half", "stored"} \cup Completed => pc'[q] = pc[q]
    BY <1>2, Names
  <2>4. \A g \in Reads : pc'[g] \notin Completed => pc[g] \notin Completed
    BY <1>1, <1>2, Names
  <2>5. recommendations \in Replays => pc'[recommendations] # "half"
    BY <1>2, Names DEF IInv, Sources
  <2> QED
    BY <2>1, <2>2, <2>3, <2>4, <2>5 DEF IInv, Sources
<1>5. Past'
  <2>1. before' \in [Requests -> SUBSET Requests]
    BY <1>1, <1>2, <1>3
  <2>2. ASSUME NEW q \in Requests, NEW a \in before'[q] PROVE pc'[a] \in Answered /\ a # q
    BY <1>1, <1>2, <1>3 DEF IInv, Past, Answered
  <2>3. \A q \in Requests : pc'[q] = "idle" => before'[q] = {}
    BY <1>2 DEF IInv, Past
  <2> QED
    BY <2>1, <2>2, <2>3 DEF Past
<1>6. Replaced'
  BY <1>2, Names DEF IInv, Replaced
<1>7. NotRead'
  <2> SUFFICES ASSUME NEW a \in Replays, NEW b \in Replays, a \in before'[b],
                      pc'[a] \in Completed, pc'[b] \in Completed, NEW g \in Reads, b \in before'[g]
               PROVE  list[g] # a
    BY DEF NotRead
  <2>1. b # r /\ a # r
    BY <1>2
  <2>2. CASE g = r
    <3>1. list[g] = Nothing
      BY <1>1, <2>2 DEF IInv, Sources
    <3> QED
      BY <3>1, Names
  <2>3. CASE g # r
    BY <1>2, <2>1, <2>3, Names DEF IInv, NotRead
  <2> QED
    BY <2>2, <2>3
<1> QED
  BY <1>4, <1>5, <1>6, <1>7 DEF IInv

(* A handler that goes on leaves what each request looks back on alone,    *)
(* and no one looks back on it yet.                                        *)
LEMMA GoesKeeps ==
  ASSUME IInv, NEW r \in Requests, NEW from, from \notin Answered, NEW to,
         Goes(r, from, to), from # "idle", to # "idle", UNCHANGED before
  PROVE  /\ \A q \in Requests : q # r => pc'[q] = pc[q]
         /\ pc[r] = from /\ pc'[r] = to /\ DOMAIN pc' = Requests
         /\ \A q \in Requests : r \notin before[q]
         /\ Past'
<1>1. pc[r] = from /\ pc' = [pc EXCEPT ![r] = to] /\ DOMAIN pc = Requests
  BY DEF Goes, IInv, Sources
<1>2. \A q \in Requests : r \notin before[q]
  BY <1>1 DEF IInv, Past
<1>3. /\ \A q \in Requests : q # r => pc'[q] = pc[q]
      /\ pc'[r] = to /\ DOMAIN pc' = Requests
  BY <1>1
<1>4. \A q \in Requests : \A a \in before[q] : a \in Requests /\ a # r
  BY <1>2 DEF IInv, Past
<1>5. Past'
  BY <1>3, <1>4 DEF IInv, Past
<1> QED
  BY <1>1, <1>2, <1>3, <1>5

(* A failing pipeline, an answer and a reading of the length store nothing *)
(* (server.py:69, 138).                                                    *)
LEMMA QuietKeeps ==
  ASSUME IInv, NEW r \in Requests,
         \/ r \in Replays /\ (PipelineRaises(r) \/ AnswerReplay(r))
         \/ r \in Reads /\ ReadCount(r)
  PROVE  IInv'
<1> DEFINE from == IF r \in Reads THEN "read"
                   ELSE IF pc[r] = "pipeline" THEN "pipeline" ELSE "stored"
           end == IF r \in NoJsonRecs THEN "unwritten" ELSE "ok"
           to == IF r \in Reads THEN "counted"
                 ELSE IF pc[r] = "pipeline" THEN "error" ELSE end
<1>1. /\ Goes(r, from, to)
      /\ from \notin Answered /\ from # "idle" /\ to # "idle"
      /\ UNCHANGED <<entities, recommendations, list, before>>
  BY Names DEF PipelineRaises, AnswerReplay, ReadCount, Goes, Answered
<1>2. /\ \A q \in Requests : q # r => pc'[q] = pc[q]
      /\ pc[r] = from /\ pc'[r] = to /\ DOMAIN pc' = Requests
      /\ \A q \in Requests : r \notin before[q]
      /\ Past'
  BY <1>1, GoesKeeps
<1>3. Sources'
  <2>1. PcType'
    BY <1>2, Names DEF IInv, Sources, PcType, Answered
  <2>2. \A who : Published(who) => Published(who)'
    BY <1>2, Names DEF Published
  <2>3. \A q \in Replays : /\ pc'[q] \in {"half", "stored"} \cup Completed => pc[q] \in {"half", "stored"} \cup Completed
                           /\ pc'[q] \in {"stored"} \cup Completed => pc[q] \in {"stored"} \cup Completed
                           /\ pc'[q] = "half" => pc[q] = "half"
    BY <1>2, Names
  <2>4. \A g \in Reads : pc'[g] \notin Completed => pc[g] \notin Completed
    BY <1>2, Names
  <2> QED
    BY <1>1, <1>2, <2>1, <2>2, <2>3, <2>4 DEF IInv, Sources
<1>4. Replaced'
  <2>1. \A q \in Replays : /\ pc'[q] \in {"half", "stored"} \cup Completed => pc[q] \in {"half", "stored"} \cup Completed
                           /\ pc'[q] \in {"stored"} \cup Completed => pc[q] \in {"stored"} \cup Completed
    BY <1>2, Names
  <2> QED
    BY <1>1, <2>1 DEF IInv, Replaced
<1>5. NotRead'
  <2> SUFFICES ASSUME NEW a \in Replays, NEW b \in Replays, a \in before[b],
                      pc'[a] \in Completed, pc'[b] \in Completed, NEW g \in Reads, b \in before[g]
               PROVE  list[g] # a
    BY <1>1 DEF NotRead
  <2>1. a # r /\ b # r
    BY <1>2, Names
  <2> QED
    BY <1>2, <2>1, Names DEF IInv, NotRead
<1> QED
  BY <1>2, <1>3, <1>4, <1>5 DEF IInv

(* Publishing the entities (server.py:135)                                 *)
LEMMA StoreEntitiesKeeps ==
  ASSUME IInv, NEW r \in Replays, StoreEntities(r)
  PROVE  IInv'
<1>1. /\ r \in Requests /\ Goes(r, "pipeline", "half") /\ entities' = r
      /\ UNCHANGED <<recommendations, list, before>>
  BY Names DEF StoreEntities
<1>2. /\ \A q \in Requests : q # r => pc'[q] = pc[q]
      /\ pc[r] = "pipeline" /\ pc'[r] = "half" /\ DOMAIN pc' = Requests
      /\ \A q \in Requests : r \notin before[q]
      /\ Past'
  BY <1>1, GoesKeeps DEF Answered
<1>3. Sources'
  <2>1. PcType'
    BY <1>2, Names DEF IInv, Sources, PcType, Answered
  <2>2. \A who : Published(who) => Published(who)'
    BY <1>2, Names DEF Published
  <2>3. Published(entities)'
    BY <1>1, <1>2 DEF Published
  <2>4. recommendations # r
    BY <1>2, Names DEF IInv, Sources, Published
  <2>5. recommendations \in Replays => pc'[recommendations] # "half"
    BY <1>2, <2>4, Names DEF IInv, Sources
  <2>6. \A q \in Replays : pc'[q] \in {"stored"} \cup Completed => pc[q] \in {"stored"} \cup Completed
    BY <1>2, Names
  <2>7. \A g \in Reads : pc'[g] = pc[g]
    BY <1>2, Names
  <2> QED
    BY <1>1, <1>2, <2>1, <2>2, <2>3, <2>5, <2>6, <2>7, Names DEF IInv, Sources
<1>4. Replaced'
  <2> SUFFICES ASSUME NEW b \in Replays, NEW a \in before[b]
               PROVE  /\ pc'[b] \in {"half", "stored"} \cup Completed => entities' # a
                      /\ pc'[b] \in {"stored"} \cup Completed => recommendations # a
    BY <1>1 DEF Replaced
  <2>1. a # r
    BY <1>2, Names
  <2>2. pc'[b] \in {"stored"} \cup Completed => pc[b] \in {"stored"} \cup Completed
    BY <1>2, Names
  <2> QED
    BY <1>1, <2>1, <2>2 DEF IInv, Replaced
<1>5. NotRead'
  <2>1. \A q \in Replays : pc'[q] \in Completed => pc[q] \in Completed
    BY <1>2, Names
  <2> QED
    BY <1>1, <2>1 DEF IInv, NotRead
<1> QED
  BY <1>2, <1>3, <1>4, <1>5 DEF IInv

(* Publishing the recommendations (server.py:136)                          *)
LEMMA StoreRecommendationsKeeps ==
  ASSUME IInv, NEW r \in Replays, StoreRecommendations(r)
  PROVE  IInv'
<1>1. /\ r \in Requests /\ Goes(r, "half", "stored") /\ recommendations' = r
      /\ UNCHANGED <<entities, list, before>>
  BY Names DEF StoreRecommendations
<1>2. /\ \A q \in Requests : q # r => pc'[q] = pc[q]
      /\ pc[r] = "half" /\ pc'[r] = "stored" /\ DOMAIN pc' = Requests
      /\ \A q \in Requests : r \notin before[q]
      /\ Past'
  BY <1>1, GoesKeeps DEF Answered
<1>3. Sources'
  <2>1. PcType'
    BY <1>2, Names DEF IInv, Sources, PcType, Answered
  <2>2. \A who : Published(who) => Published(who)'
    BY <1>2, Names DEF Published
  <2>3. Published(recommendations)' /\ pc'[recommendations'] # "half"
    BY <1>1, <1>2 DEF Published
  <2>4. \A q \in Replays :
          pc'[q] \in {"half", "stored"} \cup Completed => pc[q] \in {"half", "stored"} \cup Completed
    BY <1>2, Names
  <2>5. \A g \in Reads : pc'[g] = pc[g]
    BY <1>2, Names
  <2> QED
    BY <1>1, <1>2, <2>1, <2>2, <2>3, <2>4, <2>5, Names DEF IInv, Sources
<1>4. Replaced'
  <2> SUFFICES ASSUME NEW b \in Replays, NEW a \in before[b]
               PROVE  /\ pc'[b] \in {"half", "stored"} \cup Completed => entities # a
                      /\ pc'[b] \in {"stored"} \cup Completed => recommendations' # a
    BY <1>1 DEF Replaced
  <2>1. a # r
    BY <1>2, Names
  <2>2. pc'[b] \in {"half", "stored"} \cup Completed => pc[b] \in {"half", "stored"} \cup Completed
    BY <1>2, Names
  <2> QED
    BY <1>1, <2>1, <2>2 DEF IInv, Replaced
<1>5. NotRead'
  <2>1. \A q \in Replays : pc'[q] \in Completed => pc[q] \in Completed
    BY <1>2, Names
  <2> QED
    BY <1>1, <2>1 DEF IInv, NotRead
<1> QED
  BY <1>2, <1>3, <1>4, <1>5 DEF IInv

(* Reading a list (server.py:70, 82)                                       *)
LEMMA ReadListKeeps ==
  ASSUME IInv, NEW r \in Reads, ReadList(r)
  PROVE  IInv'
<1>1. PICK outcome \in Completed :
      /\ r \in Requests /\ Goes(r, "counted", outcome)
      /\ UNCHANGED <<entities, recommendations, before>>
      /\ list' = [list EXCEPT ![r] = IF r \in StateReads THEN entities ELSE recommendations]
  BY Names DEF ReadList
<1>2. /\ \A q \in Requests : q # r => pc'[q] = pc[q]
      /\ pc[r] = "counted" /\ pc'[r] = outcome /\ DOMAIN pc' = Requests
      /\ \A q \in Requests : r \notin before[q]
      /\ Past'
  BY <1>1, GoesKeeps DEF Answered
<1>3. /\ list'[r] \in {entities, recommendations}
      /\ \A g \in Reads : g # r => list'[g] = list[g]
      /\ \A q \in Replays : pc'[q] = pc[q]
  BY <1>1, <1>2, Names DEF IInv, Sources
<1>4. Sources'
  <2>1. PcType'
    BY <1>2, Names DEF IInv, Sources, PcType, Answered
  <2>2. \A who : Published(who)' <=> Published(who)
    BY <1>3 DEF Published
  <2>3. {entities, recommendations} \subseteq Replays \cup {Nothing}
    BY DEF IInv, Sources, Published
  <2>4. list' \in [Reads -> Replays \cup {Nothing}]
    BY <1>1, <2>3 DEF IInv, Sources
  <2>5. \A g \in Reads : Published(list[g])' 
    BY <1>3, <2>2 DEF IInv, Sources
  <2>6. \A g \in Reads : pc'[g] \notin Completed => list'[g] = Nothing
    BY <1>2, <1>3, Names DEF IInv, Sources
  <2> QED
    BY <1>1, <1>2, <1>3, <2>1, <2>2, <2>4, <2>5, <2>6 DEF IInv, Sources
<1>5. Replaced'
  BY <1>1, <1>3 DEF IInv, Replaced
<1>6. NotRead'
  <2> SUFFICES ASSUME NEW a \in Replays, NEW b \in Replays, a \in before[b],
                      pc[a] \in Completed, pc[b] \in Completed, NEW g \in Reads, b \in before[g]
               PROVE  list'[g] # a
    BY <1>1, <1>3 DEF NotRead
  <2>1. entities # a /\ recommendations # a
    BY DEF IInv, Replaced
  <2> QED
    BY <1>3, <2>1 DEF IInv, NotRead
<1> QED
  BY <1>2, <1>4, <1>5, <1>6 DEF IInv

-----------------------------------------------------------------------------

(* The invariant holds of every behaviour.                                 *)
THEOREM ServerInvariant == Spec => []IInv
<1>1. Init => IInv
  BY Names DEF Init, IInv, Sources, PcType, Published, Past, Replaced, NotRead, Reads, Answered
<1>2. IInv /\ [Next]_vars => IInv'
  <2> SUFFICES ASSUME IInv, [Next]_vars PROVE IInv'
    OBVIOUS
  <2>1. ASSUME NEW r \in Replays, NEW s \in Scenarios \cup {Missing}, BeginReplay(r, s)
        PROVE  IInv'
    <3>1. r \in Requests /\ r \notin Reads
      BY Names
    <3>2. CASE s = Missing
      BY <2>1, <3>1, <3>2, BeginKeeps DEF BeginReplay
    <3>3. CASE s # Missing
      BY <2>1, <3>1, <3>3, BeginKeeps DEF BeginReplay
    <3> QED
      BY <3>2, <3>3
  <2>2. ASSUME NEW r \in Reads, BeginRead(r) PROVE IInv'
    <3>1. r \in Requests /\ r \notin Replays
      BY Names
    <3> QED
      BY <2>2, <3>1, BeginKeeps DEF BeginRead
  <2>3. ASSUME NEW r \in Replays, PipelineRaises(r) \/ AnswerReplay(r) PROVE IInv'
    BY <2>3, QuietKeeps, Names
  <2>4. ASSUME NEW r \in Reads, ReadCount(r) PROVE IInv'
    BY <2>4, QuietKeeps, Names
  <2>5. ASSUME NEW r \in Replays, StoreEntities(r) PROVE IInv'
    BY <2>5, StoreEntitiesKeeps
  <2>6. ASSUME NEW r \in Replays, StoreRecommendations(r) PROVE IInv'
    BY <2>6, StoreRecommendationsKeeps
  <2>7. ASSUME NEW r \in Reads, ReadList(r) PROVE IInv'
    BY <2>7, ReadListKeeps
  <2>8. CASE UNCHANGED vars
    BY <2>8 DEF vars, IInv, Sources, PcType, Published, Past, Replaced, NotRead
  <2> QED
    BY <2>1, <2>2, <2>3, <2>4, <2>5, <2>6, <2>7, <2>8 DEF Next, Replay, Read, Reads
<1> QED
  BY <1>1, <1>2, PTL DEF Spec

(* Only a replay of a scenario that exists gets past the check of its path, *)
(* so a length is always that of a list (server.py:69, 81, 107).           *)
Counts ==
  /\ scenario \in [Replays -> Scenarios \cup {Missing, Nothing}]
  /\ \A r \in Replays : pc[r] \notin {"idle", "not_found"} => scenario[r] \in Scenarios
  /\ count \in [Reads -> Nat]

(* Every variable keeps its type: the replays that are published exist and *)
(* have begun, and a length is read of a list that has one.                *)
THEOREM TypeCorrect == Spec => []TypeOK
<1>1. Init => Counts
  BY Names DEF Init, Counts, Reads
<1>2. IInv /\ Counts /\ [Next]_vars => Counts'
  <2> SUFFICES ASSUME IInv, Counts, [Next]_vars PROVE Counts'
    OBVIOUS
  <2>1. DOMAIN pc = Requests
    BY DEF IInv, Sources
  <2>2. ASSUME NEW r \in Replays, NEW s \in Scenarios \cup {Missing}, BeginReplay(r, s)
        PROVE  Counts'
    <3>1. /\ pc' = [pc EXCEPT ![r] = IF s = Missing THEN "not_found" ELSE "pipeline"]
          /\ scenario' = [scenario EXCEPT ![r] = s]
          /\ count' = count
      BY <2>2 DEF BeginReplay, Takes
    <3>2. \A q \in Replays : q # r => pc'[q] = pc[q] /\ scenario'[q] = scenario[q]
      BY <3>1, <2>1, Names DEF Counts
    <3>3. pc'[r] # "not_found" => scenario'[r] \in Scenarios
      BY <3>1, <2>1, Names DEF Counts
    <3> QED
      BY <3>1, <3>2, <3>3 DEF Counts
  <2>3. ASSUME NEW r \in Replays,
               \/ PipelineRaises(r) \/ StoreEntities(r)
               \/ StoreRecommendations(r) \/ AnswerReplay(r)
        PROVE  Counts'
    <3>1. UNCHANGED <<scenario, count>>
      BY <2>3 DEF PipelineRaises, StoreEntities, StoreRecommendations, AnswerReplay
    <3>2. /\ pc[r] \in {"pipeline", "half", "stored"}
          /\ \A q \in Requests : q # r => pc'[q] = pc[q]
      BY <2>3, <2>1, Names
         DEF PipelineRaises, StoreEntities, StoreRecommendations, AnswerReplay, Goes
    <3>3. scenario[r] \in Scenarios
      BY <3>2 DEF Counts
    <3> QED
      BY <3>1, <3>2, <3>3, Names DEF Counts
  <2>4. ASSUME NEW r \in Reads, Read(r) PROVE Counts'
    <3>1. scenario' = scenario
      BY <2>4 DEF Read, BeginRead, ReadCount, ReadList
    <3>2. \A q \in Replays : pc'[q] = pc[q]
      BY <2>4, <2>1, Names DEF Read, BeginRead, ReadCount, ReadList, Takes, Goes
    <3>3. /\ Entities \in [Scenarios -> Nat] /\ Recs \in [Scenarios -> Nat]
          /\ entities # Nothing => scenario[entities] \in Scenarios
          /\ recommendations # Nothing => scenario[recommendations] \in Scenarios
      BY ReplayServerAssumption DEF IInv, Sources, Published, Counts
    <3>4. EntityCount(entities) \in Nat /\ RecCount(recommendations) \in Nat
      BY <3>3 DEF EntityCount, RecCount
    <3>5. count' \in [Reads -> Nat]
      BY <2>4, <3>4 DEF Read, BeginRead, ReadCount, ReadList, Counts
    <3> QED
      BY <3>1, <3>2, <3>5 DEF Counts
  <2>5. CASE UNCHANGED vars
    BY <2>5 DEF vars, Counts
  <2> QED
    BY <2>2, <2>3, <2>4, <2>5 DEF Next, Replay, Reads
<1>3. IInv /\ Counts => TypeOK
  BY Names DEF IInv, Sources, PcType, Published, Past, Counts, TypeOK, Reads
<1> QED
  BY <1>1, <1>2, <1>3, ServerInvariant, PTL DEF Spec

(* What a later replay has replaced never comes back, to app.state or to a *)
(* reader (server.py:135-136).                                             *)
THEOREM NoResurrectionHolds == Spec => []NoResurrection
<1>1. IInv => NoResurrection
  BY DEF IInv, Replaced, NotRead, NoResurrection, Reads
<1> QED
  BY <1>1, ServerInvariant, PTL

(* A replay that fails or names no scenario is never seen (server.py:107). *)
THEOREM FailureIsInvisibleHolds == Spec => []FailureIsInvisible
<1>1. IInv => FailureIsInvisible
  BY Names DEF IInv, Sources, Published, FailureIsInvisible, Reads
<1> QED
  BY <1>1, ServerInvariant, PTL

(* State of two replays stands side by side only if they overlapped.       *)
THEOREM MixedOnlyIfOverlappedHolds == Spec => []MixedOnlyIfOverlapped
<1>1. IInv => MixedOnlyIfOverlapped
  <2> SUFFICES ASSUME IInv, Running \cap Replays = {}, entities # recommendations
               PROVE  /\ entities # Nothing /\ recommendations # Nothing
                      /\ entities \notin before[recommendations]
                      /\ recommendations \notin before[entities]
    BY DEF MixedOnlyIfOverlapped
  <2>1. \A r \in Replays : pc[r] \in {"half", "stored"} \cup Completed => pc[r] \in Completed
    BY Names DEF Running, Answered
  <2>2. /\ entities \in Replays => pc[entities] \in Completed
        /\ recommendations \in Replays => pc[recommendations] \in Completed
    BY <2>1, Names DEF IInv, Sources, Published
  <2>3. entities # Nothing /\ recommendations # Nothing
    BY <2>2 DEF IInv, Sources, Published
  <2>4. /\ entities \in Replays /\ recommendations \in Replays
        /\ pc[entities] \in Completed /\ pc[recommendations] \in Completed
    BY <2>2, <2>3 DEF IInv, Sources, Published
  <2> QED
    BY <2>3, <2>4 DEF IInv, Replaced
<1> QED
  BY <1>1, ServerInvariant, PTL
=============================================================================
