-------------------------- MODULE ExtensionProofs --------------------------
(***************************************************************************)
(* Proofs about the extension, for any number of refreshes that overlap,   *)
(* of servers and of changes.                                              *)
(***************************************************************************)
EXTENDS Extension, FiniteSetTheorems, TLAPS

(* The replays that a server has still to answer                           *)
Pending == {f \in Flows : stage[f] = "replay" /\ answer[f] = None}

(* What TypeOK leaves open: a flow that awaits no request has no answer,   *)
(* and what a status bar update has counted came from a server.            *)
FlowInv ==
  /\ answer \in [Flows -> Answers \cup {None}]
  /\ counted \in [Flows -> Answers \cup {None}]
  /\ \A f \in Flows : stage[f] \in {"idle", "setting"} => answer[f] = None

(* No server has run more replays than were started: each has used up a    *)
(* change, and those under way count already.                              *)
ReplaysBounded ==
  /\ changes \in 0..MaxChanges
  /\ \A u \in Urls : version[u] + Cardinality(Pending) <= changes

IInv == TypeOK /\ FlowInv /\ ReplaysBounded

LEMMA PendingFinite == IsFiniteSet(Pending) /\ Cardinality(Pending) \in Nat
<1>1. Pending \subseteq Flows
  BY DEF Pending
<1>2. IsFiniteSet(Pending)
  BY <1>1, FS_Subset, ExtensionAssumption
<1> QED
  BY <1>2, FS_CardinalityType

(* What a step does to the replays under way, if it starts none            *)
LEMMA NoNewReplay ==
  ASSUME Pending' \subseteq Pending
  PROVE  Cardinality(Pending') \in Nat /\ Cardinality(Pending') <= Cardinality(Pending)
<1>1. IsFiniteSet(Pending')
  BY PendingFinite, FS_Subset
<1> QED
  BY <1>1, PendingFinite, FS_Subset, FS_CardinalityType

(* A flow that begins an awaited request, at a URL, keeps the types.       *)
LEMMA StartTypes ==
  ASSUME IInv, NEW f \in Flows, NEW s \in {"replay", "setting", "state"}, NEW url \in Urls,
         Starts(f, s, url)
  PROVE  /\ stage' \in [Flows -> Stage]
         /\ asked' \in [Flows -> Urls \cup {None}]
         /\ FlowInv'
         /\ \A g \in Flows : /\ asked'[g] = None <=> stage'[g] = "idle"
                             /\ answer'[g] # None => answer'[g] \in {asked'[g]} \X (0..MaxChanges)
                             /\ counted'[g] # None <=> stage'[g] = "bar_recs"
         /\ Pending' = IF s = "replay" THEN Pending \cup {f} ELSE Pending
         /\ f \notin Pending
<1> USE DEF IInv, TypeOK
<1>1. /\ stage' = [stage EXCEPT ![f] = s] /\ asked' = [asked EXCEPT ![f] = url]
      /\ answer' = [answer EXCEPT ![f] = None] /\ counted' = counted
      /\ stage[f] = "idle" /\ s # "idle" /\ url # None /\ s \in Stage /\ s # "bar_recs"
  BY ExtensionAssumption DEF Starts, Send, Stage
<1>2. FlowInv'
  BY <1>1 DEF FlowInv
<1>3. Pending' = IF s = "replay" THEN Pending \cup {f} ELSE Pending
  <2>1. \A g \in Flows : g # f => stage'[g] = stage[g] /\ answer'[g] = answer[g]
    BY <1>1 DEF FlowInv
  <2>2. stage'[f] = s /\ answer'[f] = None
    BY <1>1 DEF FlowInv
  <2> QED
    BY <1>1, <2>1, <2>2 DEF Pending
<1>4. f \notin Pending
  BY <1>1 DEF Pending
<1> QED
  BY <1>1, <1>2, <1>3, <1>4 DEF FlowInv

(* So does a flow that goes on to another request, or ends.                *)
LEMMA SendTypes ==
  ASSUME IInv, NEW f \in Flows, NEW s \in Stage, NEW url \in Urls, Send(f, s, url),
         s # "replay",
         counted' \in [Flows -> Answers \cup {None}],
         \A g \in Flows : g # f => counted'[g] = counted[g],
         counted'[f] # None <=> s = "bar_recs"
  PROVE  /\ stage' \in [Flows -> Stage]
         /\ asked' \in [Flows -> Urls \cup {None}]
         /\ FlowInv'
         /\ \A g \in Flows : /\ asked'[g] = None <=> stage'[g] = "idle"
                             /\ answer'[g] # None => answer'[g] \in {asked'[g]} \X (0..MaxChanges)
                             /\ counted'[g] # None <=> stage'[g] = "bar_recs"
         /\ Pending' = Pending \ {f}
<1> USE DEF IInv, TypeOK
<1>1. /\ stage' = [stage EXCEPT ![f] = s]
      /\ asked' = [asked EXCEPT ![f] = IF s = "idle" THEN None ELSE url]
      /\ answer' = [answer EXCEPT ![f] = None] /\ url # None
  BY ExtensionAssumption DEF Send
<1>2. FlowInv'
  BY <1>1 DEF FlowInv
<1>3. /\ stage'[f] = s /\ answer'[f] = None /\ asked'[f] = IF s = "idle" THEN None ELSE url
      /\ \A g \in Flows : g # f => /\ stage'[g] = stage[g] /\ answer'[g] = answer[g]
                                   /\ asked'[g] = asked[g]
  BY <1>1 DEF FlowInv
<1>4. Pending' = Pending \ {f}
  BY <1>3 DEF Pending
<1>5. ASSUME NEW g \in Flows
      PROVE  /\ asked'[g] = None <=> stage'[g] = "idle"
             /\ answer'[g] # None => answer'[g] \in {asked'[g]} \X (0..MaxChanges)
             /\ counted'[g] # None <=> stage'[g] = "bar_recs"
  <2>1. CASE g = f
    BY <2>1, <1>1, <1>3
  <2>2. CASE g # f
    BY <2>2, <1>3
  <2> QED
    BY <2>1, <2>2
<1> QED
  BY <1>1, <1>2, <1>4, <1>5

(* A failed request, whatever failed it, empties its part of the display.  *)
LEMMA CaughtTypes ==
  ASSUME IInv, NEW f \in Flows, stage[f] \notin {"idle", "setting"}, Caught(f)
  PROVE  /\ stage' \in [Flows -> Stage]
         /\ asked' \in [Flows -> Urls \cup {None}]
         /\ FlowInv'
         /\ \A g \in Flows : /\ asked'[g] = None <=> stage'[g] = "idle"
                             /\ answer'[g] # None => answer'[g] \in {asked'[g]} \X (0..MaxChanges)
                             /\ counted'[g] # None <=> stage'[g] = "bar_recs"
         /\ Pending' = Pending \ {f}
         /\ {entities', recs'} \subseteq Answers \cup {None, Failed}
         /\ bar' # None => bar' \in [entities : Answers, recs : Answers]
         /\ connected' \in BOOLEAN
<1> DEFINE s == IF stage[f] \in {"bar_health", "bar_state"} THEN "idle" ELSE NextStage[stage[f]]
<1>1. stage[f] \in Stage \ {"idle", "setting"}
  BY DEF IInv, TypeOK
<1>2. s \in Stage /\ s # "replay" /\ s # "bar_recs"
  BY <1>1 DEF Stage, NextStage
<1>3. /\ counted' = [counted EXCEPT ![f] = None] /\ Send(f, s, baseUrl)
      /\ baseUrl \in Urls /\ counted \in [Flows -> Answers \cup {None}]
  BY DEF Caught, IInv, TypeOK, FlowInv
<1> HIDE DEF s
<1>4. /\ counted' \in [Flows -> Answers \cup {None}]
      /\ \A g \in Flows : g # f => counted'[g] = counted[g]
      /\ counted'[f] = None
  BY <1>3
<1>5. /\ {entities', recs'} \subseteq Answers \cup {None, Failed}
      /\ bar' # None => bar' \in [entities : Answers, recs : Answers]
      /\ connected' \in BOOLEAN
  BY DEF Caught, IInv, TypeOK
<1> QED
  BY <1>2, <1>3, <1>4, <1>5, SendTypes

-----------------------------------------------------------------------------
(* The clock, the users and the servers *)

(* A refresh, replay or new connection that starts keeps the invariant.    *)
LEMMA StartInv ==
  ASSUME IInv, NEW f \in Flows,
         \/ TimerFires(f) \/ Refresh(f) \/ Replay(f)
         \/ \E u \in Urls : UrlChanged(f, u) \/ Connect(f, u)
  PROVE  IInv'
<1> USE DEF IInv
<1>1. \E s \in {"replay", "setting", "state"}, url \in Urls :
        /\ Starts(f, s, url)
        /\ s = "replay" => Change
  BY DEF TypeOK, TimerFires, Refresh, Replay, Connect, UrlChanged
<1>2. PICK s \in {"replay", "setting", "state"}, url \in Urls :
        /\ Starts(f, s, url)
        /\ s = "replay" => Change
  BY <1>1
<1>3. /\ {apiUrl', baseUrl'} \subseteq Urls /\ connected' \in BOOLEAN
      /\ entities' = entities /\ recs' = recs /\ bar' = bar
      /\ refreshTimer' = refreshTimer /\ live' = live /\ up' = up /\ version' = version
      /\ changes' = changes \/ Change
  <2>1. apiUrl \in Urls /\ baseUrl \in Urls /\ connected \in BOOLEAN
    BY DEF TypeOK
  <2>2. CASE TimerFires(f) \/ Refresh(f) \/ Replay(f)
    BY <2>1, <2>2 DEF TimerFires, Refresh, Replay, shown, timerVars, serverVars
  <2>3. ASSUME NEW u \in Urls, UrlChanged(f, u) \/ Connect(f, u) PROVE <1>3
    BY <2>1, <2>3 DEF UrlChanged, Connect, shown, timerVars, serverVars
  <2> QED
    BY <2>2, <2>3
<1>4. changes' \in 0..MaxChanges /\ changes <= changes' /\ (Change => changes' = changes + 1)
  BY <1>3, ExtensionAssumption DEF ReplaysBounded, Change
<1>5. TypeOK' /\ FlowInv'
  BY <1>2, <1>3, StartTypes DEF TypeOK
<1>6. ReplaysBounded'
  <2>1. CASE s = "replay"
    <3>1. Pending' = Pending \cup {f} /\ f \notin Pending
      BY <1>2, <2>1, StartTypes
    <3>2. Cardinality(Pending') = Cardinality(Pending) + 1
      BY <3>1, PendingFinite, FS_AddElement
    <3> QED
      BY <1>2, <1>3, <1>4, <2>1, <3>2, PendingFinite DEF ReplaysBounded, TypeOK
  <2>2. CASE s # "replay"
    <3>1. Pending' = Pending
      BY <1>2, <2>2, StartTypes
    <3> QED
      BY <1>3, <1>4, <3>1, PendingFinite DEF ReplaysBounded, TypeOK
  <2> QED
    BY <2>1, <2>2
<1> QED
  BY <1>5, <1>6

(* So does a setting that got written, or not (replay.ts:94-95).           *)
LEMMA SettingInv ==
  ASSUME IInv, NEW f \in Flows, SettingWritten(f) \/ SettingFails(f)
  PROVE  IInv'
<1> USE DEF IInv
<1>1. PICK s \in {"hello", "idle"}, url \in Urls \cup {None} :
        /\ Send(f, s, url)
        /\ s = "hello" => url \in Urls
  BY DEF SettingWritten, SettingFails, TypeOK
<1>2. /\ {apiUrl', baseUrl'} \subseteq Urls /\ connected' \in BOOLEAN
      /\ entities' = entities /\ recs' = recs /\ bar' = bar
      /\ refreshTimer' = refreshTimer /\ live' = live /\ up' = up /\ version' = version
      /\ changes' = changes /\ counted' = counted /\ stage[f] = "setting"
  <2>1. stage[f] = "setting"
    BY DEF SettingWritten, SettingFails
  <2>2. asked[f] \in Urls /\ apiUrl \in Urls /\ baseUrl \in Urls /\ connected \in BOOLEAN
    BY <2>1 DEF TypeOK
  <2> QED
    BY <2>1, <2>2 DEF SettingWritten, SettingFails, shown, timerVars, serverVars
<1>3. /\ counted' \in [Flows -> Answers \cup {None}] /\ counted'[f] = None
      /\ s \in Stage /\ s # "replay" /\ s # "bar_recs"
  BY <1>2 DEF TypeOK, FlowInv, Stage
<1>4. PICK to \in Urls : Send(f, s, to)
  BY <1>1 DEF Send, TypeOK
<1>5. TypeOK' /\ FlowInv' /\ Pending' = Pending \ {f}
  <2>1. /\ stage' \in [Flows -> Stage] /\ asked' \in [Flows -> Urls \cup {None}]
        /\ FlowInv'
        /\ \A g \in Flows : /\ asked'[g] = None <=> stage'[g] = "idle"
                            /\ answer'[g] # None => answer'[g] \in {asked'[g]} \X (0..MaxChanges)
                            /\ counted'[g] # None <=> stage'[g] = "bar_recs"
        /\ Pending' = Pending \ {f}
    BY <1>2, <1>3, <1>4, SendTypes
  <2> QED
    BY <1>2, <2>1 DEF TypeOK
<1>6. ReplaysBounded'
  BY <1>2, <1>5, NoNewReplay, PendingFinite DEF ReplaysBounded, TypeOK
<1> QED
  BY <1>5, <1>6

(* So does another interval, and a server that starts or stops.            *)
LEMMA ChangeInv ==
  ASSUME IInv, \/ \E on \in BOOLEAN : IntervalChanged(on)
               \/ \E u \in Urls : ServerChanges(u)
  PROVE  IInv'
<1> USE DEF IInv
<1>1. /\ apiUrl' = apiUrl /\ baseUrl' = baseUrl /\ connected' = connected
      /\ stage' = stage /\ asked' = asked /\ answer' = answer /\ counted' = counted
      /\ entities' = entities /\ recs' = recs /\ bar' = bar
      /\ changes' \in 0..MaxChanges /\ changes' = changes + 1
  BY ExtensionAssumption
     DEF IntervalChanged, ServerChanges, Change, flowVars, shown, ReplaysBounded
<1>2. /\ refreshTimer' \in Timers \cup {None} /\ live' \subseteq Timers
      /\ up' \in [Urls -> BOOLEAN] /\ version' \in [Urls -> 0..MaxChanges]
      /\ \A u \in Urls : version'[u] = version[u] \/ version'[u] = 0
  <2>1. ASSUME NEW on \in BOOLEAN, IntervalChanged(on) PROVE <1>2
    BY <2>1 DEF IntervalChanged, serverVars, TypeOK
  <2>2. ASSUME NEW u \in Urls, ServerChanges(u) PROVE <1>2
    BY <2>2, ExtensionAssumption DEF ServerChanges, timerVars, TypeOK
  <2> QED
    BY <2>1, <2>2
<1>3. TypeOK' /\ FlowInv'
  BY <1>1, <1>2 DEF TypeOK, FlowInv
<1>4. Pending' = Pending
  BY <1>1 DEF Pending
<1>5. ReplaysBounded'
  BY <1>1, <1>2, <1>4, PendingFinite DEF ReplaysBounded, TypeOK
<1> QED
  BY <1>3, <1>5

-----------------------------------------------------------------------------
(* Requests *)

(* An answer of a server keeps it: a replay that is answered is under way  *)
(* no longer and counts for the server instead.                            *)
LEMMA AnswerInv == ASSUME IInv, NEW f \in Flows, Answer(f) PROVE IInv'
<1> USE DEF IInv
<1> DEFINE url == asked[f]
<1>1. url \in Urls /\ answer[f] = None /\ stage[f] \notin {"idle", "setting"}
  BY DEF Answer, Awaits, TypeOK
<1>2. /\ apiUrl' = apiUrl /\ baseUrl' = baseUrl /\ connected' = connected
      /\ stage' = stage /\ asked' = asked /\ counted' = counted
      /\ entities' = entities /\ recs' = recs /\ bar' = bar /\ changes' = changes
      /\ refreshTimer' = refreshTimer /\ live' = live /\ up' = up
      /\ answer' = [answer EXCEPT ![f] = <<url, version'[url]>>]
  BY DEF Answer, shown, timerVars
<1>3. /\ version' = IF stage[f] = "replay" THEN [version EXCEPT ![url] = @ + 1] ELSE version
      /\ version \in [Urls -> 0..MaxChanges] /\ changes \in 0..MaxChanges
      /\ \A u \in Urls : version[u] + Cardinality(Pending) <= changes
  BY DEF Answer, TypeOK, ReplaysBounded
<1>4. /\ stage[f] = "replay" => f \in Pending
      /\ Pending \ {f} = IF stage[f] = "replay" THEN Pending \ {f} ELSE Pending
  BY <1>1 DEF Pending
<1>5. Cardinality(Pending \ {f}) =
        IF stage[f] = "replay" THEN Cardinality(Pending) - 1 ELSE Cardinality(Pending)
  BY <1>4, PendingFinite, FS_RemoveElement
<1>6. /\ version' \in [Urls -> 0..MaxChanges]
      /\ \A u \in Urls : version'[u] + Cardinality(Pending \ {f}) <= changes
  <2>1. CASE stage[f] = "replay"
    <3>1. Cardinality(Pending \ {f}) \in Nat
      BY PendingFinite, FS_RemoveElement, FS_CardinalityType
    <3> HIDE DEF url
    <3>2. \A u \in Urls : /\ version'[u] \in Nat /\ version'[u] <= version[u] + 1
                          /\ version'[u] + Cardinality(Pending \ {f}) <= changes
      BY <1>1, <1>3, <1>5, <2>1, PendingFinite
    <3>3. \A u \in Urls : version'[u] \in 0..MaxChanges
      BY <1>3, <3>1, <3>2, ExtensionAssumption
    <3>4. DOMAIN version' = Urls /\ version' = [u \in Urls |-> version'[u]]
      BY <1>3, <2>1
    <3> QED
      BY <3>2, <3>3, <3>4
  <2>2. CASE stage[f] # "replay"
    BY <1>3, <1>5, <2>2
  <2> QED
    BY <2>1, <2>2
<1>7. <<url, version'[url]>> \in {url} \X (0..MaxChanges)
  BY <1>1, <1>6
<1>8. <<url, version'[url]>> \in Answers /\ <<url, version'[url]>> # None
  BY <1>1, <1>7, ExtensionAssumption DEF Answers
<1>9. /\ answer'[f] = <<url, version'[url]>>
      /\ \A g \in Flows : g # f => answer'[g] = answer[g]
      /\ answer' \in [Flows -> Answers \cup {None}]
  BY <1>2, <1>8 DEF FlowInv
<1>10. Pending' = Pending \ {f}
  BY <1>2, <1>8, <1>9 DEF Pending
<1>11. FlowInv'
  BY <1>1, <1>2, <1>9, ExtensionAssumption DEF FlowInv
<1>12. TypeOK'
  <2>1. \A g \in Flows : answer'[g] # None => answer'[g] \in {asked'[g]} \X (0..MaxChanges)
    BY <1>2, <1>7, <1>9 DEF TypeOK
  <2> QED
    BY <1>2, <1>6, <2>1 DEF TypeOK
<1>13. ReplaysBounded'
  BY <1>2, <1>6, <1>10, <1>3 DEF ReplaysBounded
<1> QED
  BY <1>11, <1>12, <1>13

(* The continuation of an answered request shows what a server said.       *)
LEMMA ReceiveInv == ASSUME IInv, NEW f \in Flows, Receive(f) PROVE IInv'
<1> USE DEF IInv
<1> DEFINE s == NextStage[stage[f]]
<1>1. answer[f] \in Answers /\ answer[f] # None
  BY DEF Receive, FlowInv
<1>2. stage[f] \in Stage \ {"idle", "setting"} /\ baseUrl \in Urls
  BY <1>1 DEF TypeOK, FlowInv
<1>3. s \in Stage /\ s # "replay" /\ (s = "bar_recs" <=> stage[f] = "bar_state")
  BY <1>2 DEF Stage, NextStage
<1>4. Send(f, s, baseUrl)
  BY DEF Receive
<1>5. /\ counted' \in [Flows -> Answers \cup {None}]
      /\ \A g \in Flows : g # f => counted'[g] = counted[g]
      /\ counted'[f] # None <=> stage[f] = "bar_state"
  BY <1>1 DEF Receive, FlowInv, TypeOK
<1>6. /\ {entities', recs'} \subseteq Answers \cup {None, Failed}
      /\ connected' \in BOOLEAN
      /\ apiUrl' = apiUrl /\ baseUrl' = baseUrl /\ changes' = changes
      /\ refreshTimer' = refreshTimer /\ live' = live /\ up' = up /\ version' = version
  BY <1>1 DEF Receive, TypeOK, timerVars, serverVars
<1>7. bar' # None => bar' \in [entities : Answers, recs : Answers]
  <2>1. CASE stage[f] = "bar_recs"
    <3>1. counted[f] \in Answers
      BY <2>1 DEF TypeOK, FlowInv
    <3> QED
      BY <2>1, <3>1, <1>1 DEF Receive
  <2>2. CASE stage[f] # "bar_recs"
    BY <2>2 DEF Receive, TypeOK
  <2> QED
    BY <2>1, <2>2
<1> HIDE DEF s
<1>8. /\ stage' \in [Flows -> Stage]
      /\ asked' \in [Flows -> Urls \cup {None}]
      /\ FlowInv'
      /\ \A g \in Flows : /\ asked'[g] = None <=> stage'[g] = "idle"
                          /\ answer'[g] # None => answer'[g] \in {asked'[g]} \X (0..MaxChanges)
                          /\ counted'[g] # None <=> stage'[g] = "bar_recs"
      /\ Pending' = Pending \ {f}
  BY <1>2, <1>3, <1>4, <1>5, SendTypes
<1>9. TypeOK'
  BY <1>6, <1>7, <1>8 DEF TypeOK
<1>10. ReplaysBounded'
  BY <1>6, <1>8, NoNewReplay, PendingFinite DEF ReplaysBounded, TypeOK
<1> QED
  BY <1>8, <1>9, <1>10

(* A request that fails, at once or too late, keeps it: a replay that runs *)
(* all the same counts for its server.                                     *)
LEMMA FailInv == ASSUME IInv, NEW f \in Flows, Refused(f) \/ TimesOut(f) PROVE IInv'
<1> USE DEF IInv
<1>1. /\ stage[f] \notin {"idle", "setting"} /\ asked[f] # None
      /\ Caught(f)
  BY DEF Refused, TimesOut, Awaits, TypeOK
<1>2. /\ apiUrl' = apiUrl /\ baseUrl' = baseUrl /\ changes' = changes
      /\ refreshTimer' = refreshTimer /\ live' = live /\ up' = up
      /\ \/ version' = version
         \/ f \in Pending /\ version' = [version EXCEPT ![asked[f]] = @ + 1]
  BY DEF Refused, TimesOut, timerVars, serverVars, Pending
<1>3. /\ Pending' = Pending \ {f}
      /\ FlowInv'
  BY <1>1, CaughtTypes
<1>4. /\ version \in [Urls -> 0..MaxChanges] /\ changes \in 0..MaxChanges
      /\ \A u \in Urls : version[u] + Cardinality(Pending) <= changes
      /\ asked[f] \in Urls
  BY <1>1 DEF TypeOK, ReplaysBounded
<1>5. /\ version' \in [Urls -> 0..MaxChanges]
      /\ \A u \in Urls : version'[u] + Cardinality(Pending') <= changes
  <2>1. CASE version' = version
    BY <2>1, <1>3, <1>4, NoNewReplay, PendingFinite
  <2>2. CASE f \in Pending /\ version' = [version EXCEPT ![asked[f]] = @ + 1]
    <3>1. Cardinality(Pending') = Cardinality(Pending) - 1 /\ Cardinality(Pending') \in Nat
      BY <2>2, <1>3, PendingFinite, FS_RemoveElement, FS_CardinalityType
    <3>2. \A u \in Urls : /\ version'[u] \in Nat
                          /\ version'[u] + Cardinality(Pending') <= changes
      BY <2>2, <1>4, <3>1, PendingFinite
    <3>3. \A u \in Urls : version'[u] \in 0..MaxChanges
      BY <1>4, <3>1, <3>2, ExtensionAssumption
    <3>4. version' = [u \in Urls |-> version'[u]]
      BY <1>4, <2>2
    <3> QED
      BY <3>2, <3>3, <3>4
  <2> QED
    BY <2>1, <2>2, <1>2
<1>6. TypeOK'
  BY <1>1, <1>2, <1>5, CaughtTypes DEF TypeOK
<1>7. ReplaysBounded'
  BY <1>2, <1>4, <1>5 DEF ReplaysBounded
<1> QED
  BY <1>3, <1>6, <1>7

-----------------------------------------------------------------------------
(* Every variable keeps its type, and an awaited answer comes from the     *)
(* server that was asked, however refreshes, changes of the URL, late      *)
(* answers and restarts overlap (client.ts:99-141, extension.ts:35-104).   *)
THEOREM TypeCorrect == Spec => []TypeOK
<1>1. Init => IInv
  <2> SUFFICES ASSUME Init PROVE IInv
    OBVIOUS
  <2>1. Pending = {}
    BY DEF Init, Pending
  <2>2. ReplaysBounded
    BY <2>1, FS_EmptySet, ExtensionAssumption DEF Init, ReplaysBounded
  <2>3. /\ stage \in [Flows -> Stage] /\ asked \in [Flows -> Urls \cup {None}]
        /\ answer \in [Flows -> Answers \cup {None}]
        /\ counted \in [Flows -> Answers \cup {None}]
        /\ \A f \in Flows : /\ stage[f] = "idle" /\ asked[f] = None
                            /\ answer[f] = None /\ counted[f] = None
    BY DEF Init, Stage
  <2>4. /\ refreshTimer \in Timers \cup {None} /\ live \subseteq Timers
        /\ version \in [Urls -> 0..MaxChanges]
    BY ExtensionAssumption DEF Init
  <2>5. TypeOK
    BY <2>3, <2>4, ExtensionAssumption DEF Init, TypeOK
  <2>6. FlowInv
    BY <2>3 DEF FlowInv
  <2> QED
    BY <2>2, <2>5, <2>6 DEF IInv
<1>2. IInv /\ [Next]_vars => IInv'
  <2> SUFFICES ASSUME IInv, [Next]_vars PROVE IInv'
    OBVIOUS
  <2>1. CASE UNCHANGED vars
    <3>1. Pending' = Pending
      BY <2>1 DEF vars, flowVars, Pending
    <3> QED
      BY <2>1, <3>1 DEF vars, flowVars, shown, timerVars, serverVars, IInv, TypeOK, FlowInv,
                        ReplaysBounded
  <2> QED
    BY <2>1, StartInv, SettingInv, ChangeInv, AnswerInv, ReceiveInv, FailInv DEF Next
<1>3. IInv => TypeOK
  BY DEF IInv
<1> QED
  BY <1>1, <1>2, <1>3, PTL DEF Spec

(* At most one timer fires, the one deactivate would clear, however often  *)
(* and to whatever the interval is set (extension.ts:85-94, 112).          *)
THEOREM OneTimerHolds == Spec => []OneTimer
<1>1. Init => OneTimer
  BY DEF Init, OneTimer
<1>2. OneTimer /\ [Next]_vars => OneTimer'
  <2> SUFFICES ASSUME OneTimer, [Next]_vars PROVE OneTimer'
    OBVIOUS
  <2>1. ASSUME NEW on \in BOOLEAN, IntervalChanged(on) PROVE OneTimer'
    BY <2>1 DEF IntervalChanged, OneTimer
  <2>2. ASSUME NEW f \in Flows,
               \/ TimerFires(f) \/ Refresh(f) \/ Replay(f)
               \/ \E u \in Urls : UrlChanged(f, u) \/ Connect(f, u)
               \/ SettingWritten(f) \/ SettingFails(f)
               \/ Answer(f) \/ Receive(f) \/ Refused(f) \/ TimesOut(f)
        PROVE  OneTimer'
    BY <2>2 DEF TimerFires, Refresh, Replay, Connect, UrlChanged, SettingWritten,
                SettingFails, Answer, Receive, Refused, TimesOut, timerVars, OneTimer
  <2>3. ASSUME NEW u \in Urls, ServerChanges(u) PROVE OneTimer'
    BY <2>3 DEF ServerChanges, timerVars, OneTimer
  <2>4. CASE UNCHANGED vars
    BY <2>4 DEF vars, timerVars, OneTimer
  <2> QED
    BY <2>1, <2>2, <2>3, <2>4 DEF Next
<1> QED
  BY <1>1, <1>2, PTL DEF Spec
=============================================================================
