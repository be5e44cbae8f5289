----------------------------- MODULE Extension -----------------------------
(***************************************************************************)
(* The VS Code extension (openaice-vscode/src): refreshes that overlap,    *)
(* the URL they read at every request, and what the two trees and the      *)
(* status bar show in the end.  A refresh is a chain of requests, each     *)
(* awaited: the entities, the recommendations, then for the status bar the *)
(* health, the entities and the recommendations.  A refresh may start      *)
(* while others await an answer: the timer, the commands and a change of   *)
(* the settings all call refreshAll without looking.                       *)
(*                                                                         *)
(* An answer is named by the server it comes from and by the number of     *)
(* replays that server had run.                                            *)
(***************************************************************************)
EXTENDS Integers, FiniteSets

CONSTANTS
  Flows,       \* bound: refreshes that overlap
  Urls,        \* servers
  FirstUrl,    \* the configured URL at activation
  Timers,      \* handles setInterval returns
  None,        \* no URL, no answer, no timer
  Failed,      \* shown after a request that failed: an empty list
  MaxChanges,  \* bound: what users and servers do, refreshes apart
  MaxLate      \* bound: answers of a running server that come too late

Answers == Urls \X (0..MaxChanges)

ASSUME ExtensionAssumption ==
  /\ FirstUrl \in Urls /\ None \notin Urls \cup Timers \cup Answers /\ Failed # None
  /\ MaxChanges \in Nat /\ MaxLate \in Nat
  /\ IsFiniteSet(Flows)

VARIABLES
  apiUrl,        \* the setting openaice.apiUrl
  baseUrl,       \* client.baseUrl
  connected,     \* client._connected
  stage,         \* flow |-> the request it awaits, or the setting; or idle
  asked,         \* flow |-> the URL that request went to, or the one typed
  answer,        \* flow |-> what the server answered, if it has
  counted,       \* flow |-> the entities its status bar update has
  entities,      \* StateTreeProvider.entities
  recs,          \* RecsTreeProvider.recs
  bar,           \* the status bar: None, or what its two counts come from
  refreshTimer,  \* the handle in refreshTimer
  live,          \* the timers that fire
  up, version,   \* url |-> the server runs; replays it has run
  changes, late  \* counters of the bounds

flowVars == <<stage, asked, answer, counted>>
shown == <<entities, recs, bar>>
timerVars == <<refreshTimer, live>>
serverVars == <<up, version>>
vars == <<apiUrl, baseUrl, connected, flowVars, shown, timerVars, serverVars,
          changes, late>>

Stage == {"idle", "setting", "replay", "hello", "state", "recs", "bar_health", "bar_state", "bar_recs"}

(* What refreshAll awaits after each request.  A replay and the greeting   *)
(* of setApiUrl are followed by a whole refresh.                           *)
NextStage ==
  [replay |-> "state", hello |-> "state", state |-> "recs", recs |-> "bar_health",
   bar_health |-> "bar_state", bar_state |-> "bar_recs", bar_recs |-> "idle"]

Init ==
  /\ apiUrl = FirstUrl /\ baseUrl = FirstUrl
  /\ connected = FALSE
  /\ stage = [f \in Flows |-> "idle"]
  /\ asked = [f \in Flows |-> None]
  /\ answer = [f \in Flows |-> None]
  /\ counted = [f \in Flows |-> None]
  /\ entities = None /\ recs = None /\ bar = None
  /\ \/ refreshTimer = None /\ live = {}
     \/ \E t \in Timers : refreshTimer = t /\ live = {t}
  /\ up \in [Urls -> BOOLEAN]
  /\ version = [u \in Urls |-> 0]
  /\ changes = 0 /\ late = 0

Change == changes < MaxChanges /\ changes' = changes + 1

(* Mutated form: the last answer is taken for that of the next request too *)
BugStaleAnswer(f, s, url) ==
  /\ stage' = [stage EXCEPT ![f] = s]
  /\ asked' = [asked EXCEPT ![f] = IF s = "idle" THEN None ELSE url]
  /\ UNCHANGED answer

(* The flow's next request goes to the URL the client has at that time.    *)
Send(f, s, url) ==
  /\ stage' = [stage EXCEPT ![f] = s]
  /\ asked' = [asked EXCEPT ![f] = IF s = "idle" THEN None ELSE url]
  /\ answer' = [answer EXCEPT ![f] = None]

Starts(f, s, url) ==
  /\ stage[f] = "idle"
  /\ Send(f, s, url)
  /\ UNCHANGED counted

-----------------------------------------------------------------------------
(* What starts a refresh *)

(* Mutated form: the timer keeps the URL of the activation                 *)
BugTimerUrl(f) ==
  /\ live # {}
  /\ Starts(f, "state", FirstUrl)
  /\ UNCHANGED <<apiUrl, baseUrl, connected, shown, timerVars, serverVars, changes, late>>

TimerFires(f) ==
  /\ live # {}
  /\ Starts(f, "state", baseUrl)
  /\ UNCHANGED <<apiUrl, baseUrl, connected, shown, timerVars, serverVars, changes, late>>

(* The command openaice.refresh, and autoConnect at startup                *)
Refresh(f) ==
  /\ Change
  /\ Starts(f, "state", baseUrl)
  /\ UNCHANGED <<apiUrl, baseUrl, connected, shown, timerVars, serverVars, late>>

(* The command openaice.replay: the refresh follows whatever came of it.   *)
Replay(f) ==
  /\ Change
  /\ Starts(f, "replay", baseUrl)
  /\ UNCHANGED <<apiUrl, baseUrl, connected, shown, timerVars, serverVars, late>>

(* onDidChangeConfiguration for apiUrl: client.setUrl and refreshAll       *)
UrlChanged(f, u) ==
  /\ Change
  /\ u # apiUrl
  /\ apiUrl' = u /\ baseUrl' = u /\ connected' = FALSE
  /\ Starts(f, "state", u)
  /\ UNCHANGED <<shown, timerVars, serverVars, late>>

(* The command openaice.connect: the setting is to be the URL typed, and   *)
(* the command awaits that it is written.  If and when the setting in      *)
(* effect changes by it is for UrlChanged: a workspace may override it.    *)
Connect(f, u) ==
  /\ Change
  /\ Starts(f, "setting", u)
  /\ UNCHANGED <<apiUrl, baseUrl, connected, shown, timerVars, serverVars, late>>

(* Then setUrl with what was typed, whatever the setting is by now; a      *)
(* greeting of the server, and refreshAll.                                 *)
SettingWritten(f) ==
  /\ stage[f] = "setting"
  /\ baseUrl' = asked[f] /\ connected' = FALSE
  /\ Send(f, "hello", asked[f])
  /\ UNCHANGED <<apiUrl, counted, shown, timerVars, serverVars, changes, late>>

(* The command ends if the setting cannot be written.                      *)
SettingFails(f) ==
  /\ stage[f] = "setting"
  /\ Send(f, "idle", None)
  /\ UNCHANGED <<apiUrl, baseUrl, connected, counted, shown, timerVars, serverVars,
                 changes, late>>

(* Mutated form: the old timer is not cleared                              *)
BugTimerKept(on) ==
  /\ Change
  /\ IF on THEN \E t \in Timers \ (live \cup {refreshTimer}) :
                  refreshTimer' = t /\ live' = live \cup {t}
           ELSE UNCHANGED <<refreshTimer, live>>
  /\ UNCHANGED <<apiUrl, baseUrl, connected, flowVars, shown, serverVars, late>>

(* onDidChangeConfiguration for refreshInterval: on says it is above 0. A  *)
(* cleared handle stays in refreshTimer when it is not.                    *)
IntervalChanged(on) ==
  /\ Change
  /\ IF on THEN \E t \in Timers \ (live \cup {refreshTimer}) :
                  refreshTimer' = t /\ live' = (live \ {refreshTimer}) \cup {t}
           ELSE live' = live \ {refreshTimer} /\ UNCHANGED refreshTimer
  /\ UNCHANGED <<apiUrl, baseUrl, connected, flowVars, shown, serverVars, late>>

-----------------------------------------------------------------------------
(* Requests *)

Awaits(f) == stage[f] \notin {"idle", "setting"} /\ answer[f] = None

(* The server handles the request; a replay gives it new state.            *)
Answer(f) ==
  /\ Awaits(f) /\ up[asked[f]]
  /\ version' = IF stage[f] = "replay" THEN [version EXCEPT ![asked[f]] = @ + 1]
                ELSE version
  /\ answer' = [answer EXCEPT ![f] = <<asked[f], version'[asked[f]]>>]
  /\ UNCHANGED <<apiUrl, baseUrl, connected, stage, asked, counted, shown, timerVars,
                 up, changes, late>>

(* The continuation of the awaited request, and the next one               *)
Receive(f) ==
  /\ answer[f] # None
  /\ entities' = IF stage[f] = "state" THEN answer[f] ELSE entities
  /\ recs' = IF stage[f] = "recs" THEN answer[f] ELSE recs
  /\ connected' = (connected \/ stage[f] \in {"hello", "bar_health"})
  /\ counted' = [counted EXCEPT ![f] = IF stage[f] = "bar_state" THEN answer[f]
                                       ELSE IF stage[f] = "bar_recs" THEN None ELSE @]
  /\ bar' = IF stage[f] = "bar_recs" THEN [entities |-> counted[f], recs |-> answer[f]]
            ELSE bar
  /\ Send(f, NextStage[stage[f]], baseUrl)
  /\ UNCHANGED <<apiUrl, baseUrl, timerVars, serverVars, changes, late>>

(* Mutated form: a failed request ends the whole refresh                   *)
BugEndsRefresh(f) ==
  /\ entities' = IF stage[f] = "state" THEN Failed ELSE entities
  /\ recs' = IF stage[f] = "recs" THEN Failed ELSE recs
  /\ bar' = IF stage[f] \in {"bar_health", "bar_state", "bar_recs"} THEN None ELSE bar
  /\ connected' = (connected /\ stage[f] \notin {"hello", "bar_health"})
  /\ counted' = [counted EXCEPT ![f] = None]
  /\ Send(f, "idle", baseUrl)

(* Every request has its catch: an empty tree, a disconnected status bar,  *)
(* which the rest of its update does not get past.                         *)
Caught(f) ==
  /\ entities' = IF stage[f] = "state" THEN Failed ELSE entities
  /\ recs' = IF stage[f] = "recs" THEN Failed ELSE recs
  /\ bar' = IF stage[f] \in {"bar_health", "bar_state", "bar_recs"} THEN None ELSE bar
  /\ connected' = (connected /\ stage[f] \notin {"hello", "bar_health"})
  /\ counted' = [counted EXCEPT ![f] = None]
  /\ Send(f, IF stage[f] \in {"bar_health", "bar_state"} THEN "idle" ELSE NextStage[stage[f]],
          baseUrl)

Refused(f) ==
  /\ Awaits(f) /\ ~up[asked[f]]
  /\ Caught(f)
  /\ UNCHANGED <<apiUrl, baseUrl, timerVars, serverVars, changes, late>>

(* The time limit of client.ts passes first; a replay the server has got   *)
(* runs all the same.                                                      *)
TimesOut(f) ==
  /\ stage[f] \notin {"idle", "setting"} /\ up[asked[f]]
  /\ late < MaxLate /\ late' = late + 1
  /\ Caught(f)
  /\ \/ UNCHANGED version
     \/ /\ stage[f] = "replay" /\ answer[f] = None
        /\ version' = [version EXCEPT ![asked[f]] = @ + 1]
  /\ UNCHANGED <<apiUrl, baseUrl, timerVars, up, changes>>

(* A server starts or stops; one that starts has run no replay.            *)
ServerChanges(u) ==
  /\ Change
  /\ up' = [up EXCEPT ![u] = ~@]
  /\ version' = [version EXCEPT ![u] = 0]
  /\ UNCHANGED <<apiUrl, baseUrl, connected, flowVars, shown, timerVars, late>>

-----------------------------------------------------------------------------
Next ==
  \/ \E f \in Flows : \/ TimerFires(f) \/ Refresh(f) \/ Replay(f)
                      \/ \E u \in Urls : UrlChanged(f, u) \/ Connect(f, u)
                      \/ SettingWritten(f) \/ SettingFails(f)
                      \/ Answer(f) \/ Receive(f) \/ Refused(f) \/ TimesOut(f)
  \/ \E on \in BOOLEAN : IntervalChanged(on)
  \/ \E u \in Urls : ServerChanges(u)

(* Timers fire, a running server answers, a stopped one refuses, a setting *)
(* gets written or not, and the continuation of what was awaited runs.     *)
Fairness ==
  /\ WF_vars(\E f \in Flows : TimerFires(f))
  /\ \A f \in Flows : WF_vars(Answer(f)) /\ WF_vars(Receive(f)) /\ WF_vars(Refused(f))
                      /\ WF_vars(SettingWritten(f) \/ SettingFails(f))

Spec == Init /\ [][Next]_vars
FairSpec == Spec /\ Fairness

-----------------------------------------------------------------------------
Current == <<baseUrl, version[baseUrl]>>

Quiet == \A f \in Flows : stage[f] = "idle"

(* Every variable keeps its type; a flow that is not idle awaits exactly   *)
(* one request, whose answer comes from the URL it went to, or the setting.*)
TypeOK ==
  /\ {apiUrl, baseUrl} \subseteq Urls /\ connected \in BOOLEAN
  /\ stage \in [Flows -> Stage]
  /\ asked \in [Flows -> Urls \cup {None}]
  /\ \A f \in Flows : /\ asked[f] = None <=> stage[f] = "idle"
                      /\ answer[f] # None => answer[f] \in {asked[f]} \X (0..MaxChanges)
                      /\ counted[f] # None <=> stage[f] = "bar_recs"
  /\ {entities, recs} \subseteq Answers \cup {None, Failed}
  /\ bar # None => bar \in [entities : Answers, recs : Answers]
  /\ up \in [Urls -> BOOLEAN] /\ version \in [Urls -> 0..MaxChanges]
  /\ refreshTimer \in Timers \cup {None} /\ live \subseteq Timers

(* At most one timer fires, the one deactivate would clear, however often  *)
(* the interval changed (extension.ts:85-94, 112).                         *)
OneTimer == live \subseteq {refreshTimer}

(* Refreshes may overlap and answers may come late; but if in the end the  *)
(* timer runs and so does the server at the URL, then in the end both      *)
(* trees and both counts show what that server has.                        *)
FreshAtLast ==
  <>[](live # {} /\ up[baseUrl]) =>
    <>[](/\ entities = Current /\ recs = Current
         /\ bar = [entities |-> Current, recs |-> Current])

(* And if it is down in the end, nothing of it is shown, nor is it called  *)
(* connected, although each part of the display catches its own error.     *)
DownAtLast ==
  <>[](live # {} /\ ~up[baseUrl]) =>
    <>[](entities = Failed /\ recs = Failed /\ bar = None /\ ~connected)
=============================================================================
