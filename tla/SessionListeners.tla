-------------------------- MODULE SessionListeners --------------------------
(***************************************************************************)
(* What else works on the session records: the user's tabs and panel, the  *)
(* release of every session and the end of the worker                      *)
(* (service-worker.ts:31,269-341).                                         *)
(***************************************************************************)
EXTENDS SessionStore

UserCloses(tab) ==
    /\ tab \in open
    /\ open' = open \ {tab}
    /\ removed' = removed \cup {tab}
    /\ UNCHANGED <<storageVars, used, handlerVars, panelVars, historyVars>>

\* removeControlledTab: one read of every record, then a save of each that
\* names the tab
TabRemoved(tab) ==
    /\ tab \in removed
    /\ removed' = removed \ {tab}
    /\ writes' = writes \cup
         {[session |-> s, record |-> [store[s] EXCEPT !.tabs = @ \ {tab}]] :
            s \in {s \in Sessions : Stored(s) /\ tab \in store[s].tabs}}
    /\ UNCHANGED <<storageVars, open, used, handlerVars, revoking, clearing, clicks,
                   historyVars>>

\* control_tab: the user hands a tab to the most recent session
ControlTab(s, tab, origin) ==
    /\ "control_tab" \in Commands
    /\ clicks < MaxClicks
    /\ clicks' = clicks + 1
    /\ tab \in open
    /\ MostRecent(s)
    /\ writes' = writes \cup
         {[session |-> s, record |-> [store[s] EXCEPT !.tabs = @ \cup {tab},
                                                      !.sites = @ \cup ({origin} \ {Nil})]]}
    /\ given' = [given EXCEPT ![s] = @ \cup {tab}]
    /\ revoked' = [revoked EXCEPT ![s] = @ \ {tab}]
    /\ cleanly' = [cleanly EXCEPT ![s] = @ \ {tab}]
    /\ UNCHANGED <<storageVars, tabVars, handlerVars, revoking, clearing, cleared>>

ListenerSaves(w) ==
    /\ writes' = writes \ {w}
    /\ SaveSessionState(w.session, w.record)
    /\ UNCHANGED <<local, tabVars, handlerVars, revoking, clearing, clicks, historyVars>>

-----------------------------------------------------------------------------
(* releaseAllSessions, from the panel's revoke_lease or the timer set when *)
(* the native port closed: the records are listed once, then removed one   *)
(* by one, each with an audit event of its own when it was leased.         *)
Idle == [stage |-> "idle", todo |-> {}, leased |-> {}, local |-> NoLocal, session |-> Nil]

ReleaseAll ==
    LET listed == {s \in Sessions : Stored(s)} IN
    /\ "revoke_lease" \in Commands
    /\ clicks < MaxClicks
    /\ clicks' = clicks + 1
    /\ revoking = Idle
    /\ listed # {}
    /\ revoking' = [Idle EXCEPT !.stage = "remove", !.todo = listed,
                                !.leased = {s \in listed : store[s].lease}]
    /\ UNCHANGED <<storageVars, tabVars, handlerVars, writes, clearing, historyVars>>

\* releaseSession goes on to the next session, or releaseAllSessions is over
NextSession(todo) ==
    IF todo = {} THEN Idle ELSE [revoking EXCEPT !.stage = "remove", !.todo = todo,
                                    !.local = NoLocal, !.session = Nil]

\* mutant: the lease is ended but the record and its tabs stay
ReleaseSessionKeepsTabs(s) ==
    /\ revoking.stage = "remove"
    /\ s \in revoking.todo
    /\ store' = [store EXCEPT ![s] = IF Stored(s) THEN [@ EXCEPT !.lease = FALSE] ELSE Nil]
    /\ revoked' = [revoked EXCEPT ![s] = @ \cup SessionState(s).tabs]
    /\ cleanly' = [cleanly EXCEPT ![s] = @ \cup IF Quiet(s) THEN SessionState(s).tabs ELSE {}]
    /\ revoking' = IF s \in revoking.leased
                     THEN [revoking EXCEPT !.stage = "readAudit", !.session = s]
                     ELSE NextSession(revoking.todo \ {s})
    /\ UNCHANGED <<local, latest, tabVars, handlerVars, writes, clearing, clicks, given, cleared>>

ReleaseSession(s) ==
    /\ revoking.stage = "remove"
    /\ s \in revoking.todo
    /\ store' = [store EXCEPT ![s] = Nil]
    /\ revoked' = [revoked EXCEPT ![s] = @ \cup SessionState(s).tabs]
    /\ cleanly' = [cleanly EXCEPT ![s] = @ \cup IF Quiet(s) THEN SessionState(s).tabs ELSE {}]
    /\ revoking' = IF s \in revoking.leased
                     THEN [revoking EXCEPT !.stage = "readAudit", !.session = s]
                     ELSE NextSession(revoking.todo \ {s})
    /\ UNCHANGED <<local, latest, tabVars, handlerVars, writes, clearing, clicks, given, cleared>>

ReadLeaseAudit ==
    /\ revoking.stage = "readAudit"
    /\ revoking' = [revoking EXCEPT !.stage = "saveAudit",
                      !.local = [local EXCEPT !.audit = @ \cup {revoking.session}]]
    /\ UNCHANGED <<storageVars, tabVars, handlerVars, writes, clearing, clicks, historyVars>>

SaveLeaseAudit ==
    /\ revoking.stage = "saveAudit"
    /\ local' = revoking.local
    /\ revoking' = NextSession(revoking.todo \ {revoking.session})
    /\ UNCHANGED <<store, latest, tabVars, handlerVars, writes, clearing, clicks, historyVars>>

-----------------------------------------------------------------------------
\* clear_log saves the state it read, with no events
ClearLog ==
    /\ "clear_log" \in Commands
    /\ clicks < MaxClicks
    /\ clicks' = clicks + 1
    /\ clearing = Nil
    /\ clearing' = [local EXCEPT !.audit = {}]
    /\ UNCHANGED <<storageVars, tabVars, handlerVars, writes, revoking, historyVars>>

SaveClearedLog ==
    /\ clearing # Nil
    /\ local' = clearing
    /\ clearing' = Nil
    /\ cleared' = cleared \cup local.audit
    /\ UNCHANGED <<store, latest, tabVars, handlerVars, writes, revoking, clicks,
                   given, revoked, cleanly>>

\* Chrome ends or restarts the worker, whatever it is at; both storages outlive
\* it, and the onRemoved events it has not taken yet start it again
WorkerStops ==
    /\ \/ \E h \in Ids : Active(h)
       \/ writes # {} \/ revoking # Idle \/ clearing # Nil
    /\ handler' = [h \in Ids |->
         IF Active(h) THEN [NoHandler EXCEPT !.stage = "lost"]
                      ELSE handler[h]]
    /\ writes' = {}
    /\ revoking' = Idle
    /\ clearing' = Nil
    /\ UNCHANGED <<storageVars, tabVars, calls, timeouts, clicks, historyVars>>

ListenerNext ==
    \/ \E tab \in Tabs :
         \/ UserCloses(tab)
         \/ TabRemoved(tab)
         \/ \E s \in Sessions, origin \in Origins \cup {Nil} : ControlTab(s, tab, origin)
    \/ \E w \in writes : ListenerSaves(w)
    \/ ReleaseAll
    \/ \E s \in Sessions : ReleaseSession(s)
    \/ ReadLeaseAudit
    \/ SaveLeaseAudit
    \/ ClearLog
    \/ SaveClearedLog
    \/ WorkerStops
=============================================================================
