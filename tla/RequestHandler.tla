--------------------------- MODULE RequestHandler ---------------------------
(***************************************************************************)
(* handleNativeRequest of service-worker.ts, a step per await.  In this    *)
(* build askApproval always answers "always" and Chrome's host permissions *)
(* are static, so neither ever refuses.  "tab_action" stands for every     *)
(* tool that acts on the tab it names.                                     *)
(***************************************************************************)
EXTENDS SessionStore

Goto(h, stage) == handler' = [handler EXCEPT ![h].stage = stage]

\* the request ends, in a result or an error: what is left is to audit it and
\* to answer; no copy of the session is used again
Conclude(h) ==
    handler' = [handler EXCEPT ![h].stage = "readAudit", ![h].record = NoRecord,
                               ![h].tabs = {}, ![h].local = NoLocal]

\* a session sends its next request when its last one has ended, or when the
\* relay has stopped waiting for it (relay.rs:140); the handler of the last one
\* runs on.  authorize reads PersistedState
Receive(s, method, tab) ==
    LET h == calls + 1
        late == \E g \in Ids : Active(g) /\ handler[g].session = s
    IN
    /\ h \in Ids
    /\ method \in {"tabs_close", "tab_action"} <=> tab # Nil
    /\ late => timeouts < MaxTimeouts
    /\ timeouts' = IF late THEN timeouts + 1 ELSE timeouts
    /\ calls' = h
    /\ handler' = [handler EXCEPT ![h] =
         [NoHandler EXCEPT
            !.session = s, !.method = method, !.tab = tab, !.local = local,
            !.stage = IF HostOf[s] \in local.paired THEN "readSession" ELSE "savePaired"]]
    /\ UNCHANGED <<storageVars, tabVars, panelVars, historyVars>>

SavePaired(h) ==
    LET state == [handler[h].local EXCEPT !.paired = @ \cup {HostOf[handler[h].session]}] IN
    /\ handler[h].stage = "savePaired"
    /\ local' = state
    /\ handler' = [handler EXCEPT ![h].stage = "readSession", ![h].local = state]
    /\ UNCHANGED <<store, latest, tabVars, calls, timeouts, panelVars, historyVars>>

ReadSession(h) ==
    /\ handler[h].stage = "readSession"
    /\ handler' = [handler EXCEPT
         ![h].stage = "saveLease",
         ![h].record = [SessionState(handler[h].session) EXCEPT !.lease = TRUE]]
    /\ UNCHANGED <<storageVars, tabVars, calls, timeouts, panelVars, historyVars>>

\* mutant: the target is not validated
SaveLeaseUnchecked(h) ==
    /\ handler[h].stage = "saveLease"
    /\ SaveSessionState(handler[h].session, handler[h].record)
    /\ Goto(h, "readOrigin")
    /\ UNCHANGED <<local, tabVars, calls, timeouts, panelVars, historyVars>>

\* the lease is saved before validateControlledTargets looks at the copy
SaveLease(h) ==
    /\ handler[h].stage = "saveLease"
    /\ SaveSessionState(handler[h].session, handler[h].record)
    /\ IF handler[h].tab = Nil \/ handler[h].tab \in handler[h].record.tabs
         THEN Goto(h, "readOrigin")
         ELSE Conclude(h)
    /\ UNCHANGED <<local, tabVars, calls, timeouts, panelVars, historyVars>>

\* requestOrigins reads the tab's URL, which fails for a tab that is closed (for
\* tabs_activate, which asks for no origin, dispatch fails instead); closing and
\* naming ask for no origin, and a page may have none
ReadOrigin(h) ==
    LET hd == handler[h]
        asks == hd.method \in {"tab_action", "tabs_create"}
    IN
    /\ hd.stage = "readOrigin"
    /\ IF hd.method = "tab_action" /\ hd.tab \notin open
         THEN Conclude(h)
         ELSE \E origin \in {Nil} \cup (IF asks THEN Origins ELSE {}) :
                IF origin \in {Nil} \cup hd.local.sites \cup hd.record.sites
                  THEN Goto(h, "readTabs")
                  ELSE handler' = [handler EXCEPT
                         ![h].stage = "saveSite", ![h].local.sites = @ \cup {origin}]
    /\ UNCHANGED <<storageVars, tabVars, calls, timeouts, panelVars, historyVars>>

\* ensureSiteGrant saves the PersistedState read when the request came in
SaveSite(h) ==
    /\ handler[h].stage = "saveSite"
    /\ local' = handler[h].local
    /\ Goto(h, "readTabs")
    /\ UNCHANGED <<store, latest, tabVars, calls, timeouts, panelVars, historyVars>>

\* authorize has returned and its copies with it; the read that follows,
\* sessionState, matters to label_session alone
ReadTabs(h) ==
    /\ handler[h].stage = "readTabs"
    /\ handler' = [handler EXCEPT
         ![h].stage = IF handler[h].method = "label_session" THEN "readLabel" ELSE "dispatch",
         ![h].tabs = SessionState(handler[h].session).tabs,
         ![h].record = NoRecord, ![h].local = NoLocal]
    /\ UNCHANGED <<storageVars, tabVars, calls, timeouts, panelVars, historyVars>>

ReadLabel(h) ==
    /\ handler[h].stage = "readLabel"
    /\ \/ handler' = [handler EXCEPT ![h].stage = "saveLabel",
                                     ![h].record = SessionState(handler[h].session)]
       \/ Conclude(h)   \* an empty label
    /\ UNCHANGED <<storageVars, tabVars, calls, timeouts, panelVars, historyVars>>

SaveLabel(h) ==
    /\ handler[h].stage = "saveLabel"
    /\ SaveSessionState(handler[h].session, handler[h].record)
    /\ Goto(h, "readBack")
    /\ UNCHANGED <<local, tabVars, calls, timeouts, panelVars, historyVars>>

-----------------------------------------------------------------------------
(* BrowserController.dispatch.                                             *)

\* mutant: a tab without an id is added to the set
CreateTabUndefined(h, tab) ==
    LET hd == handler[h] IN
    /\ hd.stage = "dispatch"
    /\ \/ hd.method = "tabs_create"
       \/ hd.method = "tabs_context" /\ hd.tabs = {}
    /\ tab \notin used
    /\ open' = open \cup {tab}
    /\ used' = used \cup {tab}
    /\ given' = [given EXCEPT ![hd.session] = @ \cup {tab}]
    /\ handler' = [handler EXCEPT ![h].stage = "readBack", ![h].tabs = @ \cup {Nil}]
    /\ UNCHANGED <<storageVars, removed, calls, timeouts, panelVars, revoked, cleanly, cleared>>

\* tabsCreate, and tabsContext with createIfEmpty
CreateTab(h, tab) ==
    LET hd == handler[h] IN
    /\ hd.stage = "dispatch"
    /\ \/ hd.method = "tabs_create"
       \/ hd.method = "tabs_context" /\ hd.tabs = {}
    /\ tab \notin used
    /\ open' = open \cup {tab}
    /\ used' = used \cup {tab}
    /\ given' = [given EXCEPT ![hd.session] = @ \cup {tab}]
    /\ handler' = [handler EXCEPT ![h].stage = "readBack", ![h].tabs = @ \cup {tab}]
    /\ UNCHANGED <<storageVars, removed, calls, timeouts, panelVars, revoked, cleanly, cleared>>

\* a controlled tab is already on the URL; or tabs_context only lists
ReuseTab(h) ==
    LET hd == handler[h] IN
    /\ hd.stage = "dispatch"
    /\ \/ hd.method = "tabs_create" /\ hd.tabs \cap open # {}
       \/ hd.method = "tabs_context"
    /\ Goto(h, "readBack")
    /\ UNCHANGED <<storageVars, tabVars, calls, timeouts, panelVars, historyVars>>

CloseTab(h) ==
    LET tab == handler[h].tab IN
    /\ handler[h].stage = "dispatch"
    /\ handler[h].method = "tabs_close"
    /\ open' = open \ {tab}
    /\ removed' = removed \cup ({tab} \cap open)
    /\ handler' = [handler EXCEPT ![h].stage = "readBack", ![h].tabs = @ \ {tab}]
    /\ UNCHANGED <<storageVars, used, calls, timeouts, panelVars, historyVars>>

ActOnTab(h) ==
    /\ handler[h].stage = "dispatch"
    /\ handler[h].method = "tab_action"
    /\ handler[h].tab \in open
    /\ Goto(h, "readBack")
    /\ UNCHANGED <<storageVars, tabVars, calls, timeouts, panelVars, historyVars>>

\* mutant: an error is answered without being audited
DispatchFailsUnaudited(h) ==
    /\ handler[h].stage = "dispatch"
    /\ handler[h].method \in {"tab_action", "tabs_create"}
    /\ Goto(h, "done")
    /\ UNCHANGED <<storageVars, tabVars, calls, timeouts, panelVars, historyVars>>

\* a restricted URL, a page that refuses, a tab that has gone: the set of
\* tabs is not saved
DispatchFails(h) ==
    /\ handler[h].stage = "dispatch"
    /\ handler[h].method \in {"tab_action", "tabs_create"}
    /\ Conclude(h)
    /\ UNCHANGED <<storageVars, tabVars, calls, timeouts, panelVars, historyVars>>

-----------------------------------------------------------------------------
(* saveControlledTabs and audit, each a get and a set.                     *)
ReadBack(h) ==
    /\ handler[h].stage = "readBack"
    /\ handler' = [handler EXCEPT
         ![h].stage = "saveTabs",
         ![h].record = [SessionState(handler[h].session) EXCEPT !.tabs = handler[h].tabs]]
    /\ UNCHANGED <<storageVars, tabVars, calls, timeouts, panelVars, historyVars>>

\* mutant: the tabs are saved to the most recent session
SaveTabsOfLatest(h) ==
    /\ handler[h].stage = "saveTabs"
    /\ \E s \in Sessions : MostRecent(s) /\ SaveSessionState(s, handler[h].record)
    /\ Conclude(h)
    /\ UNCHANGED <<local, tabVars, calls, timeouts, panelVars, historyVars>>

SaveTabs(h) ==
    /\ handler[h].stage = "saveTabs"
    /\ SaveSessionState(handler[h].session, handler[h].record)
    /\ Conclude(h)
    /\ UNCHANGED <<local, tabVars, calls, timeouts, panelVars, historyVars>>

ReadAudit(h) ==
    /\ handler[h].stage = "readAudit"
    /\ handler' = [handler EXCEPT
         ![h].stage = "saveAudit",
         ![h].local = [local EXCEPT !.audit = @ \cup {h}]]
    /\ UNCHANGED <<storageVars, tabVars, calls, timeouts, panelVars, historyVars>>

\* the event is saved, then the response is posted; the copies die with h
SaveAudit(h) ==
    /\ handler[h].stage = "saveAudit"
    /\ local' = handler[h].local
    /\ handler' = [handler EXCEPT ![h] = [NoHandler EXCEPT !.stage = "done"]]
    /\ UNCHANGED <<store, latest, tabVars, calls, timeouts, panelVars, historyVars>>

HandlerStep(h) ==
    \/ SavePaired(h)
    \/ ReadSession(h)
    \/ SaveLease(h)
    \/ ReadOrigin(h)
    \/ SaveSite(h)
    \/ ReadTabs(h)
    \/ ReadLabel(h)
    \/ SaveLabel(h)
    \/ \E tab \in Tabs : CreateTab(h, tab)
    \/ ReuseTab(h)
    \/ CloseTab(h)
    \/ ActOnTab(h)
    \/ DispatchFails(h)
    \/ ReadBack(h)
    \/ SaveTabs(h)
    \/ ReadAudit(h)
    \/ SaveAudit(h)

HandlerNext ==
    \/ \E s \in Sessions, method \in Methods, tab \in Tabs \cup {Nil} :
         Receive(s, method, tab)
    \/ \E h \in Ids : HandlerStep(h)
=============================================================================
